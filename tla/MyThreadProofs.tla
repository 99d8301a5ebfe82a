---------------------------- MODULE MyThreadProofs ----------------------------
(***************************************************************************)
(* Proofs about the thread library for every set of threads, clients and   *)
(* reapers and every program: the type invariant, the exclusion of join    *)
(* and detach, the hand-over of a detached thread, and the safety half of  *)
(* the contract.                                                           *)
(***************************************************************************)
EXTENDS MyThread, TLAPS

\* Control points between the claim of the queue and the return.
Working == RQ!Starting \cup RQ!Enqueuing

\* Control points of a client whose join has won the thread, and of one that
\* knows besides that the thread has finished.
Joining    == {"join_poll", "join_wait", "join_asleep"}
Collecting == {"join_read", "join_reap", "join_unmap", "join_free"}

-----------------------------------------------------------------------------
(* The inductive invariant                                                 *)

\* A client in a call has a call to make and knows a thread that was created;
\* a thread at work on the queue works for itself.
ArgInv ==
    /\ \A c \in Clients :
          pc[c] # "idle" => /\ todo[c] # <<>>
                            /\ arg[c] \in Threads
                            /\ pc[arg[c]] # "none"
    /\ \A t \in Threads : pc[t] \in Working => arg[t] = t

\* The finished word follows the thread's progress; a descriptor nobody has
\* created yet is blank.
LifeInv ==
    /\ \A t \in Threads : /\ t \in finished <=> pc[t] \notin {"none", "run", "finish"}
                          /\ pc[t] = "none" => state[t] = {} /\ t \notin live
    /\ \A t \in published : pc[t] # "none"

\* What a client knows of the thread of its call when it is at a label.
Knows(c, label) ==
    /\ label \in {"join_cas", "detach_cas"} => Unclaimed(seen[c])
    /\ label \in Joining \cup Collecting => "JOINED" \in state[arg[c]]
    /\ label \in Collecting => arg[c] \in finished
    /\ label \in {"detach_finished", "detach_claim"} => "DETACHED" \in state[arg[c]]
    /\ label = "detach_claim" => arg[c] \in finished
    /\ label = "join_free" => arg[c] \notin stack
    /\ label \in Working => "QUEUED" \in state[arg[c]]

KnowledgeInv ==
    /\ \A c \in Clients : Knows(c, pc[c])
    /\ \A t \in Threads : /\ pc[t] = "claim" => "DETACHED" \in state[t]
                          /\ pc[t] \in Working => "QUEUED" \in state[t]

\* Only queued descriptors are linked or in a reaper's hands, and a reaper
\* frees a descriptor after it has unmapped the stack.
QueueInv ==
    /\ head # NULL => "QUEUED" \in state[head]
    /\ tail # NULL => "QUEUED" \in state[tail]
    /\ \A t \in Threads : next[t] # NULL => "QUEUED" \in state[next[t]]
    /\ \A r \in Reapers :
          /\ current[r] # NULL => "QUEUED" \in state[current[r]]
          /\ rpc[r] \in {"reap", "unmap", "free", "advance"} => current[r] # NULL
          /\ rpc[r] = "free" => current[r] \notin stack

IInv == TypeOK /\ ArgInv /\ LifeInv /\ OwnershipProtocol /\ KnowledgeInv /\ QueueInv

LEMMA Distinct == NULL \notin Threads /\ Threads \cap Clients = {} /\ MaxFail \in Nat
BY ThreadConstantsOK

-----------------------------------------------------------------------------
(* Initially                                                               *)

LEMMA InitInv == Init => IInv
<1> SUFFICES ASSUME Init PROVE IInv
  OBVIOUS
<1>1. RQ!QueueTypeOK
  <2>1. rpc \in [Reapers -> RQ!ReaperPCs]
    BY DEF Init, RQ!InitQueue, RQ!ReaperPCs
  <2>2. state \in [Threads -> SUBSET RQ!Flags]
    BY DEF Init
  <2>3. errno \in RQ!Errors /\ failures \in 0 .. MaxFail
    BY Distinct DEF Init, RQ!InitQueue, RQ!Errors
  <2>4. next \in [Threads -> Threads \cup {NULL}]
    BY DEF Init, RQ!InitQueue
  <2>6. current \in [Reapers -> Threads \cup {NULL}]
    BY DEF Init, RQ!InitQueue
  <2>7. processed \in [Reapers -> Nat]
    BY DEF Init, RQ!InitQueue
  <2>5. /\ head \in Threads \cup {NULL}
        /\ tail \in Threads \cup {NULL}
        /\ count \in Int
        /\ live \subseteq Threads
        /\ stack \subseteq live
    BY DEF Init, RQ!InitQueue
  <2>8. reaper_started \in BOOLEAN /\ lock \in BOOLEAN
    BY Zenon DEF Init, RQ!InitQueue
  <2> QED
    BY <2>1, <2>2, <2>3, <2>4, <2>5, <2>6, <2>7, <2>8 DEF RQ!QueueTypeOK
<1>2. TypeOK
  <2>1. /\ pc \in [Actors -> ThreadPCs \cup ClientPCs]
        /\ \A t \in Threads : pc[t] \in ThreadPCs
        /\ \A c \in Clients : pc[c] \in ClientPCs
    BY Distinct DEF Init, Actors, ThreadPCs, ClientPCs, RQ!CallerPCs
  <2>2. todo \in [Clients -> Seq(Calls)]
    BY ThreadConstantsOK DEF Init
  <2>3. seen \in [Clients -> SUBSET RQ!Flags]
    BY DEF Init
  <2> QED
    BY <1>1, <2>1, <2>2, <2>3 DEF Init, TypeOK, Actors
<1>3. ArgInv
  BY Distinct DEF Init, ArgInv, Actors, Working, RQ!Starting, RQ!Enqueuing
<1>4. LifeInv /\ OwnershipProtocol /\ QueueInv
  BY DEF Init, RQ!InitQueue, LifeInv, OwnershipProtocol, QueueInv, Actors
<1>5. KnowledgeInv
  BY Distinct DEF Init, KnowledgeInv, Knows, Actors, Joining, Collecting, Working,
                  RQ!Starting, RQ!Enqueuing
<1> QED
  BY <1>2, <1>3, <1>4, <1>5 DEF IInv

-----------------------------------------------------------------------------
(* The steps of a client                                                   *)

\* A client that only moves to another label keeps the invariant if it knows
\* there what it has to know.
LEMMA ClientMove ==
    ASSUME IInv, NEW c \in Clients, NEW label \in ClientPCs \ Working,
           pc[c] # "idle",
           pc' = [pc EXCEPT ![c] = label],
           UNCHANGED <<state, live, stack, reaper_started, queueVars, arg,
                       reaperVars, finished, retval, published, crashed>>,
           errno' \in RQ!Errors, failures' = failures,
           todo' \in [Clients -> Seq(Calls)],
           label # "idle" => todo'[c] # <<>>,
           \A d \in Clients \ {c} : seen'[d] = seen[d] /\ todo'[d] = todo[d],
           seen' \in [Clients -> SUBSET RQ!Flags],
           got' \in [Clients -> Threads \cup {NULL}],
           uaf' \subseteq Clients,
           arg[c] \in Threads => Knows(c, label)'
    PROVE  IInv'
<1>1. TypeOK'
  <2>1. RQ!QueueTypeOK'
    BY DEF IInv, TypeOK, RQ!QueueTypeOK, queueVars, reaperVars
  <2> QED
    BY <2>1, Distinct DEF IInv, TypeOK, Actors
<1>2. ArgInv'
  BY Distinct DEF IInv, ArgInv, TypeOK, Actors
<1>3. LifeInv' /\ OwnershipProtocol'
  BY Distinct DEF IInv, LifeInv, OwnershipProtocol, TypeOK, Actors
<1>4. KnowledgeInv'
  <2>1. arg[c] \in Threads
    BY DEF IInv, ArgInv
  <2>2. ASSUME NEW d \in Clients PROVE Knows(d, pc[d])'
    BY <2>1, <2>2 DEF IInv, KnowledgeInv, Knows, TypeOK, Actors
  <2> QED
    BY <2>2, Distinct DEF IInv, KnowledgeInv, TypeOK, Actors
<1>5. QueueInv'
  BY DEF IInv, QueueInv, queueVars, reaperVars
<1> QED
  BY <1>1, <1>2, <1>3, <1>4, <1>5 DEF IInv

\* What the invariant says of a client in a call, and of the labels it may
\* move to.
LEMMA InCall ==
    ASSUME IInv, NEW c \in Clients, pc[c] # "idle"
    PROVE  /\ c \in Actors /\ c \notin Threads
           /\ arg[c] \in Threads
           /\ todo[c] # <<>>
           /\ Knows(c, pc[c])
           /\ pc \in [Actors -> ThreadPCs \cup ClientPCs]
           /\ state \in [Threads -> SUBSET RQ!Flags]
           /\ retval \in [Threads -> Threads \cup {NULL}]
           /\ seen \in [Clients -> SUBSET RQ!Flags]
           /\ got \in [Clients -> Threads \cup {NULL}]
           /\ uaf \subseteq Clients
           /\ errno \in RQ!Errors
           /\ todo \in [Clients -> Seq(Calls)]
BY Distinct DEF IInv, TypeOK, RQ!QueueTypeOK, ArgInv, KnowledgeInv, Actors

LEMMA ClientLabels ==
    /\ {"idle", "returned", "failed", "publish", "join_load", "join_cas", "join_poll",
        "join_wait", "join_asleep", "join_read", "join_reap", "join_unmap", "join_free",
        "detach_load", "detach_cas", "detach_finished", "detach_claim"}
          \subseteq ClientPCs \ Working
    /\ {"0", "EINVAL", "EAGAIN", "ENOMEM"} = RQ!Errors
BY DEF ClientPCs, RQ!CallerPCs, Working, RQ!Starting, RQ!Enqueuing, RQ!Errors

LEMMA JoinMoves ==
    ASSUME IInv, NEW c \in Clients,
           JoinLoad(c) \/ JoinPoll(c) \/ JoinWait(c) \/ JoinRead(c)
    PROVE  IInv'
<1> USE DEF Touch, Goto, Reject, descVars, envVars
<1>0. pc[c] # "idle"
  BY DEF JoinLoad, JoinPoll, JoinWait, JoinRead
<1>1. CASE JoinLoad(c)
  <2>1. CASE Unclaimed(state[arg[c]])
    BY <1>0, <1>1, <2>1, InCall, ClientLabels, ClientMove
       DEF JoinLoad, Knows, Joining, Collecting
  <2>2. CASE ~Unclaimed(state[arg[c]])
    BY <1>0, <1>1, <2>2, InCall, ClientLabels, ClientMove
       DEF JoinLoad, Knows, Joining, Collecting
  <2> QED
    BY <2>1, <2>2
<1>2. CASE JoinPoll(c)
  <2>1. CASE arg[c] \in finished
    <3>1. pc' = [pc EXCEPT ![c] = "join_read"] /\ uaf' \subseteq Clients
      BY <1>0, <1>2, <2>1, InCall DEF JoinPoll
    <3>2. Knows(c, "join_read")'
      BY <1>0, <1>2, <2>1, InCall
         DEF JoinPoll, Knows, Joining, Collecting, Working, RQ!Starting, RQ!Enqueuing
    <3> QED
      BY <1>0, <1>2, <3>1, <3>2, InCall, ClientLabels, ClientMove DEF JoinPoll
  <2>2. CASE arg[c] \notin finished
    <3>1. pc' = [pc EXCEPT ![c] = "join_wait"] /\ uaf' \subseteq Clients
      BY <1>0, <1>2, <2>2, InCall DEF JoinPoll
    <3>2. Knows(c, "join_wait")'
      BY <1>0, <1>2, <2>2, InCall
         DEF JoinPoll, Knows, Joining, Collecting, Working, RQ!Starting, RQ!Enqueuing
    <3> QED
      BY <1>0, <1>2, <3>1, <3>2, InCall, ClientLabels, ClientMove DEF JoinPoll
  <2> QED
    BY <2>1, <2>2
<1>3. CASE JoinWait(c)
  <2>1. CASE arg[c] \in finished
    BY <1>0, <1>3, <2>1, InCall, ClientLabels, ClientMove
       DEF JoinWait, Knows, Joining, Collecting
  <2>2. CASE arg[c] \notin finished
    BY <1>0, <1>3, <2>2, InCall, ClientLabels, ClientMove
       DEF JoinWait, Knows, Joining, Collecting
  <2> QED
    BY <2>1, <2>2
<1>4. CASE JoinRead(c)
  <2>1. got' \in [Clients -> Threads \cup {NULL}]
    BY <1>0, <1>4, InCall DEF JoinRead
  <2>2. Knows(c, "join_reap")'
    BY <1>0, <1>4, InCall DEF JoinRead, Knows, Joining, Collecting, Working,
                              RQ!Starting, RQ!Enqueuing
  <2>3. uaf' \subseteq Clients
    BY <1>4, InCall, <1>0 DEF JoinRead
  <2> QED
    BY <1>0, <1>4, <2>1, <2>2, <2>3, InCall, ClientLabels, ClientMove DEF JoinRead
<1> QED
  BY <1>1, <1>2, <1>3, <1>4

LEMMA DetachMoves ==
    ASSUME IInv, NEW c \in Clients, DetachLoad(c) \/ DetachFinished(c)
    PROVE  IInv'
<1> USE DEF Touch, Goto, Reject, descVars, envVars
<1>0. pc[c] # "idle"
  BY DEF DetachLoad, DetachFinished
<1>1. CASE DetachLoad(c)
  <2> DEFINE s == state[arg[c]]
  <2>1. CASE "DETACHED" \in s
    BY <1>0, <1>1, <2>1, InCall, ClientLabels, ClientMove
       DEF DetachLoad, DetachTest, Knows, Joining, Collecting
  <2>2. CASE "DETACHED" \notin s /\ "JOINED" \in s
    BY <1>0, <1>1, <2>2, InCall, ClientLabels, ClientMove
       DEF DetachLoad, DetachTest, Knows, Joining, Collecting
  <2>3. CASE Unclaimed(s)
    BY <1>0, <1>1, <2>3, InCall, ClientLabels, ClientMove
       DEF DetachLoad, DetachTest, Knows, Joining, Collecting, Unclaimed
  <2> QED
    BY <2>1, <2>2, <2>3 DEF Unclaimed
<1>2. CASE DetachFinished(c)
  <2>1. PICK label \in {"detach_claim", "returned"} :
           /\ pc' = [pc EXCEPT ![c] = label]
           /\ label = "detach_claim" => arg[c] \in finished
    BY <1>2 DEF DetachFinished
  <2>2. label \in ClientPCs \ Working /\ pc[c] = "detach_finished"
    BY <1>2, ClientLabels DEF DetachFinished
  <2>3. Knows(c, label)'
    BY <1>0, <1>2, <2>1, <2>2, InCall DEF DetachFinished, Knows, Joining, Collecting
  <2>4. /\ uaf' \subseteq Clients
        /\ UNCHANGED <<state, live, stack, reaper_started, queueVars, arg, reaperVars, finished,
                       retval, published, crashed, errno, failures, todo, seen, got>>
    BY <1>0, <1>2, InCall DEF DetachFinished
  <2> QED
    BY <1>0, <2>1, <2>2, <2>3, <2>4, InCall, ClientMove
<1> QED
  BY <1>1, <1>2

LEMMA Returns ==
    ASSUME IInv, NEW c \in Clients, Return(c) \/ ReadErrno(c)
    PROVE  IInv'
<1>0. /\ pc[c] # "idle"
      /\ pc' = [pc EXCEPT ![c] = "idle"]
      /\ todo' = [todo EXCEPT ![c] = Tail(@)]
      /\ UNCHANGED <<descVars, reaper_started, queueVars, arg, reaperVars, envVars,
                     finished, retval, published, seen, got, uaf, crashed>>
  BY DEF Return, ReadErrno, Goto
<1>1. todo[c] \in Seq(Calls) /\ todo[c] # <<>> /\ todo \in [Clients -> Seq(Calls)]
  BY <1>0, InCall
<1>2. Tail(todo[c]) \in Seq(Calls)
  BY <1>1
<1>3. /\ todo' \in [Clients -> Seq(Calls)]
      /\ \A d \in Clients \ {c} : todo'[d] = todo[d]
  BY <1>0, <1>1, <1>2
<1>4. Knows(c, "idle")'
  BY DEF Knows, Joining, Collecting, Working, RQ!Starting, RQ!Enqueuing
<1> QED
  BY <1>0, <1>3, <1>4, InCall, ClientLabels, ClientMove DEF descVars, envVars

\* The compare-and-swap of a join that finds s unchanged claims the thread.
LEMMA JoinWins ==
    ASSUME IInv, NEW c \in Clients, JoinCas(c), state[arg[c]] = seen[c]
    PROVE  IInv'
<1> DEFINE t == arg[c]
<1>0. /\ pc[c] = "join_cas"
      /\ state' = [state EXCEPT ![t] = seen[c] \cup {"JOINED"}]
      /\ pc' = [pc EXCEPT ![c] = "join_poll"]
      /\ uaf' = IF t \in live THEN uaf ELSE uaf \cup {c}
      /\ UNCHANGED <<seen, errno, live, stack, reaper_started, queueVars, arg,
                     reaperVars, failures, finished, retval, published, todo, got,
                     crashed>>
  BY DEF JoinCas, Goto, Touch
<1>1. /\ c \in Actors /\ c \notin Threads /\ t \in Threads /\ pc[t] # "none"
      /\ Unclaimed(seen[c])
      /\ pc \in [Actors -> ThreadPCs \cup ClientPCs]
      /\ state \in [Threads -> SUBSET RQ!Flags]
      /\ seen \in [Clients -> SUBSET RQ!Flags]
  BY <1>0, InCall DEF IInv, ArgInv, Knows
<1>2. TypeOK'
  <2>1. state' \in [Threads -> SUBSET RQ!Flags]
    BY <1>0, <1>1 DEF RQ!Flags
  <2>2. RQ!QueueTypeOK'
    BY <2>1, <1>0 DEF IInv, TypeOK, RQ!QueueTypeOK, queueVars, reaperVars
  <2> QED
    BY <2>2, <1>0, <1>1, ClientLabels DEF IInv, TypeOK
<1>3. ArgInv'
  BY <1>0, <1>1, ClientLabels DEF IInv, ArgInv, TypeOK, Actors
<1>4. LifeInv'
  BY <1>0, <1>1 DEF IInv, LifeInv, TypeOK, Actors
<1>5. OwnershipProtocol'
  BY <1>0, <1>1, state[t] = seen[c] DEF IInv, OwnershipProtocol, Unclaimed
<1>6. KnowledgeInv'
  BY <1>0, <1>1, state[t] = seen[c], ClientLabels
     DEF IInv, KnowledgeInv, Knows, TypeOK, Actors, Joining, Collecting, ArgInv
<1>7. QueueInv'
  BY <1>0, <1>1, state[t] = seen[c]
     DEF IInv, QueueInv, TypeOK, RQ!QueueTypeOK, queueVars, reaperVars
<1> QED
  BY <1>2, <1>3, <1>4, <1>5, <1>6, <1>7 DEF IInv

\* The compare-and-swap of a detach that finds s unchanged claims the thread.
LEMMA DetachWins ==
    ASSUME IInv, NEW c \in Clients, DetachCas(c), state[arg[c]] = seen[c]
    PROVE  IInv'
<1> DEFINE t == arg[c]
<1>0. /\ pc[c] = "detach_cas"
      /\ state' = [state EXCEPT ![t] = seen[c] \cup {"DETACHED"}]
      /\ pc' = [pc EXCEPT ![c] = "detach_finished"]
      /\ uaf' = IF t \in live THEN uaf ELSE uaf \cup {c}
      /\ UNCHANGED <<seen, errno, live, stack, reaper_started, queueVars, arg,
                     reaperVars, failures, finished, retval, published, todo, got,
                     crashed>>
  BY DEF DetachCas, Goto, Touch
<1>1. /\ c \in Actors /\ c \notin Threads /\ t \in Threads /\ pc[t] # "none"
      /\ Unclaimed(seen[c])
      /\ pc \in [Actors -> ThreadPCs \cup ClientPCs]
      /\ state \in [Threads -> SUBSET RQ!Flags]
      /\ seen \in [Clients -> SUBSET RQ!Flags]
  BY <1>0, InCall DEF IInv, ArgInv, Knows
<1>2. TypeOK'
  <2>1. state' \in [Threads -> SUBSET RQ!Flags]
    BY <1>0, <1>1 DEF RQ!Flags
  <2>2. RQ!QueueTypeOK'
    BY <2>1, <1>0 DEF IInv, TypeOK, RQ!QueueTypeOK, queueVars, reaperVars
  <2> QED
    BY <2>2, <1>0, <1>1, ClientLabels DEF IInv, TypeOK
<1>3. ArgInv'
  BY <1>0, <1>1, ClientLabels DEF IInv, ArgInv, TypeOK, Actors
<1>4. LifeInv'
  BY <1>0, <1>1 DEF IInv, LifeInv, TypeOK, Actors
<1>5. OwnershipProtocol'
  BY <1>0, <1>1, state[t] = seen[c] DEF IInv, OwnershipProtocol, Unclaimed
<1>6. KnowledgeInv'
  BY <1>0, <1>1, state[t] = seen[c], ClientLabels
     DEF IInv, KnowledgeInv, Knows, TypeOK, Actors, Joining, Collecting, ArgInv
<1>7. QueueInv'
  BY <1>0, <1>1, state[t] = seen[c]
     DEF IInv, QueueInv, TypeOK, RQ!QueueTypeOK, queueVars, reaperVars
<1> QED
  BY <1>2, <1>3, <1>4, <1>5, <1>6, <1>7 DEF IInv

\* A compare-and-swap that finds s changed tests the new s.
LEMMA CasRetries ==
    ASSUME IInv, NEW c \in Clients, JoinCas(c) \/ DetachCas(c),
           state[arg[c]] # seen[c]
    PROVE  IInv'
<1> DEFINE s == state[arg[c]]
<1> USE DEF Touch, Goto, Reject
<1>0. pc[c] \in {"join_cas", "detach_cas"}
  BY DEF JoinCas, DetachCas
<1>1. /\ c \in Actors /\ arg[c] \in Threads
      /\ pc \in [Actors -> ThreadPCs \cup ClientPCs]
      /\ state \in [Threads -> SUBSET RQ!Flags]
      /\ seen \in [Clients -> SUBSET RQ!Flags]
  BY <1>0, InCall
<1>2. /\ seen' = [seen EXCEPT ![c] = s]
      /\ uaf' \subseteq Clients
      /\ UNCHANGED <<state, live, stack, reaper_started, queueVars, arg, reaperVars,
                     failures, finished, retval, published, todo, got, crashed>>
  BY <1>0, InCall DEF JoinCas, DetachCas
<1>3. CASE JoinCas(c) /\ Unclaimed(s)
  BY <1>0, <1>1, <1>2, <1>3, InCall, ClientLabels, ClientMove
     DEF JoinCas, Knows, Joining, Collecting
<1>4. CASE JoinCas(c) /\ ~Unclaimed(s)
  BY <1>0, <1>1, <1>2, <1>4, InCall, ClientLabels, ClientMove
     DEF JoinCas, Knows, Joining, Collecting
<1>5. CASE DetachCas(c) /\ "DETACHED" \in s
  <2>1. Knows(c, "returned")'
    BY ClientLabels DEF Knows, Joining, Collecting
  <2>2. pc' = [pc EXCEPT ![c] = "returned"] /\ errno' = errno
    BY <1>5 DEF DetachCas, DetachTest
  <2> QED
    BY <1>0, <1>1, <1>2, <2>1, <2>2, InCall, ClientLabels, ClientMove
<1>6. CASE DetachCas(c) /\ "DETACHED" \notin s /\ "JOINED" \in s
  BY <1>0, <1>1, <1>2, <1>6, InCall, ClientLabels, ClientMove
     DEF DetachCas, DetachTest, Knows, Joining, Collecting
<1>7. CASE DetachCas(c) /\ Unclaimed(s)
  BY <1>0, <1>1, <1>2, <1>7, InCall, ClientLabels, ClientMove
     DEF DetachCas, DetachTest, Knows, Joining, Collecting, Unclaimed
<1> QED
  BY <1>3, <1>4, <1>5, <1>6, <1>7 DEF Unclaimed

LEMMA JoinReapInv == ASSUME IInv, NEW c \in Clients, JoinReap(c) PROVE IInv'
<1> DEFINE t == arg[c]
           label == IF "REAPED" \in state[t] THEN "returned" ELSE "join_unmap"
<1>0. /\ pc[c] = "join_reap"
      /\ state' = [state EXCEPT ![t] = @ \cup {"REAPED"}]
      /\ pc' = [pc EXCEPT ![c] = label]
      /\ uaf' = IF t \in live THEN uaf ELSE uaf \cup {c}
      /\ UNCHANGED <<seen, errno, live, stack, reaper_started, queueVars, arg,
                     reaperVars, failures, finished, retval, published, todo, got,
                     crashed>>
  BY DEF JoinReap, Goto, Touch, envVars
<1>1. /\ c \in Actors /\ c \notin Threads /\ t \in Threads /\ pc[t] # "none"
      /\ "JOINED" \in state[t] /\ t \in finished
      /\ pc \in [Actors -> ThreadPCs \cup ClientPCs]
      /\ state \in [Threads -> SUBSET RQ!Flags]
      /\ label \in {"returned", "join_unmap"}
  BY <1>0, InCall DEF IInv, ArgInv, Knows, Collecting
<1> HIDE DEF label
<1>2. TypeOK'
  <2>1. state' \in [Threads -> SUBSET RQ!Flags]
    BY <1>0, <1>1 DEF RQ!Flags
  <2>2. RQ!QueueTypeOK'
    BY <2>1, <1>0 DEF IInv, TypeOK, RQ!QueueTypeOK, queueVars, reaperVars
  <2> QED
    BY <2>2, <1>0, <1>1, ClientLabels DEF IInv, TypeOK
<1>3. ArgInv'
  BY <1>0, <1>1, ClientLabels DEF IInv, ArgInv, TypeOK, Actors
<1>4. LifeInv'
  BY <1>0, <1>1 DEF IInv, LifeInv, TypeOK, Actors
<1>5. OwnershipProtocol'
  BY <1>0, <1>1 DEF IInv, OwnershipProtocol
<1>6. KnowledgeInv'
  BY <1>0, <1>1, ClientLabels
     DEF IInv, KnowledgeInv, Knows, TypeOK, Actors, Joining, Collecting, ArgInv
<1>7. QueueInv'
  BY <1>0, <1>1 DEF IInv, QueueInv, TypeOK, RQ!QueueTypeOK, queueVars, reaperVars
<1> QED
  BY <1>2, <1>3, <1>4, <1>5, <1>6, <1>7 DEF IInv

\* munmap() and free() by the joiner.
LEMMA JoinReleases ==
    ASSUME IInv, NEW c \in Clients, JoinUnmap(c) \/ JoinFree(c)
    PROVE  IInv'
<1> DEFINE t == arg[c]
           label == IF JoinUnmap(c) THEN "join_free" ELSE "returned"
<1>0. /\ pc[c] \in {"join_unmap", "join_free"}
      /\ pc' = [pc EXCEPT ![c] = label]
      /\ \/ label = "join_free" /\ stack' = stack \ {t} /\ live' = live
         \/ label = "returned" /\ live' = live \ {t} /\ stack' = stack
                               /\ pc[c] = "join_free"
      /\ uaf' \in {uaf, uaf \cup {c}}
      /\ UNCHANGED <<state, seen, errno, reaper_started, queueVars, arg, reaperVars,
                     failures, finished, retval, published, todo, got, crashed>>
  BY DEF JoinUnmap, JoinFree, Goto, Touch, envVars, myVars
<1>1. /\ c \in Actors /\ c \notin Threads /\ t \in Threads /\ pc[t] # "none"
      /\ "JOINED" \in state[t] /\ t \in finished
      /\ pc[c] = "join_free" => t \notin stack
      /\ pc \in [Actors -> ThreadPCs \cup ClientPCs]
      /\ label \in {"returned", "join_free"}
  BY <1>0, InCall DEF IInv, ArgInv, Knows, Collecting
<1> HIDE DEF label
<1>2. TypeOK'
  <2>1. RQ!QueueTypeOK'
    BY <1>0, <1>1 DEF IInv, TypeOK, RQ!QueueTypeOK, queueVars, reaperVars
  <2> QED
    BY <2>1, <1>0, <1>1, ClientLabels DEF IInv, TypeOK
<1>3. ArgInv'
  BY <1>0, <1>1, ClientLabels DEF IInv, ArgInv, TypeOK, Actors
<1>4. LifeInv' /\ OwnershipProtocol'
  BY <1>0, <1>1 DEF IInv, LifeInv, OwnershipProtocol, TypeOK, Actors
<1>5. KnowledgeInv'
  <2>1. ASSUME NEW d \in Clients PROVE Knows(d, pc[d])'
    BY <1>0, <1>1, <2>1, ClientLabels
       DEF IInv, KnowledgeInv, Knows, TypeOK, Actors, Joining, Collecting
  <2> QED
    BY <1>0, <1>1, <2>1 DEF IInv, KnowledgeInv, TypeOK, Actors
<1>6. QueueInv'
  BY <1>0, <1>1 DEF IInv, QueueInv, queueVars, reaperVars
<1> QED
  BY <1>2, <1>3, <1>4, <1>5, <1>6 DEF IInv

\* The claim of the queue, by the exiting thread or by the detaching client.
LEMMA ClaimInv ==
    ASSUME IInv, NEW p \in Actors, NEW t \in Threads, RQ!Claim(p, t),
           t \in finished, "DETACHED" \in state[t],
           p \in Threads => p = t /\ pc[p] = "claim",
           p \in Clients => pc[p] = "detach_claim" /\ arg[p] = t,
           uaf' \subseteq Clients,
           UNCHANGED <<finished, retval, published, todo, seen, got, crashed>>
    PROVE  IInv'
<1> DEFINE label == IF "QUEUED" \in state[t] THEN "returned" ELSE "start_reaper"
<1>0. /\ arg' = [arg EXCEPT ![p] = t]
      /\ state' = [state EXCEPT ![t] = @ \cup {"QUEUED"}]
      /\ pc' = [pc EXCEPT ![p] = label]
      /\ UNCHANGED <<live, stack, reaper_started, queueVars, reaperVars, envVars>>
  BY DEF RQ!Claim, RQ!Goto, RQ!queueVars, RQ!reaperVars, RQ!envVars, queueVars,
         reaperVars, envVars
<1>1. /\ pc[t] \notin {"none", "run", "finish"}
      /\ pc \in [Actors -> ThreadPCs \cup ClientPCs]
      /\ arg \in [Actors -> Threads \cup {NULL}]
      /\ state \in [Threads -> SUBSET RQ!Flags]
      /\ label \in {"returned", "start_reaper"}
      /\ p \in Clients => todo[p] # <<>>
      /\ Actors = Threads \cup Clients
  BY DEF IInv, TypeOK, RQ!QueueTypeOK, LifeInv, ArgInv, Actors
<1>2. /\ label \in ThreadPCs \cap ClientPCs
      /\ "returned" \notin Working
      /\ Working \cap {"none", "run", "finish", "claim"} = {}
      /\ Working \cap (Joining \cup Collecting) = {}
  BY <1>1 DEF ThreadPCs, ClientPCs, RQ!CallerPCs, Working, RQ!Starting, RQ!Enqueuing,
              Joining, Collecting
<1> HIDE DEF label
<1>3. TypeOK'
  <2>1. state' \in [Threads -> SUBSET RQ!Flags]
    BY <1>0, <1>1 DEF RQ!Flags
  <2>2. RQ!QueueTypeOK'
    BY <2>1, <1>0 DEF IInv, TypeOK, RQ!QueueTypeOK, queueVars, reaperVars, envVars
  <2> QED
    BY <2>2, <1>0, <1>1, <1>2 DEF IInv, TypeOK
<1>4. ArgInv'
  BY <1>0, <1>1, <1>2, Distinct DEF IInv, ArgInv
<1>5. LifeInv' /\ OwnershipProtocol'
  BY <1>0, <1>1, <1>2, Distinct DEF IInv, LifeInv, OwnershipProtocol
<1>6. KnowledgeInv'
  <2>1. ASSUME NEW d \in Clients PROVE Knows(d, pc[d])'
    <3>1. CASE d = p
      BY <1>0, <1>1, <1>2, <3>1 DEF Knows, Joining, Collecting
    <3>2. CASE d # p
      <4>1. pc'[d] = pc[d] /\ arg'[d] = arg[d] /\ Knows(d, pc[d])
        BY <1>0, <1>1, <3>2 DEF IInv, KnowledgeInv
      <4>2. \A u \in Threads : state[u] \subseteq state'[u]
        BY <1>0, <1>1
      <4>3. pc[d] # "idle" => arg[d] \in Threads
        BY DEF IInv, ArgInv
      <4> QED
        BY <1>0, <4>1, <4>2, <4>3
           DEF Knows, Joining, Collecting, Working, RQ!Starting, RQ!Enqueuing
    <3> QED
      BY <3>1, <3>2
  <2>2. ASSUME NEW u \in Threads
        PROVE  /\ pc'[u] = "claim" => "DETACHED" \in state'[u]
               /\ pc'[u] \in Working => "QUEUED" \in state'[u]
    BY <1>0, <1>1, <1>2, Distinct DEF IInv, KnowledgeInv
  <2> QED
    BY <2>1, <2>2 DEF KnowledgeInv
<1>7. QueueInv'
  BY <1>0, <1>1 DEF IInv, QueueInv, TypeOK, RQ!QueueTypeOK, queueVars, reaperVars
<1> QED
  BY <1>3, <1>4, <1>5, <1>6, <1>7 DEF IInv

LEMMA CreateInv == ASSUME IInv, NEW c \in Clients, Create(c) PROVE IInv'
<1> DEFINE t == Head(todo[c]).t
<1>0. /\ pc[c] = "idle" /\ todo[c] # <<>>
      /\ pc[t] = "none"
      /\ live' = live \cup {t}
      /\ stack' = stack \cup {t}
      /\ pc' = [pc EXCEPT ![c] = "publish", ![t] = "run"]
      /\ arg' = [arg EXCEPT ![c] = t]
      /\ UNCHANGED <<state, reaper_started, queueVars, reaperVars, envVars, myVars>>
  BY DEF Create, Calling
<1>1. /\ c \in Actors /\ c \notin Threads
      /\ pc \in [Actors -> ThreadPCs \cup ClientPCs]
      /\ arg \in [Actors -> Threads \cup {NULL}]
      /\ todo \in [Clients -> Seq(Calls)]
  BY Distinct DEF IInv, TypeOK, Actors
<1>2. Head(todo[c]) \in Calls
  BY <1>0, <1>1
<1>3. t \in Threads /\ t \in Actors /\ t # c
  BY <1>1, <1>2 DEF Calls, Actors
<1>4. state[t] = {} /\ t \notin live /\ t \notin finished
  BY <1>0, <1>3 DEF IInv, LifeInv
<1>a. /\ pc' \in [Actors -> ThreadPCs \cup ClientPCs]
      /\ pc'[c] = "publish" /\ pc'[t] = "run"
      /\ \A p \in Actors \ {c, t} : pc'[p] = pc[p]
  <2>1. "run" \in ThreadPCs /\ "publish" \in ClientPCs
    BY DEF ThreadPCs, ClientPCs
  <2> QED
    BY <2>1, <1>0, <1>1, <1>3
<1>5. TypeOK'
  <2>1. RQ!QueueTypeOK'
    BY <1>0, <1>3 DEF IInv, TypeOK, RQ!QueueTypeOK, queueVars, reaperVars, envVars
  <2>2. "run" \in ThreadPCs /\ "publish" \in ClientPCs
    BY DEF ThreadPCs, ClientPCs
  <2>3. /\ \A u \in Threads : pc'[u] \in ThreadPCs
        /\ \A d \in Clients : pc'[d] \in ClientPCs
    BY <1>a, <2>2, <1>3, Distinct DEF IInv, TypeOK, Actors
  <2>4. arg' \in [Actors -> Threads \cup {NULL}]
    BY <1>0, <1>1, <1>3
  <2> QED
    BY <2>1, <2>3, <2>4, <1>0, <1>a DEF IInv, TypeOK, myVars
<1>6. ArgInv'
  <2>1. "run" \notin Working /\ "publish" \notin Working
    BY DEF Working, RQ!Starting, RQ!Enqueuing
  <2>2. ASSUME NEW d \in Clients, pc'[d] # "idle"
        PROVE  todo'[d] # <<>> /\ arg'[d] \in Threads /\ pc'[arg'[d]] # "none"
    <3>1. CASE d = c
      BY <1>0, <1>1, <1>3, <1>a, <3>1 DEF myVars
    <3>2. CASE d # c
      BY <1>0, <1>1, <1>3, <1>a, <2>2, <3>2, Distinct DEF IInv, ArgInv, myVars, Actors
    <3> QED
      BY <3>1, <3>2
  <2>3. \A u \in Threads : pc'[u] \in Working => arg'[u] = u
    BY <2>1, <1>0, <1>1, <1>3, <1>a, Distinct DEF IInv, ArgInv, Actors
  <2> QED
    BY <2>2, <2>3 DEF ArgInv
<1>7. LifeInv' /\ OwnershipProtocol'
  <2>1. ASSUME NEW u \in Threads
        PROVE  /\ u \in finished <=> pc'[u] \notin {"none", "run", "finish"}
               /\ pc'[u] = "none" => state[u] = {} /\ u \notin live'
    <3>1. CASE u = t
      BY <1>4, <1>a, <3>1
    <3>2. CASE u # t
      <4>1. pc'[u] = pc[u] /\ (u \in live' <=> u \in live)
        BY <1>0, <1>1, <1>a, <3>2 DEF Actors
      <4> QED
        BY <4>1 DEF IInv, LifeInv
    <3> QED
      BY <3>1, <3>2
  <2>2. \A u \in published : pc'[u] # "none"
    BY <1>1, <1>a DEF IInv, LifeInv, TypeOK, Actors
  <2> QED
    BY <1>0, <2>1, <2>2 DEF IInv, LifeInv, OwnershipProtocol, myVars
<1>8. KnowledgeInv'
  <2>1. ASSUME NEW d \in Clients PROVE Knows(d, pc[d])'
    <3>1. CASE d = c
      BY <1>0, <1>1, <1>3, <1>a, <3>1, ClientLabels DEF Knows, Joining, Collecting
    <3>2. CASE d # c
      <4>1. pc'[d] = pc[d] /\ arg'[d] = arg[d] /\ Knows(d, pc[d])
        BY <1>0, <1>1, <1>3, <3>2, Distinct DEF IInv, KnowledgeInv, Actors
      <4>2. pc[d] = "join_free" => arg[d] # t
        BY <1>0, <1>3 DEF IInv, ArgInv
      <4> QED
        BY <1>0, <4>1, <4>2 DEF Knows, myVars
    <3> QED
      BY <3>1, <3>2
  <2>2. "run" \notin Working
    BY DEF Working, RQ!Starting, RQ!Enqueuing
  <2> QED
    BY <1>0, <1>1, <1>3, <2>1, <2>2, Distinct DEF IInv, KnowledgeInv, Actors
<1>9. QueueInv'
  <2>1. \A r \in Reapers : current[r] # NULL => current[r] # t
    BY <1>4 DEF IInv, QueueInv
  <2> QED
    BY <1>0, <2>1 DEF IInv, QueueInv, queueVars, reaperVars
<1> QED
  BY <1>5, <1>6, <1>7, <1>8, <1>9 DEF IInv

\* The other steps of a client between or at the start of its calls.
LEMMA CallsInv ==
    ASSUME IInv, NEW c \in Clients,
           \/ CreateFails(c) \/ Publish(c)
           \/ Enter(c, "join", "join_load") \/ Enter(c, "detach", "detach_load")
    PROVE  IInv'
<1>0. /\ c \in Actors /\ c \notin Threads
      /\ pc \in [Actors -> ThreadPCs \cup ClientPCs]
      /\ arg \in [Actors -> Threads \cup {NULL}]
      /\ todo \in [Clients -> Seq(Calls)]
      /\ got \in [Clients -> Threads \cup {NULL}]
  BY Distinct DEF IInv, TypeOK, Actors
<1>1. CASE CreateFails(c)
  <2>1. /\ pc[c] = "idle"
        /\ failures' \in 0 .. MaxFail /\ errno' \in RQ!Errors
        /\ todo' = [todo EXCEPT ![c] = <<>>]
        /\ UNCHANGED <<descVars, reaper_started, queueVars, pc, arg, reaperVars,
                       finished, retval, published, seen, got, uaf, crashed>>
    BY <1>1, Distinct DEF CreateFails, Calling, RQ!Fail, IInv, TypeOK,
                          RQ!QueueTypeOK, RQ!Errors
  <2>2. TypeOK'
    <3>1. RQ!QueueTypeOK'
      BY <2>1 DEF IInv, TypeOK, RQ!QueueTypeOK, descVars, queueVars, reaperVars
    <3>2. todo' \in [Clients -> Seq(Calls)]
      BY <2>1, <1>0
    <3> QED
      BY <3>1, <3>2, <2>1 DEF IInv, TypeOK
  <2>3. ArgInv'
    BY <2>1, <1>0 DEF IInv, ArgInv
  <2>4. LifeInv' /\ OwnershipProtocol' /\ KnowledgeInv' /\ QueueInv'
    BY <2>1 DEF IInv, LifeInv, OwnershipProtocol, KnowledgeInv, Knows, QueueInv,
                descVars, queueVars, reaperVars
  <2> QED
    BY <2>2, <2>3, <2>4 DEF IInv
<1>2. CASE Publish(c)
  <2>1. /\ pc[c] = "publish"
        /\ published' = published \cup {arg[c]}
        /\ pc' = [pc EXCEPT ![c] = "returned"]
        /\ UNCHANGED <<descVars, reaper_started, queueVars, arg, reaperVars, envVars,
                       finished, retval, todo, seen, got, uaf, crashed>>
    BY <1>2 DEF Publish, Goto
  <2>2. arg[c] \in Threads /\ pc[arg[c]] # "none" /\ todo[c] # <<>>
    BY <2>1 DEF IInv, ArgInv
  <2>3. TypeOK'
    <3>1. RQ!QueueTypeOK'
      BY <2>1 DEF IInv, TypeOK, RQ!QueueTypeOK, descVars, queueVars, reaperVars, envVars
    <3> QED
      BY <3>1, <2>1, <2>2, <1>0, ClientLabels DEF IInv, TypeOK
  <2>4. ArgInv'
    BY <2>1, <2>2, <1>0, Distinct DEF IInv, ArgInv, Actors
  <2>5. LifeInv' /\ OwnershipProtocol'
    BY <2>1, <2>2, <1>0, Distinct DEF IInv, LifeInv, OwnershipProtocol, descVars, Actors,
                                      TypeOK
  <2>6. KnowledgeInv'
    BY <2>1, <1>0, Distinct, ClientLabels
       DEF IInv, KnowledgeInv, Knows, descVars, Actors, Joining, Collecting
  <2>7. QueueInv'
    BY <2>1 DEF IInv, QueueInv, descVars, queueVars, reaperVars
  <2> QED
    BY <2>3, <2>4, <2>5, <2>6, <2>7 DEF IInv
<1>3. ASSUME NEW op, NEW label \in {"join_load", "detach_load"}, Enter(c, op, label)
      PROVE  IInv'
  <2> DEFINE t == Head(todo[c]).t
  <2>1. /\ pc[c] = "idle" /\ todo[c] # <<>>
        /\ t \in published
        /\ arg' = [arg EXCEPT ![c] = t]
        /\ got' = [got EXCEPT ![c] = NULL]
        /\ pc' = [pc EXCEPT ![c] = label]
        /\ UNCHANGED <<descVars, reaper_started, queueVars, reaperVars, envVars,
                       finished, retval, published, todo, seen, uaf, crashed>>
    BY <1>3 DEF Enter, Calling, Goto
  <2>2. t \in Threads /\ pc[t] # "none"
    BY <2>1 DEF IInv, LifeInv, TypeOK
  <2>3. TypeOK'
    <3>1. RQ!QueueTypeOK'
      BY <2>1 DEF IInv, TypeOK, RQ!QueueTypeOK, descVars, queueVars, reaperVars, envVars
    <3> QED
      BY <3>1, <2>1, <2>2, <1>0, ClientLabels DEF IInv, TypeOK
  <2>4. ArgInv'
    BY <2>1, <2>2, <1>0, Distinct DEF IInv, ArgInv, Actors
  <2>5. LifeInv' /\ OwnershipProtocol'
    BY <2>1, <2>2, <1>0, Distinct DEF IInv, LifeInv, OwnershipProtocol, descVars, Actors,
                                      TypeOK
  <2>6. KnowledgeInv'
    BY <2>1, <1>0, Distinct, ClientLabels
       DEF IInv, KnowledgeInv, Knows, descVars, Actors, Joining, Collecting
  <2>7. QueueInv'
    BY <2>1 DEF IInv, QueueInv, descVars, queueVars, reaperVars
  <2> QED
    BY <2>3, <2>4, <2>5, <2>6, <2>7 DEF IInv
<1> QED
  BY <1>1, <1>2, <1>3

-----------------------------------------------------------------------------
(* The steps of a thread                                                   *)

LEMMA ThreadInv ==
    ASSUME IInv, NEW t \in Threads,
           Run(t) \/ Finish(t) \/ WakeJoiner(t) \/ LoadState(t) \/ Exit(t)
    PROVE  IInv'
<1> DEFINE label == pc'[t]
<1>0. /\ t \in Actors /\ t \notin Clients
      /\ pc \in [Actors -> ThreadPCs \cup ClientPCs]
      /\ retval \in [Threads -> Threads \cup {NULL}]
  BY Distinct DEF IInv, TypeOK, Actors
<1>1. /\ pc[t] \in {"run", "finish", "wake_joiner", "load_state", "returned"}
      /\ label \in {"finish", "wake_joiner", "load_state", "claim", "returned", "gone"}
      /\ label = "claim" => "DETACHED" \in state[t]
      /\ \/ label = "finish" /\ finished' = finished /\ pc[t] = "run"
         \/ label = "wake_joiner" /\ finished' = finished \cup {t}
         \/ /\ label \notin {"finish", "wake_joiner"} /\ finished' = finished
            /\ pc[t] \notin {"run", "finish"}
      /\ retval' \in [Threads -> Threads \cup {NULL}]
      /\ UNCHANGED <<descVars, reaper_started, queueVars, arg, reaperVars, envVars,
                     published, todo, seen, got, uaf, crashed>>
  BY <1>0, Distinct
     DEF Run, Finish, WakeJoiner, LoadState, Exit, Goto, Joiners, myVars, Actors
<1>2. /\ pc' \in [Actors -> ThreadPCs \cup ClientPCs]
      /\ \A p \in Actors \ {t} :
            \/ pc'[p] = pc[p]
            \/ p \in Clients /\ pc[p] = "join_asleep" /\ pc'[p] = "join_poll"
  <2>1. {"finish", "wake_joiner", "load_state", "claim", "returned", "gone"}
           \subseteq ThreadPCs
    BY DEF ThreadPCs, RQ!CallerPCs
  <2>2. "join_poll" \in ClientPCs
    BY DEF ClientPCs
  <2> QED
    BY <1>0, <2>1, <2>2
       DEF Run, Finish, WakeJoiner, LoadState, Exit, Goto, Joiners, Actors
<1>3. /\ label \in ThreadPCs
      /\ "join_poll" \in ClientPCs \ Working
      /\ label \notin Working
  BY <1>1 DEF ThreadPCs, ClientPCs, RQ!CallerPCs, Working, RQ!Starting, RQ!Enqueuing
<1>4. TypeOK'
  <2>1. RQ!QueueTypeOK'
    BY <1>1 DEF IInv, TypeOK, RQ!QueueTypeOK, descVars, queueVars, reaperVars, envVars
  <2> QED
    BY <2>1, <1>0, <1>1, <1>2, <1>3, Distinct DEF IInv, TypeOK, Actors
<1>5. ArgInv'
  <2>1. ASSUME NEW d \in Clients, pc'[d] # "idle"
        PROVE  todo'[d] # <<>> /\ arg'[d] \in Threads /\ pc'[arg'[d]] # "none"
    <3>1. pc[d] # "idle"
      BY <1>0, <1>2, <2>1 DEF Actors
    <3>2. /\ todo[d] # <<>> /\ arg[d] \in Threads /\ pc[arg[d]] # "none"
          /\ todo'[d] = todo[d] /\ arg'[d] = arg[d]
      BY <3>1, <1>1 DEF IInv, ArgInv
    <3>3. pc'[arg[d]] # "none"
      BY <3>2, <1>1, <1>2, Distinct DEF Actors
    <3> QED
      BY <3>2, <3>3
  <2>2. \A u \in Threads : pc'[u] \in Working => arg'[u] = u
    BY <1>0, <1>1, <1>2, <1>3, Distinct DEF IInv, ArgInv, Actors
  <2> QED
    BY <2>1, <2>2 DEF ArgInv
<1>6. LifeInv' /\ OwnershipProtocol'
  BY <1>0, <1>1, <1>2, <1>3, Distinct
     DEF IInv, LifeInv, OwnershipProtocol, TypeOK, descVars, Actors
<1>7. KnowledgeInv'
  <2>1. ASSUME NEW d \in Clients PROVE Knows(d, pc[d])'
    BY <1>0, <1>1, <1>2, <1>3, <2>1, Distinct
       DEF IInv, KnowledgeInv, Knows, descVars, Actors, Joining, Collecting
  <2> QED
    BY <2>1, <1>0, <1>1, <1>2, <1>3, Distinct DEF IInv, KnowledgeInv, descVars, Actors
<1>8. QueueInv'
  BY <1>1 DEF IInv, QueueInv, descVars, queueVars, reaperVars
<1> QED
  BY <1>4, <1>5, <1>6, <1>7, <1>8 DEF IInv

-----------------------------------------------------------------------------
(* The steps on the queue                                                  *)

\* What the steps of reap_enqueue and start_reaper may change: the caller's
\* label, queue pointers that become its own descriptor, and a reaper that is
\* started or woken.
CallerEffect(p) ==
    /\ pc[p] \in Working
    /\ pc'[p] \in Working \cup {"returned"}
    /\ pc' = [pc EXCEPT ![p] = pc'[p]]
    /\ UNCHANGED <<state, live, stack, arg, current>>
    /\ head' \in {head, arg[p]}
    /\ tail' \in {tail, arg[p]}
    /\ \A t \in Threads : next'[t] \in {next[t], arg[p], NULL}
    /\ \A r \in Reapers : rpc'[r] \in {rpc[r], "load"}

LEMMA CallerStepEffect ==
    ASSUME TypeOK, NEW p \in Actors, arg[p] \in Threads, RQ!CallerStep(p)
    PROVE  CallerEffect(p) /\ RQ!QueueTypeOK'
<1>0. /\ pc \in [Actors -> ThreadPCs \cup ClientPCs]
      /\ RQ!QueueTypeOK
      /\ MaxFail \in Nat
  BY Distinct DEF TypeOK
<1> USE <1>0 DEF CallerEffect, Working, RQ!Starting, RQ!Enqueuing, RQ!Goto, RQ!RGoto,
                 RQ!QueueTypeOK, RQ!descVars, RQ!listVars, RQ!queueVars,
                 RQ!callerVars, RQ!reaperVars, RQ!envVars, RQ!ReaperPCs
<1>1. CASE RQ!StartReaper(p)
  BY <1>1 DEF RQ!StartReaper
<1>2. CASE RQ!CloneReaper(p)
  BY <1>2 DEF RQ!CloneReaper
<1>3. CASE RQ!MapReaperFails(p)
  <2>1. failures' \in 0 .. MaxFail /\ errno' \in RQ!Errors
    BY <1>3 DEF RQ!MapReaperFails, RQ!Fail, RQ!Errors
  <2>2. reaper_started' \in BOOLEAN
    BY <1>3, Zenon DEF RQ!MapReaperFails
  <2> QED
    BY <1>3, <2>1, <2>2 DEF RQ!MapReaperFails
<1>4. CASE RQ!CloneReaperFails(p)
  <2>1. failures' \in 0 .. MaxFail /\ errno' \in RQ!Errors
    BY <1>4 DEF RQ!CloneReaperFails, RQ!Fail, RQ!Errors
  <2>2. reaper_started' \in BOOLEAN
    BY <1>4, Zenon DEF RQ!CloneReaperFails
  <2> QED
    BY <1>4, <2>1, <2>2 DEF RQ!CloneReaperFails
<1>5. CASE RQ!ResetAgain(p)
  <2>1. reaper_started' \in BOOLEAN /\ errno' \in RQ!Errors
    BY <1>5, Zenon DEF RQ!ResetAgain, RQ!Errors
  <2> QED
    BY <1>5, <2>1 DEF RQ!ResetAgain
<1>6. CASE RQ!AllocNode(p)
  BY <1>6 DEF RQ!AllocNode
<1>7. CASE RQ!AllocNodeFails(p)
  BY <1>7 DEF RQ!AllocNodeFails, RQ!Fail, RQ!Errors
<1>8. CASE RQ!EnqueueLock(p)
  BY <1>8 DEF RQ!EnqueueLock
<1>9. CASE RQ!Link(p)
  BY <1>9 DEF RQ!Link
<1>10. CASE RQ!SetTail(p)
  BY <1>10 DEF RQ!SetTail
<1>11. CASE RQ!EnqueueUnlock(p)
  BY <1>11 DEF RQ!EnqueueUnlock
<1>12. CASE RQ!AddCount(p)
  BY <1>12 DEF RQ!AddCount
<1>13. CASE RQ!WakeReaper(p)
  BY <1>13 DEF RQ!WakeReaper, RQ!Asleep
<1> QED
  BY <1>1, <1>2, <1>3, <1>4, <1>5, <1>6, <1>7, <1>8, <1>9, <1>10, <1>11, <1>12, <1>13
     DEF RQ!CallerStep

LEMMA CallerWorks == ASSUME NEW p \in Actors, RQ!CallerStep(p) PROVE pc[p] \in Working
BY DEF RQ!CallerStep, RQ!StartReaper, RQ!CloneReaper, RQ!MapReaperFails,
       RQ!CloneReaperFails, RQ!ResetAgain, RQ!AllocNode, RQ!AllocNodeFails,
       RQ!EnqueueLock, RQ!Link, RQ!SetTail, RQ!EnqueueUnlock, RQ!AddCount,
       RQ!WakeReaper, Working, RQ!Starting, RQ!Enqueuing

LEMMA CallerInv ==
    ASSUME IInv, NEW p \in Actors, RQ!CallerStep(p), UNCHANGED myVars
    PROVE  IInv'
<1>0. pc[p] \in Working
  BY CallerWorks
<1>1. /\ \A l \in Working \cup {"returned"} :
              l \in ThreadPCs /\ l \in ClientPCs /\ l \notin {"none", "run", "finish", "idle",
                 "claim", "join_cas", "join_free", "detach_cas", "detach_finished",
                 "detach_claim"}
              /\ l \notin Joining /\ l \notin Collecting
      /\ "returned" \notin Working
  BY DEF ThreadPCs, ClientPCs, RQ!CallerPCs, Working, RQ!Starting, RQ!Enqueuing,
         Joining, Collecting
<1>2. arg[p] \in Threads /\ "QUEUED" \in state[arg[p]] /\ NULL \notin Threads
  BY <1>0, <1>1, Distinct DEF IInv, ArgInv, KnowledgeInv, Knows, Actors
<1>3. CallerEffect(p) /\ RQ!QueueTypeOK'
  BY <1>2, CallerStepEffect DEF IInv
<1>4. /\ pc \in [Actors -> ThreadPCs \cup ClientPCs]
      /\ pc' = [pc EXCEPT ![p] = pc'[p]]
      /\ pc'[p] \in Working \cup {"returned"}
      /\ UNCHANGED <<state, live, stack, arg, current>>
  BY <1>3 DEF CallerEffect, IInv, TypeOK
<1>5. TypeOK'
  BY <1>1, <1>3, <1>4 DEF IInv, TypeOK, myVars, Actors
<1>6. ArgInv'
  BY <1>0, <1>1, <1>4, Distinct DEF IInv, ArgInv, myVars, Actors
<1>7. LifeInv' /\ OwnershipProtocol'
  BY <1>0, <1>1, <1>4, Distinct
     DEF IInv, LifeInv, OwnershipProtocol, TypeOK, myVars, Actors
<1>8. KnowledgeInv'
  <2>1. ASSUME NEW d \in Clients PROVE Knows(d, pc[d])'
    <3>1. CASE d = p
      <4>1. pc'[d] \in Working \cup {"returned"} /\ arg'[d] = arg[p] /\ state' = state
        BY <1>4, <3>1
      <4> QED
        BY <1>1, <1>2, <4>1 DEF Knows
    <3>2. CASE d # p
      BY <1>4, <3>2 DEF IInv, KnowledgeInv, Knows, myVars, Actors
    <3> QED
      BY <3>1, <3>2
  <2>2. ASSUME NEW u \in Threads
        PROVE  /\ pc'[u] = "claim" => "DETACHED" \in state'[u]
               /\ pc'[u] \in Working => "QUEUED" \in state'[u]
    BY <1>0, <1>1, <1>4 DEF IInv, KnowledgeInv, Actors
  <2> QED
    BY <2>1, <2>2 DEF KnowledgeInv
<1>9. QueueInv'
  <2>1. /\ head' # NULL => "QUEUED" \in state'[head']
        /\ tail' # NULL => "QUEUED" \in state'[tail']
        /\ \A t \in Threads : next'[t] # NULL => "QUEUED" \in state'[next'[t]]
    BY <1>2, <1>3 DEF IInv, QueueInv, CallerEffect
  <2>2. \A r \in Reapers :
          /\ current'[r] # NULL => "QUEUED" \in state'[current'[r]]
          /\ rpc'[r] \in {"reap", "unmap", "free", "advance"} => current'[r] # NULL
          /\ rpc'[r] = "free" => current'[r] \notin stack'
    BY <1>3 DEF IInv, QueueInv, CallerEffect
  <2> QED
    BY <2>1, <2>2 DEF QueueInv
<1> QED
  BY <1>5, <1>6, <1>7, <1>8, <1>9 DEF IInv

\* What a step of the reaper may change.
ReaperEffect(r) ==
    /\ UNCHANGED <<pc, arg>>
    /\ \A t \in Threads :
          \/ state'[t] = state[t]
          \/ "QUEUED" \in state[t] /\ state'[t] = state[t] \cup {"REAPED"}
    /\ live' \subseteq live
    /\ stack' \subseteq stack
    /\ live' # live => rpc[r] = "free"
    /\ UNCHANGED next
    /\ head' \in {head, NULL}
    /\ tail' \in {tail, NULL}
    /\ current'[r] \in {current[r], head, NULL} \cup {next[t] : t \in Threads}
    /\ \A q \in Reapers \ {r} : current'[q] = current[q] /\ rpc'[q] = rpc[q]
    /\ rpc'[r] \in {"reap", "unmap", "free", "advance"} => current'[r] # NULL
    /\ rpc'[r] = "free" => current'[r] \notin stack'
    /\ \A t \in live : t \notin live' => t \notin stack

LEMMA ReaperStepEffect ==
    ASSUME IInv, NEW r \in Reapers, RQ!ReaperStep(r)
    PROVE  ReaperEffect(r) /\ RQ!QueueTypeOK'
<1>0. /\ RQ!QueueTypeOK
      /\ current[r] # NULL => current[r] \in Threads /\ "QUEUED" \in state[current[r]]
      /\ rpc[r] \in {"reap", "unmap", "free", "advance"} => current[r] # NULL
      /\ rpc[r] = "free" => current[r] \notin stack
      /\ NULL \notin Threads
  BY Distinct DEF IInv, TypeOK, RQ!QueueTypeOK, QueueInv
<1> USE <1>0 DEF ReaperEffect, RQ!RGoto, RQ!QueueTypeOK, RQ!descVars, RQ!listVars,
                 RQ!queueVars, RQ!callerVars, RQ!reaperVars, RQ!envVars, RQ!ReaperPCs
<1>1. CASE RQ!LoadCount(r)
  BY <1>1 DEF RQ!LoadCount
<1>2. CASE RQ!WaitCount(r)
  BY <1>2 DEF RQ!WaitCount, RQ!Errors
<1>3. CASE RQ!DequeueLock(r)
  BY <1>3 DEF RQ!DequeueLock
<1>4. CASE RQ!TakeHead(r)
  BY <1>4 DEF RQ!TakeHead
<1>5. CASE RQ!ClearTail(r)
  BY <1>5 DEF RQ!ClearTail
<1>6. CASE RQ!DequeueUnlock(r)
  BY <1>6 DEF RQ!DequeueUnlock
<1>7. CASE RQ!Reap(r)
  BY <1>7 DEF RQ!Reap, RQ!Flags
<1>8. CASE RQ!UnmapStack(r)
  BY <1>8 DEF RQ!UnmapStack
<1>9. CASE RQ!FreeThread(r)
  BY <1>9 DEF RQ!FreeThread
<1>10. CASE RQ!Advance(r)
  BY <1>10 DEF RQ!Advance
<1>11. CASE RQ!SubCount(r)
  BY <1>11 DEF RQ!SubCount
<1> QED
  BY <1>1, <1>2, <1>3, <1>4, <1>5, <1>6, <1>7, <1>8, <1>9, <1>10, <1>11
     DEF RQ!ReaperStep

LEMMA ReaperInv ==
    ASSUME IInv, NEW r \in Reapers, RQ!ReaperStep(r), UNCHANGED myVars
    PROVE  IInv'
<1>0. ReaperEffect(r) /\ RQ!QueueTypeOK'
  BY ReaperStepEffect
<1>1. /\ UNCHANGED <<pc, arg, finished, published, todo, seen, next>>
      /\ state \in [Threads -> SUBSET RQ!Flags]
      /\ \A t \in Threads :
            \/ state'[t] = state[t]
            \/ "QUEUED" \in state[t] /\ state'[t] = state[t] \cup {"REAPED"}
      /\ live' \subseteq live
      /\ stack' \subseteq stack
  BY <1>0 DEF ReaperEffect, IInv, TypeOK, RQ!QueueTypeOK, myVars
<1>2. TypeOK'
  BY <1>0, <1>1 DEF IInv, TypeOK, myVars
<1>3. ArgInv'
  BY <1>1 DEF IInv, ArgInv
<1>4. OwnershipProtocol'
  BY <1>1 DEF IInv, OwnershipProtocol
<1>5. KnowledgeInv'
  <2>1. ASSUME NEW d \in Clients PROVE Knows(d, pc[d])'
    <3>1. Knows(d, pc[d]) /\ (pc[d] # "idle" => arg[d] \in Threads)
      BY DEF IInv, KnowledgeInv, ArgInv
    <3> QED
      BY <1>1, <3>1 DEF Knows, Joining, Collecting, Working, RQ!Starting, RQ!Enqueuing
  <2>2. ASSUME NEW u \in Threads
        PROVE  /\ pc'[u] = "claim" => "DETACHED" \in state'[u]
               /\ pc'[u] \in Working => "QUEUED" \in state'[u]
    BY <1>1 DEF IInv, KnowledgeInv
  <2> QED
    BY <2>1, <2>2 DEF KnowledgeInv
<1>6. QueueInv'
  <2>1. \A t \in Threads : "QUEUED" \in state[t] => "QUEUED" \in state'[t]
    BY <1>1
  <2>2. /\ head' # NULL => "QUEUED" \in state'[head']
        /\ tail' # NULL => "QUEUED" \in state'[tail']
        /\ \A t \in Threads : next'[t] # NULL => "QUEUED" \in state'[next'[t]]
    BY <1>0, <1>1, <2>1 DEF ReaperEffect, IInv, QueueInv, TypeOK, RQ!QueueTypeOK
  <2>3. ASSUME NEW q \in Reapers
        PROVE  /\ current'[q] # NULL => "QUEUED" \in state'[current'[q]]
               /\ rpc'[q] \in {"reap", "unmap", "free", "advance"} => current'[q] # NULL
               /\ rpc'[q] = "free" => current'[q] \notin stack'
    <3>1. CASE q = r
      <4>1. /\ current'[r] \in {current[r], head, NULL} \cup {next[t] : t \in Threads}
            /\ rpc'[r] \in {"reap", "unmap", "free", "advance"} => current'[r] # NULL
            /\ rpc'[r] = "free" => current'[r] \notin stack'
        BY <1>0 DEF ReaperEffect
      <4>2. current'[r] # NULL => current'[r] \in Threads /\ "QUEUED" \in state[current'[r]]
        BY <4>1 DEF IInv, QueueInv, TypeOK, RQ!QueueTypeOK
      <4> QED
        BY <3>1, <4>1, <4>2, <2>1
    <3>2. CASE q # r
      <4>1. current'[q] = current[q] /\ rpc'[q] = rpc[q]
        BY <1>0, <3>2 DEF ReaperEffect
      <4> QED
        BY <4>1, <2>1, <1>1 DEF IInv, QueueInv, TypeOK, RQ!QueueTypeOK
    <3> QED
      BY <3>1, <3>2
  <2> QED
    BY <2>2, <2>3 DEF QueueInv
<1>7. LifeInv'
  <2>1. ASSUME NEW u \in Threads, pc'[u] = "none"
        PROVE  state'[u] = {} /\ u \notin live'
    <3>1. state[u] = {} /\ u \notin live
      BY <1>1, <2>1 DEF IInv, LifeInv
    <3> QED
      BY <1>1, <3>1
  <2> QED
    BY <1>1, <2>1 DEF IInv, LifeInv
<1> QED
  BY <1>2, <1>3, <1>4, <1>5, <1>6, <1>7 DEF IInv

-----------------------------------------------------------------------------
(* Type correctness and the exclusion of join and detach                   *)

LEMMA StutterInv == ASSUME IInv, UNCHANGED vars PROVE IInv'
<1> USE DEF vars, rqVars, myVars, descVars, queueVars, reaperVars, envVars
<1>1. TypeOK'
  BY DEF IInv, TypeOK, RQ!QueueTypeOK
<1>2. ArgInv' /\ LifeInv' /\ OwnershipProtocol' /\ QueueInv'
  BY DEF IInv, ArgInv, LifeInv, OwnershipProtocol, QueueInv
<1>3. KnowledgeInv'
  BY DEF IInv, KnowledgeInv, Knows
<1> QED
  BY <1>1, <1>2, <1>3 DEF IInv

\* A thread that faults changes nothing the invariant speaks of but crashed.
LEMMA FaultInv == ASSUME IInv, NEW t \in Threads, Fault(t) PROVE IInv'
<1>0. UNCHANGED <<state, live, stack, reaper_started, head, tail, next, count, lock,
                  pc, arg, rpc, current, processed, errno, failures,
                  finished, retval, published, todo, seen, got, uaf>>
  BY DEF Fault, rqVars, descVars, queueVars, reaperVars, envVars
<1>1. crashed' \in BOOLEAN
  BY Zenon DEF Fault
<1>2. RQ!QueueTypeOK'
  BY <1>0 DEF IInv, TypeOK, RQ!QueueTypeOK
<1>3. TypeOK'
  BY <1>0, <1>1, <1>2 DEF IInv, TypeOK
<1>4. ArgInv' /\ LifeInv' /\ OwnershipProtocol' /\ QueueInv'
  BY <1>0 DEF IInv, ArgInv, LifeInv, OwnershipProtocol, QueueInv
<1>5. KnowledgeInv'
  BY <1>0 DEF IInv, KnowledgeInv, Knows
<1> QED
  BY <1>3, <1>4, <1>5 DEF IInv

LEMMA ThreadStepInv == ASSUME IInv, NEW t \in Threads, ThreadStep(t) PROVE IInv'
<1>1. CASE Run(t) \/ Finish(t) \/ WakeJoiner(t) \/ LoadState(t) \/ Exit(t)
  BY <1>1, ThreadInv
<1>2. CASE ExitClaim(t)
  <2>1. /\ t \in Actors /\ t \notin Clients
        /\ pc[t] = "claim" /\ RQ!Claim(t, t)
        /\ "DETACHED" \in state[t] /\ t \in finished
        /\ uaf' \subseteq Clients
        /\ UNCHANGED <<finished, retval, published, todo, seen, got, crashed>>
    BY <1>2, Distinct DEF ExitClaim, IInv, KnowledgeInv, LifeInv, TypeOK, Actors, myVars
  <2> QED
    BY <2>1, ClaimInv
<1>3. CASE RQ!CallerStep(t) /\ UNCHANGED myVars
  BY <1>3, CallerInv DEF Actors
<1> QED
  BY <1>1, <1>2, <1>3 DEF ThreadStep

LEMMA ClientStepInv == ASSUME IInv, NEW c \in Clients, ClientStep(c) PROVE IInv'
<1>1. CASE Create(c)
  BY <1>1, CreateInv
<1>2. CASE \/ CreateFails(c) \/ Publish(c)
           \/ Enter(c, "join", "join_load") \/ Enter(c, "detach", "detach_load")
  BY <1>2, CallsInv
<1>3. CASE JoinLoad(c) \/ JoinPoll(c) \/ JoinWait(c) \/ JoinRead(c)
  BY <1>3, JoinMoves
<1>4. CASE JoinCas(c)
  BY <1>4, JoinWins, CasRetries
<1>5. CASE JoinReap(c)
  BY <1>5, JoinReapInv
<1>6. CASE JoinUnmap(c) \/ JoinFree(c)
  BY <1>6, JoinReleases
<1>7. CASE DetachLoad(c) \/ DetachFinished(c)
  BY <1>7, DetachMoves
<1>8. CASE DetachCas(c)
  BY <1>8, DetachWins, CasRetries
<1>9. CASE DetachClaim(c)
  <2>1. /\ c \in Actors /\ c \notin Threads
        /\ pc[c] = "detach_claim" /\ RQ!Claim(c, arg[c])
        /\ UNCHANGED <<finished, retval, published, todo, seen, got, crashed>>
        /\ uaf' \in {uaf, uaf \cup {c}}
    BY <1>9, Distinct DEF DetachClaim, Touch, Actors
  <2>2. /\ arg[c] \in Threads /\ "DETACHED" \in state[arg[c]] /\ arg[c] \in finished
        /\ uaf' \subseteq Clients
    BY <2>1, InCall DEF Knows
  <2> QED
    BY <2>1, <2>2, ClaimInv
<1>10. CASE RQ!CallerStep(c) /\ UNCHANGED myVars
  BY <1>10, CallerInv DEF Actors
<1>11. CASE Return(c) \/ ReadErrno(c)
  BY <1>11, Returns
<1> QED
  BY <1>1, <1>2, <1>3, <1>4, <1>5, <1>6, <1>7, <1>8, <1>9, <1>10, <1>11 DEF ClientStep

LEMMA NextInv == IInv /\ [Next]_vars => IInv'
<1> SUFFICES ASSUME IInv, [Next]_vars PROVE IInv'
  OBVIOUS
<1>1. ASSUME NEW t \in Threads, ThreadStep(t) PROVE IInv'
  BY <1>1, ThreadStepInv
<1>2. ASSUME NEW t \in Threads, Fault(t) PROVE IInv'
  BY <1>2, FaultInv
<1>3. ASSUME NEW c \in Clients, ClientStep(c) PROVE IInv'
  BY <1>3, ClientStepInv
<1>4. ASSUME NEW r \in Reapers, ReaperStep(r) PROVE IInv'
  BY <1>4, ReaperInv DEF ReaperStep
<1>5. CASE Resting \/ UNCHANGED vars
  BY <1>5, StutterInv DEF Resting
<1> QED
  BY <1>1, <1>2, <1>3, <1>4, <1>5 DEF Next

LEMMA Inductive == Safe => []IInv
BY InitInv, NextInv, PTL DEF Safe

\* Every variable of the library keeps its type, for every set of threads and
\* clients and every program: in particular no stack stays mapped without the
\* descriptor that names it (mythread.c, queue.h).
THEOREM TypeCorrect == Safe => []TypeOK
<1>1. IInv => TypeOK
  BY DEF IInv
<1> QED
  BY <1>1, Inductive, PTL

\* No thread is both joined and detached, and only detached threads that have
\* finished reach the reaper (mythread_join, mythread_detach, thread_startup).
THEOREM ClaimedOnce == Safe => []OwnershipProtocol
<1>1. IInv => OwnershipProtocol
  BY DEF IInv
<1> QED
  BY <1>1, Inductive, PTL

-----------------------------------------------------------------------------
(* The hand-over of a detached thread                                      *)

\* Labels of the two sides that test each other's flag.
Exiting   == {"wake_joiner", "load_state", "claim"}
Detaching == {"detach_finished", "detach_claim"}

\* Whoever is responsible for a thread stays so, unless the step claims the
\* queue for it.
LEMMA HandoverKept ==
    ASSUME DetachHandover,
           finished' = finished,
           \A t \in Threads : "QUEUED" \in state[t] => "QUEUED" \in state'[t],
           \A t \in Threads : "DETACHED" \in state'[t] => "DETACHED" \in state[t],
           finished \subseteq Threads,
           \A t \in Threads :
              pc[t] \in Exiting /\ "DETACHED" \in state[t] =>
                 pc'[t] \in Exiting \/ "QUEUED" \in state'[t],
           \A c \in Clients :
              pc[c] \in Detaching =>
                 \/ pc'[c] \in Detaching /\ arg'[c] = arg[c]
                 \/ "QUEUED" \in state'[arg[c]]
                 \/ arg[c] \notin finished
    PROVE  DetachHandover'
BY DEF DetachHandover, Exiting, Detaching

LEMMA ThreadHandover ==
    ASSUME IInv, DetachHandover, NEW t \in Threads, ThreadStep(t)
    PROVE  DetachHandover'
<1>0. /\ t \in Actors /\ t \notin Clients
      /\ pc \in [Actors -> ThreadPCs \cup ClientPCs]
      /\ arg \in [Actors -> Threads \cup {NULL}]
      /\ state \in [Threads -> SUBSET RQ!Flags]
      /\ finished \subseteq Threads
      /\ Actors = Threads \cup Clients /\ Threads \cap Clients = {}
  BY Distinct DEF IInv, TypeOK, RQ!QueueTypeOK, Actors
<1>1. CASE Run(t) \/ LoadState(t) \/ Exit(t)
  BY <1>0, <1>1, HandoverKept
     DEF Run, LoadState, Exit, Goto, Exiting, Detaching, descVars, myVars
<1>2. CASE Finish(t)
  BY <1>0, <1>2 DEF Finish, Goto, DetachHandover, descVars
<1>3. CASE WakeJoiner(t)
  BY <1>0, <1>3, HandoverKept
     DEF WakeJoiner, Joiners, Goto, Exiting, Detaching, descVars, myVars
<1>4. CASE ExitClaim(t)
  BY <1>0, <1>4, HandoverKept
     DEF ExitClaim, RQ!Claim, RQ!Goto, Exiting, Detaching, myVars
<1>5. CASE RQ!CallerStep(t) /\ UNCHANGED myVars
  <2>1. pc[t] \in Working
    BY <1>0, <1>5, CallerWorks
  <2>2. arg[t] \in Threads
    BY <2>1 DEF IInv, ArgInv
  <2>3. /\ pc' = [pc EXCEPT ![t] = pc'[t]] /\ UNCHANGED <<state, arg>>
    BY <1>0, <1>5, <2>2, CallerStepEffect DEF IInv, CallerEffect
  <2>4. pc[t] \notin Exiting
    BY <2>1 DEF Exiting, Working, RQ!Starting, RQ!Enqueuing
  <2> QED
    BY <1>0, <1>5, <2>3, <2>4, HandoverKept DEF myVars
<1> QED
  BY <1>1, <1>2, <1>3, <1>4, <1>5 DEF ThreadStep

\* A client that is not detaching takes no responsibility with it.
LEMMA ClientHandover ==
    ASSUME IInv, DetachHandover, NEW c \in Clients, ClientStep(c)
    PROVE  DetachHandover'
<1>0. /\ c \in Actors /\ c \notin Threads
      /\ pc \in [Actors -> ThreadPCs \cup ClientPCs]
      /\ arg \in [Actors -> Threads \cup {NULL}]
      /\ state \in [Threads -> SUBSET RQ!Flags]
      /\ finished \subseteq Threads
      /\ pc[c] # "idle" => arg[c] \in Threads
      /\ Actors = Threads \cup Clients /\ Threads \cap Clients = {}
  BY Distinct DEF IInv, TypeOK, RQ!QueueTypeOK, Actors, ArgInv
<1> USE DEF Goto, Reject, descVars, envVars, myVars, Exiting, Detaching
<1>1. CASE Create(c)
  <2>1. Head(todo[c]).t \in Threads
    <3>1. todo[c] \in Seq(Calls) /\ todo[c] # <<>>
      BY <1>1 DEF Create, Calling, IInv, TypeOK
    <3>2. Head(todo[c]) \in Calls
      BY <3>1
    <3> QED
      BY <3>2 DEF Calls
  <2> QED
    BY <1>0, <1>1, <2>1, HandoverKept DEF Create, Calling
<1>2. CASE \/ CreateFails(c) \/ Publish(c)
           \/ Enter(c, "join", "join_load") \/ Enter(c, "detach", "detach_load")
           \/ Return(c) \/ ReadErrno(c)
  BY <1>0, <1>2, HandoverKept
     DEF CreateFails, Publish, Enter, Calling, Return, ReadErrno
<1>3. CASE \/ JoinLoad(c) \/ JoinPoll(c) \/ JoinWait(c) \/ JoinRead(c)
           \/ JoinUnmap(c) \/ JoinFree(c)
  BY <1>0, <1>3, HandoverKept
     DEF JoinLoad, JoinPoll, JoinWait, JoinRead, JoinUnmap, JoinFree
<1>4. CASE JoinCas(c)
  <2>1. /\ pc[c] = "join_cas"
        /\ \A p \in Actors \ {c} : pc'[p] = pc[p]
        /\ UNCHANGED <<arg, finished>>
        /\ \A t \in Threads : /\ "QUEUED" \in state[t] <=> "QUEUED" \in state'[t]
                              /\ "DETACHED" \in state[t] <=> "DETACHED" \in state'[t]
    BY <1>0, <1>4 DEF JoinCas
  <2> QED
    BY <1>0, <2>1, HandoverKept
<1>5. CASE JoinReap(c)
  <2>1. /\ pc[c] = "join_reap"
        /\ \A p \in Actors \ {c} : pc'[p] = pc[p]
        /\ UNCHANGED <<arg, finished>>
        /\ \A t \in Threads : /\ "QUEUED" \in state[t] <=> "QUEUED" \in state'[t]
                              /\ "DETACHED" \in state[t] <=> "DETACHED" \in state'[t]
    BY <1>0, <1>5 DEF JoinReap
  <2> QED
    BY <1>0, <2>1, HandoverKept
<1>6. CASE DetachLoad(c)
  <2>1. /\ pc[c] = "detach_load"
        /\ \A p \in Actors \ {c} : pc'[p] = pc[p]
        /\ UNCHANGED <<state, arg, finished>>
    BY <1>0, <1>6 DEF DetachLoad, DetachTest
  <2> QED
    BY <1>0, <2>1, HandoverKept
<1>7. CASE DetachCas(c) /\ state[arg[c]] = seen[c]
  <2>1. /\ pc' = [pc EXCEPT ![c] = "detach_finished"]
        /\ state' = [state EXCEPT ![arg[c]] = @ \cup {"DETACHED"}]
        /\ UNCHANGED <<arg, finished>> /\ pc[c] = "detach_cas"
    BY <1>0, <1>7 DEF DetachCas
  <2> QED
    BY <1>0, <2>1 DEF DetachHandover
<1>8. CASE DetachCas(c) /\ state[arg[c]] # seen[c]
  <2>1. /\ pc[c] = "detach_cas"
        /\ \A p \in Actors \ {c} : pc'[p] = pc[p]
        /\ UNCHANGED <<state, arg, finished>>
    BY <1>0, <1>8 DEF DetachCas, DetachTest
  <2> QED
    BY <1>0, <2>1, HandoverKept
<1>9. CASE DetachFinished(c)
  BY <1>0, <1>9, HandoverKept DEF DetachFinished
<1>10. CASE DetachClaim(c)
  BY <1>0, <1>10, HandoverKept DEF DetachClaim, RQ!Claim, RQ!Goto
<1>11. CASE RQ!CallerStep(c) /\ UNCHANGED myVars
  <2>1. pc[c] \in Working
    BY <1>0, <1>11, CallerWorks
  <2>2. arg[c] \in Threads /\ pc[c] \notin Detaching
    BY <1>0, <2>1 DEF Working, RQ!Starting, RQ!Enqueuing
  <2>3. /\ pc' = [pc EXCEPT ![c] = pc'[c]] /\ UNCHANGED <<state, arg>>
    BY <1>0, <1>11, <2>2, CallerStepEffect DEF IInv, CallerEffect
  <2> QED
    BY <1>0, <1>11, <2>2, <2>3, HandoverKept
<1> QED
  BY <1>1, <1>2, <1>3, <1>4, <1>5, <1>6, <1>7, <1>8, <1>9, <1>10, <1>11 DEF ClientStep

\* A detached thread that has finished and is not queued always has somebody
\* on the way to queue it: the thread and the detaching client cannot both
\* conclude that the other one will (thread_startup, mythread_detach).
THEOREM HandoverNeverDropped == Safe => []DetachHandover
<1>1. Init => DetachHandover
  BY DEF Init, DetachHandover
<1>2. IInv /\ DetachHandover /\ [Next]_vars => DetachHandover'
  <2> SUFFICES ASSUME IInv, DetachHandover, [Next]_vars PROVE DetachHandover'
    OBVIOUS
  <2>1. ASSUME NEW t \in Threads, ThreadStep(t) PROVE DetachHandover'
    BY <2>1, ThreadHandover
  <2>2. ASSUME NEW c \in Clients, ClientStep(c) PROVE DetachHandover'
    BY <2>2, ClientHandover
  <2>3. ASSUME NEW r \in Reapers, ReaperStep(r) PROVE DetachHandover'
    <3>1. /\ UNCHANGED <<pc, arg, finished>>
          /\ finished \subseteq Threads
          /\ \A t \in Threads :
                \/ state'[t] = state[t]
                \/ state'[t] = state[t] \cup {"REAPED"}
      BY <2>3, ReaperStepEffect DEF ReaperStep, ReaperEffect, myVars, IInv, TypeOK
    <3> QED
      BY <3>1, HandoverKept
  <2>4. ASSUME NEW t \in Threads, Fault(t) PROVE DetachHandover'
    BY <2>4 DEF Fault, DetachHandover, rqVars, descVars
  <2>5. CASE Resting \/ UNCHANGED vars
    BY <2>5 DEF Resting, DetachHandover, vars, rqVars, myVars, descVars
  <2> QED
    BY <2>1, <2>2, <2>3, <2>4, <2>5 DEF Next
<1> QED
  BY <1>1, <1>2, Inductive, PTL DEF Safe

-----------------------------------------------------------------------------
(* The safety half of the contract                                         *)

\* A step that leaves the ownership bits, the finished words, the memory and
\* the set of started threads alone is a stutter of the contract.
LEMMA ContractStutter ==
    ASSUME \A t \in Threads :
              /\ pc[t] = "none" <=> pc'[t] = "none"
              /\ "JOINED" \in state[t] <=> "JOINED" \in state'[t]
              /\ "DETACHED" \in state[t] <=> "DETACHED" \in state'[t],
           UNCHANGED <<finished, live, stack, crashed>>
    PROVE  UNCHANGED Contract!vars
<1>1. Life' = Life
  BY DEF Life
<1>2. Owner' = Owner
  BY DEF Owner
<1>3. Held' = Held
  BY DEF Held
<1> QED
  BY <1>1, <1>2, <1>3 DEF Contract!vars

\* Giving back the stack of a thread that is finished and claimed, or nothing.
LEMMA StackReleased ==
    ASSUME TypeOK, ~crashed, NEW t \in Threads, t \in finished, pc[t] # "none",
           "JOINED" \in state[t] \/ "DETACHED" \in state[t],
           stack' = stack \ {t},
           UNCHANGED <<state, finished, live, crashed>>,
           \A u \in Threads : pc[u] = "none" <=> pc'[u] = "none"
    PROVE  [Contract!Next]_Contract!vars
<1>1. CASE t \notin stack
  <2>1. stack' = stack
    BY <1>1
  <2> QED
    BY <2>1, ContractStutter
<1>2. CASE t \in stack
  <2>1. Life' = Life /\ Owner' = Owner
    BY DEF Life, Owner
  <2>2. Life[t] = "finished" /\ Owner[t] # "none"
    BY DEF Life, Owner
  <2>3. "stack" \in Held[t]
    BY <1>2 DEF Held
  <2>4. Held' = [Held EXCEPT ![t] = @ \ {"stack"}]
    <3>1. ASSUME NEW u \in Threads, u # t PROVE Held'[u] = Held[u]
      BY <3>1 DEF Held
    <3>2. Held'[t] = Held[t] \ {"stack"}
      BY DEF Held
    <3>3. Held' = [u \in Threads |-> Held'[u]] /\ Held = [u \in Threads |-> Held[u]]
      BY DEF Held
    <3> QED
      BY <3>1, <3>2, <3>3
  <2>5. Contract!ReleaseStack(t)
    BY <2>1, <2>2, <2>3, <2>4 DEF Contract!ReleaseStack
  <2> QED
    BY <2>5 DEF Contract!Next, Contract!Release
<1> QED
  BY <1>1, <1>2

\* Giving back the descriptor of a thread whose stack is gone, or nothing.
LEMMA DescriptorReleased ==
    ASSUME TypeOK, ~crashed, NEW t \in Threads, t \notin stack,
           live' = live \ {t},
           UNCHANGED <<state, finished, stack, crashed>>,
           \A u \in Threads : pc[u] = "none" <=> pc'[u] = "none"
    PROVE  [Contract!Next]_Contract!vars
<1>1. CASE t \notin live
  <2>1. live' = live
    BY <1>1
  <2> QED
    BY <2>1, ContractStutter
<1>2. CASE t \in live
  <2>1. Life' = Life /\ Owner' = Owner
    BY DEF Life, Owner
  <2>2. Held[t] = {"descriptor"} /\ Held'[t] = {}
    BY <1>2 DEF Held
  <2>3. Held' = [Held EXCEPT ![t] = {}]
    <3>1. ASSUME NEW u \in Threads, u # t PROVE Held'[u] = Held[u]
      BY <3>1 DEF Held
    <3>2. Held' = [u \in Threads |-> Held'[u]] /\ Held = [u \in Threads |-> Held[u]]
      BY DEF Held
    <3> QED
      BY <2>2, <3>1, <3>2
  <2>4. Contract!ReleaseDescriptor(t)
    BY <2>1, <2>2, <2>3 DEF Contract!ReleaseDescriptor
  <2> QED
    BY <2>4 DEF Contract!Next, Contract!Release
<1> QED
  BY <1>1, <1>2

\* A compare-and-swap that succeeds claims the thread for its caller.
LEMMA Claimed ==
    ASSUME TypeOK, ~crashed, NEW t \in Threads, pc[t] # "none",
           Unclaimed(state[t]),
           NEW flag, \/ flag = "JOINED" /\ Owner'[t] = "joined"
                     \/ flag = "DETACHED" /\ Owner'[t] = "detached",
           state' = [state EXCEPT ![t] = @ \cup {flag}],
           UNCHANGED <<finished, live, stack, crashed>>,
           \A u \in Threads : pc[u] = "none" <=> pc'[u] = "none"
    PROVE  Contract!Next
<1>1. Life' = Life /\ Held' = Held
  BY DEF Life, Held
<1>2. Life[t] # "absent"
  BY DEF Life
<1>3. Owner[t] = "none"
  BY DEF Owner, Unclaimed
<1>4. Owner' = [Owner EXCEPT ![t] = Owner'[t]]
  <2>1. ASSUME NEW u \in Threads, u # t PROVE Owner'[u] = Owner[u]
    BY <2>1 DEF Owner, TypeOK, RQ!QueueTypeOK
  <2>2. Owner' = [u \in Threads |-> Owner'[u]] /\ Owner = [u \in Threads |-> Owner[u]]
    BY DEF Owner
  <2> QED
    BY <2>1, <2>2
<1>5. Contract!Own(t, Owner'[t])
  BY <1>1, <1>2, <1>3, <1>4 DEF Contract!Own
<1> QED
  BY <1>5 DEF Contract!Next

LEMMA ThreadContractStep ==
    ASSUME IInv, NEW t \in Threads, ThreadStep(t)
    PROVE  [Contract!Next]_Contract!vars
<1>0. /\ t \in Actors /\ t \notin Clients /\ ~crashed
      /\ pc \in [Actors -> ThreadPCs \cup ClientPCs]
      /\ state \in [Threads -> SUBSET RQ!Flags]
      /\ Actors = Threads \cup Clients /\ Threads \cap Clients = {}
  BY Distinct DEF IInv, TypeOK, RQ!QueueTypeOK, Actors, ThreadStep
<1>1. CASE Run(t) \/ WakeJoiner(t) \/ LoadState(t) \/ Exit(t)
  BY <1>0, <1>1, ContractStutter
     DEF Run, WakeJoiner, Joiners, LoadState, Exit, Goto, descVars, myVars
<1>2. CASE Finish(t)
  <2>1. /\ pc[t] = "finish" /\ pc' = [pc EXCEPT ![t] = "wake_joiner"]
        /\ finished' = finished \cup {t} /\ t \notin finished
        /\ UNCHANGED <<state, live, stack, crashed>>
    BY <1>2 DEF Finish, Goto, descVars, IInv, LifeInv
  <2>2. Owner' = Owner /\ Held' = Held
    BY <2>1 DEF Owner, Held
  <2>3. Life[t] = "running" /\ Life' = [Life EXCEPT ![t] = "finished"]
    BY <1>0, <2>1 DEF Life
  <2>4. Contract!Finish(t)
    BY <2>2, <2>3 DEF Contract!Finish
  <2> QED
    BY <1>0, <2>1, <2>4 DEF Contract!Next
<1>3. CASE ExitClaim(t)
  BY <1>0, <1>3, ContractStutter DEF ExitClaim, RQ!Claim, RQ!Goto, myVars
<1>4. CASE RQ!CallerStep(t) /\ UNCHANGED myVars
  <2>1. pc[t] \in Working /\ arg[t] \in Threads
    BY <1>0, <1>4, CallerWorks DEF IInv, ArgInv
  <2>2. CallerEffect(t)
    BY <1>0, <1>4, <2>1, CallerStepEffect DEF IInv
  <2>3. "none" \notin Working \cup {"returned"}
    BY DEF Working, RQ!Starting, RQ!Enqueuing
  <2> QED
    BY <1>0, <1>4, <2>1, <2>2, <2>3, ContractStutter DEF CallerEffect, myVars
<1> QED
  BY <1>1, <1>2, <1>3, <1>4 DEF ThreadStep

LEMMA ClientContractStep ==
    ASSUME IInv, NEW c \in Clients, ClientStep(c)
    PROVE  [Contract!Next]_Contract!vars
<1>0. /\ c \in Actors /\ c \notin Threads /\ ~crashed /\ TypeOK
      /\ pc \in [Actors -> ThreadPCs \cup ClientPCs]
      /\ state \in [Threads -> SUBSET RQ!Flags]
      /\ pc[c] # "idle" => /\ arg[c] \in Threads /\ pc[arg[c]] # "none"
                           /\ Knows(c, pc[c])
      /\ Actors = Threads \cup Clients /\ Threads \cap Clients = {}
  BY Distinct DEF IInv, TypeOK, RQ!QueueTypeOK, Actors, ArgInv, KnowledgeInv, ClientStep
<1> USE DEF Goto, Reject, descVars, myVars
<1>1. CASE Create(c)
  <2> DEFINE t == Head(todo[c]).t
  <2>1. /\ pc[t] = "none"
        /\ pc' = [pc EXCEPT ![c] = "publish", ![t] = "run"]
        /\ live' = live \cup {t} /\ stack' = stack \cup {t}
        /\ UNCHANGED <<state, finished, crashed>>
        /\ todo[c] \in Seq(Calls) /\ todo[c] # <<>>
    BY <1>0, <1>1 DEF Create, Calling, TypeOK
  <2>2. Head(todo[c]) \in Calls
    BY <2>1
  <2>3. t \in Threads /\ t \notin finished
    BY <2>1, <2>2 DEF Calls, IInv, LifeInv
  <2> HIDE DEF t
  <2>4. Owner' = Owner
    BY <2>1 DEF Owner
  <2>5. Life[t] = "absent" /\ Life' = [Life EXCEPT ![t] = "running"]
    BY <1>0, <2>1, <2>3 DEF Life
  <2>6. Held' = [Held EXCEPT ![t] = {"stack", "descriptor"}]
    <3>1. ASSUME NEW u \in Threads, u # t PROVE Held'[u] = Held[u]
      BY <2>1, <3>1 DEF Held
    <3>2. Held'[t] = {"stack", "descriptor"}
      BY <2>1, <2>3 DEF Held
    <3>3. Held' = [u \in Threads |-> Held'[u]] /\ Held = [u \in Threads |-> Held[u]]
      BY DEF Held
    <3> QED
      BY <3>1, <3>2, <3>3
  <2>7. Contract!Start(t)
    BY <2>4, <2>5, <2>6 DEF Contract!Start, Contract!Resources
  <2> QED
    BY <1>0, <2>1, <2>3, <2>7 DEF Contract!Next
<1>2. CASE \/ CreateFails(c) \/ Publish(c)
           \/ Enter(c, "join", "join_load") \/ Enter(c, "detach", "detach_load")
           \/ Return(c) \/ ReadErrno(c)
  BY <1>0, <1>2, ContractStutter
     DEF CreateFails, Publish, Enter, Calling, Return, ReadErrno
<1>3. CASE JoinLoad(c) \/ JoinPoll(c) \/ JoinWait(c) \/ JoinRead(c)
  BY <1>0, <1>3, ContractStutter DEF JoinLoad, JoinPoll, JoinWait, JoinRead
<1>4. CASE JoinCas(c) /\ state[arg[c]] = seen[c]
  <2> DEFINE t == arg[c]
  <2>1. /\ pc[c] = "join_cas"
        /\ state' = [state EXCEPT ![t] = @ \cup {"JOINED"}]
        /\ \A u \in Threads : pc[u] = "none" <=> pc'[u] = "none"
        /\ UNCHANGED <<finished, live, stack, crashed>>
    BY <1>0, <1>4 DEF JoinCas
  <2>2. t \in Threads /\ pc[t] # "none" /\ Unclaimed(state[t])
    BY <1>0, <1>4, <2>1 DEF Knows
  <2>3. Owner'[t] = "joined"
    BY <1>0, <2>1, <2>2 DEF Owner
  <2> QED
    BY <1>0, <2>1, <2>2, <2>3, Claimed
<1>5. CASE JoinCas(c) /\ state[arg[c]] # seen[c]
  <2>1. /\ \A u \in Threads : pc[u] = "none" <=> pc'[u] = "none"
        /\ UNCHANGED <<state, finished, live, stack, crashed>>
    BY <1>0, <1>5 DEF JoinCas
  <2> QED
    BY <2>1, ContractStutter
<1>6. CASE JoinReap(c)
  <2>1. /\ \A u \in Threads : pc[u] = "none" <=> pc'[u] = "none"
        /\ state' = [state EXCEPT ![arg[c]] = @ \cup {"REAPED"}]
        /\ UNCHANGED <<finished, live, stack, crashed>>
    BY <1>0, <1>6 DEF JoinReap
  <2> QED
    BY <1>0, <2>1, ContractStutter
<1>7. CASE JoinUnmap(c)
  <2>1. /\ pc[c] = "join_unmap" /\ stack' = stack \ {arg[c]}
        /\ \A u \in Threads : pc[u] = "none" <=> pc'[u] = "none"
        /\ UNCHANGED <<state, finished, live, crashed>>
    BY <1>0, <1>7 DEF JoinUnmap
  <2>2. /\ arg[c] \in Threads /\ pc[arg[c]] # "none"
        /\ arg[c] \in finished /\ "JOINED" \in state[arg[c]]
    BY <1>0, <2>1 DEF Knows, Collecting
  <2> QED
    BY <1>0, <2>1, <2>2, StackReleased
<1>8. CASE JoinFree(c)
  <2>1. /\ pc[c] = "join_free" /\ live' = live \ {arg[c]}
        /\ \A u \in Threads : pc[u] = "none" <=> pc'[u] = "none"
        /\ UNCHANGED <<state, finished, stack, crashed>>
    BY <1>0, <1>8 DEF JoinFree
  <2>2. arg[c] \in Threads /\ arg[c] \notin stack
    BY <1>0, <2>1 DEF Knows
  <2> QED
    BY <1>0, <2>1, <2>2, DescriptorReleased
<1>9. CASE DetachLoad(c)
  <2>1. /\ \A u \in Threads : pc[u] = "none" <=> pc'[u] = "none"
        /\ UNCHANGED <<state, finished, live, stack, crashed>>
    BY <1>0, <1>9 DEF DetachLoad, DetachTest
  <2> QED
    BY <2>1, ContractStutter
<1>10. CASE DetachCas(c) /\ state[arg[c]] = seen[c]
  <2> DEFINE t == arg[c]
  <2>1. /\ pc[c] = "detach_cas"
        /\ state' = [state EXCEPT ![t] = @ \cup {"DETACHED"}]
        /\ \A u \in Threads : pc[u] = "none" <=> pc'[u] = "none"
        /\ UNCHANGED <<finished, live, stack, crashed>>
    BY <1>0, <1>10 DEF DetachCas
  <2>2. t \in Threads /\ pc[t] # "none" /\ Unclaimed(state[t])
    BY <1>0, <1>10, <2>1 DEF Knows
  <2>3. Owner'[t] = "detached"
    BY <1>0, <2>1, <2>2 DEF Owner, Unclaimed
  <2> QED
    BY <1>0, <2>1, <2>2, <2>3, Claimed
<1>11. CASE DetachCas(c) /\ state[arg[c]] # seen[c]
  <2>1. /\ \A u \in Threads : pc[u] = "none" <=> pc'[u] = "none"
        /\ UNCHANGED <<state, finished, live, stack, crashed>>
    BY <1>0, <1>11 DEF DetachCas, DetachTest
  <2> QED
    BY <2>1, ContractStutter
<1>12. CASE DetachFinished(c)
  BY <1>0, <1>12, ContractStutter DEF DetachFinished
<1>13. CASE DetachClaim(c)
  BY <1>0, <1>13, ContractStutter DEF DetachClaim, RQ!Claim, RQ!Goto
<1>14. CASE RQ!CallerStep(c) /\ UNCHANGED myVars
  <2>1. pc[c] \in Working
    BY <1>0, <1>14, CallerWorks
  <2>2. arg[c] \in Threads
    BY <1>0, <2>1 DEF Working, RQ!Starting, RQ!Enqueuing
  <2>3. CallerEffect(c)
    BY <1>0, <1>14, <2>2, CallerStepEffect
  <2> QED
    BY <1>0, <1>14, <2>3, ContractStutter DEF CallerEffect
<1>15. JoinCas(c) => [Contract!Next]_Contract!vars
  BY <1>4, <1>5
<1>16. DetachCas(c) => [Contract!Next]_Contract!vars
  BY <1>10, <1>11
<1> HIDE DEF Goto, Reject, descVars
<1> QED
  BY <1>1, <1>2, <1>3, <1>6, <1>7, <1>8, <1>9, <1>12, <1>13, <1>14, <1>15, <1>16 DEF ClientStep

LEMMA ReaperContractStep ==
    ASSUME IInv, NEW r \in Reapers, ReaperStep(r)
    PROVE  [Contract!Next]_Contract!vars
<1>0. /\ TypeOK /\ ~crashed
      /\ RQ!ReaperStep(r)
      /\ UNCHANGED <<pc, finished, crashed>>
      /\ \A u \in Threads :
            \/ state'[u] = state[u]
            \/ state'[u] = state[u] \cup {"REAPED"}
  BY ReaperStepEffect DEF IInv, ReaperStep, ReaperEffect, myVars
<1>1. CASE RQ!UnmapStack(r)
  <2>1. rpc[r] = "unmap" /\ stack' = stack \ {current[r]} /\ UNCHANGED <<state, live>>
    BY <1>1 DEF RQ!UnmapStack
  <2>2. current[r] \in Threads /\ "QUEUED" \in state[current[r]]
    BY <2>1 DEF IInv, TypeOK, RQ!QueueTypeOK, QueueInv
  <2>3. /\ current[r] \in finished /\ "DETACHED" \in state[current[r]]
        /\ pc[current[r]] # "none"
    BY <2>2 DEF IInv, OwnershipProtocol, LifeInv
  <2> QED
    BY <1>0, <2>1, <2>2, <2>3, StackReleased
<1>2. CASE RQ!FreeThread(r)
  <2>1. rpc[r] = "free" /\ live' = live \ {current[r]} /\ UNCHANGED <<state, stack>>
    BY <1>2 DEF RQ!FreeThread
  <2>2. current[r] \in Threads /\ current[r] \notin stack
    BY <2>1 DEF IInv, TypeOK, RQ!QueueTypeOK, QueueInv
  <2> QED
    BY <1>0, <2>1, <2>2, DescriptorReleased
<1>3. CASE ~RQ!UnmapStack(r) /\ ~RQ!FreeThread(r)
  <2>1. UNCHANGED <<live, stack>>
    BY <1>0, <1>3
       DEF RQ!ReaperStep, RQ!LoadCount, RQ!WaitCount, RQ!DequeueLock, RQ!TakeHead,
           RQ!ClearTail, RQ!DequeueUnlock, RQ!Reap, RQ!Advance, RQ!SubCount, RQ!descVars
  <2> QED
    BY <1>0, <2>1, ContractStutter
<1> QED
  BY <1>1, <1>2, <1>3

\* The library implements the safety half of its contract: a thread is claimed
\* by one join or one detach; its stack, then its descriptor, are given back
\* once, and only when the thread is finished and claimed; and the only other
\* thing that can happen is the end of the process.
THEOREM Implementation == Safe => ImplementsContract
<1>1. Init => Contract!Init
  <2> SUFFICES ASSUME Init PROVE Contract!Init
    OBVIOUS
  <2>1. Life = [t \in Threads |-> "absent"]
    BY DEF Init, Life, Actors
  <2>2. Owner = [t \in Threads |-> "none"]
    BY DEF Init, Owner
  <2>3. Held = [t \in Threads |-> {}]
    BY DEF Init, Held
  <2>4. crashed = FALSE
    BY DEF Init
  <2> QED
    BY <2>1, <2>2, <2>3, <2>4, Zenon DEF Contract!Init
<1>2. IInv /\ [Next]_vars => [Contract!Next]_Contract!vars
  <2> SUFFICES ASSUME IInv, [Next]_vars PROVE [Contract!Next]_Contract!vars
    OBVIOUS
  <2>1. ASSUME NEW t \in Threads, ThreadStep(t) PROVE [Contract!Next]_Contract!vars
    BY <2>1, ThreadContractStep
  <2>2. ASSUME NEW c \in Clients, ClientStep(c) PROVE [Contract!Next]_Contract!vars
    BY <2>2, ClientContractStep
  <2>3. ASSUME NEW r \in Reapers, ReaperStep(r) PROVE [Contract!Next]_Contract!vars
    BY <2>3, ReaperContractStep
  <2>4. ASSUME NEW t \in Threads, Fault(t) PROVE [Contract!Next]_Contract!vars
    <3>1. Life' = Life /\ Owner' = Owner /\ Held' = Held
      BY <2>4 DEF Fault, rqVars, descVars, Life, Owner, Held
    <3>2. ~crashed /\ crashed' = TRUE
      BY <2>4 DEF Fault
    <3> QED
      BY <3>1, <3>2, Zenon DEF Contract!Next, Contract!Crash
  <2>5. CASE Resting \/ UNCHANGED vars
    BY <2>5, ContractStutter DEF Resting, vars, rqVars, myVars, descVars
  <2> QED
    BY <2>1, <2>2, <2>3, <2>4, <2>5 DEF Next
<1> QED
  BY <1>1, <1>2, Inductive, PTL DEF Safe, ImplementsContract, Contract!Safe

=============================================================================
