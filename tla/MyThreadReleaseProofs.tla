------------------------ MODULE MyThreadReleaseProofs ------------------------
(***************************************************************************)
(* Proofs about the end of a thread's life, for every set of threads,      *)
(* clients and reapers and every program: a joiner sleeps only while its   *)
(* wake-up is still to come, a join delivers the thread's value, one       *)
(* joiner or one reaper releases a thread, and the library uses the reap   *)
(* queue as its component allows, so that the queue's promises hold here.  *)
(*                                                                         *)
(* The invariant of MyThreadProofs is the ground: the conjuncts below are  *)
(* inductive relative to it.                                               *)
(***************************************************************************)
EXTENDS MyThreadProofs, FiniteSetTheorems

\* Control points of the client that has claimed a thread for its join.
Owning == Joining \cup Collecting

-----------------------------------------------------------------------------
(* The inductive invariant                                                 *)

\* A thread has one joiner, which sleeps only ahead of the wake-up and reads
\* the value only after it was written.
JoinInv ==
    /\ \A c, d \in Clients :
          pc[c] \in Owning /\ pc[d] \in Owning /\ arg[c] = arg[d] => c = d
    /\ \A c \in Clients :
          /\ pc[c] = "join_asleep" => pc[arg[c]] \in {"run", "finish", "wake_joiner"}
          /\ pc[c] \in {"join_reap", "join_unmap", "join_free"} => got[c] = arg[c]
    /\ \A t \in Threads : pc[t] \notin {"none", "run"} => retval[t] = t

\* MT_REAPED is the right to release: a thread without it is whole, and the
\* joiner or the reaper that has set it finds the thread as it left it.
ReleaseInv ==
    /\ \A t \in Threads : pc[t] # "none" /\ "REAPED" \notin state[t] => t \in stack
    /\ \A c \in Clients :
          /\ pc[c] \in {"join_unmap", "join_free"} => "REAPED" \in state[arg[c]]
          /\ pc[c] = "join_unmap" => arg[c] \in stack
          /\ pc[c] = "join_free" => arg[c] \in live
    /\ \A r \in Reapers :
          /\ rpc[r] \in {"unmap", "free"} => "REAPED" \in state[current[r]]
          /\ rpc[r] = "unmap" => current[r] \in stack
          /\ rpc[r] = "free" => current[r] \in live
    /\ \A r, q \in Reapers :
          rpc[r] \in {"unmap", "free"} /\ rpc[q] \in {"unmap", "free"}
             /\ current[r] = current[q] => r = q

LEMMA InitEnd == Init => JoinInv /\ ReleaseInv
<1> SUFFICES ASSUME Init PROVE JoinInv /\ ReleaseInv
  OBVIOUS
<1>1. JoinInv
  BY Distinct DEF Init, JoinInv, Owning, Joining, Collecting, Actors
<1>2. ReleaseInv
  BY Distinct DEF Init, RQ!InitQueue, ReleaseInv, Actors
<1> QED
  BY <1>1, <1>2

\* What every step starts from.
LEMMA Ground ==
    ASSUME IInv
    PROVE  /\ pc \in [Actors -> ThreadPCs \cup ClientPCs]
           /\ arg \in [Actors -> Threads \cup {NULL}]
           /\ got \in [Clients -> Threads \cup {NULL}]
           /\ retval \in [Threads -> Threads \cup {NULL}]
           /\ state \in [Threads -> SUBSET RQ!Flags]
           /\ rpc \in [Reapers -> RQ!ReaperPCs]
           /\ current \in [Reapers -> Threads \cup {NULL}]
           /\ stack \subseteq live
           /\ Actors = Threads \cup Clients /\ Threads \cap Clients = {}
           /\ \A c \in Clients : pc[c] \in Owning =>
                 /\ arg[c] \in Threads /\ pc[arg[c]] # "none"
                 /\ "JOINED" \in state[arg[c]] /\ "QUEUED" \notin state[arg[c]]
           /\ \A r \in Reapers : rpc[r] \in {"reap", "unmap", "free"} =>
                 /\ current[r] \in Threads /\ pc[current[r]] # "none"
                 /\ "QUEUED" \in state[current[r]]
<1>1. /\ pc \in [Actors -> ThreadPCs \cup ClientPCs]
      /\ arg \in [Actors -> Threads \cup {NULL}]
      /\ got \in [Clients -> Threads \cup {NULL}]
      /\ retval \in [Threads -> Threads \cup {NULL}]
      /\ state \in [Threads -> SUBSET RQ!Flags]
      /\ rpc \in [Reapers -> RQ!ReaperPCs]
      /\ current \in [Reapers -> Threads \cup {NULL}]
      /\ stack \subseteq live
      /\ Actors = Threads \cup Clients /\ Threads \cap Clients = {}
  BY Distinct DEF IInv, TypeOK, RQ!QueueTypeOK, Actors
<1>2. ASSUME NEW c \in Clients, pc[c] \in Owning
      PROVE  /\ arg[c] \in Threads /\ pc[arg[c]] # "none"
             /\ "JOINED" \in state[arg[c]] /\ "QUEUED" \notin state[arg[c]]
  <2>1. pc[c] # "idle"
    BY <1>2 DEF Owning, Joining, Collecting
  <2>2. arg[c] \in Threads /\ pc[arg[c]] # "none" /\ Knows(c, pc[c])
    BY <2>1 DEF IInv, ArgInv, KnowledgeInv
  <2> QED
    BY <1>2, <2>2 DEF Knows, Owning, IInv, OwnershipProtocol
<1>3. ASSUME NEW r \in Reapers, rpc[r] \in {"reap", "unmap", "free"}
      PROVE  /\ current[r] \in Threads /\ pc[current[r]] # "none"
             /\ "QUEUED" \in state[current[r]]
  <2>1. current[r] \in Threads /\ "QUEUED" \in state[current[r]]
    BY <1>1, <1>3 DEF IInv, QueueInv
  <2> QED
    BY <2>1 DEF IInv, LifeInv
<1> QED
  BY <1>1, <1>2, <1>3

-----------------------------------------------------------------------------
(* The steps of a thread, and those of any actor on its way to the queue   *)

LEMMA CallerEnd ==
    ASSUME IInv, JoinInv, ReleaseInv, NEW p \in Actors, arg[p] \in Threads,
           RQ!CallerStep(p), UNCHANGED myVars
    PROVE  (JoinInv /\ ReleaseInv)'
<1>1. CallerEffect(p)
  BY CallerStepEffect DEF IInv
<1>2. /\ pc[p] \notin Owning \cup {"none", "run", "finish", "wake_joiner"}
      /\ pc'[p] \notin Owning \cup {"none", "run"}
      /\ \A a \in Actors \ {p} : pc'[a] = pc[a]
      /\ UNCHANGED <<state, live, stack, arg, current, got, retval>>
      /\ \A r \in Reapers : rpc'[r] = rpc[r] \/ rpc'[r] \notin {"unmap", "free"}
  BY <1>1, Ground DEF CallerEffect, Working, RQ!Starting, RQ!Enqueuing, Owning, Joining,
                      Collecting, myVars
<1>3. \A c \in Clients : pc'[c] \in Owning => pc'[c] = pc[c]
  BY <1>2, Ground
<1>4. JoinInv'
  <2>1. \A c \in Clients :
           pc'[c] = "join_asleep" => pc'[arg[c]] \in {"run", "finish", "wake_joiner"}
    BY <1>2, <1>3, Ground DEF JoinInv, Owning, Joining
  <2>2. \A t \in Threads : pc'[t] \notin {"none", "run"} => retval[t] = t
    BY <1>2, Ground DEF JoinInv
  <2> QED
    BY <1>2, <1>3, <2>1, <2>2 DEF JoinInv, Owning, Collecting
<1>5. ReleaseInv'
  BY <1>2, <1>3, Ground DEF ReleaseInv, Owning, Collecting
<1> QED
  BY <1>4, <1>5

LEMMA ThreadEnd ==
    ASSUME IInv, JoinInv, ReleaseInv, NEW t \in Threads, ThreadStep(t)
    PROVE  (JoinInv /\ ReleaseInv)'
<1>0. t \in Actors /\ t \notin Clients
  BY Ground
<1> USE DEF Goto, descVars, queueVars, reaperVars, envVars, myVars
<1>1. CASE Run(t) \/ Finish(t) \/ LoadState(t) \/ Exit(t)
  <2>1. /\ UNCHANGED <<state, live, stack, arg, rpc, current, got>>
        /\ \A a \in Actors \ {t} : pc'[a] = pc[a]
        /\ \A u \in Threads \ {t} : retval'[u] = retval[u]
        /\ pc[t] # "none" /\ pc'[t] # "none"
        /\ pc[t] = "run" => retval'[t] = t /\ pc'[t] = "finish"
        /\ pc[t] # "run" => retval'[t] = retval[t]
        /\ pc[t] = "finish" => pc'[t] = "wake_joiner"
        /\ pc[t] # "wake_joiner"
    BY <1>0, <1>1, Ground DEF Run, Finish, LoadState, Exit
  <2>2. JoinInv'
    <3>1. \A c \in Clients : pc'[c] = pc[c]
      BY <1>0, <2>1, Ground
    <3>2. \A c \in Clients :
             pc'[c] = "join_asleep" => pc'[arg[c]] \in {"run", "finish", "wake_joiner"}
      BY <1>0, <2>1, <3>1, Ground DEF JoinInv, Owning, Joining
    <3>3. \A u \in Threads : pc'[u] \notin {"none", "run"} => retval'[u] = u
      BY <1>0, <2>1, Ground DEF JoinInv
    <3> QED
      BY <2>1, <3>1, <3>2, <3>3 DEF JoinInv
  <2>3. ReleaseInv'
    BY <1>0, <2>1, Ground DEF ReleaseInv
  <2> QED
    BY <2>2, <2>3
<1>2. CASE WakeJoiner(t)
  <2>1. /\ UNCHANGED <<state, live, stack, arg, rpc, current, got, retval>>
        /\ pc[t] = "wake_joiner"
        /\ \/ /\ pc' = [pc EXCEPT ![t] = "load_state"]
              /\ \A c \in Clients : ~(pc[c] = "join_asleep" /\ arg[c] = t)
           \/ \E c \in Clients :
                 /\ pc[c] = "join_asleep" /\ arg[c] = t
                 /\ pc' = [pc EXCEPT ![t] = "load_state", ![c] = "join_poll"]
    BY <1>2 DEF WakeJoiner, Joiners
  <2>2. /\ \A c \in Clients : /\ pc'[c] = pc[c] \/ (pc[c] \in Owning /\ pc'[c] = "join_poll")
                              /\ pc'[c] = "join_asleep" => pc'[c] = pc[c] /\ arg[c] # t
        /\ \A u \in Threads \ {t} : pc'[u] = pc[u]
        /\ pc'[t] = "load_state"
    BY <1>0, <2>1, Ground DEF JoinInv, Owning, Joining
  <2>3. JoinInv'
    <3>1. \A c \in Clients : pc'[c] \in Owning => pc[c] \in Owning
      BY <2>2
    <3>2. \A c \in Clients :
             pc'[c] = "join_asleep" => pc'[arg[c]] \in {"run", "finish", "wake_joiner"}
      BY <2>1, <2>2, Ground DEF JoinInv, Owning, Joining
    <3>3. \A u \in Threads : pc'[u] \notin {"none", "run"} => retval'[u] = u
      BY <2>1, <2>2 DEF JoinInv
    <3>4. \A c \in Clients : pc'[c] \in {"join_reap", "join_unmap", "join_free"} =>
             got'[c] = arg'[c]
      BY <2>1, <2>2 DEF JoinInv
    <3> QED
      BY <2>1, <3>1, <3>2, <3>3, <3>4 DEF JoinInv
  <2>4. ReleaseInv'
    BY <2>1, <2>2 DEF ReleaseInv
  <2> QED
    BY <2>3, <2>4
<1>3. CASE ExitClaim(t)
  <2>1. /\ UNCHANGED <<live, stack, rpc, current, got, retval>>
        /\ pc[t] = "claim"
        /\ \A a \in Actors \ {t} : pc'[a] = pc[a] /\ arg'[a] = arg[a]
        /\ pc'[t] \in {"returned", "start_reaper"}
        /\ \A u \in Threads : state'[u] = state[u] \/ state'[u] = state[u] \cup {"QUEUED"}
    BY <1>0, <1>3, Ground DEF ExitClaim, RQ!Claim, RQ!Goto, RQ!queueVars, RQ!reaperVars,
                              RQ!envVars
  <2>2. JoinInv'
    <3>1. \A c \in Clients : pc'[c] = pc[c] /\ arg'[c] = arg[c]
      BY <1>0, <2>1, Ground
    <3>2. \A c \in Clients :
             pc'[c] = "join_asleep" => pc'[arg'[c]] \in {"run", "finish", "wake_joiner"}
      BY <1>0, <2>1, <3>1, Ground DEF JoinInv, Owning, Joining
    <3>3. \A u \in Threads : pc'[u] \notin {"none", "run"} => retval'[u] = u
      BY <1>0, <2>1, Ground DEF JoinInv
    <3> QED
      BY <2>1, <3>1, <3>2, <3>3 DEF JoinInv
  <2>3. ReleaseInv'
    <3>1. \A u \in Threads : "REAPED" \in state'[u] <=> "REAPED" \in state[u]
      BY <2>1
    <3>2. \A c \in Clients : /\ pc'[c] = pc[c] /\ arg'[c] = arg[c]
                             /\ pc[c] \in {"join_unmap", "join_free"} => arg[c] \in Threads
      BY <1>0, <2>1, Ground DEF Owning, Collecting
    <3>3. \A u \in Threads : pc'[u] # "none" => pc[u] # "none"
      BY <1>0, <2>1, Ground
    <3> QED
      BY <2>1, <3>1, <3>2, <3>3, Ground DEF ReleaseInv
  <2> QED
    BY <2>2, <2>3
<1>4. CASE RQ!CallerStep(t) /\ UNCHANGED myVars
  <2>1. arg[t] \in Threads
    BY <1>0, <1>4, CallerWorks DEF IInv, ArgInv
  <2> HIDE DEF myVars
  <2> QED
    BY <1>0, <1>4, <2>1, CallerEnd
<1> QED
  BY <1>1, <1>2, <1>3, <1>4 DEF ThreadStep

-----------------------------------------------------------------------------
(* The steps of a reaper                                                   *)

\* The reaper that sets MT_REAPED releases the thread; another that finds the
\* bit set goes on, and no joiner has a thread that was queued.
LEMMA ReaperEnd ==
    ASSUME IInv, JoinInv, ReleaseInv, NEW r \in Reapers, ReaperStep(r)
    PROVE  (JoinInv /\ ReleaseInv)'
<1>0. RQ!ReaperStep(r) /\ ReaperEffect(r) /\ UNCHANGED <<pc, arg, got, retval>>
  BY ReaperStepEffect DEF ReaperStep, ReaperEffect, myVars
<1>1. JoinInv'
  BY <1>0 DEF JoinInv
<1> USE DEF RQ!RGoto, RQ!descVars, RQ!queueVars, RQ!callerVars, RQ!reaperVars, RQ!envVars
<1>2. CASE RQ!Reap(r)
  <2> DEFINE t == current[r]
  <2>1. /\ t \in Threads /\ pc[t] # "none"
        /\ state' = [state EXCEPT ![t] = @ \cup {"REAPED"}]
        /\ rpc' = [rpc EXCEPT ![r] = IF "REAPED" \in state[t] THEN "advance" ELSE "unmap"]
        /\ UNCHANGED <<live, stack, current, pc, arg>>
    BY <1>0, <1>2, Ground DEF RQ!Reap
  <2>2. "REAPED" \notin state[t] =>
           \A q \in Reapers : rpc[q] \in {"unmap", "free"} => current[q] # t
    BY DEF ReleaseInv
  <2>3. /\ \A u \in Threads : "REAPED" \in state'[u] <=> u = t \/ "REAPED" \in state[u]
        /\ \A q \in Reapers \ {r} : rpc'[q] = rpc[q]
        /\ rpc'[r] \in {"advance", "unmap"}
        /\ rpc'[r] = "unmap" => "REAPED" \notin state[t] /\ t \in stack
    BY <2>1, Ground DEF ReleaseInv
  <2> HIDE DEF t
  <2>4. \A q \in Reapers : rpc'[q] \in {"unmap", "free"} =>
           \/ q = r /\ current'[q] = t
           \/ q # r /\ rpc[q] = rpc'[q] /\ current'[q] \in Threads
    BY <2>1, <2>3, Ground DEF t
  <2>5. ASSUME NEW q \in Reapers, rpc'[q] \in {"unmap", "free"}
        PROVE  /\ "REAPED" \in state'[current'[q]]
               /\ rpc'[q] = "unmap" => current'[q] \in stack'
               /\ rpc'[q] = "free" => current'[q] \in live'
    BY <2>1, <2>3, <2>4, <2>5 DEF ReleaseInv
  <2>6. ASSUME NEW q \in Reapers, NEW s \in Reapers,
               rpc'[q] \in {"unmap", "free"}, rpc'[s] \in {"unmap", "free"},
               current'[q] = current'[s]
        PROVE  q = s
    BY <2>1, <2>2, <2>3, <2>6 DEF ReleaseInv, t
  <2>7. \A u \in Threads : pc'[u] # "none" /\ "REAPED" \notin state'[u] => u \in stack'
    BY <2>1, <2>3 DEF ReleaseInv
  <2> QED
    BY <1>1, <2>1, <2>5, <2>6, <2>7 DEF ReleaseInv
<1>3. CASE RQ!UnmapStack(r) \/ RQ!FreeThread(r)
  <2> DEFINE t == current[r]
  <2>1. /\ t \in Threads /\ "QUEUED" \in state[t] /\ "REAPED" \in state[t]
        /\ rpc[r] \in {"unmap", "free"}
        /\ \/ /\ rpc[r] = "unmap" /\ stack' = stack \ {t} /\ live' = live
              /\ rpc' = [rpc EXCEPT ![r] = "free"]
           \/ /\ rpc[r] = "free" /\ stack' = stack /\ live' = live \ {t}
              /\ rpc' = [rpc EXCEPT ![r] = "advance"]
        /\ UNCHANGED <<state, current, pc, arg>>
    BY <1>0, <1>3, Ground DEF RQ!UnmapStack, RQ!FreeThread, ReleaseInv
  <2>2. \A c \in Clients : pc[c] \in Owning => arg[c] # t
    BY <2>1, Ground
  <2>3. \A q \in Reapers \ {r} : /\ rpc[q] \in {"unmap", "free"} => current[q] # t
                                 /\ rpc'[q] = rpc[q]
    BY <2>1, Ground DEF ReleaseInv
  <2>4. \/ rpc[r] = "unmap" /\ rpc'[r] = "free" /\ t \in live
        \/ rpc[r] = "free" /\ rpc'[r] = "advance"
    <3>1. rpc[r] = "unmap" => t \in live
      BY Ground DEF ReleaseInv
    <3> QED
      BY <2>1, <3>1, Ground
  <2> HIDE DEF t
  <2>5. \A c \in Clients :
           /\ pc'[c] \in {"join_unmap", "join_free"} => "REAPED" \in state'[arg'[c]]
           /\ pc'[c] = "join_unmap" => arg'[c] \in stack'
           /\ pc'[c] = "join_free" => arg'[c] \in live'
    BY <2>1, <2>2 DEF ReleaseInv, Owning, Collecting
  <2>6. ASSUME NEW q \in Reapers
        PROVE  /\ rpc'[q] \in {"unmap", "free"} => "REAPED" \in state'[current'[q]]
               /\ rpc'[q] = "unmap" => current'[q] \in stack'
               /\ rpc'[q] = "free" => current'[q] \in live'
    <3>1. CASE q = r
      BY <2>1, <2>4, <3>1 DEF t
    <3>2. CASE q # r
      BY <2>1, <2>3, <3>2 DEF ReleaseInv
    <3> QED
      BY <3>1, <3>2
  <2>7. ASSUME NEW q \in Reapers, NEW s \in Reapers,
               rpc'[q] \in {"unmap", "free"}, rpc'[s] \in {"unmap", "free"},
               current'[q] = current'[s]
        PROVE  q = s
    BY <2>1, <2>3, <2>4, <2>7 DEF ReleaseInv, t
  <2>8. \A u \in Threads : pc'[u] # "none" /\ "REAPED" \notin state'[u] => u \in stack'
    BY <2>1 DEF ReleaseInv
  <2> QED
    BY <1>1, <2>5, <2>6, <2>7, <2>8 DEF ReleaseInv
<1>4. CASE \/ RQ!LoadCount(r) \/ RQ!WaitCount(r) \/ RQ!DequeueLock(r) \/ RQ!TakeHead(r)
           \/ RQ!ClearTail(r) \/ RQ!DequeueUnlock(r) \/ RQ!Advance(r) \/ RQ!SubCount(r)
  <2>1. /\ UNCHANGED <<state, live, stack, pc, arg>>
        /\ \A q \in Reapers \ {r} : rpc'[q] = rpc[q] /\ current'[q] = current[q]
        /\ rpc'[r] \notin {"unmap", "free"}
    BY <1>0, <1>4, Ground
       DEF RQ!LoadCount, RQ!WaitCount, RQ!DequeueLock, RQ!TakeHead, RQ!ClearTail,
           RQ!DequeueUnlock, RQ!Advance, RQ!SubCount
  <2> QED
    BY <1>1, <2>1 DEF ReleaseInv
<1> QED
  BY <1>0, <1>2, <1>3, <1>4 DEF RQ!ReaperStep

-----------------------------------------------------------------------------
(* The steps of a client                                                   *)

\* A client that has no thread to join and takes none.
LEMMA Bystander ==
    ASSUME IInv, JoinInv, ReleaseInv, NEW c \in Clients,
           pc[c] \notin Owning, pc'[c] \notin Owning,
           \A a \in Actors \ {c} : pc'[a] = pc[a] /\ arg'[a] = arg[a],
           \A d \in Clients \ {c} : got'[d] = got[d],
           \A t \in Threads : "REAPED" \in state'[t] <=> "REAPED" \in state[t],
           UNCHANGED <<live, stack, rpc, current, retval>>
    PROVE  (JoinInv /\ ReleaseInv)'
<1>1. /\ \A d \in Clients : pc'[d] \in Owning =>
            d # c /\ pc'[d] = pc[d] /\ arg'[d] = arg[d] /\ got'[d] = got[d]
      /\ \A t \in Threads : pc'[t] = pc[t]
  BY Ground
<1>2. JoinInv'
  <2>1. \A d \in Clients :
           pc'[d] = "join_asleep" => pc'[arg'[d]] \in {"run", "finish", "wake_joiner"}
    BY <1>1, Ground DEF JoinInv, Owning, Joining
  <2> QED
    BY <1>1, <2>1 DEF JoinInv, Owning, Collecting
<1>3. ReleaseInv'
  BY <1>1, Ground DEF ReleaseInv, Owning, Collecting
<1> QED
  BY <1>2, <1>3

LEMMA BystanderSteps ==
    ASSUME IInv, JoinInv, ReleaseInv, NEW c \in Clients,
           \/ CreateFails(c) \/ Publish(c) \/ Return(c) \/ ReadErrno(c)
           \/ Enter(c, "join", "join_load") \/ Enter(c, "detach", "detach_load")
           \/ JoinLoad(c) \/ (JoinCas(c) /\ state[arg[c]] # seen[c])
           \/ DetachLoad(c) \/ DetachCas(c) \/ DetachFinished(c) \/ DetachClaim(c)
    PROVE  (JoinInv /\ ReleaseInv)'
<1>0. c \in Actors
  BY Ground
<1> USE DEF Goto, Reject, descVars, queueVars, reaperVars, envVars, Owning, Joining, Collecting
<1>1. CASE \/ CreateFails(c) \/ Publish(c) \/ Return(c) \/ ReadErrno(c)
           \/ Enter(c, "join", "join_load") \/ Enter(c, "detach", "detach_load")
  <2>1. /\ pc[c] \notin Owning /\ pc'[c] \notin Owning
        /\ \A a \in Actors \ {c} : pc'[a] = pc[a] /\ arg'[a] = arg[a]
        /\ \A d \in Clients \ {c} : got'[d] = got[d]
        /\ UNCHANGED <<state, live, stack, rpc, current, retval>>
    BY <1>0, <1>1, Ground DEF CreateFails, Publish, Return, ReadErrno, Enter, Calling
  <2> QED
    BY <2>1, Bystander
<1>2. CASE JoinLoad(c) \/ DetachLoad(c) \/ DetachFinished(c)
  <2>1. /\ pc[c] \notin Owning /\ pc'[c] \notin Owning
        /\ \A a \in Actors \ {c} : pc'[a] = pc[a] /\ arg'[a] = arg[a]
        /\ UNCHANGED <<state, live, stack, rpc, current, retval, got>>
    BY <1>0, <1>2, Ground DEF JoinLoad, DetachLoad, DetachTest, DetachFinished
  <2> QED
    BY <2>1, Bystander
<1>3. CASE JoinCas(c) /\ state[arg[c]] # seen[c]
  <2>1. /\ pc[c] \notin Owning /\ pc'[c] \notin Owning
        /\ \A a \in Actors \ {c} : pc'[a] = pc[a] /\ arg'[a] = arg[a]
        /\ UNCHANGED <<state, live, stack, rpc, current, retval, got>>
    BY <1>0, <1>3, Ground DEF JoinCas
  <2> QED
    BY <2>1, Bystander
<1>4. CASE DetachCas(c)
  <2>1. /\ pc[c] \notin Owning /\ pc'[c] \notin Owning
        /\ \A a \in Actors \ {c} : pc'[a] = pc[a] /\ arg'[a] = arg[a]
        /\ \A t \in Threads : "REAPED" \in state'[t] <=> "REAPED" \in state[t]
        /\ UNCHANGED <<live, stack, rpc, current, retval, got>>
    BY <1>0, <1>4, Ground DEF DetachCas, DetachTest
  <2> QED
    BY <2>1, Bystander
<1>5. CASE DetachClaim(c)
  <2>1. /\ pc[c] \notin Owning /\ pc'[c] \notin Owning
        /\ \A a \in Actors \ {c} : pc'[a] = pc[a] /\ arg'[a] = arg[a]
        /\ \A t \in Threads : "REAPED" \in state'[t] <=> "REAPED" \in state[t]
        /\ UNCHANGED <<live, stack, rpc, current, retval, got>>
    BY <1>0, <1>5, Ground DEF DetachClaim, RQ!Claim, RQ!Goto, RQ!queueVars, RQ!reaperVars,
                              RQ!envVars
  <2> QED
    BY <2>1, Bystander
<1> QED
  BY <1>1, <1>2, <1>3, <1>4, <1>5

LEMMA CreateEnd ==
    ASSUME IInv, JoinInv, ReleaseInv, NEW c \in Clients, Create(c)
    PROVE  (JoinInv /\ ReleaseInv)'
<1> DEFINE t == Head(todo[c]).t
<1>1. todo[c] \in Seq(Calls) /\ todo[c] # <<>>
  BY DEF Create, Calling, IInv, TypeOK
<1>2. Head(todo[c]) \in Calls
  BY <1>1
<1>3. /\ t \in Threads /\ pc[c] = "idle" /\ pc[t] = "none"
      /\ stack' = stack \cup {t} /\ live' = live \cup {t}
      /\ pc' = [pc EXCEPT ![c] = "publish", ![t] = "run"]
      /\ arg' = [arg EXCEPT ![c] = t]
      /\ UNCHANGED <<state, rpc, current, got, retval>>
  BY <1>2 DEF Calls, Create, Calling, reaperVars, myVars
<1> HIDE DEF t
<1>4. /\ \A d \in Clients : pc'[d] \in Owning =>
            d # c /\ pc'[d] = pc[d] /\ arg'[d] = arg[d] /\ arg[d] # t
      /\ \A u \in Threads \ {t} : pc'[u] = pc[u]
      /\ pc'[t] = "run"
  BY <1>3, Ground DEF Owning, Joining, Collecting
<1>5. JoinInv'
  <2>1. \A d \in Clients :
           pc'[d] = "join_asleep" => pc'[arg'[d]] \in {"run", "finish", "wake_joiner"}
    BY <1>3, <1>4, Ground DEF JoinInv, Owning, Joining
  <2>2. \A u \in Threads : pc'[u] \notin {"none", "run"} => retval'[u] = u
    BY <1>3, <1>4 DEF JoinInv
  <2>3. \A d \in Clients :
           pc'[d] \in {"join_reap", "join_unmap", "join_free"} => got'[d] = arg'[d]
    BY <1>3, <1>4 DEF JoinInv, Owning, Collecting
  <2> QED
    BY <1>4, <2>1, <2>2, <2>3 DEF JoinInv
<1>6. ReleaseInv'
  BY <1>3, <1>4, Ground DEF ReleaseInv, Owning, Collecting
<1> QED
  BY <1>5, <1>6

\* The compare-and-swap that wins makes its client the one joiner.
LEMMA JoinBegins ==
    ASSUME IInv, JoinInv, ReleaseInv, NEW c \in Clients, JoinCas(c),
           state[arg[c]] = seen[c]
    PROVE  (JoinInv /\ ReleaseInv)'
<1> DEFINE t == arg[c]
<1>1. /\ pc[c] = "join_cas" /\ c \in Actors
      /\ state' = [state EXCEPT ![t] = seen[c] \cup {"JOINED"}]
      /\ pc' = [pc EXCEPT ![c] = "join_poll"]
      /\ UNCHANGED <<live, stack, arg, rpc, current, got, retval>>
  BY Ground DEF JoinCas, Goto, reaperVars
<1>2. t \in Threads /\ Unclaimed(state[t])
  BY <1>1 DEF IInv, ArgInv, KnowledgeInv, Knows
<1>3. \A d \in Clients : pc[d] \in Owning => arg[d] # t
  BY <1>2, Ground DEF Unclaimed
<1>4. /\ \A u \in Threads : "REAPED" \in state'[u] <=> "REAPED" \in state[u]
      /\ \A d \in Clients \ {c} : pc'[d] = pc[d]
      /\ pc'[c] = "join_poll"
      /\ \A u \in Threads : pc'[u] = pc[u]
  BY <1>1, <1>2, Ground
<1>5. JoinInv'
  <2>1. \A d, e \in Clients :
           pc'[d] \in Owning /\ pc'[e] \in Owning /\ arg'[d] = arg'[e] => d = e
    BY <1>1, <1>3, <1>4 DEF JoinInv
  <2>2. \A d \in Clients :
           pc'[d] = "join_asleep" => pc'[arg'[d]] \in {"run", "finish", "wake_joiner"}
    BY <1>1, <1>4, Ground DEF JoinInv, Owning, Joining
  <2> QED
    BY <1>1, <1>4, <2>1, <2>2 DEF JoinInv
<1>6. ReleaseInv'
  BY <1>1, <1>4, Ground DEF ReleaseInv
<1> QED
  BY <1>5, <1>6

\* The joiner polls, sleeps and reads.
LEMMA JoinWaits ==
    ASSUME IInv, JoinInv, ReleaseInv, NEW c \in Clients,
           JoinPoll(c) \/ JoinWait(c) \/ JoinRead(c)
    PROVE  (JoinInv /\ ReleaseInv)'
<1>1. /\ pc[c] \in Owning /\ c \in Actors
      /\ \A a \in Actors \ {c} : pc'[a] = pc[a]
      /\ \A d \in Clients \ {c} : got'[d] = got[d]
      /\ UNCHANGED <<state, live, stack, arg, rpc, current, retval>>
  BY Ground DEF JoinPoll, JoinWait, JoinRead, Goto, Owning, Joining, Collecting, descVars,
                reaperVars
<1>2. /\ pc'[c] \in {"join_read", "join_wait", "join_poll", "join_asleep", "join_reap"}
      /\ pc'[c] = "join_asleep" => arg[c] \notin finished
      /\ pc'[c] = "join_reap" => pc[c] = "join_read" /\ got'[c] = retval[arg[c]]
  BY Ground DEF JoinPoll, JoinWait, JoinRead, Goto
<1>3. /\ arg[c] \in Threads /\ pc[arg[c]] # "none"
      /\ pc[c] = "join_read" => arg[c] \in finished
  BY <1>1, Ground DEF IInv, KnowledgeInv, Knows, Collecting
<1>4. \A u \in Threads : pc'[u] = pc[u]
  BY <1>1, Ground
<1>5. pc'[c] = "join_asleep" => pc'[arg'[c]] \in {"run", "finish", "wake_joiner"}
  BY <1>1, <1>2, <1>3, <1>4 DEF IInv, LifeInv
<1>6. pc'[c] = "join_reap" => got'[c] = arg'[c]
  BY <1>1, <1>2, <1>3 DEF IInv, LifeInv, JoinInv
<1>7. JoinInv'
  <2>1. \A d \in Clients \ {c} :
           pc'[d] = "join_asleep" => pc'[arg'[d]] \in {"run", "finish", "wake_joiner"}
    BY <1>1, <1>4, Ground DEF JoinInv, Owning, Joining
  <2>2. \A d \in Clients \ {c} :
           pc'[d] \in {"join_reap", "join_unmap", "join_free"} => got'[d] = arg'[d]
    BY <1>1, Ground DEF JoinInv
  <2>3. \A d \in Clients : pc'[d] \in Owning => pc[d] \in Owning
    BY <1>1, Ground
  <2> QED
    BY <1>1, <1>2, <1>4, <1>5, <1>6, <2>1, <2>2, <2>3 DEF JoinInv
<1>8. ReleaseInv'
  BY <1>1, <1>2, <1>4, Ground DEF ReleaseInv
<1> QED
  BY <1>7, <1>8

\* The joiner sets MT_REAPED and releases: no reaper has its thread.
LEMMA JoinEnds ==
    ASSUME IInv, JoinInv, ReleaseInv, NEW c \in Clients,
           JoinReap(c) \/ JoinUnmap(c) \/ JoinFree(c)
    PROVE  (JoinInv /\ ReleaseInv)'
<1> DEFINE t == arg[c]
<1>1. /\ pc[c] \in {"join_reap", "join_unmap", "join_free"} /\ c \in Actors
      /\ \A a \in Actors \ {c} : pc'[a] = pc[a]
      /\ UNCHANGED <<arg, rpc, current, got, retval>>
  BY Ground DEF JoinReap, JoinUnmap, JoinFree, Goto, reaperVars, myVars
<1>2. /\ t \in Threads /\ pc[t] # "none" /\ "QUEUED" \notin state[t]
      /\ \A d \in Clients \ {c} : pc[d] \in Owning => arg[d] # t
      /\ \A r \in Reapers : rpc[r] \in {"unmap", "free"} => current[r] # t
  BY <1>1, Ground DEF JoinInv, Owning, Collecting
<1>3. \/ /\ pc[c] = "join_reap" /\ state' = [state EXCEPT ![t] = @ \cup {"REAPED"}]
         /\ pc'[c] = IF "REAPED" \in state[t] THEN "returned" ELSE "join_unmap"
         /\ UNCHANGED <<live, stack>>
      \/ /\ pc[c] = "join_unmap" /\ stack' = stack \ {t} /\ pc'[c] = "join_free"
         /\ UNCHANGED <<state, live>>
      \/ /\ pc[c] = "join_free" /\ live' = live \ {t} /\ pc'[c] = "returned"
         /\ UNCHANGED <<state, stack>>
  BY <1>1, Ground DEF JoinReap, JoinUnmap, JoinFree, Goto
<1> HIDE DEF t
<1>4. \A u \in Threads : pc'[u] = pc[u]
  BY <1>1, Ground
<1>5. JoinInv'
  <2>1. \A d \in Clients :
           pc'[d] = "join_asleep" => pc'[arg'[d]] \in {"run", "finish", "wake_joiner"}
    BY <1>1, <1>3, <1>4, Ground DEF JoinInv, Owning, Joining
  <2>2. \A d \in Clients : pc'[d] \in Owning => pc[d] \in Owning
    BY <1>1, Ground DEF Owning, Collecting
  <2>3. \A d \in Clients : pc'[d] \in {"join_reap", "join_unmap", "join_free"} =>
           pc[d] \in {"join_reap", "join_unmap", "join_free"}
    BY <1>1, Ground
  <2> QED
    BY <1>1, <1>4, <2>1, <2>2, <2>3 DEF JoinInv
<1>6. ReleaseInv'
  <2>1. ASSUME NEW u \in Threads, pc'[u] # "none", "REAPED" \notin state'[u]
        PROVE  u \in stack'
    <3>1. "REAPED" \notin state[u] /\ u \in stack
      BY <1>2, <1>3, <1>4, <2>1, Ground DEF ReleaseInv
    <3>2. pc[c] = "join_unmap" => "REAPED" \in state[t]
      BY DEF ReleaseInv, t
    <3> QED
      BY <1>3, <3>1, <3>2
  <2>2. /\ pc'[c] \in {"join_unmap", "join_free"} => "REAPED" \in state'[t]
        /\ pc'[c] = "join_unmap" => t \in stack'
        /\ pc'[c] = "join_free" => t \in live'
    BY <1>2, <1>3, Ground DEF ReleaseInv, t
  <2>3. \A d \in Clients \ {c} :
           /\ pc'[d] \in {"join_unmap", "join_free"} => "REAPED" \in state'[arg[d]]
           /\ pc'[d] = "join_unmap" => arg[d] \in stack'
           /\ pc'[d] = "join_free" => arg[d] \in live'
    BY <1>1, <1>2, <1>3, Ground DEF ReleaseInv, Owning, Collecting
  <2>4. \A r \in Reapers : /\ rpc[r] \in {"unmap", "free"} => "REAPED" \in state'[current[r]]
                           /\ rpc[r] = "unmap" => current[r] \in stack'
                           /\ rpc[r] = "free" => current[r] \in live'
    <3> SUFFICES ASSUME NEW r \in Reapers, rpc[r] \in {"unmap", "free"}
                 PROVE  /\ "REAPED" \in state'[current[r]]
                        /\ rpc[r] = "unmap" => current[r] \in stack'
                        /\ rpc[r] = "free" => current[r] \in live'
      OBVIOUS
    <3>1. /\ current[r] \in Threads /\ current[r] # t
          /\ "REAPED" \in state[current[r]]
          /\ rpc[r] = "unmap" => current[r] \in stack
          /\ rpc[r] = "free" => current[r] \in live
      BY <1>2, Ground DEF ReleaseInv
    <3> QED
      BY <1>2, <1>3, <3>1, Ground
  <2> QED
    BY <1>1, <2>1, <2>2, <2>3, <2>4 DEF ReleaseInv, t
<1> QED
  BY <1>5, <1>6

LEMMA ClientEnd ==
    ASSUME IInv, JoinInv, ReleaseInv, NEW c \in Clients, ClientStep(c)
    PROVE  (JoinInv /\ ReleaseInv)'
<1>1. CASE JoinCas(c)
  BY <1>1, JoinBegins, BystanderSteps
<1>2. CASE RQ!CallerStep(c) /\ UNCHANGED myVars
  <2>1. c \in Actors /\ arg[c] \in Threads
    <3>1. c \in Actors
      BY Ground
    <3>2. pc[c] # "idle"
      BY <1>2, <3>1, CallerWorks DEF Working, RQ!Starting, RQ!Enqueuing
    <3> QED
      BY <3>1, <3>2 DEF IInv, ArgInv
  <2> QED
    BY <1>2, <2>1, CallerEnd
<1> QED
  BY <1>1, <1>2, CreateEnd, BystanderSteps, JoinWaits, JoinEnds DEF ClientStep

-----------------------------------------------------------------------------
(* The invariants                                                          *)

LEMMA NextEnd == IInv /\ JoinInv /\ ReleaseInv /\ [Next]_vars => (JoinInv /\ ReleaseInv)'
<1> SUFFICES ASSUME IInv, JoinInv, ReleaseInv, [Next]_vars PROVE (JoinInv /\ ReleaseInv)'
  OBVIOUS
<1>1. ASSUME NEW t \in Threads, ThreadStep(t) PROVE (JoinInv /\ ReleaseInv)'
  BY <1>1, ThreadEnd
<1>2. ASSUME NEW c \in Clients, ClientStep(c) PROVE (JoinInv /\ ReleaseInv)'
  BY <1>2, ClientEnd
<1>3. ASSUME NEW r \in Reapers, ReaperStep(r) PROVE (JoinInv /\ ReleaseInv)'
  BY <1>3, ReaperEnd
<1>4. CASE (\E t \in Threads : Fault(t)) \/ Resting \/ UNCHANGED vars
  <2>1. UNCHANGED <<state, live, stack, pc, arg, rpc, current, got, retval>>
    BY <1>4 DEF Fault, Resting, vars, rqVars, myVars, descVars, reaperVars
  <2> QED
    BY <2>1 DEF JoinInv, ReleaseInv
<1> QED
  BY <1>1, <1>2, <1>3, <1>4 DEF Next

LEMMA EndInductive == Safe => [](IInv /\ JoinInv /\ ReleaseInv)
BY InitEnd, NextEnd, Inductive, PTL DEF Safe

\* A joiner sleeps on the finished word only while the thread has still to wake
\* it: whatever else runs between its test and its sleep, no wake-up is lost.
THEOREM WakeUpToCome == Safe => []JoinerWoken
<1>1. IInv /\ JoinInv => JoinerWoken
  BY DEF JoinInv, JoinerWoken
<1> QED
  BY <1>1, EndInductive, PTL

\* A join that succeeds delivers the value the start routine returned.
THEOREM JoinDeliversValue == Safe => []JoinValue
<1>1. JoinInv => JoinValue
  BY DEF JoinInv, JoinValue
<1> QED
  BY <1>1, EndInductive, PTL

\* A thread is released by one joiner or one reaper at a time, which finds
\* mapped and allocated what it gives back: no double munmap(), no double free().
THEOREM ThreadReleasedOnce == Safe => []ReleasedOnce
<1>1. IInv /\ JoinInv /\ ReleaseInv => ReleasedOnce
  <2> SUFFICES ASSUME IInv, JoinInv, ReleaseInv, NEW t \in Threads
               PROVE  Cardinality(Releasers(t)) <= 1
    BY DEF ReleaseInv, ReleasedOnce
  <2>1. ASSUME NEW x \in Releasers(t), NEW y \in Releasers(t) PROVE x = y
    <3> DEFINE Joiner(c)  == c \in Clients /\ arg[c] = t /\ pc[c] \in {"join_unmap", "join_free"}
               Reaping(r) == r \in Reapers /\ current[r] = t /\ rpc[r] \in {"unmap", "free"}
    <3>1. (Joiner(x) \/ Reaping(x)) /\ (Joiner(y) \/ Reaping(y))
      BY DEF Releasers
    <3>2. ASSUME NEW c, NEW r, Joiner(c), Reaping(r) PROVE FALSE
      BY <3>2, Ground DEF Owning, Collecting
    <3>3. CASE Joiner(x) /\ Joiner(y)
      BY <3>3 DEF JoinInv, Owning, Collecting
    <3>4. CASE Reaping(x) /\ Reaping(y)
      BY <3>4 DEF ReleaseInv
    <3> HIDE DEF Joiner, Reaping
    <3> QED
      BY <3>1, <3>2, <3>3, <3>4
  <2>2. CASE Releasers(t) = {}
    BY <2>2, FS_EmptySet
  <2>3. CASE Releasers(t) # {}
    <3>1. PICK x \in Releasers(t) : TRUE
      BY <2>3
    <3>2. Releasers(t) = {x}
      BY <2>1, <3>1
    <3>3. Cardinality({x}) = 1
      BY FS_Singleton
    <3> QED
      BY <3>2, <3>3
  <2> QED
    BY <2>2, <2>3
<1> QED
  BY <1>1, EndInductive, PTL

-----------------------------------------------------------------------------
(* The queue inside the library                                            *)

\* The queue and its theorems, over what the queue sees of the library.
QP == INSTANCE ReapQueueProofs WITH
    Callers <- Actors, state <- QueueState, live <- QueueLive,
    stack <- QueueStack, pc <- QueuePC

\* Only a joiner or the reaper, whoever owns the thread, sets MT_REAPED.
ReapedInv ==
    \A t \in Threads : "REAPED" \in state[t] => "JOINED" \in state[t] \/ Queued(t)

\* What the library does besides the queue's own steps: it leaves the queue and
\* every queued thread alone.
Outside(p) ==
    /\ UNCHANGED <<reaper_started, head, tail, next, count, lock, rpc, current, processed>>
    /\ errno' \in RQ!Errors /\ failures' \in failures .. MaxFail
    /\ \A t \in Threads :
          /\ Queued(t)' <=> Queued(t)
          /\ Queued(t) => /\ state'[t] = state[t]
                          /\ t \in live' <=> t \in live
                          /\ t \in stack' <=> t \in stack
    /\ pc[p] \notin Working /\ pc'[p] \notin Working
    /\ \A a \in Actors : a # p =>
          /\ arg'[a] = arg[a]
          /\ pc'[a] = pc[a] \/ (pc[a] \notin RQ!CallerPCs /\ pc'[a] \notin RQ!CallerPCs)

LEMMA OutsideStep ==
    ASSUME IInv, IInv', NEW p \in Actors, Outside(p)
    PROVE  QP!Elsewhere(p)
<1>1. QueuePC[p] \in {"idle", "returned"} /\ QueuePC'[p] \in {"idle", "returned"}
  BY DEF Outside, QueuePC, RQ!CallerPCs, Working
<1>2. QueuePC' = [QueuePC EXCEPT ![p] = QueuePC'[p]]
  BY DEF Outside, QueuePC
<1>3. arg' = [arg EXCEPT ![p] = arg'[p]] /\ arg'[p] \in Threads \cup {NULL}
  BY DEF Outside, IInv, TypeOK
<1>4. QueueState' = QueueState /\ QueueLive' = QueueLive /\ QueueStack' = QueueStack
  BY DEF Outside, QueueState, QueueLive, QueueStack
<1>5. errno' \in QP!Errors
  BY DEF Outside, RQ!Errors, QP!Errors
<1> QED
  BY <1>1, <1>2, <1>3, <1>4, <1>5
     DEF Outside, QP!Elsewhere, QP!Goto, QP!descVars, QP!queueVars, QP!reaperVars

\* A move between control points of the queue is the same move in its eyes.
LEMMA ViewGoto ==
    ASSUME IInv, NEW p \in Actors, NEW label \in RQ!CallerPCs, RQ!Goto(p, label)
    PROVE  QP!Goto(p, label)
BY DEF IInv, TypeOK, RQ!Goto, QP!Goto, QueuePC

LEMMA ViewDesc ==
    ASSUME UNCHANGED <<state, live, stack>>
    PROVE  QueueState' = QueueState /\ QueueLive' = QueueLive /\ QueueStack' = QueueStack
BY DEF QueueState, QueueLive, QueueStack, Queued

\* An actor at work on the queue takes the queue's step.
LEMMA CallerView ==
    ASSUME IInv, NEW p \in Actors, RQ!CallerStep(p), UNCHANGED myVars
    PROVE  QP!CallerStep(p)
<1>0. QueuePC[p] = pc[p]
  BY CallerWorks DEF QueuePC, RQ!CallerPCs, Working
<1>1. UNCHANGED <<state, live, stack>> =>
         QueueState' = QueueState /\ QueueLive' = QueueLive /\ QueueStack' = QueueStack
  BY ViewDesc
<1>2. \A label \in RQ!CallerPCs : RQ!Goto(p, label) => QP!Goto(p, label)
  BY ViewGoto
<1>3. {"start_reaper", "clone_reaper", "reset_again", "alloc", "lock", "link", "tail",
       "unlock", "count", "wake", "returned"} \subseteq RQ!CallerPCs
  BY DEF RQ!CallerPCs, RQ!Starting, RQ!Enqueuing
<1> USE <1>0, <1>1, <1>2, <1>3
    DEF RQ!descVars, RQ!queueVars, RQ!listVars, RQ!reaperVars, RQ!envVars,
        QP!descVars, QP!queueVars, QP!listVars, QP!reaperVars, QP!envVars,
        RQ!RGoto, QP!RGoto, RQ!Fail, QP!Fail
<1>4. CASE RQ!StartReaper(p)
  <2>1. QP!StartReaper(p)
    BY <1>4 DEF RQ!StartReaper, QP!StartReaper
  <2> QED BY <2>1 DEF QP!CallerStep
<1>5. CASE RQ!CloneReaper(p)
  <2>1. QP!CloneReaper(p)
    BY <1>5 DEF RQ!CloneReaper, QP!CloneReaper
  <2> QED BY <2>1 DEF QP!CallerStep
<1>6. CASE RQ!MapReaperFails(p)
  <2>1. QP!MapReaperFails(p)
    BY <1>6 DEF RQ!MapReaperFails, QP!MapReaperFails
  <2> QED BY <2>1 DEF QP!CallerStep
<1>7. CASE RQ!CloneReaperFails(p)
  <2>1. QP!CloneReaperFails(p)
    BY <1>7 DEF RQ!CloneReaperFails, QP!CloneReaperFails
  <2> QED BY <2>1 DEF QP!CallerStep
<1>8. CASE RQ!ResetAgain(p)
  <2>1. QP!ResetAgain(p)
    BY <1>8 DEF RQ!ResetAgain, QP!ResetAgain
  <2> QED BY <2>1 DEF QP!CallerStep
<1>9. CASE RQ!AllocNode(p)
  <2>1. QP!AllocNode(p)
    BY <1>9 DEF RQ!AllocNode, QP!AllocNode
  <2> QED BY <2>1 DEF QP!CallerStep
<1>10. CASE RQ!AllocNodeFails(p)
  <2>1. QP!AllocNodeFails(p)
    BY <1>10 DEF RQ!AllocNodeFails, QP!AllocNodeFails
  <2> QED BY <2>1 DEF QP!CallerStep
<1>11. CASE RQ!EnqueueLock(p)
  <2>1. QP!EnqueueLock(p)
    BY <1>11 DEF RQ!EnqueueLock, QP!EnqueueLock
  <2> QED BY <2>1 DEF QP!CallerStep
<1>12. CASE RQ!Link(p)
  <2>1. QP!Link(p)
    BY <1>12 DEF RQ!Link, QP!Link
  <2> QED BY <2>1 DEF QP!CallerStep
<1>13. CASE RQ!SetTail(p)
  <2>1. QP!SetTail(p)
    BY <1>13 DEF RQ!SetTail, QP!SetTail
  <2> QED BY <2>1 DEF QP!CallerStep
<1>14. CASE RQ!EnqueueUnlock(p)
  <2>1. QP!EnqueueUnlock(p)
    BY <1>14 DEF RQ!EnqueueUnlock, QP!EnqueueUnlock
  <2> QED BY <2>1 DEF QP!CallerStep
<1>15. CASE RQ!AddCount(p)
  <2>1. QP!AddCount(p)
    BY <1>15 DEF RQ!AddCount, QP!AddCount
  <2> QED BY <2>1 DEF QP!CallerStep
<1>16. CASE RQ!WakeReaper(p)
  <2>1. QP!WakeReaper(p)
    BY <1>16 DEF RQ!WakeReaper, QP!WakeReaper, RQ!Asleep, QP!Asleep
  <2> QED BY <2>1 DEF QP!CallerStep
<1> QED
  BY <1>4, <1>5, <1>6, <1>7, <1>8, <1>9, <1>10, <1>11, <1>12, <1>13, <1>14, <1>15, <1>16
     DEF RQ!CallerStep

\* A reaper works on queued threads only, so that the queue sees all it does.
LEMMA ReaperView ==
    ASSUME IInv, NEW r \in Reapers, RQ!ReaperStep(r)
    PROVE  QP!ReaperStep(r)
<1>0. /\ rpc[r] \in {"reap", "unmap", "free", "advance"} =>
            current[r] \in Threads /\ Queued(current[r])
      /\ state \in [Threads -> SUBSET RQ!Flags]
  BY DEF IInv, TypeOK, RQ!QueueTypeOK, QueueInv, Queued
<1>1. UNCHANGED <<state, live, stack>> =>
         QueueState' = QueueState /\ QueueLive' = QueueLive /\ QueueStack' = QueueStack
  BY ViewDesc
<1>2. UNCHANGED <<pc, arg>> => QueuePC' = QueuePC
  BY DEF QueuePC
<1> USE <1>0, <1>1, <1>2
    DEF RQ!descVars, RQ!queueVars, RQ!listVars, RQ!reaperVars, RQ!envVars, RQ!callerVars,
        QP!descVars, QP!queueVars, QP!listVars, QP!reaperVars, QP!envVars, QP!callerVars,
        RQ!RGoto, QP!RGoto
<1>3. CASE RQ!LoadCount(r)
  <2>1. QP!LoadCount(r)
    BY <1>3 DEF RQ!LoadCount, QP!LoadCount
  <2> QED BY <2>1 DEF QP!ReaperStep
<1>4. CASE RQ!WaitCount(r)
  <2>1. QP!WaitCount(r)
    BY <1>4 DEF RQ!WaitCount, QP!WaitCount
  <2> QED BY <2>1 DEF QP!ReaperStep
<1>5. CASE RQ!DequeueLock(r)
  <2>1. QP!DequeueLock(r)
    BY <1>5 DEF RQ!DequeueLock, QP!DequeueLock
  <2> QED BY <2>1 DEF QP!ReaperStep
<1>6. CASE RQ!TakeHead(r)
  <2>1. QP!TakeHead(r)
    BY <1>6 DEF RQ!TakeHead, QP!TakeHead
  <2> QED BY <2>1 DEF QP!ReaperStep
<1>7. CASE RQ!ClearTail(r)
  <2>1. QP!ClearTail(r)
    BY <1>7 DEF RQ!ClearTail, QP!ClearTail
  <2> QED BY <2>1 DEF QP!ReaperStep
<1>8. CASE RQ!DequeueUnlock(r)
  <2>1. QP!DequeueUnlock(r)
    BY <1>8 DEF RQ!DequeueUnlock, QP!DequeueUnlock
  <2> QED BY <2>1 DEF QP!ReaperStep
<1>9. CASE RQ!Reap(r)
  <2>1. /\ state' = [state EXCEPT ![current[r]] = state[current[r]] \cup {"REAPED"}]
        /\ UNCHANGED <<live, stack>> /\ rpc[r] = "reap"
    BY <1>9 DEF RQ!Reap
  <2>2. \A t \in Threads : Queued(t)' <=> Queued(t)
    BY <2>1 DEF Queued
  <2>3. QueueState[current[r]] = state[current[r]]
    BY <2>1 DEF QueueState
  <2>4. /\ QueueState' = [QueueState EXCEPT ![current[r]] = QueueState[current[r]] \cup {"REAPED"}]
        /\ QueueLive' = QueueLive /\ QueueStack' = QueueStack
    BY <2>1, <2>2, <2>3 DEF QueueState, QueueLive, QueueStack
  <2>5. QP!Reap(r)
    BY <1>9, <2>3, <2>4 DEF RQ!Reap, QP!Reap
  <2> QED BY <2>5 DEF QP!ReaperStep
<1>10. CASE RQ!UnmapStack(r)
  <2>1. /\ QueueStack' = QueueStack \ {current[r]}
        /\ QueueState' = QueueState /\ QueueLive' = QueueLive
    BY <1>10 DEF RQ!UnmapStack, QueueStack, QueueLive, QueueState, Queued
  <2>2. QP!UnmapStack(r)
    BY <1>10, <2>1 DEF RQ!UnmapStack, QP!UnmapStack
  <2> QED BY <2>2 DEF QP!ReaperStep
<1>11. CASE RQ!FreeThread(r)
  <2>1. /\ QueueLive' = QueueLive \ {current[r]}
        /\ QueueState' = QueueState /\ QueueStack' = QueueStack
    BY <1>11 DEF RQ!FreeThread, QueueStack, QueueLive, QueueState, Queued
  <2>2. QP!FreeThread(r)
    BY <1>11, <2>1 DEF RQ!FreeThread, QP!FreeThread
  <2> QED BY <2>2 DEF QP!ReaperStep
<1>12. CASE RQ!Advance(r)
  <2>1. QP!Advance(r)
    BY <1>12 DEF RQ!Advance, QP!Advance
  <2> QED BY <2>1 DEF QP!ReaperStep
<1>13. CASE RQ!SubCount(r)
  <2>1. QP!SubCount(r)
    BY <1>13 DEF RQ!SubCount, QP!SubCount
  <2> QED BY <2>1 DEF QP!ReaperStep
<1> QED
  BY <1>3, <1>4, <1>5, <1>6, <1>7, <1>8, <1>9, <1>10, <1>11, <1>12, <1>13
     DEF RQ!ReaperStep

\* Whoever claims a thread for the queue hands over a whole one; a second claim
\* is no step of the queue.
LEMMA ClaimView ==
    ASSUME IInv, IInv', ReleaseInv, ReapedInv, NEW p \in Actors, NEW t \in Threads,
           pc[p] \in {"claim", "detach_claim"}, pc[t] # "none", "DETACHED" \in state[t],
           RQ!Claim(p, t)
    PROVE  QP!Elsewhere(p) \/ QP!Submit(p, t)
<1>0. /\ state \in [Threads -> SUBSET RQ!Flags] /\ pc \in [Actors -> ThreadPCs \cup ClientPCs]
      /\ arg \in [Actors -> Threads \cup {NULL}] /\ stack \subseteq live
      /\ errno \in RQ!Errors /\ failures \in Nat /\ failures <= MaxFail
  BY Distinct DEF IInv, TypeOK, RQ!QueueTypeOK
<1>1. /\ arg' = [arg EXCEPT ![p] = t]
      /\ state' = [state EXCEPT ![t] = state[t] \cup {"QUEUED"}]
      /\ RQ!Goto(p, IF "QUEUED" \in state[t] THEN "returned" ELSE "start_reaper")
      /\ UNCHANGED <<live, stack, reaper_started, head, tail, next, count, lock, rpc, current,
                     processed, errno, failures>>
  BY DEF RQ!Claim, RQ!queueVars, RQ!listVars, RQ!reaperVars, RQ!envVars
<1>2. CASE Queued(t)
  <2>1. state' = state /\ pc' = [pc EXCEPT ![p] = "returned"]
    BY <1>0, <1>1, <1>2 DEF Queued, RQ!Goto
  <2>2. Outside(p)
    BY <1>0, <1>1, <2>1 DEF Outside, Queued, Working, RQ!Starting, RQ!Enqueuing
  <2> QED BY <2>2, OutsideStep
<1>3. CASE ~ Queued(t)
  <2>1. QP!Goto(p, "start_reaper")
    BY <1>1, <1>3, ViewGoto DEF Queued, RQ!CallerPCs, RQ!Starting
  <2>2. t \in stack /\ t \in live /\ state[t] = {"DETACHED"}
    <3>1. "JOINED" \notin state[t] /\ "REAPED" \notin state[t]
      BY <1>3 DEF IInv, OwnershipProtocol, ReapedInv
    <3> QED BY <1>0, <1>3, <3>1 DEF ReleaseInv, Queued, RQ!Flags
  <2>3. /\ QueueState[t] = {"DETACHED"} /\ t \in QueueLive
        /\ QueueState' = [QueueState EXCEPT ![t] = QueueState[t] \cup {"QUEUED"}]
        /\ QueueLive' = QueueLive /\ QueueStack' = QueueStack
    BY <1>0, <1>1, <1>3, <2>2 DEF QueueState, QueueLive, QueueStack, Queued
  <2>4. QueuePC[p] = "idle"
    BY DEF QueuePC, RQ!CallerPCs, RQ!Starting, RQ!Enqueuing
  <2> QED
    BY <1>1, <2>1, <2>3, <2>4
       DEF QP!Submit, QP!Claim, QP!queueVars, QP!listVars, QP!reaperVars, QP!envVars
<1> QED BY <1>2, <1>3

\* The other steps of a thread and of a client leave the queue alone: a thread
\* that is created is blank, and one that a join or a detach has not lost to
\* another call is not queued.
LEMMA ThreadOutside ==
    ASSUME IInv, NEW t \in Threads,
           Run(t) \/ Finish(t) \/ WakeJoiner(t) \/ LoadState(t) \/ Exit(t)
    PROVE  Outside(t)
<1>0. /\ pc \in [Actors -> ThreadPCs \cup ClientPCs] /\ Actors = Threads \cup Clients
      /\ errno \in RQ!Errors /\ failures \in Nat /\ failures <= MaxFail
      /\ t \in Actors /\ t \notin Clients
  BY Distinct DEF IInv, TypeOK, RQ!QueueTypeOK, Actors
<1>1. /\ UNCHANGED <<state, live, stack, arg, reaper_started, head, tail, next, count, lock,
                     rpc, current, processed, errno, failures>>
      /\ pc[t] \in {"run", "finish", "wake_joiner", "load_state", "returned"}
      /\ pc'[t] \in {"finish", "wake_joiner", "load_state", "claim", "returned", "gone"}
      /\ \A a \in Actors : a # t =>
            pc'[a] = pc[a] \/ (pc[a] = "join_asleep" /\ pc'[a] = "join_poll")
  BY <1>0 DEF Run, Finish, WakeJoiner, Joiners, LoadState, Exit, Goto, descVars, queueVars,
              reaperVars, envVars
<1> QED
  BY <1>0, <1>1 DEF Outside, Queued, Working, RQ!Starting, RQ!Enqueuing, RQ!CallerPCs

LEMMA CallsOutside ==
    ASSUME IInv, NEW c \in Clients,
           \/ CreateFails(c) \/ Publish(c) \/ Return(c) \/ ReadErrno(c)
           \/ Enter(c, "join", "join_load") \/ Enter(c, "detach", "detach_load")
           \/ JoinLoad(c) \/ JoinPoll(c) \/ JoinWait(c) \/ JoinRead(c)
           \/ DetachLoad(c) \/ DetachFinished(c)
    PROVE  Outside(c)
<1>0. /\ pc \in [Actors -> ThreadPCs \cup ClientPCs] /\ Actors = Threads \cup Clients
      /\ arg \in [Actors -> Threads \cup {NULL}]
      /\ errno \in RQ!Errors /\ failures \in Nat /\ failures <= MaxFail /\ MaxFail \in Nat
      /\ c \in Actors
  BY Distinct DEF IInv, TypeOK, RQ!QueueTypeOK, Actors
<1>1. /\ UNCHANGED <<state, live, stack, reaper_started, head, tail, next, count, lock,
                     rpc, current, processed>>
      /\ \A a \in Actors : a # c => pc'[a] = pc[a] /\ arg'[a] = arg[a]
  BY <1>0 DEF CreateFails, Publish, Return, ReadErrno, Enter, JoinLoad, JoinPoll, JoinWait,
              JoinRead, DetachLoad, DetachTest, DetachFinished, Reject, RQ!Fail, Goto,
              descVars, queueVars, reaperVars
<1>2. /\ pc[c] \in {"idle", "publish", "returned", "failed", "join_load", "join_poll",
                    "join_wait", "join_read", "detach_load", "detach_finished"}
      /\ pc'[c] \in {"idle", "returned", "failed", "join_load", "join_cas", "join_poll",
                     "join_wait", "join_asleep", "join_read", "join_reap", "detach_load",
                     "detach_cas", "detach_finished", "detach_claim"}
  BY <1>0 DEF CreateFails, Publish, Return, ReadErrno, Enter, Calling, JoinLoad, JoinPoll,
              JoinWait, JoinRead, DetachLoad, DetachTest, DetachFinished, Reject, Goto
<1>3. errno' \in RQ!Errors /\ failures' \in failures .. MaxFail
  BY <1>0 DEF CreateFails, Publish, Return, ReadErrno, Enter, JoinLoad, JoinPoll, JoinWait,
              JoinRead, DetachLoad, DetachTest, DetachFinished, Reject, RQ!Fail, RQ!Errors,
              envVars
<1> QED
  BY <1>1, <1>2, <1>3 DEF Outside, Queued, Working, RQ!Starting, RQ!Enqueuing

LEMMA ClaimsOutside ==
    ASSUME IInv, NEW c \in Clients,
           \/ Create(c) \/ JoinCas(c) \/ JoinReap(c) \/ JoinUnmap(c) \/ JoinFree(c)
           \/ DetachCas(c)
    PROVE  Outside(c)
<1>0. /\ pc \in [Actors -> ThreadPCs \cup ClientPCs] /\ Actors = Threads \cup Clients
      /\ arg \in [Actors -> Threads \cup {NULL}] /\ state \in [Threads -> SUBSET RQ!Flags]
      /\ errno \in RQ!Errors /\ failures \in Nat /\ failures <= MaxFail
      /\ c \in Actors /\ c \notin Threads
      /\ pc[c] # "idle" => arg[c] \in Threads
      /\ \A u \in Threads : Queued(u) => "DETACHED" \in state[u] /\ pc[u] # "none"
  BY Distinct DEF IInv, TypeOK, RQ!QueueTypeOK, Actors, ArgInv, OwnershipProtocol, LifeInv, Queued
<1>1. CASE Create(c)
  <2>1. PICK u \in Threads : /\ pc[u] = "none" /\ pc[c] = "idle"
                             /\ live' = live \cup {u} /\ stack' = stack \cup {u}
                             /\ pc' = [pc EXCEPT ![c] = "publish", ![u] = "run"]
                             /\ arg' = [arg EXCEPT ![c] = u]
    <3>1. todo[c] \in Seq(Calls) /\ todo[c] # <<>>
      BY <1>1 DEF Create, Calling, IInv, TypeOK
    <3>2. Head(todo[c]) \in Calls
      BY <3>1
    <3>3. Head(todo[c]).t \in Threads
      BY <3>2 DEF Calls
    <3> QED BY <1>1, <3>3 DEF Create, Calling
  <2>2. UNCHANGED <<state, reaper_started, head, tail, next, count, lock, rpc, current,
                    processed, errno, failures>>
    BY <1>1 DEF Create, queueVars, reaperVars, envVars
  <2>3. ~ Queued(u)
    BY <1>0, <2>1
  <2>4. /\ pc'[c] = "publish" /\ \A a \in Actors : a # c =>
              arg'[a] = arg[a] /\ (pc'[a] = pc[a] \/ (pc[a] = "none" /\ pc'[a] = "run"))
    BY <1>0, <2>1
  <2> QED
    BY <1>0, <2>1, <2>2, <2>3, <2>4
       DEF Outside, Queued, Working, RQ!Starting, RQ!Enqueuing, RQ!CallerPCs
<1>2. CASE JoinCas(c) \/ DetachCas(c)
  <2>1. /\ pc[c] \in {"join_cas", "detach_cas"} /\ Unclaimed(seen[c])
        /\ UNCHANGED <<live, stack, arg, reaper_started, head, tail, next, count, lock, rpc,
                       current, processed, failures>>
    BY <1>2 DEF JoinCas, DetachCas, IInv, KnowledgeInv, Knows, queueVars, reaperVars
  <2>2. /\ errno' \in RQ!Errors
        /\ \A a \in Actors : a # c => pc'[a] = pc[a]
        /\ pc'[c] \in {"join_cas", "join_poll", "failed", "detach_cas", "detach_finished",
                       "returned"}
    BY <1>0, <1>2 DEF JoinCas, DetachCas, DetachTest, Reject, Goto, RQ!Errors
  <2>3. \/ state' = state
        \/ \E flag \in {"JOINED", "DETACHED"} :
              /\ state[arg[c]] = seen[c]
              /\ state' = [state EXCEPT ![arg[c]] = seen[c] \cup {flag}]
    BY <1>2 DEF JoinCas, DetachCas
  <2>4. \A u \in Threads : /\ Queued(u)' <=> Queued(u)
                           /\ Queued(u) => state'[u] = state[u]
    BY <1>0, <2>1, <2>3 DEF Queued, Unclaimed
  <2> QED
    BY <1>0, <2>1, <2>2, <2>4 DEF Outside, Working, RQ!Starting, RQ!Enqueuing
<1>3. CASE JoinReap(c) \/ JoinUnmap(c) \/ JoinFree(c)
  <2>1. pc[c] \in {"join_reap", "join_unmap", "join_free"} /\ ~ Queued(arg[c])
    <3>1. pc[c] \in {"join_reap", "join_unmap", "join_free"}
      BY <1>3 DEF JoinReap, JoinUnmap, JoinFree
    <3> QED BY <3>1, Ground DEF Owning, Collecting, Queued
  <2>2. /\ UNCHANGED <<arg, reaper_started, head, tail, next, count, lock, rpc, current,
                       processed, errno, failures>>
        /\ \A a \in Actors : a # c => pc'[a] = pc[a]
        /\ pc'[c] \in {"returned", "join_unmap", "join_free"}
    BY <1>0, <1>3 DEF JoinReap, JoinUnmap, JoinFree, Goto, queueVars, reaperVars, envVars
  <2>3. \A u \in Threads : u # arg[c] => /\ state'[u] = state[u]
                                         /\ u \in live' <=> u \in live
                                         /\ u \in stack' <=> u \in stack
    BY <1>0, <1>3 DEF JoinReap, JoinUnmap, JoinFree
  <2>4. Queued(arg[c])' <=> Queued(arg[c])
    BY <1>0, <1>3, <2>1, <2>2 DEF JoinReap, JoinUnmap, JoinFree, Queued
  <2>5. \A u \in Threads : Queued(u)' <=> Queued(u)
    BY <2>2, <2>3, <2>4 DEF Queued
  <2> QED
    BY <1>0, <2>1, <2>2, <2>3, <2>5 DEF Outside, Working, RQ!Starting, RQ!Enqueuing
<1> QED BY <1>1, <1>2, <1>3

LEMMA ReapedNext == IInv /\ ReapedInv /\ [Next]_vars => ReapedInv'
<1> SUFFICES ASSUME IInv, ReapedInv, [Next]_vars PROVE ReapedInv'
  OBVIOUS
<1>0. /\ state \in [Threads -> SUBSET RQ!Flags]
      /\ \A p \in Actors, t \in Threads : RQ!Claim(p, t) =>
            state' = [state EXCEPT ![t] = state[t] \cup {"QUEUED"}]
  BY DEF IInv, TypeOK, RQ!QueueTypeOK, RQ!Claim
<1> USE DEF ReapedInv, Queued
<1>1. ASSUME NEW t \in Threads, ThreadStep(t) PROVE ReapedInv'
  <2>1. CASE ExitClaim(t)
    BY <1>0, <2>1 DEF ExitClaim, Actors
  <2>2. CASE Run(t) \/ Finish(t) \/ WakeJoiner(t) \/ LoadState(t) \/ Exit(t)
    BY <2>2, ThreadOutside DEF Run, Finish, WakeJoiner, LoadState, Exit, descVars
  <2>3. CASE RQ!CallerStep(t)
    <3>1. arg[t] \in Threads /\ t \in Actors
      BY <2>3, CallerWorks DEF IInv, ArgInv, Actors
    <3> QED BY <2>3, <3>1, CallerStepEffect DEF IInv, CallerEffect
  <2> QED BY <1>1, <2>1, <2>2, <2>3 DEF ThreadStep
<1>2. ASSUME NEW c \in Clients, ClientStep(c) PROVE ReapedInv'
  <2>0. /\ c \in Actors
        /\ pc[c] # "idle" => arg[c] \in Threads
        /\ pc[c] = "join_reap" => "JOINED" \in state[arg[c]]
    BY DEF Actors, IInv, ArgInv, KnowledgeInv, Knows, Collecting
  <2>1. CASE JoinCas(c) \/ DetachCas(c)
    <3>1. \/ state' = state
          \/ \E flag \in {"JOINED", "DETACHED"} :
                /\ state[arg[c]] = seen[c]
                /\ state' = [state EXCEPT ![arg[c]] = seen[c] \cup {flag}]
      BY <2>1 DEF JoinCas, DetachCas
    <3>2. arg[c] \in Threads
      BY <2>0, <2>1 DEF JoinCas, DetachCas
    <3> QED BY <1>0, <3>1, <3>2
  <2>2. CASE JoinReap(c)
    BY <1>0, <2>0, <2>2 DEF JoinReap
  <2>3. CASE DetachClaim(c)
    <3>1. arg[c] \in Threads
      BY <2>0, <2>3 DEF DetachClaim
    <3> QED BY <1>0, <2>0, <2>3, <3>1 DEF DetachClaim
  <2>4. CASE RQ!CallerStep(c)
    <3>1. arg[c] \in Threads
      BY <2>0, <2>4, CallerWorks DEF Working, RQ!Starting, RQ!Enqueuing
    <3> QED BY <2>0, <2>4, <3>1, CallerStepEffect DEF IInv, CallerEffect
  <2>5. CASE ~ (JoinCas(c) \/ DetachCas(c) \/ JoinReap(c) \/ DetachClaim(c) \/ RQ!CallerStep(c))
    <3>1. state' = state
      BY <1>2, <2>5
         DEF ClientStep, Create, CreateFails, Publish, Enter, JoinLoad, JoinPoll, JoinWait,
             JoinRead, JoinUnmap, JoinFree, DetachLoad, DetachFinished, Return, ReadErrno,
             descVars
    <3> QED BY <3>1
  <2> QED BY <2>1, <2>2, <2>3, <2>4, <2>5
<1>3. ASSUME NEW r \in Reapers, ReaperStep(r) PROVE ReapedInv'
  <2>1. \A t \in Threads :
          \/ state'[t] = state[t]
          \/ "QUEUED" \in state[t] /\ state'[t] = state[t] \cup {"REAPED"}
    BY <1>3, ReaperStepEffect DEF ReaperStep, ReaperEffect
  <2> QED BY <2>1
<1>4. CASE (\E t \in Threads : Fault(t)) \/ Resting \/ UNCHANGED vars
  BY <1>4 DEF Fault, Resting, vars, rqVars, descVars
<1> QED
  BY <1>1, <1>2, <1>3, <1>4 DEF Next

GroundInv == IInv /\ JoinInv /\ ReleaseInv /\ ReapedInv

LEMMA GroundInductive == Safe => []GroundInv
<1>1. Init => GroundInv
  BY InitInv, InitEnd DEF Init, ReapedInv, GroundInv
<1>2. GroundInv /\ [Next]_vars => GroundInv'
  BY NextInv, NextEnd, ReapedNext DEF GroundInv
<1> QED
  BY <1>1, <1>2, PTL DEF Safe

\* Every step of the library is a step of the queue in a program.
LEMMA ViewStep == GroundInv /\ [Next]_vars => [QP!NextInProgram]_QP!vars
<1> SUFFICES ASSUME GroundInv, [Next]_vars PROVE [QP!NextInProgram]_QP!vars
  OBVIOUS
<1>0. IInv /\ IInv' /\ ReleaseInv /\ ReapedInv
  BY NextInv DEF GroundInv
<1>1. ASSUME NEW p \in Actors, Outside(p) PROVE QP!NextInProgram
  BY <1>0, <1>1, OutsideStep DEF QP!NextInProgram
<1>2. ASSUME NEW p \in Actors, RQ!CallerStep(p), UNCHANGED myVars PROVE QP!NextInProgram
  BY <1>0, <1>2, CallerView DEF QP!NextInProgram, QP!Next
<1>3. ASSUME NEW p \in Actors, NEW t \in Threads, pc[p] \in {"claim", "detach_claim"},
             pc[t] # "none", "DETACHED" \in state[t], RQ!Claim(p, t)
      PROVE  QP!NextInProgram
  BY <1>0, <1>3, ClaimView DEF QP!NextInProgram, QP!Next
<1>4. ASSUME NEW t \in Threads, ThreadStep(t) PROVE QP!NextInProgram
  <2>1. t \in Actors
    BY DEF Actors
  <2>2. CASE ExitClaim(t)
    BY <1>0, <1>3, <2>1, <2>2 DEF ExitClaim, IInv, KnowledgeInv
  <2> QED BY <1>0, <1>1, <1>2, <1>4, <2>1, <2>2, ThreadOutside DEF ThreadStep
<1>5. ASSUME NEW c \in Clients, ClientStep(c) PROVE QP!NextInProgram
  <2>1. c \in Actors
    BY DEF Actors
  <2>2. CASE DetachClaim(c)
    <3>1. /\ pc[c] = "detach_claim" /\ arg[c] \in Threads /\ pc[arg[c]] # "none"
          /\ "DETACHED" \in state[arg[c]]
      BY <1>0, <2>2 DEF DetachClaim, IInv, ArgInv, KnowledgeInv, Knows
    <3> QED BY <1>3, <2>1, <2>2, <3>1 DEF DetachClaim
  <2> QED
    BY <1>0, <1>1, <1>2, <1>5, <2>1, <2>2, CallsOutside, ClaimsOutside DEF ClientStep
<1>6. ASSUME NEW r \in Reapers, ReaperStep(r) PROVE QP!NextInProgram
  BY <1>0, <1>6, ReaperView DEF ReaperStep, QP!NextInProgram, QP!Next
<1>7. CASE (\E t \in Threads : Fault(t)) \/ Resting \/ UNCHANGED vars
  <2>1. UNCHANGED rqVars
    BY <1>7 DEF Fault, Resting, vars
  <2>2. QueueState' = QueueState /\ QueueLive' = QueueLive /\ QueueStack' = QueueStack
    BY <2>1, ViewDesc DEF rqVars, descVars
  <2>3. QueuePC' = QueuePC
    BY <2>1 DEF rqVars, QueuePC
  <2> QED
    BY <2>1, <2>2, <2>3
       DEF rqVars, queueVars, reaperVars, envVars, QP!vars, QP!descVars, QP!queueVars,
           QP!callerVars, QP!reaperVars, QP!envVars
<1> QED
  BY <1>4, <1>5, <1>6, <1>7 DEF Next

LEMMA ViewInit == Init => QP!Init
<1> SUFFICES ASSUME Init PROVE QP!Init
  OBVIOUS
<1>1. QP!InitQueue
  BY DEF Init, RQ!InitQueue, QP!InitQueue
<1>2. QueueState = [t \in Threads |-> {"DETACHED"}] /\ QueueLive = Threads /\ QueueStack = Threads
  BY DEF Init, QueueState, QueueLive, QueueStack, Queued
<1>3. QueuePC = [p \in Actors |-> "idle"]
  BY DEF Init, QueuePC, RQ!CallerPCs, RQ!Starting, RQ!Enqueuing
<1> QED
  BY <1>1, <1>2, <1>3 DEF QP!Init, Init

LEMMA QueueInside == Safe => QP!InProgram
BY ViewInit, ViewStep, GroundInductive, PTL DEF Safe, QP!InProgram

\* The library keeps to what the queue asks of its callers (mythread_join,
\* mythread_detach and thread_startup on one side, reap_enqueue on the other).
THEOREM QueueUsedRightly == Safe => UsesQueue
<1>1. QP!Init => QueueView!Init
  BY DEF QP!Init, QueueView!Init, QP!InitQueue, QueueView!InitQueue
<1>2. QP!NextInProgram => QueueView!NextInProgram
  BY DEF
     QP!NextInProgram, QP!Elsewhere, QP!Next, QP!Submit, QP!Claim, QP!CallerStep,
     QP!Return, QP!ReaperStep, QP!Resting, QP!StartReaper, QP!CloneReaper,
     QP!MapReaperFails, QP!CloneReaperFails, QP!ResetAgain, QP!AllocNode,
     QP!AllocNodeFails, QP!EnqueueLock, QP!Link, QP!SetTail, QP!EnqueueUnlock,
     QP!AddCount, QP!WakeReaper, QP!Asleep, QP!LoadCount, QP!WaitCount, QP!DequeueLock,
     QP!TakeHead, QP!ClearTail, QP!DequeueUnlock, QP!Reap, QP!UnmapStack, QP!FreeThread,
     QP!Advance, QP!SubCount, QP!Goto, QP!RGoto, QP!Fail, QP!vars, QP!descVars,
     QP!listVars, QP!queueVars, QP!callerVars, QP!reaperVars, QP!envVars, QP!Errors,
     QueueView!NextInProgram, QueueView!Elsewhere, QueueView!Next, QueueView!Submit,
     QueueView!Claim, QueueView!CallerStep, QueueView!Return, QueueView!ReaperStep,
     QueueView!Resting, QueueView!StartReaper, QueueView!CloneReaper,
     QueueView!MapReaperFails, QueueView!CloneReaperFails, QueueView!ResetAgain,
     QueueView!AllocNode, QueueView!AllocNodeFails, QueueView!EnqueueLock, QueueView!Link,
     QueueView!SetTail, QueueView!EnqueueUnlock, QueueView!AddCount, QueueView!WakeReaper,
     QueueView!Asleep, QueueView!LoadCount, QueueView!WaitCount, QueueView!DequeueLock,
     QueueView!TakeHead, QueueView!ClearTail, QueueView!DequeueUnlock, QueueView!Reap,
     QueueView!UnmapStack, QueueView!FreeThread, QueueView!Advance, QueueView!SubCount,
     QueueView!Goto, QueueView!RGoto, QueueView!Fail, QueueView!vars, QueueView!descVars,
     QueueView!listVars, QueueView!queueVars, QueueView!callerVars, QueueView!reaperVars,
     QueueView!envVars, QueueView!Errors
<1>3. UNCHANGED QP!vars => UNCHANGED QueueView!vars
  BY DEF
     QP!vars, QP!descVars, QP!queueVars, QP!callerVars, QP!reaperVars, QP!envVars,
     QueueView!vars, QueueView!descVars, QueueView!queueVars, QueueView!callerVars,
     QueueView!reaperVars, QueueView!envVars
<1>4. [QP!NextInProgram]_QP!vars => [QueueView!NextInProgram]_QueueView!vars
  BY <1>2, <1>3
<1>5. QP!InProgram => QueueView!InProgram
  BY <1>1, <1>4, PTL DEF QP!InProgram, QueueView!InProgram
<1> QED
  BY <1>5, QueueInside, PTL DEF UsesQueue

\* So the queue keeps inside the library what it promises: the nodes have one owner
\* each, and are whole; the counter balances; no wake-up is lost; only a failing
\* call loses a descriptor or starts a second reaper.
QueueKept ==
    RQ!OwnedOnce /\ RQ!CountBalance /\ RQ!NoLostWakeup /\ RQ!LostOnlyToFailure /\ RQ!ReaperBound

\* In every execution of the library the queue is as sound as it is on its own.
THEOREM QueueSoundInside == Safe => []QueueKept
<1>1. QP!ConstantsOK
  <2>1. IsFiniteSet(Threads) /\ IsFiniteSet(Actors) /\ IsFiniteSet(Reapers)
    BY ThreadConstantsOK, ActorsFinite, FS_Union DEF Actors
  <2> QED BY <2>1, Distinct DEF QP!ConstantsOK, QP!IsFiniteSet, IsFiniteSet
<1>2. Safe => []QP!IInv
  BY <1>1, QueueInside, QP!InductiveInProgram, PTL
<1>3. IInv /\ QP!IInv => QueueKept
  <2> SUFFICES ASSUME IInv, QP!IInv PROVE QueueKept
    OBVIOUS
  <2>1. /\ QP!OwnedOnce /\ QP!CountBalance /\ QP!NoLostWakeup /\ QP!LostOnlyToFailure
        /\ QP!ReaperBound
    BY <1>1, QP!OwnedHere, QP!BalancedHere, QP!WakeUpHere, QP!LostHere, QP!BoundedHere
  <2>2. \A n : RQ!Chain(n) = QP!Chain(n)
    BY DEF RQ!Chain, QP!Chain, RQ!N, QP!N, RQ!Cardinality, QP!Cardinality
  <2>3. \A r : RQ!Batch(r) = QP!Batch(r) /\ RQ!Done(r) = QP!Done(r)
    BY <2>2 DEF RQ!Batch, QP!Batch, RQ!Done, QP!Done
  <2>4. \A t \in RQ!Chain(head) \cup UNION {RQ!Batch(r) : r \in Reapers} :
           t \in Threads /\ Queued(t)
    BY <1>1, <2>2, <2>3, QP!ChainsQueued DEF QueueState, Queued
  <2>5. \A p \in Actors, label \in RQ!CallerPCs \ {"idle"} :
           QueuePC[p] = label <=> pc[p] = label
    BY DEF QueuePC
  <2>6. \A t \in Threads : Queued(t) => /\ t \in QueueLive <=> t \in live
                                        /\ t \in QueueStack <=> t \in stack
                                        /\ QueueState[t] = state[t]
    BY DEF QueueLive, QueueStack, QueueState
  <2>7. RQ!OwnedOnce
    <3>1. \A r \in Reapers :
             /\ RQ!Chain(head) \cap RQ!Batch(r) = {}
             /\ \A q \in Reapers \ {r} : RQ!Batch(q) \cap RQ!Batch(r) = {}
      BY <2>1, <2>2, <2>3 DEF QP!OwnedOnce
    <3>2. ASSUME NEW t \in RQ!Chain(head) \cup UNION {RQ!Batch(r) : r \in Reapers}
          PROVE  \/ t \in live \cap stack /\ "REAPED" \notin state[t]
                 \/ \E r \in Reapers : /\ current[r] = t
                                       /\ rpc[r] \in {"unmap", "free", "advance"}
      <4>1. t \in QP!Chain(head) \cup UNION {QP!Batch(r) : r \in Reapers}
        BY <2>2, <2>3
      <4>2. \/ t \in QueueLive \cap QueueStack /\ "REAPED" \notin QueueState[t]
            \/ \E r \in Reapers : /\ current[r] = t
                                  /\ rpc[r] \in {"unmap", "free", "advance"}
        BY <2>1, <4>1 DEF QP!OwnedOnce
      <4> QED BY <2>4, <2>6, <4>2
    <3> QED BY <3>1, <3>2 DEF RQ!OwnedOnce
  <2>8. RQ!CountBalance
    <3>1. RQ!Uncounted = QP!Uncounted
      BY <2>5 DEF RQ!Uncounted, QP!Uncounted, Actors, RQ!CallerPCs, RQ!Enqueuing
    <3>2. \A S : RQ!Cardinality(S) = QP!Cardinality(S)
      BY DEF RQ!Cardinality, QP!Cardinality
    <3>3. RQ!MapThenSumSet(LAMBDA r : RQ!Cardinality(RQ!Batch(r)) + RQ!Done(r), Reapers)
            = QP!MapThenSumSet(LAMBDA r : QP!Cardinality(QP!Batch(r)) + QP!Done(r), Reapers)
      BY DEF RQ!MapThenSumSet, QP!MapThenSumSet, RQ!MapThenFoldSet, QP!MapThenFoldSet, RQ!Cardinality, QP!Cardinality, RQ!Batch,
             QP!Batch, RQ!Done, QP!Done, RQ!Chain, QP!Chain, RQ!N, QP!N
    <3> QED BY <2>1, <2>2, <3>1, <3>2, <3>3 DEF RQ!CountBalance, QP!CountBalance
  <2>9. RQ!NoLostWakeup
    <3>1. RQ!Asleep = QP!Asleep
      BY DEF RQ!Asleep, QP!Asleep
    <3>2. ASSUME NEW p \in Actors, QueuePC[p] \in {"tail", "unlock", "count", "wake"}
          PROVE  pc[p] \in {"tail", "unlock", "count", "wake"}
      BY <3>2 DEF QueuePC
    <3> QED
      BY <2>1, <2>2, <3>1, <3>2 DEF RQ!NoLostWakeup, QP!NoLostWakeup, Actors
  <2>10. RQ!LostOnlyToFailure
    <3> DEFINE hand  == {arg[p] : p \in {q \in Actors :
                            pc[q] \in RQ!Starting \cup {"alloc", "lock", "link"}}}
               heldQ == {arg[p] : p \in {q \in Actors :
                            QueuePC[q] \in QP!Starting \cup {"alloc", "lock", "link"}}}
               lost  == {t \in live : "QUEUED" \in state[t]}
                          \ (hand \cup RQ!Chain(head) \cup UNION {RQ!Batch(r) : r \in Reapers})
               lostQ == {t \in QueueLive : "QUEUED" \in QueueState[t]}
                          \ (heldQ \cup QP!Chain(head) \cup UNION {QP!Batch(r) : r \in Reapers})
    <3>1. QP!Cardinality(lostQ) <= failures
      BY <2>1 DEF QP!LostOnlyToFailure
    <3>2. hand = heldQ
      BY <2>5 DEF RQ!Starting, QP!Starting, RQ!CallerPCs, RQ!Enqueuing
    <3>3. {t \in live : "QUEUED" \in state[t]} = {t \in QueueLive : "QUEUED" \in QueueState[t]}
      <4>1. live \subseteq Threads
        BY DEF IInv, TypeOK, RQ!QueueTypeOK
      <4> QED BY <2>6, <4>1 DEF QueueState, QueueLive, Queued
    <3>4. UNION {RQ!Batch(r) : r \in Reapers} = UNION {QP!Batch(r) : r \in Reapers}
      BY <2>3
    <3>5. lost = lostQ
      BY <2>2, <3>2, <3>3, <3>4
    <3>6. RQ!Cardinality(lost) = QP!Cardinality(lostQ)
      BY <3>5 DEF RQ!Cardinality, QP!Cardinality
    <3> QED BY <3>1, <3>6 DEF RQ!LostOnlyToFailure, Actors
  <2>11. RQ!ReaperBound
    BY <2>1 DEF RQ!ReaperBound, QP!ReaperBound, RQ!Cardinality, QP!Cardinality
  <2> QED BY <2>7, <2>8, <2>9, <2>10, <2>11 DEF QueueKept
<1> QED
  BY <1>2, <1>3, GroundInductive, PTL DEF GroundInv

=============================================================================
