------------------------ MODULE MyThreadWoReaperProofs ------------------------
(***************************************************************************)
(* Proofs about the library without a reaper for every set of threads and  *)
(* clients and every program: the type invariant, that one actor at most   *)
(* releases a thread, who can leave a thread unreleased, the value of a    *)
(* join, what the process can die of, and the safety half of the contract. *)
(***************************************************************************)
EXTENDS MyThreadWoReaper, FiniteSetTheorems, TLAPS

\* Control points of a client that releases a thread, of a thread that
\* releases itself, and of a thread that was the first to set joined.
Releasing == {"release_stack", "release_descriptor"}
ByItself  == {"alloc_args", "map_temp", "swap", "unmap", "free"}
Claiming  == {"load_detached", "exit_temp"} \cup ByItself

-----------------------------------------------------------------------------
(* The inductive invariant                                                 *)

\* A client in a call has a call to make of a thread that was created, and,
\* but for its creator, of one that was published.
ArgInv ==
    /\ \A c \in Clients :
          pc[c] # "idle" => /\ todo[c] # <<>>
                            /\ arg[c] \in Threads
                            /\ pc[arg[c]] # "none"
                            /\ pc[c] # "publish" => arg[c] \in published
    /\ \A t \in published : pc[t] # "none"

\* The flags follow the thread's progress, and the thread that was the first
\* to set joined is where only such a thread comes, or has left.
LifeInv ==
    \A t \in Threads :
        /\ pc[t] \in ThreadPCs
        /\ t \in retval <=> pc[t] \notin {"none", "run"}
        /\ t \in finished <=> pc[t] \notin {"none", "run", "finish"}
        /\ t \in joined <=> claimedBy[t] # "nobody"
        /\ pc[t] \in Claiming => claimedBy[t] = "thread"
        /\ claimedBy[t] = "thread" => pc[t] \in Claiming \cup {"exit", "gone"}
        /\ pc[t] \in {"exit", "gone"} => t \in joined
        /\ pc[t] = "none" => t \notin live

\* What a client at a label knows of the thread of its call.
Knows(c, label) ==
    /\ label \in {"join_value", "join_claim", "detach_claim"} => arg[c] \in finished
    /\ label = "join_claim" => got[c] = arg[c] \/ (c \in uaf /\ arg[c] \notin live)
    /\ label \in {"detach_finished", "detach_claim"} =>
          arg[c] \in detached \/ arg[c] \notin live
    /\ label \in Releasing => /\ claimedBy[arg[c]] \in {"joiner", "detacher"}
                              /\ arg[c] \in live
    /\ label = "release_stack" => arg[c] \in stack
    /\ label = "release_descriptor" => arg[c] \notin stack

KnowledgeInv == \A c \in Clients : Knows(c, pc[c])

\* A thread is whole until it is claimed, and then in the hands of the one
\* that claimed it until it is released.
ReleaseInv ==
    /\ \A c, d \in Clients :
          pc[c] \in Releasing /\ pc[d] \in Releasing /\ arg[c] = arg[d] => c = d
    /\ \A t \in Threads :
          /\ pc[t] # "none" /\ t \notin joined => t \in stack
          /\ claimedBy[t] \in {"joiner", "detacher"} /\ t \in live =>
                \E c \in Clients : arg[c] = t /\ pc[c] \in Releasing
          /\ claimedBy[t] = "thread" /\ pc[t] \notin {"free", "exit_temp", "gone"} =>
                t \in stack
          /\ pc[t] = "free" => t \in live \ stack
          /\ pc[t] = "swap" => t \in temp

\* What is freed was joined or detached, and the thread that was detached in
\* time, if it is the one that claimed itself, goes on to free itself.
FreedInv ==
    \A t \in Threads :
        /\ pc[t] # "none" /\ t \notin live => claimedBy[t] = "joiner" \/ t \in detached
        /\ claimedBy[t] = "detacher" => t \in detached
        /\ pc[t] \in ByItself \cup {"exit_temp"} => t \in detached
        /\ pc[t] = "exit_temp" => t \notin live
        /\ t \in inTime /\ claimedBy[t] = "thread" =>
              pc[t] \in Claiming \/ (pc[t] = "gone" /\ t \notin live)

IInv == TypeOK /\ ArgInv /\ LifeInv /\ KnowledgeInv /\ ReleaseInv /\ FreedInv

LEMMA Distinct == NULL \notin Threads /\ Threads \cap Clients = {} /\ MaxFail \in Nat
BY WoReaperConstantsOK

LEMMA InitInv == Init => IInv
<1> SUFFICES ASSUME Init PROVE IInv
  OBVIOUS
<1>1. TypeOK
  <2>1. pc \in [Actors -> ThreadPCs \cup ClientPCs]
    BY DEF Init, ThreadPCs, OwnStackPCs, TempStackPCs, ClientPCs
  <2>2. todo \in [Clients -> Seq(Calls)]
    BY WoReaperConstantsOK DEF Init
  <2>3. dead \in BOOLEAN
    BY DEF Init
  <2>4. \A t \in Threads : pc[t] \in TempStackPCs => t \in temp
    BY DEF Init, TempStackPCs, Actors
  <2>5. /\ live \subseteq Threads /\ stack \subseteq live /\ temp \subseteq Threads
        /\ finished \subseteq retval /\ retval \subseteq Threads /\ joined \subseteq finished
        /\ inTime \subseteq detached /\ detached \subseteq published
        /\ published \subseteq Threads /\ uaf \subseteq Clients
    BY DEF Init
  <2>6. /\ claimedBy \in [Threads -> {"nobody", "joiner", "detacher", "thread"}]
        /\ arg \in [Clients -> Threads \cup {NULL}] /\ got \in [Clients -> Threads \cup {NULL}]
    BY DEF Init
  <2>7. failures \in 0 .. MaxFail
    BY Distinct DEF Init
  <2> QED
    BY <2>1, <2>2, <2>3, <2>4, <2>5, <2>6, <2>7 DEF TypeOK
<1>2. ArgInv
  BY Distinct DEF Init, ArgInv, Actors
<1>3. LifeInv
  BY DEF Init, LifeInv, Actors, Claiming, ByItself, ThreadPCs, OwnStackPCs, TempStackPCs
<1>4. KnowledgeInv /\ ReleaseInv
  BY Distinct DEF Init, KnowledgeInv, Knows, ReleaseInv, Actors, Releasing
<1>5. FreedInv
  BY DEF Init, FreedInv, Actors, ByItself
<1> QED
  BY <1>1, <1>2, <1>3, <1>4, <1>5 DEF IInv

-----------------------------------------------------------------------------
(* The steps of a thread                                                   *)

\* What every step of a thread starts from.
LEMMA ThreadFacts ==
    ASSUME IInv, NEW t \in Threads
    PROVE  /\ t \in Actors /\ t \notin Clients
           /\ pc \in [Actors -> ThreadPCs \cup ClientPCs]
           /\ claimedBy \in [Threads -> {"nobody", "joiner", "detacher", "thread"}]
BY Distinct DEF Actors, IInv, TypeOK

\* The value, then the end of the thread.
LEMMA EndInv ==
    ASSUME IInv, NEW t \in Threads, Run(t) \/ Finish(t)
    PROVE  IInv'
<1>0. /\ t \in Actors /\ t \notin Clients
      /\ pc \in [Actors -> ThreadPCs \cup ClientPCs]
      /\ UNCHANGED <<live, stack, temp, joined, detached, claimedBy, inTime, published, arg,
                     got, todo, uaf, dead, failures>>
      /\ \/ /\ pc[t] = "run" /\ pc' = [pc EXCEPT ![t] = "finish"]
            /\ retval' = retval \cup {t} /\ finished' = finished
         \/ /\ pc[t] = "finish" /\ pc' = [pc EXCEPT ![t] = "wake_joiner"]
            /\ finished' = finished \cup {t} /\ retval' = retval
  BY ThreadFacts DEF Run, Finish, Goto, memVars, callVars, envVars
<1>1. TypeOK'
  <2>1. pc' \in [Actors -> ThreadPCs \cup ClientPCs]
    BY <1>0 DEF ThreadPCs, OwnStackPCs, TempStackPCs
  <2>2. \A u \in Threads : pc'[u] \in TempStackPCs => u \in temp'
    BY <1>0 DEF IInv, TypeOK, TempStackPCs, Actors
  <2> QED
    BY <1>0, <2>1, <2>2 DEF IInv, LifeInv, TypeOK
<1>2. ArgInv'
  BY <1>0 DEF IInv, ArgInv, TypeOK, Actors
<1>3. LifeInv'
  BY <1>0 DEF IInv, LifeInv, Actors, Claiming, ByItself, ThreadPCs,
         OwnStackPCs, TempStackPCs
<1>4. KnowledgeInv'
  BY <1>0, Distinct DEF IInv, KnowledgeInv, Knows, Actors
<1>5. ReleaseInv'
  BY <1>0 DEF IInv, ReleaseInv, Actors, Releasing
<1>6. FreedInv'
  BY <1>0 DEF IInv, FreedInv, Actors, Claiming, ByItself
<1> QED
  BY <1>1, <1>2, <1>3, <1>4, <1>5, <1>6 DEF IInv

LEMMA WakeInv ==
    ASSUME IInv, NEW t \in Threads, WakeJoiner(t)
    PROVE  IInv'
<1>0. /\ t \in Actors /\ t \notin Clients /\ pc[t] = "wake_joiner"
      /\ pc \in [Actors -> ThreadPCs \cup ClientPCs]
      /\ UNCHANGED <<live, stack, temp, retval, finished, joined, detached, claimedBy, inTime,
                     published, arg, got, todo, uaf, dead, failures>>
      /\ \/ pc' = [pc EXCEPT ![t] = "claim"]
         \/ \E c \in Clients : /\ pc[c] = "join_asleep"
                               /\ pc' = [pc EXCEPT ![t] = "claim", ![c] = "join_poll"]
  BY ThreadFacts DEF WakeJoiner, Joiners, Goto, memVars, flagVars, callVars, envVars
<1>1. /\ \A u \in Threads : pc'[u] = IF u = t THEN "claim" ELSE pc[u]
      /\ \A c \in Clients : pc'[c] # pc[c] => pc[c] = "join_asleep" /\ pc'[c] = "join_poll"
  BY <1>0, Distinct DEF Actors
<1>2. TypeOK'
  <2>1. pc' \in [Actors -> ThreadPCs \cup ClientPCs]
    BY <1>0 DEF ThreadPCs, OwnStackPCs, ClientPCs
  <2>2. \A u \in Threads : pc'[u] \in TempStackPCs => u \in temp'
    BY <1>0, <1>1 DEF IInv, TypeOK, TempStackPCs
  <2> QED
    BY <1>0, <2>1, <2>2 DEF IInv, TypeOK
<1>3. ArgInv'
  <2>1. \A u \in Threads : pc[u] # "none" => pc'[u] # "none"
    BY <1>1
  <2>2. ASSUME NEW c \in Clients, pc'[c] # "idle"
        PROVE  pc[c] # "idle" /\ (pc'[c] # "publish" => pc[c] # "publish")
    BY <1>1, <2>2
  <2>3. published \subseteq Threads
    BY DEF IInv, TypeOK
  <2> QED
    BY <1>0, <2>1, <2>2, <2>3 DEF IInv, ArgInv
<1>4. LifeInv'
  BY <1>0, Distinct DEF IInv, LifeInv, Actors, Claiming, ByItself, ThreadPCs,
         OwnStackPCs, TempStackPCs
<1>5. KnowledgeInv'
  BY <1>0, Distinct DEF IInv, KnowledgeInv, Knows, Actors, Releasing
<1>6. ReleaseInv'
  BY <1>0, Distinct DEF IInv, ReleaseInv, Actors, Releasing
<1>7. FreedInv'
  BY <1>0, <1>1 DEF IInv, FreedInv, Claiming, ByItself
<1> QED
  BY <1>2, <1>3, <1>4, <1>5, <1>6, <1>7 DEF IInv

\* The exiting thread is the first to set joined, or leaves.
LEMMA ThreadClaimInv ==
    ASSUME IInv, NEW t \in Threads, ThreadClaim(t)
    PROVE  IInv'
<1>0. /\ t \in Actors /\ t \notin Clients /\ pc[t] = "claim"
      /\ pc \in [Actors -> ThreadPCs \cup ClientPCs]
      /\ claimedBy \in [Threads -> {"nobody", "joiner", "detacher", "thread"}]
      /\ UNCHANGED <<live, stack, temp, retval, finished, detached, inTime,
                     published, arg, got, todo, uaf, dead, failures>>
      /\ \/ /\ t \in joined /\ UNCHANGED <<joined, claimedBy>>
            /\ pc' = [pc EXCEPT ![t] = "exit"]
         \/ /\ t \notin joined /\ joined' = joined \cup {t}
            /\ claimedBy' = [claimedBy EXCEPT ![t] = "thread"]
            /\ pc' = [pc EXCEPT ![t] = "load_detached"]
  BY ThreadFacts DEF ThreadClaim, TakeJoined, Goto, memVars, callVars, envVars
<1>1. TypeOK'
  <2>1. pc' \in [Actors -> ThreadPCs \cup ClientPCs]
    BY <1>0 DEF ThreadPCs, OwnStackPCs, TempStackPCs
  <2>2. \A u \in Threads : pc'[u] \in TempStackPCs => u \in temp'
    BY <1>0 DEF IInv, TypeOK, TempStackPCs, Actors
  <2> QED
    BY <1>0, <2>1, <2>2 DEF IInv, LifeInv, TypeOK
<1>2. ArgInv'
  BY <1>0 DEF IInv, ArgInv, TypeOK, Actors
<1>3. LifeInv'
  BY <1>0 DEF IInv, LifeInv, Actors, Claiming, ByItself, ThreadPCs,
         OwnStackPCs, TempStackPCs
<1>4. KnowledgeInv'
  BY <1>0, Distinct DEF IInv, KnowledgeInv, Knows, LifeInv, Actors, ArgInv, Releasing
<1>5. ReleaseInv'
  BY <1>0, Distinct DEF IInv, LifeInv, ReleaseInv, Actors, Releasing
<1>6. FreedInv'
  BY <1>0 DEF IInv, LifeInv, FreedInv, TypeOK, ReleaseInv, Actors, Claiming, ByItself
<1> QED
  BY <1>1, <1>2, <1>3, <1>4, <1>5, <1>6 DEF IInv

\* The moves of a thread that is past its claim; on the way to its temporary
\* stack, it maps that one.
LEMMA ThreadMovesInv ==
    ASSUME IInv, NEW t \in Threads,
           LoadDetached(t) \/ AllocArgs(t) \/ MapTemp(t) \/ SwapContext(t) \/ Exit(t)
    PROVE  IInv'
<1>0. /\ t \in Actors /\ t \notin Clients
      /\ pc \in [Actors -> ThreadPCs \cup ClientPCs]
      /\ UNCHANGED <<live, stack, retval, finished, joined, detached, claimedBy, inTime,
                     published, arg, got, todo, uaf>>
      /\ \/ /\ pc[t] = "load_detached" /\ temp' = temp
            /\ \/ t \in detached /\ pc' = [pc EXCEPT ![t] = "alloc_args"]
               \/ t \notin detached /\ pc' = [pc EXCEPT ![t] = "exit"]
         \/ /\ pc[t] = "alloc_args" /\ temp' = temp
            /\ pc' = [pc EXCEPT ![t] = "map_temp"]
         \/ /\ pc[t] = "map_temp" /\ temp' = temp \cup {t}
            /\ pc' = [pc EXCEPT ![t] = "swap"]
         \/ /\ pc[t] = "swap" /\ temp' = temp
            /\ pc' = [pc EXCEPT ![t] = "unmap"]
         \/ /\ pc[t] \in {"exit", "exit_temp"} /\ temp' = temp
            /\ pc' = [pc EXCEPT ![t] = "gone"]
         \/ pc' = pc /\ temp' = temp
  BY ThreadFacts DEF LoadDetached, AllocArgs, MapTemp, SwapContext, Exit, Fail, Move, Goto,
                     memVars, flagVars, callVars, envVars
<1>1. TypeOK'
  <2>1. failures' \in 0 .. MaxFail
    BY Distinct DEF IInv, TypeOK, LoadDetached, AllocArgs, MapTemp, SwapContext, Exit,
                    Move, Fail, envVars
  <2>2. dead' \in BOOLEAN
    BY Zenon DEF IInv, TypeOK, LoadDetached, AllocArgs, MapTemp, SwapContext, Exit,
                 Move, envVars
  <2>3. pc' \in [Actors -> ThreadPCs \cup ClientPCs]
    BY <1>0 DEF ThreadPCs, OwnStackPCs, TempStackPCs
  <2>4. \A u \in Threads : pc'[u] \in TempStackPCs => u \in temp'
    BY <1>0 DEF IInv, TypeOK, ReleaseInv, TempStackPCs, Actors
  <2> QED
    BY <1>0, <2>1, <2>2, <2>3, <2>4 DEF IInv, TypeOK
<1>2. ArgInv'
  BY <1>0 DEF IInv, ArgInv, TypeOK, Actors
<1>3. LifeInv'
  BY <1>0 DEF IInv, LifeInv, Actors, Claiming, ByItself, ThreadPCs,
         OwnStackPCs, TempStackPCs
<1>4. KnowledgeInv'
  BY <1>0, Distinct DEF IInv, KnowledgeInv, Knows, Actors
<1>5. ReleaseInv'
  BY <1>0 DEF IInv, LifeInv, ReleaseInv, Actors, Releasing, Claiming, ByItself
<1>6. FreedInv'
  BY <1>0 DEF IInv, TypeOK, LifeInv, FreedInv, Actors, Claiming, ByItself
<1> QED
  BY <1>1, <1>2, <1>3, <1>4, <1>5, <1>6 DEF IInv

\* From the temporary stack the thread unmaps its own, and frees its descriptor.
LEMMA OwnReleaseInv ==
    ASSUME IInv, NEW t \in Threads, UnmapOwn(t) \/ FreeOwn(t)
    PROVE  IInv'
<1>0. /\ t \in Actors /\ t \notin Clients
      /\ claimedBy[t] = "thread" /\ pc[t] = "free" => t \notin stack
      /\ pc \in [Actors -> ThreadPCs \cup ClientPCs]
      /\ UNCHANGED <<temp, retval, finished, joined, detached, claimedBy, inTime, published,
                     arg, got, todo, uaf, dead, failures>>
      /\ \/ /\ pc[t] = "unmap" /\ pc' = [pc EXCEPT ![t] = "free"]
            /\ stack' = stack \ {t} /\ live' = live
         \/ /\ pc[t] = "free" /\ pc' = [pc EXCEPT ![t] = "exit_temp"]
            /\ live' = live \ {t} /\ stack' = stack
  BY ThreadFacts DEF UnmapOwn, FreeOwn, Goto, flagVars, callVars, envVars, IInv, LifeInv,
                     ReleaseInv, Claiming, ByItself
<1>1. claimedBy[t] = "thread"
  BY <1>0 DEF IInv, LifeInv, Claiming, ByItself
<1>2. TypeOK'
  <2>1. pc' \in [Actors -> ThreadPCs \cup ClientPCs]
    BY <1>0 DEF ThreadPCs, OwnStackPCs, TempStackPCs
  <2>2. \A u \in Threads : pc'[u] \in TempStackPCs => u \in temp'
    BY <1>0 DEF IInv, TypeOK, TempStackPCs, Actors
  <2> QED
    BY <1>0, <1>1, <2>1, <2>2 DEF IInv, LifeInv, TypeOK
<1>3. ArgInv'
  BY <1>0 DEF IInv, ArgInv, TypeOK, Actors
<1>4. LifeInv'
  BY <1>0, <1>1 DEF IInv, LifeInv, Actors, Claiming, ByItself, ThreadPCs,
         OwnStackPCs, TempStackPCs
<1>5. KnowledgeInv'
  BY <1>0, <1>1, Distinct DEF IInv, KnowledgeInv, Knows, Actors, Releasing
<1>6. ReleaseInv'
  <2>1. \A c \in Clients : pc'[c] = pc[c] /\ arg'[c] = arg[c]
    BY <1>0 DEF Actors
  <2>2. ASSUME NEW u \in Threads, u # t
        PROVE  /\ pc'[u] = pc[u]
               /\ u \in stack' <=> u \in stack
               /\ u \in live' <=> u \in live
    BY <1>0, <2>2 DEF Actors
  <2>3. t \in joined /\ t \in live
    BY <1>0, <1>1 DEF IInv, TypeOK, LifeInv, ReleaseInv
  <2>4. pc'[t] = "free" => t \in live' \ stack'
    BY <1>0, <2>3
  <2>5. pc'[t] \in {"free", "exit_temp"}
    BY <1>0
  <2> QED
    BY <1>0, <1>1, <2>1, <2>2, <2>3, <2>4, <2>5 DEF IInv, ReleaseInv
<1>7. FreedInv'
  <2>1. t \in detached /\ (pc[t] = "unmap" => t \in live)
    BY <1>0, <1>1 DEF IInv, TypeOK, ReleaseInv, FreedInv, ByItself
  <2> QED
    BY <1>0, <1>1, <2>1 DEF IInv, FreedInv, Actors, Claiming, ByItself
<1> QED
  BY <1>2, <1>3, <1>4, <1>5, <1>6, <1>7 DEF IInv

LEMMA ThreadStepInv ==
    ASSUME IInv, NEW t \in Threads, ThreadStep(t)
    PROVE  IInv'
BY EndInv, WakeInv, ThreadClaimInv, ThreadMovesInv, OwnReleaseInv DEF ThreadStep

\* A step that only ends the process, or changes nothing.
LEMMA StutterInv ==
    ASSUME IInv,
           UNCHANGED <<memVars, flagVars, callVars, pc, failures>>,
           dead' \in BOOLEAN
    PROVE  IInv'
<1> USE DEF memVars, flagVars, callVars
<1>1. TypeOK'
  BY DEF IInv, TypeOK
<1>2. ArgInv' /\ LifeInv'
  BY DEF IInv, ArgInv, LifeInv
<1>3. KnowledgeInv' /\ ReleaseInv'
  BY DEF IInv, KnowledgeInv, Knows, ReleaseInv
<1>4. FreedInv'
  BY DEF IInv, FreedInv
<1> QED
  BY <1>1, <1>2, <1>3, <1>4 DEF IInv

-----------------------------------------------------------------------------
(* The steps of a client                                                   *)

\* A client that releases nothing may go to any label where it knows what it
\* has to know there, and may give up a pointer or publish one on the way.
LEMMA ClientMove ==
    ASSUME IInv, NEW c \in Clients, pc[c] \notin Releasing,
           NEW label \in ClientPCs \ Releasing,
           pc' = [pc EXCEPT ![c] = label],
           UNCHANGED <<memVars, retval, finished, joined, claimedBy>>,
           dead' \in BOOLEAN, failures' \in 0 .. MaxFail,
           published \subseteq published', published' \subseteq Threads,
           \A t \in published' : pc[t] # "none",
           detached \subseteq detached', detached' \subseteq published',
           inTime \subseteq inTime', inTime' \subseteq detached',
           \A t \in inTime' \ inTime : pc[t] \notin {"exit", "gone"},
           uaf' \subseteq Clients, \A d \in Clients \ {c} : d \in uaf => d \in uaf',
           arg' \in [Clients -> Threads \cup {NULL}],
           got' \in [Clients -> Threads \cup {NULL}],
           todo' \in [Clients -> Seq(Calls)],
           \A d \in Clients \ {c} :
               arg'[d] = arg[d] /\ got'[d] = got[d] /\ todo'[d] = todo[d],
           label # "idle" => /\ todo'[c] # <<>>
                             /\ arg'[c] \in Threads
                             /\ pc[arg'[c]] # "none"
                             /\ label # "publish" => arg'[c] \in published',
           Knows(c, label)'
    PROVE  IInv'
<1>0. /\ c \in Actors /\ c \notin Threads
      /\ pc \in [Actors -> ThreadPCs \cup ClientPCs]
      /\ pc'[c] = label
      /\ \A p \in Actors \ {c} : pc'[p] = pc[p]
      /\ \A t \in Threads : t \in Actors /\ pc'[t] = pc[t]
  BY Distinct DEF Actors, IInv, TypeOK
<1> USE DEF memVars
<1>1. TypeOK'
  BY <1>0 DEF IInv, TypeOK
<1>2. ArgInv'
  <2>1. ASSUME NEW d \in Clients, pc'[d] # "idle"
        PROVE  /\ todo'[d] # <<>> /\ arg'[d] \in Threads /\ pc'[arg'[d]] # "none"
               /\ pc'[d] # "publish" => arg'[d] \in published'
    <3>1. CASE d = c
      BY <1>0, <2>1, <3>1
    <3>2. CASE d # c
      <4>1. pc'[d] = pc[d] /\ arg'[d] = arg[d] /\ todo'[d] = todo[d]
        BY <1>0, <3>2 DEF Actors
      <4>2. /\ todo[d] # <<>> /\ arg[d] \in Threads /\ pc[arg[d]] # "none"
            /\ pc[d] # "publish" => arg[d] \in published
        BY <2>1, <4>1 DEF IInv, ArgInv
      <4> QED
        BY <1>0, <4>1, <4>2
    <3> QED
      BY <3>1, <3>2
  <2>2. \A t \in published' : pc'[t] # "none"
    BY <1>0
  <2> QED
    BY <2>1, <2>2 DEF ArgInv
<1>3. LifeInv'
  BY <1>0 DEF IInv, LifeInv
<1>4. KnowledgeInv'
  <2>1. ASSUME NEW d \in Clients PROVE Knows(d, pc[d])' \/ d = c
    BY <2>1 DEF IInv, KnowledgeInv, Knows
  <2>2. \A d \in Clients \ {c} : pc'[d] = pc[d]
    BY <1>0 DEF Actors
  <2> QED
    BY <1>0, <2>1, <2>2 DEF KnowledgeInv, Knows
<1>6. FreedInv'
  <2>1. ASSUME NEW t \in Threads, t \in inTime', claimedBy[t] = "thread"
        PROVE  pc[t] \in Claiming \/ (pc[t] = "gone" /\ t \notin live)
    BY <2>1 DEF IInv, LifeInv, FreedInv
  <2> QED
    BY <1>0, <2>1 DEF IInv, FreedInv
<1>5. ReleaseInv'
  <2>0. \A d \in Clients \ {c} : pc'[d] = pc[d] /\ arg'[d] = arg[d]
    BY <1>0 DEF Actors
  <2>1. \A d \in Clients : /\ pc'[d] \in Releasing <=> pc[d] \in Releasing
                           /\ pc[d] \in Releasing => arg'[d] = arg[d]
    BY <1>0, <2>0
  <2>2. ASSUME NEW t \in Threads,
               \E d \in Clients : arg[d] = t /\ pc[d] \in Releasing
        PROVE  \E d \in Clients : arg'[d] = t /\ pc'[d] \in Releasing
    BY <2>1, <2>2
  <2>3. \A t \in Threads : pc'[t] = pc[t]
    BY <1>0
  <2>4. \A d, e \in Clients :
           pc'[d] \in Releasing /\ pc'[e] \in Releasing /\ arg'[d] = arg'[e] => d = e
    BY <2>1 DEF IInv, ReleaseInv
  <2>5. ASSUME NEW t \in Threads
        PROVE  /\ pc'[t] # "none" /\ t \notin joined' => t \in stack'
               /\ claimedBy'[t] = "thread" /\ pc'[t] \notin {"free", "exit_temp", "gone"} =>
                     t \in stack'
               /\ pc'[t] = "free" => t \in live' \ stack'
               /\ pc'[t] = "swap" => t \in temp'
    BY <2>3 DEF IInv, ReleaseInv
  <2>6. ASSUME NEW t \in Threads, claimedBy'[t] \in {"joiner", "detacher"}, t \in live'
        PROVE  \E d \in Clients : arg'[d] = t /\ pc'[d] \in Releasing
    <3>1. \E d \in Clients : arg[d] = t /\ pc[d] \in Releasing
      BY <2>6 DEF IInv, ReleaseInv
    <3> QED
      BY <2>2, <3>1
  <2> QED
    BY <2>4, <2>5, <2>6 DEF ReleaseInv
<1> QED
  BY <1>1, <1>2, <1>3, <1>4, <1>5, <1>6 DEF IInv

\* What the invariant says of a client.
LEMMA ClientFacts ==
    ASSUME IInv, NEW c \in Clients
    PROVE  /\ c \in Actors /\ c \notin Threads
           /\ pc \in [Actors -> ThreadPCs \cup ClientPCs]
           /\ arg \in [Clients -> Threads \cup {NULL}]
           /\ got \in [Clients -> Threads \cup {NULL}]
           /\ todo \in [Clients -> Seq(Calls)]
           /\ published \subseteq Threads /\ detached \subseteq published
           /\ \A t \in published : pc[t] # "none"
           /\ failures \in 0 .. MaxFail
           /\ finished \subseteq retval /\ inTime \subseteq detached
           /\ uaf \subseteq Clients /\ dead \in BOOLEAN
           /\ pc[c] # "idle" => /\ todo[c] # <<>>
                                /\ arg[c] \in Threads
                                /\ pc[arg[c]] # "none"
                                /\ pc[c] # "publish" => arg[c] \in published
           /\ Knows(c, pc[c])
BY Distinct DEF IInv, TypeOK, Actors, ArgInv, KnowledgeInv

LEMMA CallFacts ==
    ASSUME IInv, NEW c \in Clients, NEW op, Calling(c, op)
    PROVE  Head(todo[c]).t \in Threads /\ pc[c] = "idle" /\ todo[c] # <<>>
<1>1. todo[c] \in Seq(Calls) /\ todo[c] # <<>> /\ pc[c] = "idle"
  BY ClientFacts DEF Calling
<1>2. Head(todo[c]) \in Calls
  BY <1>1
<1> QED
  BY <1>1, <1>2 DEF Calls

LEMMA Labels ==
    /\ {"idle", "publish", "returned", "failed", "join_load", "join_poll", "join_wait",
        "join_asleep", "join_value", "join_claim", "detach_store", "detach_finished",
        "detach_claim"} \subseteq ClientPCs \ Releasing
    /\ Releasing \subseteq ClientPCs
BY DEF ClientPCs, Releasing

\* A descriptor that is freed was one of a thread that had ended.
LEMMA FreedFacts ==
    ASSUME IInv, NEW t \in Threads, pc[t] # "none", t \notin live
    PROVE  /\ t \in retval /\ t \in finished /\ t \in joined
           /\ claimedBy[t] = "joiner" \/ t \in detached
BY DEF IInv, TypeOK, ReleaseInv, FreedInv

LEMMA TouchFacts ==
    ASSUME IInv, NEW c \in Clients, Touch(c)
    PROVE  /\ uaf' \subseteq Clients /\ uaf \subseteq uaf'
           /\ arg[c] \notin live => c \in uaf'
BY ClientFacts DEF Touch

\* A client that looks at a flag goes one way or the other, and to where only
\* the flag finished sends it, only if the thread has finished, or is freed.
LEMMA LookInv ==
    ASSUME IInv, NEW c \in Clients,
           NEW from \in {"join_load", "join_poll", "join_wait", "detach_finished"},
           NEW flag,
           NEW ifSet \in {"failed", "join_poll", "join_value", "detach_claim"},
           NEW ifNot \in {"join_poll", "join_wait", "join_asleep", "returned"},
           ifSet \in {"join_value", "detach_claim"} => flag = finished,
           ifSet = "detach_claim" => from = "detach_finished",
           Look(c, from, flag, ifSet, ifNot)
    PROVE  IInv'
<1>1. /\ pc[c] = from
      /\ UNCHANGED <<memVars, flagVars, published, arg, got, todo, envVars>>
      /\ uaf' \subseteq Clients /\ uaf \subseteq uaf'
  BY TouchFacts DEF Look
<1>2. PICK set \in Sees(c, flag) : pc' = [pc EXCEPT ![c] = IF set THEN ifSet ELSE ifNot]
  BY DEF Look, Goto
<1> DEFINE label == IF set THEN ifSet ELSE ifNot
<1>3. /\ arg[c] \in Threads /\ pc[arg[c]] # "none" /\ arg[c] \in published
      /\ todo[c] # <<>> /\ pc[c] \notin Releasing
      /\ label \in ClientPCs \ Releasing
  BY <1>1, ClientFacts, Labels DEF Releasing
<1>4. label \in {"join_value", "detach_claim"} => arg[c] \in finished
  <2>1. CASE arg[c] \in live
    BY <1>2, <2>1 DEF Sees
  <2>2. CASE arg[c] \notin live
    BY <1>3, <2>2, FreedFacts
  <2> QED
    BY <2>1, <2>2
<1>5. label = "detach_claim" => arg[c] \in detached \/ arg[c] \notin live
  BY <1>1, ClientFacts DEF Knows
<1>6. Knows(c, label)'
  <2>1. label \notin Releasing \cup {"join_claim", "detach_finished"}
    BY DEF Releasing
  <2>2. /\ label \in {"join_value", "detach_claim"} => arg'[c] \in finished'
        /\ label = "detach_claim" => arg'[c] \in detached' \/ arg'[c] \notin live'
    BY <1>1, <1>4, <1>5 DEF flagVars, memVars
  <2> QED
    BY <2>1, <2>2 DEF Knows, Releasing
<1>7. /\ published \subseteq Threads /\ failures \in 0 .. MaxFail /\ dead \in BOOLEAN
      /\ arg \in [Clients -> Threads \cup {NULL}] /\ got \in [Clients -> Threads \cup {NULL}]
      /\ todo \in [Clients -> Seq(Calls)]
      /\ detached \subseteq published /\ inTime \subseteq detached
      /\ \A t \in published : pc[t] # "none"
  BY ClientFacts
<1> HIDE DEF label
<1> QED
  BY <1>1, <1>2, <1>3, <1>6, <1>7, ClientMove DEF flagVars, envVars, label

\* The value, of a freed descriptor whatever is there.
LEMMA JoinReadInv ==
    ASSUME IInv, NEW c \in Clients, JoinRead(c)
    PROVE  IInv'
<1>1. /\ pc[c] = "join_value" /\ pc' = [pc EXCEPT ![c] = "join_claim"]
      /\ UNCHANGED <<memVars, flagVars, published, arg, todo, envVars>>
      /\ uaf' \subseteq Clients /\ uaf \subseteq uaf'
      /\ arg[c] \notin live => c \in uaf'
  BY TouchFacts DEF JoinRead, Goto
<1>2. PICK set \in Sees(c, retval) :
         got' = [got EXCEPT ![c] = IF set THEN arg[c] ELSE NULL]
  BY DEF JoinRead
<1>3. /\ arg[c] \in Threads /\ pc[arg[c]] # "none" /\ arg[c] \in published
      /\ arg[c] \in finished /\ finished \subseteq retval
      /\ todo[c] # <<>> /\ pc[c] \notin Releasing
  BY <1>1, ClientFacts DEF Knows, Releasing
<1>4. /\ got' \in [Clients -> Threads \cup {NULL}]
      /\ \A d \in Clients \ {c} : got'[d] = got[d]
      /\ got'[c] = arg[c] \/ arg[c] \notin live
  BY <1>2, <1>3, ClientFacts DEF Sees
<1>5. Knows(c, "join_claim")'
  BY <1>1, <1>3, <1>4 DEF Knows, Releasing, flagVars, memVars
<1>6. /\ published \subseteq Threads /\ failures \in 0 .. MaxFail /\ dead \in BOOLEAN
      /\ arg \in [Clients -> Threads \cup {NULL}]
      /\ todo \in [Clients -> Seq(Calls)]
      /\ detached \subseteq published /\ inTime \subseteq detached
      /\ \A t \in published : pc[t] # "none"
  BY ClientFacts
<1> QED
  BY <1>1, <1>3, <1>4, <1>5, <1>6, Labels, ClientMove DEF flagVars, envVars

LEMMA DetachStoreInv ==
    ASSUME IInv, NEW c \in Clients, DetachStore(c)
    PROVE  IInv'
<1>1. /\ pc[c] = "detach_store" /\ pc' = [pc EXCEPT ![c] = "detach_finished"]
      /\ detached' = detached \cup ({arg[c]} \cap live)
      /\ inTime' = inTime \cup {t \in {arg[c]} \cap live : pc[t] \notin {"exit", "gone"}}
      /\ UNCHANGED <<memVars, retval, finished, joined, claimedBy, published, arg, got, todo,
                     envVars>>
      /\ uaf' \subseteq Clients /\ uaf \subseteq uaf'
  BY TouchFacts DEF DetachStore, Goto
<1>2. /\ arg[c] \in Threads /\ pc[arg[c]] # "none" /\ arg[c] \in published
      /\ todo[c] # <<>> /\ pc[c] \notin Releasing
  BY <1>1, ClientFacts DEF Releasing
<1>3. /\ published \subseteq Threads /\ failures \in 0 .. MaxFail /\ dead \in BOOLEAN
      /\ arg \in [Clients -> Threads \cup {NULL}] /\ got \in [Clients -> Threads \cup {NULL}]
      /\ todo \in [Clients -> Seq(Calls)]
      /\ \A t \in published : pc[t] # "none"
  BY ClientFacts
<1>4. /\ detached \subseteq detached' /\ detached' \subseteq published'
      /\ inTime \subseteq inTime' /\ inTime' \subseteq detached'
      /\ \A t \in inTime' \ inTime : pc[t] \notin {"exit", "gone"}
  BY <1>1, <1>2, ClientFacts
<1>5. Knows(c, "detach_finished")'
  BY <1>1 DEF Knows, Releasing, memVars
<1> QED
  BY <1>1, <1>2, <1>3, <1>4, <1>5, Labels, ClientMove DEF envVars

LEMMA LooksInv ==
    ASSUME IInv, NEW c \in Clients,
           JoinLoad(c) \/ JoinPoll(c) \/ JoinWait(c) \/ DetachFinished(c)
    PROVE  IInv'
<1>1. CASE JoinLoad(c)
  BY <1>1, LookInv DEF JoinLoad
<1>2. CASE JoinPoll(c)
  BY <1>2, LookInv DEF JoinPoll
<1>3. CASE JoinWait(c)
  BY <1>3, LookInv DEF JoinWait
<1>4. CASE DetachFinished(c)
  BY <1>4, LookInv DEF DetachFinished
<1> QED
  BY <1>1, <1>2, <1>3, <1>4

\* The calls begin and end.
LEMMA CallsInv ==
    ASSUME IInv, NEW c \in Clients,
           \/ CreateFails(c) \/ Publish(c) \/ Return(c)
           \/ Enter(c, "join", "join_load") \/ Enter(c, "detach", "detach_store")
    PROVE  IInv'
<1> USE DEF flagVars, callVars, envVars
<1>1. CASE CreateFails(c)
  <2>1. /\ pc' = [pc EXCEPT ![c] = "idle"]
        /\ pc[c] = "idle"
        /\ todo' \in [Clients -> Seq(Calls)]
        /\ \A d \in Clients \ {c} : todo'[d] = todo[d]
        /\ UNCHANGED <<memVars, flagVars, published, arg, got, uaf, dead>>
    BY <1>1, ClientFacts DEF CreateFails, Calling
  <2>2. failures' \in 0 .. MaxFail
    BY <1>1, ClientFacts, Distinct DEF CreateFails, Fail
  <2>3. Knows(c, "idle")'
    BY DEF Knows, Releasing
  <2> QED
    BY <2>1, <2>2, <2>3, ClientFacts, Labels, ClientMove DEF Releasing
<1>2. CASE Publish(c)
  <2>1. Knows(c, "returned")'
    BY DEF Knows, Releasing
  <2>2. /\ pc[c] = "publish" /\ pc' = [pc EXCEPT ![c] = "returned"]
        /\ published' = published \cup {arg[c]}
        /\ UNCHANGED <<memVars, flagVars, arg, got, todo, uaf, envVars>>
    BY <1>2 DEF Publish, Goto
  <2>3. /\ pc[c] \notin Releasing
        /\ published' \subseteq Threads /\ \A t \in published' : pc[t] # "none"
        /\ todo[c] # <<>> /\ arg[c] \in Threads /\ pc[arg[c]] # "none"
    BY <2>2, ClientFacts DEF Releasing
  <2> QED
    BY <2>1, <2>2, <2>3, ClientFacts, Labels, ClientMove
<1>3. CASE Return(c)
  <2>1. /\ pc[c] \in {"returned", "failed"} /\ pc' = [pc EXCEPT ![c] = "idle"]
        /\ todo' = [todo EXCEPT ![c] = Tail(@)]
        /\ UNCHANGED <<memVars, flagVars, published, arg, got, uaf, envVars>>
    BY <1>3 DEF Return, Goto
  <2>2. todo[c] \in Seq(Calls) /\ todo[c] # <<>>
    BY <2>1, ClientFacts
  <2>3. Tail(todo[c]) \in Seq(Calls)
    BY <2>2
  <2>4. /\ todo' \in [Clients -> Seq(Calls)]
        /\ \A d \in Clients \ {c} : todo'[d] = todo[d]
    BY <2>1, <2>3, ClientFacts
  <2>5. Knows(c, "idle")'
    BY DEF Knows, Releasing
  <2> QED
    BY <2>1, <2>4, <2>5, ClientFacts, Labels, ClientMove DEF Releasing
<1>4. ASSUME NEW op, NEW label \in {"join_load", "detach_store"}, Enter(c, op, label)
      PROVE  IInv'
  <2>1. Calling(c, op) /\ Head(todo[c]).t \in published /\ pc[c] = "idle" /\ todo[c] # <<>>
    BY <1>4, CallFacts DEF Enter
  <2>2. /\ pc' = [pc EXCEPT ![c] = label]
        /\ arg'[c] \in published
        /\ arg' \in [Clients -> Threads \cup {NULL}]
        /\ got' \in [Clients -> Threads \cup {NULL}]
        /\ \A d \in Clients \ {c} : arg'[d] = arg[d] /\ got'[d] = got[d]
        /\ UNCHANGED <<memVars, flagVars, published, todo, envVars>>
        /\ uaf' = uaf \ {c}
    BY <1>4, <2>1, ClientFacts DEF Enter, Goto
  <2>3. Knows(c, label)'
    BY DEF Knows, Releasing
  <2>4. /\ pc[c] \notin Releasing /\ label \in ClientPCs \ Releasing
        /\ todo'[c] # <<>> /\ arg'[c] \in Threads /\ pc[arg'[c]] # "none"
        /\ failures' \in 0 .. MaxFail /\ published' \subseteq Threads
        /\ \A t \in published' : pc[t] # "none"
        /\ detached' \subseteq published' /\ inTime' \subseteq detached'
        /\ uaf' \subseteq Clients /\ dead' \in BOOLEAN
        /\ todo' \in [Clients -> Seq(Calls)]
    BY <2>1, <2>2, ClientFacts, Labels DEF Releasing
  <2> QED
    BY <2>2, <2>3, <2>4, ClientMove
<1> QED
  BY <1>1, <1>2, <1>3, <1>4

\* A new thread is blank, and no client in a call has its name.
LEMMA CreateInv ==
    ASSUME IInv, NEW c \in Clients, Create(c)
    PROVE  IInv'
<1> DEFINE t == Head(todo[c]).t
<1>1. t \in Threads /\ pc[c] = "idle" /\ todo[c] # <<>>
  BY CallFacts DEF Create
<1>2. /\ pc[t] = "none"
      /\ live' = live \cup {t} /\ stack' = stack \cup {t}
      /\ pc' = [pc EXCEPT ![c] = "publish", ![t] = "run"]
      /\ arg' = [arg EXCEPT ![c] = t]
      /\ UNCHANGED <<temp, retval, finished, joined, detached, claimedBy, inTime, published,
                     got, todo, uaf, dead, failures>>
  BY DEF Create, flagVars, envVars
<1> HIDE DEF t
<1>3. /\ t \in Actors /\ c \in Actors /\ c \notin Threads /\ c # t
      /\ pc' \in [Actors -> ThreadPCs \cup ClientPCs]
      /\ pc'[c] = "publish" /\ pc'[t] = "run"
      /\ \A p \in Actors \ {c, t} : pc'[p] = pc[p]
      /\ \A d \in Clients : d \in Actors /\ d # t
      /\ \A u \in Threads : u \in Actors /\ u # c
      /\ arg' \in [Clients -> Threads \cup {NULL}]
      /\ arg'[c] = t
      /\ \A d \in Clients \ {c} : arg'[d] = arg[d]
  <2>1. /\ c \notin Threads /\ Actors = Threads \cup Clients /\ Threads \cap Clients = {}
        /\ pc \in [Actors -> ThreadPCs \cup ClientPCs]
        /\ arg \in [Clients -> Threads \cup {NULL}]
    BY ClientFacts, Distinct DEF Actors
  <2>2. "publish" \in ClientPCs /\ "run" \in ThreadPCs
    BY DEF ThreadPCs, OwnStackPCs, ClientPCs
  <2> QED
    BY <1>1, <1>2, <2>1, <2>2
<1>4. t \notin live /\ t \notin finished /\ t \notin joined /\ claimedBy[t] = "nobody"
  BY <1>1, <1>2 DEF IInv, TypeOK, LifeInv
<1>5. TypeOK'
  <2>1. \A u \in Threads : pc'[u] \in TempStackPCs => u \in temp'
    BY <1>1, <1>2, <1>3 DEF IInv, TypeOK, TempStackPCs
  <2> QED
    BY <1>1, <1>2, <1>3, <2>1 DEF IInv, TypeOK
<1>6. ArgInv'
  BY <1>1, <1>2, <1>3 DEF IInv, ArgInv, TypeOK
<1>7. LifeInv'
  BY <1>1, <1>2, <1>3, <1>4
     DEF IInv, LifeInv, Claiming, ByItself, ThreadPCs, OwnStackPCs, TempStackPCs
<1>8. KnowledgeInv'
  BY <1>1, <1>2, <1>3, <1>4 DEF IInv, KnowledgeInv, Knows, ArgInv, Releasing
<1>9. ReleaseInv'
  <2>1. \A d \in Clients : /\ pc'[d] \in Releasing <=> pc[d] \in Releasing
                           /\ pc[d] \in Releasing => arg'[d] = arg[d]
    BY <1>1, <1>3 DEF Releasing
  <2>2. ASSUME NEW u \in Threads,
               \E d \in Clients : arg[d] = u /\ pc[d] \in Releasing
        PROVE  \E d \in Clients : arg'[d] = u /\ pc'[d] \in Releasing
    BY <2>1, <2>2
  <2>3. \A u \in Threads \ {t} : pc'[u] = pc[u]
    BY <1>3
  <2> QED
    BY <1>1, <1>2, <1>3, <1>4, <2>1, <2>2, <2>3 DEF IInv, ReleaseInv
<1>10. FreedInv'
  BY <1>1, <1>2, <1>3, <1>4 DEF IInv, FreedInv, ByItself
<1> QED
  BY <1>5, <1>6, <1>7, <1>8, <1>9, <1>10 DEF IInv

\* A join or a detach finds joined set and returns, or sets it and has a whole
\* thread to release.
LEMMA ClaimInv ==
    ASSUME IInv, NEW c \in Clients, JoinClaim(c) \/ DetachClaim(c)
    PROVE  IInv'
<1> DEFINE t == arg[c]
<1>0. PICK from \in {"join_claim", "detach_claim"}, who \in {"joiner", "detacher"} :
         /\ Claim(c, from, who)
         /\ from = "detach_claim" <=> who = "detacher"
  BY DEF JoinClaim, DetachClaim
<1>1. /\ t \in Threads /\ t \in finished /\ t \in published
      /\ pc[t] # "none" /\ todo[c] # <<>>
      /\ pc[c] \in {"join_claim", "detach_claim"} /\ pc[c] \notin Releasing
      /\ who = "detacher" /\ t \in live => t \in detached
  BY <1>0, ClientFacts DEF Claim, Knows, Releasing
<1>2. /\ UNCHANGED <<memVars, retval, finished, detached, inTime, published, arg, got, todo,
                     failures>>
      /\ uaf' \subseteq Clients /\ uaf \subseteq uaf'
  BY <1>0, TouchFacts DEF Claim
<1>3. dead' \in BOOLEAN
  BY <1>0, ClientFacts DEF Claim
<1>4. CASE t \in joined \/ t \notin live
  <2>1. /\ UNCHANGED <<joined, claimedBy>>
        /\ pc' = [pc EXCEPT ![c] = "returned"] \/ pc' = pc
    BY <1>0, <1>4 DEF Claim, TakeJoined, Goto
  <2>2. Knows(c, "returned")'
    BY DEF Knows, Releasing
  <2>3. Knows(c, pc[c])'
    BY <1>1, <1>2, <2>1, ClientFacts DEF Knows, Releasing, memVars
  <2>4. pc' = [pc EXCEPT ![c] = pc[c]] \/ pc' = [pc EXCEPT ![c] = "returned"]
    BY <2>1, ClientFacts
  <2>5. /\ published \subseteq Threads /\ failures \in 0 .. MaxFail
        /\ arg \in [Clients -> Threads \cup {NULL}] /\ got \in [Clients -> Threads \cup {NULL}]
        /\ todo \in [Clients -> Seq(Calls)]
        /\ detached \subseteq published /\ inTime \subseteq detached
        /\ \A u \in published : pc[u] # "none"
    BY ClientFacts
  <2>6. PICK label \in {"returned", pc[c]} :
           pc' = [pc EXCEPT ![c] = label] /\ Knows(c, label)'
    BY <2>2, <2>3, <2>4
  <2>7. label \in ClientPCs \ Releasing
    BY <1>1, Labels
  <2> HIDE DEF t
  <2> QED
    BY <1>1, <1>2, <1>3, <2>1, <2>5, <2>6, <2>7, ClientMove DEF t
<1>5. CASE t \notin joined /\ t \in live
  <2>1. claimedBy' = [claimedBy EXCEPT ![t] = who]
    BY <1>0, <1>5 DEF Claim, TakeJoined
  <2>2. /\ joined' = joined \cup {t}
        /\ pc' = [pc EXCEPT ![c] = "release_stack"]
        /\ UNCHANGED <<live, stack, temp, retval, finished, detached, inTime, published, arg,
                       got, todo, uaf, dead, failures>>
    BY <1>0, <1>2, <1>5 DEF Claim, TakeJoined, Goto, Touch, memVars
  <2> HIDE DEF t
  <2>3. /\ c \in Actors /\ c \notin Threads
        /\ pc' \in [Actors -> ThreadPCs \cup ClientPCs]
        /\ pc'[c] = "release_stack"
        /\ \A d \in Clients \ {c} : pc'[d] = pc[d]
        /\ \A u \in Threads : pc'[u] = pc[u]
    BY <2>2, ClientFacts, Distinct DEF Actors, ClientPCs
  <2>4. /\ claimedBy' \in [Threads -> {"nobody", "joiner", "detacher", "thread"}]
        /\ claimedBy'[t] = who
        /\ \A u \in Threads \ {t} : claimedBy'[u] = claimedBy[u]
        /\ claimedBy[t] = "nobody"
    BY <1>1, <1>5, <2>1 DEF IInv, TypeOK, LifeInv
  <2>5. t \in stack /\ t \in live
    BY <1>1, <1>5 DEF IInv, TypeOK, ReleaseInv
  <2>6. TypeOK'
    BY <1>1, <2>2, <2>3, <2>4 DEF IInv, TypeOK
  <2>7. ArgInv'
    BY <1>1, <2>2, <2>3 DEF IInv, ArgInv, t
  <2>8. LifeInv'
    BY <1>1, <1>5, <2>2, <2>3, <2>4 DEF IInv, LifeInv, Claiming, ByItself
  <2>9. KnowledgeInv'
    <3>1. ASSUME NEW d \in Clients, d # c PROVE Knows(d, pc[d])'
      BY <2>2, <2>3, <2>4, <3>1 DEF IInv, KnowledgeInv, Knows, ArgInv, Releasing
    <3>2. Knows(c, pc[c])'
      BY <1>1, <2>2, <2>3, <2>4, <2>5 DEF Knows, Releasing, t
    <3> QED
      BY <3>1, <3>2 DEF KnowledgeInv
  <2>10. ReleaseInv'
    <3>1. \A d \in Clients : pc[d] \in Releasing => arg[d] # t
      BY <2>4 DEF IInv, KnowledgeInv, Knows
    <3>2. \A d, e \in Clients :
             pc'[d] \in Releasing /\ pc'[e] \in Releasing /\ arg'[d] = arg'[e] => d = e
      BY <2>2, <2>3, <3>1 DEF IInv, ReleaseInv, t
    <3>3. arg'[c] = t /\ pc'[c] \in Releasing /\ pc[c] \notin Releasing
      BY <1>1, <2>2, <2>3 DEF t, Releasing
    <3>4. ASSUME NEW u \in Threads,
                 \E d \in Clients : arg[d] = u /\ pc[d] \in Releasing
          PROVE  \E d \in Clients : arg'[d] = u /\ pc'[d] \in Releasing
      BY <2>2, <2>3, <3>3, <3>4
    <3> QED
      BY <1>1, <1>5, <2>2, <2>3, <2>4, <3>2, <3>3, <3>4 DEF IInv, LifeInv, ReleaseInv
  <2>11. FreedInv'
    BY <1>1, <1>2, <1>5, <2>2, <2>3, <2>4 DEF IInv, FreedInv
  <2> QED
    BY <2>6, <2>7, <2>8, <2>9, <2>10, <2>11 DEF IInv
<1> QED
  BY <1>4, <1>5

\* A client gives back what it claimed.
LEMMA ClientReleaseInv ==
    ASSUME IInv, NEW c \in Clients, ReleaseStack(c) \/ ReleaseDescriptor(c)
    PROVE  IInv'
<1> DEFINE t == arg[c]
<1>0. /\ t \in Threads /\ t \in published /\ pc[t] # "none" /\ todo[c] # <<>>
      /\ claimedBy[t] \in {"joiner", "detacher"} /\ t \in live
      /\ pc[c] = "release_descriptor" => t \notin stack
      /\ pc[c] \in Releasing
      /\ c \in Actors /\ c \notin Threads
  BY ClientFacts DEF ReleaseStack, ReleaseDescriptor, Knows, Releasing
<1>1. /\ UNCHANGED <<temp, retval, finished, joined, claimedBy, detached, inTime, published,
                     arg, got, todo, uaf, dead, failures>>
      /\ \/ /\ pc[c] = "release_stack" /\ pc' = [pc EXCEPT ![c] = "release_descriptor"]
            /\ stack' = stack \ {t} /\ live' = live
         \/ /\ pc[c] = "release_descriptor" /\ pc' = [pc EXCEPT ![c] = "returned"]
            /\ live' = live \ {t} /\ stack' = stack
  BY DEF ReleaseStack, ReleaseDescriptor, Goto, flagVars, callVars, envVars
<1>2. /\ pc' \in [Actors -> ThreadPCs \cup ClientPCs]
      /\ \/ pc[c] = "release_stack" /\ pc'[c] = "release_descriptor"
         \/ pc[c] = "release_descriptor" /\ pc'[c] = "returned"
      /\ \A d \in Clients \ {c} : pc'[d] = pc[d]
      /\ \A u \in Threads : pc'[u] = pc[u]
  <2>1. PICK label \in {"release_descriptor", "returned"} :
           /\ pc' = [pc EXCEPT ![c] = label]
           /\ pc[c] = "release_stack" <=> label = "release_descriptor"
    BY <1>1
  <2> QED
    BY <1>0, <2>1, ClientFacts, Distinct DEF Actors, ClientPCs, Releasing
<1>3. \A d \in Clients \ {c} : pc[d] \in Releasing => arg[d] # t
  BY <1>0 DEF IInv, ReleaseInv
<1> HIDE DEF t
<1>4. TypeOK'
  BY <1>0, <1>1, <1>2 DEF IInv, TypeOK
<1>5. ArgInv'
  <2>1. \A d \in Clients : pc'[d] # "idle" => pc[d] # "idle"
    BY <1>2
  <2> QED
    BY <1>1, <1>2, <2>1 DEF IInv, ArgInv, TypeOK
<1>6. LifeInv'
  BY <1>0, <1>1, <1>2 DEF IInv, LifeInv
<1>7. KnowledgeInv'
  <2>1. ASSUME NEW d \in Clients, d # c PROVE Knows(d, pc[d])'
    BY <1>1, <1>2, <1>3, <2>1 DEF IInv, KnowledgeInv, Knows, ArgInv, Releasing
  <2>2. Knows(c, pc[c])'
    BY <1>0, <1>1, <1>2 DEF Knows, Releasing, t
  <2> QED
    BY <2>1, <2>2 DEF KnowledgeInv
<1>8. ReleaseInv'
  <2>1. \A d, e \in Clients :
           pc'[d] \in Releasing /\ pc'[e] \in Releasing /\ arg'[d] = arg'[e] => d = e
    BY <1>0, <1>1, <1>2 DEF IInv, ReleaseInv, Releasing
  <2>2. /\ t \in live' => arg'[c] = t /\ pc'[c] \in Releasing
        /\ \A u \in Threads \ {t} : (u \in live' <=> u \in live) /\ (u \in stack' <=> u \in stack)
    BY <1>1, <1>2 DEF t, Releasing
  <2>3. ASSUME NEW u \in Threads, u # t,
               \E d \in Clients : arg[d] = u /\ pc[d] \in Releasing
        PROVE  \E d \in Clients : arg'[d] = u /\ pc'[d] \in Releasing
    <3>1. PICK d \in Clients : arg[d] = u /\ pc[d] \in Releasing
      BY <2>3
    <3>2. d # c
      BY <2>3, <3>1 DEF t
    <3> QED
      BY <1>1, <1>2, <3>1, <3>2
  <2>4. t \in joined /\ pc[t] \notin Claiming
    BY <1>0 DEF IInv, LifeInv
  <2> QED
    BY <1>0, <1>1, <1>2, <2>1, <2>2, <2>3, <2>4 DEF IInv, ReleaseInv, Claiming, ByItself
<1>9. FreedInv'
  <2>1. claimedBy[t] = "joiner" \/ t \in detached
    BY <1>0 DEF IInv, FreedInv
  <2>2. claimedBy[t] # "thread"
    BY <1>0
  <2> QED
    BY <1>0, <1>1, <1>2, <2>1, <2>2 DEF IInv, FreedInv
<1> QED
  BY <1>4, <1>5, <1>6, <1>7, <1>8, <1>9 DEF IInv

LEMMA ClientStepInv ==
    ASSUME IInv, NEW c \in Clients, ClientStep(c)
    PROVE  IInv'
BY CreateInv, CallsInv, LooksInv, JoinReadInv, DetachStoreInv, ClaimInv, ClientReleaseInv
   DEF ClientStep

-----------------------------------------------------------------------------
(* The invariants                                                          *)

LEMMA NextInv == IInv /\ [Next]_vars => IInv'
<1> SUFFICES ASSUME IInv, [Next]_vars PROVE IInv'
  OBVIOUS
<1>1. ASSUME NEW t \in Threads, ThreadStep(t) PROVE IInv'
  BY <1>1, ThreadStepInv
<1>2. ASSUME NEW t \in Threads, Fault(t) PROVE IInv'
  BY <1>2, StutterInv DEF Fault
<1>3. ASSUME NEW c \in Clients, ClientStep(c) PROVE IInv'
  BY <1>3, ClientStepInv
<1>4. CASE Resting \/ UNCHANGED vars
  <2>1. UNCHANGED <<memVars, flagVars, callVars, pc, failures>>
    BY <1>4 DEF Resting, vars, envVars
  <2>2. dead' \in BOOLEAN
    BY <1>4, Zenon DEF Resting, vars, envVars, IInv, TypeOK
  <2> QED
    BY <2>1, <2>2, StutterInv
<1> QED
  BY <1>1, <1>2, <1>3, <1>4 DEF Next

LEMMA Inductive == Safe => []IInv
BY InitInv, NextInv, PTL DEF Safe

\* The type invariant: among the rest, a stack is only mapped for an allocated
\* descriptor, joined is only set of a finished thread, and a thread runs on a
\* temporary stack it has mapped.
THEOREM TypeCorrect == Safe => []TypeOK
<1>1. IInv => TypeOK
  BY DEF IInv
<1> QED
  BY <1>1, Inductive, PTL

\* One actor at most, of the joiners, the detaching clients and the thread
\* itself, releases a thread, and it finds mapped and allocated what it
\* releases: no double munmap() and no double free().
THEOREM ThreadReleasedOnce == Safe => []ReleasedOnce
<1>1. IInv => ReleasedOnce
  <2> SUFFICES ASSUME IInv, NEW t \in Threads
               PROVE  /\ Cardinality(Releasers(t)) <= 1
                      /\ \A c \in Releasers(t) :
                            /\ t \in live
                            /\ pc[c] # "release_descriptor" /\ pc[c] # "free" => t \in stack
    BY DEF ReleasedOnce
  <2>1. ASSUME NEW x \in Releasers(t), NEW y \in Releasers(t) PROVE x = y
    <3>1. x \in Clients /\ y \in Clients => x = y
      BY <2>1, Distinct
         DEF Releasers, IInv, ReleaseInv, Releasing
    <3>2. pc[t] \in ByItself => \A c \in Clients : ~(arg[c] = t /\ pc[c] \in Releasing)
      BY DEF IInv, LifeInv, KnowledgeInv, Knows, Claiming
    <3> QED
      BY <2>1, <3>1, <3>2 DEF Releasers, ByItself, Releasing
  <2>2. Cardinality(Releasers(t)) <= 1
    <3>1. CASE Releasers(t) = {}
      BY <3>1, FS_EmptySet
    <3>2. CASE Releasers(t) # {}
      <4>1. PICK x \in Releasers(t) : TRUE
        BY <3>2
      <4>2. Releasers(t) = {x}
        BY <2>1, <4>1
      <4> QED
        BY <4>2, FS_Singleton
    <3> QED
      BY <3>1, <3>2
  <2>3. ASSUME NEW x \in Releasers(t)
        PROVE  /\ t \in live
               /\ pc[x] # "release_descriptor" /\ pc[x] # "free" => t \in stack
    <3>1. CASE x \in Clients /\ arg[x] = t /\ pc[x] \in Releasing
      BY <3>1 DEF IInv, KnowledgeInv, Knows, Releasing
    <3>2. CASE x = t /\ pc[t] \in ByItself
      <4>1. claimedBy[t] = "thread" /\ stack \subseteq live
        BY <3>2 DEF IInv, TypeOK, LifeInv, Claiming
      <4> QED
        BY <3>2, <4>1 DEF IInv, ReleaseInv, ByItself
    <3> QED
      BY <2>3, <3>1, <3>2 DEF Releasers, Releasing, ByItself
  <2> QED
    BY <2>2, <2>3
<1> QED
  BY <1>1, Inductive, PTL

\* What is left allocated for good was claimed by the exiting thread before
\* anybody had detached it: a thread that a joiner or a detaching client claimed,
\* or that was detached before it looked, is given back.
THEOREM LateClaimsLeak == Safe => []OnlyLateClaimsLeak
<1>1. IInv => OnlyLateClaimsLeak
  <2> SUFFICES ASSUME IInv, NEW t \in Threads, pc[t] = "gone", t \in live,
                      Releasers(t) = {}
               PROVE  claimedBy[t] = "thread" /\ t \notin inTime
    BY DEF OnlyLateClaimsLeak
  <2>1. claimedBy[t] # "nobody"
    BY DEF IInv, LifeInv
  <2>2. claimedBy[t] \notin {"joiner", "detacher"}
    BY DEF IInv, ReleaseInv, Releasers, Releasing
  <2>3. claimedBy[t] \in {"nobody", "joiner", "detacher", "thread"}
    BY DEF IInv, TypeOK
  <2>4. t \in inTime /\ claimedBy[t] = "thread" => t \notin live
    BY DEF IInv, FreedInv, Claiming, ByItself
  <2> QED
    BY <2>1, <2>2, <2>3, <2>4
<1> QED
  BY <1>1, Inductive, PTL

\* A join has the value of the thread, or has read a freed descriptor; and what
\* was freed was detached, or released by another join.
THEOREM JoinDeliversValue == Safe => []JoinValue
<1>1. IInv => JoinValue
  <2> SUFFICES ASSUME IInv, NEW c \in Clients, pc[c] = "join_claim", got[c] # arg[c]
               PROVE  /\ c \in uaf
                      /\ arg[c] \in detached \/ claimedBy[arg[c]] = "joiner"
    BY DEF JoinValue
  <2>1. c \in uaf /\ arg[c] \notin live /\ arg[c] \in Threads /\ pc[arg[c]] # "none"
    BY ClientFacts DEF Knows
  <2> QED
    BY <2>1, FreedFacts
<1> QED
  BY <1>1, Inductive, PTL

\* A thread that runs into an unmapped stack has announced its end, and lost its
\* stack to a client.
LEMMA FaultHasCause ==
    ASSUME IInv, NEW t \in Threads, pc[t] \notin {"none", "gone"}, ~OnMappedStack(t)
    PROVE  /\ t \notin stack
           /\ claimedBy[t] \in {"joiner", "detacher"}
           /\ pc[t] \in {"wake_joiner", "claim", "exit"}
<1>1. pc[t] \notin TempStackPCs /\ t \notin stack
  BY DEF OnMappedStack, IInv, TypeOK
<1>2. claimedBy[t] \in {"joiner", "detacher"} /\ t \in joined
  <2>1. claimedBy[t] # "thread" /\ t \in joined
    BY <1>1 DEF IInv, ReleaseInv, TempStackPCs
  <2>2. claimedBy[t] # "nobody"
    BY <2>1 DEF IInv, LifeInv
  <2>3. claimedBy[t] \in {"nobody", "joiner", "detacher", "thread"}
    BY DEF IInv, TypeOK
  <2> QED
    BY <2>1, <2>2, <2>3
<1>3. pc[t] \in ThreadPCs
  BY DEF IInv, LifeInv
<1>4. pc[t] \notin {"run", "finish"} \cup Claiming
  BY <1>2 DEF IInv, TypeOK, LifeInv
<1> QED
  BY <1>1, <1>2, <1>3, <1>4 DEF ThreadPCs, OwnStackPCs, TempStackPCs, Claiming, ByItself

\* The process dies only of memory refused to a thread that is to release itself,
\* of a stack that a client has unmapped under a thread that had announced its
\* end, or of a client that finds joined clear in a freed descriptor.
THEOREM DeathIsExplained == Safe => []DeathHasCause
<1>1. Init => DeathHasCause
  BY DEF Init, DeathHasCause
<1>2. IInv /\ DeathHasCause /\ [Next]_vars => DeathHasCause'
  <2> SUFFICES ASSUME IInv, DeathHasCause, [Next]_vars PROVE DeathHasCause'
    OBVIOUS
  <2>1. ASSUME NEW t \in Threads, Fault(t) PROVE DeathHasCause'
    <3>1. /\ t \notin stack' /\ claimedBy'[t] \in {"joiner", "detacher"}
          /\ pc'[t] \in {"wake_joiner", "claim", "exit"}
      BY <2>1, FaultHasCause DEF Fault, memVars, flagVars
    <3> QED
      BY <3>1 DEF DeathHasCause
  <2>2. ASSUME NEW t \in Threads, AllocArgs(t) \/ MapTemp(t), dead' # dead
        PROVE  DeathHasCause'
    <3>1. Fail /\ pc' = pc /\ pc[t] \in {"alloc_args", "map_temp"}
      BY <2>2, Zenon DEF AllocArgs, MapTemp, envVars
    <3>2. failures' > 0
      BY <3>1, Distinct DEF Fail, IInv, TypeOK
    <3> QED
      BY <3>1, <3>2 DEF DeathHasCause
  <2>3. ASSUME NEW c \in Clients, NEW from \in {"join_claim", "detach_claim"}, NEW who,
               Claim(c, from, who), dead' # dead
        PROVE  DeathHasCause'
    <3>1. pc' = pc /\ pc[c] = from /\ arg[c] \notin live /\ c \in uaf'
      BY <2>3, TouchFacts, Zenon DEF Claim
    <3> QED
      BY <3>1 DEF DeathHasCause
  <2>4. CASE Resting \/ UNCHANGED vars
    BY <2>4 DEF Resting, vars, memVars, flagVars, callVars, envVars, DeathHasCause
  <2>5. CASE ~dead /\ dead' = dead
    BY <2>5 DEF DeathHasCause
  <2>6. ASSUME NEW t \in Threads, ThreadStep(t) PROVE DeathHasCause'
    <3>1. CASE AllocArgs(t) \/ MapTemp(t)
      BY <2>2, <2>5, <2>6, <3>1 DEF ThreadStep
    <3>2. CASE ~(AllocArgs(t) \/ MapTemp(t))
      <4>1. ~dead /\ dead' = dead
        BY <2>6, <3>2, Zenon
           DEF ThreadStep, Run, Finish, WakeJoiner, ThreadClaim, LoadDetached, SwapContext,
               UnmapOwn, FreeOwn, Exit, Move, envVars
      <4> QED
        BY <2>5, <4>1
    <3> QED
      BY <3>1, <3>2
  <2>7. ASSUME NEW c \in Clients, ClientStep(c) PROVE DeathHasCause'
    <3>1. CASE JoinClaim(c) \/ DetachClaim(c)
      BY <2>3, <2>5, <2>7, <3>1 DEF ClientStep, JoinClaim, DetachClaim
    <3>2. CASE ~(JoinClaim(c) \/ DetachClaim(c))
      <4>1. ~dead /\ dead' = dead
        BY <2>7, <3>2, Zenon
           DEF ClientStep, Create, CreateFails, Publish, Enter, JoinLoad, JoinPoll, JoinWait,
               JoinRead, DetachStore, DetachFinished, ReleaseStack, ReleaseDescriptor, Return,
               Look, envVars
      <4> QED
        BY <2>5, <4>1
    <3> QED
      BY <3>1, <3>2
  <2> QED
    BY <2>1, <2>4, <2>6, <2>7 DEF Next
<1> QED
  BY <1>1, <1>2, Inductive, PTL DEF Safe

-----------------------------------------------------------------------------
(* The contract                                                            *)

LEMMA ContractStutter ==
    ASSUME \A u \in Threads : /\ pc[u] = "none" <=> pc'[u] = "none"
                              /\ claimedBy'[u] = claimedBy[u],
           UNCHANGED <<finished, live, stack, dead>>
    PROVE  UNCHANGED Contract!vars
BY DEF Contract!vars, Life, Owner, Held

\* The first to set joined owns the thread.
LEMMA Claimed ==
    ASSUME TypeOK, ~dead, NEW t \in Threads, pc[t] # "none",
           claimedBy[t] = "nobody",
           NEW who \in {"joiner", "detacher", "thread"},
           claimedBy' = [claimedBy EXCEPT ![t] = who],
           UNCHANGED <<finished, live, stack, dead>>,
           \A u \in Threads : pc[u] = "none" <=> pc'[u] = "none"
    PROVE  Contract!Next
<1> DEFINE o == IF who = "joiner" THEN "joined" ELSE "detached"
<1>1. Life' = Life /\ Held' = Held
  BY DEF Life, Held
<1>2. Life[t] # "absent" /\ Owner[t] = "none"
  BY DEF Life, Owner
<1>3. Owner' = [Owner EXCEPT ![t] = o]
  BY DEF Owner, TypeOK
<1>4. Contract!Own(t, o) /\ o \in {"joined", "detached"}
  BY <1>1, <1>2, <1>3 DEF Contract!Own
<1> QED
  BY <1>4 DEF Contract!Next

\* The stack goes back first, of a thread that is finished and claimed.
LEMMA StackReleased ==
    ASSUME ~dead, NEW t \in Threads, pc[t] # "none", t \in finished, t \in stack,
           claimedBy[t] # "nobody",
           stack' = stack \ {t},
           UNCHANGED <<finished, live, claimedBy, dead>>,
           \A u \in Threads : pc[u] = "none" <=> pc'[u] = "none"
    PROVE  Contract!Next
<1>1. Life' = Life /\ Owner' = Owner
  BY DEF Life, Owner
<1>2. Life[t] = "finished" /\ Owner[t] # "none" /\ "stack" \in Held[t]
  BY DEF Life, Owner, Held
<1>3. Held' = [Held EXCEPT ![t] = @ \ {"stack"}]
  <2>1. \A u \in Threads : Held'[u] = IF u = t THEN Held[u] \ {"stack"} ELSE Held[u]
    BY DEF Held
  <2> QED
    BY <2>1 DEF Held
<1>4. Contract!ReleaseStack(t)
  BY <1>1, <1>2, <1>3 DEF Contract!ReleaseStack
<1> QED
  BY <1>4 DEF Contract!Next, Contract!Release

LEMMA DescriptorReleased ==
    ASSUME ~dead, NEW t \in Threads, t \in live, t \notin stack,
           live' = live \ {t},
           UNCHANGED <<finished, stack, claimedBy, dead>>,
           \A u \in Threads : pc[u] = "none" <=> pc'[u] = "none"
    PROVE  Contract!Next
<1>1. Life' = Life /\ Owner' = Owner
  BY DEF Life, Owner
<1>2. Held[t] = {"descriptor"}
  BY DEF Held
<1>3. Held' = [Held EXCEPT ![t] = {}]
  <2>1. \A u \in Threads : Held'[u] = IF u = t THEN {} ELSE Held[u]
    BY DEF Held
  <2> QED
    BY <2>1 DEF Held
<1>4. Contract!ReleaseDescriptor(t)
  BY <1>1, <1>2, <1>3 DEF Contract!ReleaseDescriptor
<1> QED
  BY <1>4 DEF Contract!Next, Contract!Release

LEMMA ThreadContractStep ==
    ASSUME IInv, NEW t \in Threads, ThreadStep(t)
    PROVE  [Contract!Next]_Contract!vars
<1>0. /\ t \in Actors /\ t \notin Clients /\ ~dead /\ TypeOK
      /\ pc \in [Actors -> ThreadPCs \cup ClientPCs]
      /\ Actors = Threads \cup Clients /\ Threads \cap Clients = {}
  BY ThreadFacts, Distinct DEF IInv, Actors, ThreadStep
<1> USE DEF Goto, Move, memVars, flagVars, callVars, envVars
<1>1. CASE Run(t) \/ WakeJoiner(t) \/ LoadDetached(t) \/ SwapContext(t) \/ Exit(t)
  BY <1>0, <1>1, ContractStutter
     DEF Run, WakeJoiner, Joiners, LoadDetached, SwapContext, Exit
<1>2. CASE Finish(t)
  <2>1. /\ pc[t] = "finish" /\ pc' = [pc EXCEPT ![t] = "wake_joiner"]
        /\ finished' = finished \cup {t} /\ t \notin finished
        /\ UNCHANGED <<claimedBy, live, stack, dead>>
    BY <1>2 DEF Finish, IInv, LifeInv
  <2>2. Owner' = Owner /\ Held' = Held
    BY <2>1 DEF Owner, Held
  <2>3. Life[t] = "running" /\ Life' = [Life EXCEPT ![t] = "finished"]
    BY <1>0, <2>1 DEF Life
  <2>4. Contract!Finish(t)
    BY <2>2, <2>3 DEF Contract!Finish
  <2> QED
    BY <1>0, <2>1, <2>4 DEF Contract!Next
<1>3. CASE ThreadClaim(t)
  <2>1. /\ pc[t] = "claim" /\ pc[t] # "none"
        /\ \A u \in Threads : pc[u] = "none" <=> pc'[u] = "none"
        /\ UNCHANGED <<finished, live, stack, dead>>
    BY <1>0, <1>3 DEF ThreadClaim
  <2>2. CASE t \in joined
    BY <1>3, <2>1, <2>2, ContractStutter DEF ThreadClaim, TakeJoined
  <2>3. CASE t \notin joined
    <3>1. claimedBy' = [claimedBy EXCEPT ![t] = "thread"] /\ claimedBy[t] = "nobody"
      BY <1>3, <2>3 DEF ThreadClaim, TakeJoined, IInv, LifeInv
    <3> QED
      BY <1>0, <2>1, <3>1, Claimed
  <2> QED
    BY <2>2, <2>3
<1>4. CASE AllocArgs(t) \/ MapTemp(t)
  <2>1. /\ \A u \in Threads : pc[u] = "none" <=> pc'[u] = "none"
        /\ UNCHANGED <<claimedBy, finished, live, stack>>
    BY <1>0, <1>4 DEF AllocArgs, MapTemp
  <2>2. CASE UNCHANGED dead
    BY <2>1, <2>2, ContractStutter
  <2>3. CASE dead' = TRUE
    <3>1. Life' = Life /\ Owner' = Owner /\ Held' = Held
      BY <2>1 DEF Life, Owner, Held
    <3> QED
      BY <1>0, <2>3, <3>1, Zenon DEF Contract!Next, Contract!Crash
  <2>4. UNCHANGED dead \/ dead' = TRUE
    BY <1>4, Zenon DEF AllocArgs, MapTemp
  <2> QED
    BY <2>2, <2>3, <2>4
<1>5. CASE UnmapOwn(t)
  <2>1. /\ pc[t] = "unmap" /\ stack' = stack \ {t}
        /\ \A u \in Threads : pc[u] = "none" <=> pc'[u] = "none"
        /\ UNCHANGED <<finished, live, claimedBy, dead>>
    BY <1>0, <1>5 DEF UnmapOwn
  <2>2. claimedBy[t] = "thread" /\ t \in finished
    BY <2>1 DEF IInv, LifeInv, Claiming, ByItself
  <2>3. t \in stack
    BY <2>1, <2>2 DEF IInv, ReleaseInv
  <2> QED
    BY <1>0, <2>1, <2>2, <2>3, StackReleased
<1>6. CASE FreeOwn(t)
  <2>1. /\ pc[t] = "free" /\ live' = live \ {t}
        /\ \A u \in Threads : pc[u] = "none" <=> pc'[u] = "none"
        /\ UNCHANGED <<finished, stack, claimedBy, dead>>
    BY <1>0, <1>6 DEF FreeOwn
  <2>2. t \in live /\ t \notin stack
    BY <2>1 DEF IInv, ReleaseInv
  <2> QED
    BY <1>0, <2>1, <2>2, DescriptorReleased
<1> QED
  BY <1>1, <1>2, <1>3, <1>4, <1>5, <1>6 DEF ThreadStep

LEMMA ClientContractStep ==
    ASSUME IInv, NEW c \in Clients, ClientStep(c)
    PROVE  [Contract!Next]_Contract!vars
<1>0. /\ ~dead /\ TypeOK
      /\ Actors = Threads \cup Clients /\ Threads \cap Clients = {}
  BY Distinct DEF IInv, Actors, ClientStep
<1> USE DEF Goto, Move, memVars, flagVars, callVars, envVars
<1>1. CASE Create(c)
  <2> DEFINE t == Head(todo[c]).t
  <2>1. /\ pc[t] = "none"
        /\ pc' = [pc EXCEPT ![c] = "publish", ![t] = "run"]
        /\ live' = live \cup {t} /\ stack' = stack \cup {t}
        /\ UNCHANGED <<claimedBy, finished, dead>>
    BY <1>1 DEF Create
  <2>2. t \in Threads /\ t \notin finished
    BY <1>1, <2>1, CallFacts DEF Create, IInv, LifeInv
  <2> HIDE DEF t
  <2>3. Owner' = Owner
    BY <2>1 DEF Owner
  <2>4. Life[t] = "absent" /\ Life' = [Life EXCEPT ![t] = "running"]
    <3>1. pc'[t] = "run" /\ \A u \in Threads \ {t} : pc'[u] = pc[u]
      BY <1>0, <2>1, <2>2, ClientFacts
    <3>2. \A u \in Threads : Life'[u] = IF u = t THEN "running" ELSE Life[u]
      BY <2>1, <2>2, <3>1 DEF Life
    <3>3. Life[t] = "absent"
      BY <2>1, <2>2 DEF Life
    <3> QED
      BY <3>2, <3>3 DEF Life
  <2>5. Held' = [Held EXCEPT ![t] = {"stack", "descriptor"}]
    <3>1. \A u \in Threads :
             Held'[u] = IF u = t THEN {"stack", "descriptor"} ELSE Held[u]
      BY <2>1 DEF Held
    <3> QED
      BY <3>1 DEF Held
  <2>6. Contract!Start(t)
    BY <2>3, <2>4, <2>5 DEF Contract!Start, Contract!Resources
  <2> QED
    BY <1>0, <2>1, <2>2, <2>6 DEF Contract!Next
<1>2. CASE JoinClaim(c) \/ DetachClaim(c)
  <2> DEFINE t == arg[c]
  <2>0. PICK from \in {"join_claim", "detach_claim"}, who \in {"joiner", "detacher"} :
           Claim(c, from, who)
    BY <1>2 DEF JoinClaim, DetachClaim
  <2>1. /\ t \in Threads /\ pc[t] # "none"
        /\ \A u \in Threads : pc[u] = "none" <=> pc'[u] = "none"
        /\ UNCHANGED <<finished, live, stack>>
    BY <1>0, <2>0, ClientFacts DEF Claim
  <2>2. CASE (t \in joined /\ t \in live) \/ (t \notin live /\ UNCHANGED dead)
    <3>1. UNCHANGED <<claimedBy, dead>>
      BY <2>0, <2>2, Zenon DEF Claim, TakeJoined
    <3> QED
      BY <2>1, <3>1, ContractStutter
  <2>3. CASE t \notin joined /\ t \in live
    <3>1. claimedBy[t] = "nobody"
      BY <2>1, <2>3 DEF IInv, LifeInv
    <3>2. claimedBy' = [claimedBy EXCEPT ![t] = who] /\ UNCHANGED dead
      BY <2>0, <2>3, Zenon DEF Claim, TakeJoined
    <3> QED
      BY <1>0, <2>1, <3>1, <3>2, Claimed
  <2>4. CASE t \notin live /\ dead' = TRUE
    <3>1. UNCHANGED claimedBy
      BY <2>0, <2>4 DEF Claim
    <3>2. Life' = Life /\ Owner' = Owner /\ Held' = Held
      BY <2>1, <3>1 DEF Life, Owner, Held
    <3> QED
      BY <1>0, <2>4, <3>2, Zenon DEF Contract!Next, Contract!Crash
  <2>5. t \notin live => UNCHANGED dead \/ dead' = TRUE
    BY <2>0, Zenon DEF Claim
  <2> QED
    BY <2>2, <2>3, <2>4, <2>5
<1>3. CASE ReleaseStack(c)
  <2>1. /\ pc[c] = "release_stack" /\ stack' = stack \ {arg[c]}
        /\ \A u \in Threads : pc[u] = "none" <=> pc'[u] = "none"
        /\ UNCHANGED <<finished, live, claimedBy, dead>>
    BY <1>0, <1>3, ClientFacts DEF ReleaseStack
  <2>2. /\ arg[c] \in Threads /\ pc[arg[c]] # "none"
        /\ claimedBy[arg[c]] \in {"joiner", "detacher"} /\ arg[c] \in stack
    BY <2>1, ClientFacts DEF Knows, Releasing
  <2>3. arg[c] \in finished
    BY <2>2 DEF IInv, TypeOK, LifeInv
  <2> QED
    BY <1>0, <2>1, <2>2, <2>3, StackReleased
<1>4. CASE ReleaseDescriptor(c)
  <2>1. /\ pc[c] = "release_descriptor" /\ live' = live \ {arg[c]}
        /\ \A u \in Threads : pc[u] = "none" <=> pc'[u] = "none"
        /\ UNCHANGED <<finished, stack, claimedBy, dead>>
    BY <1>0, <1>4, ClientFacts DEF ReleaseDescriptor
  <2>2. arg[c] \in Threads /\ arg[c] \in live /\ arg[c] \notin stack
    BY <2>1, ClientFacts DEF Knows, Releasing
  <2> QED
    BY <1>0, <2>1, <2>2, DescriptorReleased
<1>5. CASE \/ CreateFails(c) \/ Publish(c) \/ Return(c)
           \/ Enter(c, "join", "join_load") \/ Enter(c, "detach", "detach_store")
           \/ JoinLoad(c) \/ JoinPoll(c) \/ JoinWait(c) \/ JoinRead(c)
           \/ DetachStore(c) \/ DetachFinished(c)
  BY <1>0, <1>5, ClientFacts, ContractStutter
     DEF CreateFails, Publish, Return, Enter, Look, JoinLoad, JoinPoll, JoinWait, JoinRead,
         DetachStore, DetachFinished
<1> QED
  BY <1>1, <1>2, <1>3, <1>4, <1>5 DEF ClientStep

\* The library without a reaper implements the safety half of the contract as
\* well: a thread is claimed once, by a joiner, a detaching client or itself,
\* and its stack, then its descriptor, are given back once, when it is both
\* finished and claimed.
THEOREM Implementation == Safe => ImplementsContract
<1>1. Init => Contract!Init
  <2> SUFFICES ASSUME Init PROVE Contract!Init
    OBVIOUS
  <2>1. Life = [t \in Threads |-> "absent"]
    BY DEF Init, Life, Actors
  <2>2. Owner = [t \in Threads |-> "none"]
    BY DEF Init, Owner
  <2>3. Held = [t \in Threads |-> {}]
    BY DEF Init, Held
  <2>4. dead = FALSE
    BY DEF Init
  <2> QED
    BY <2>1, <2>2, <2>3, <2>4, Zenon DEF Contract!Init
<1>2. IInv /\ [Next]_vars => [Contract!Next]_Contract!vars
  <2> SUFFICES ASSUME IInv, [Next]_vars PROVE [Contract!Next]_Contract!vars
    OBVIOUS
  <2>1. ASSUME NEW t \in Threads, ThreadStep(t) PROVE [Contract!Next]_Contract!vars
    BY <2>1, ThreadContractStep
  <2>2. ASSUME NEW c \in Clients, ClientStep(c) PROVE [Contract!Next]_Contract!vars
    BY <2>2, ClientContractStep
  <2>3. ASSUME NEW t \in Threads, Fault(t) PROVE [Contract!Next]_Contract!vars
    <3>1. Life' = Life /\ Owner' = Owner /\ Held' = Held
      BY <2>3 DEF Fault, memVars, flagVars, Life, Owner, Held
    <3>2. ~dead /\ dead' = TRUE
      BY <2>3 DEF Fault
    <3> QED
      BY <3>1, <3>2, Zenon DEF Contract!Next, Contract!Crash
  <2>4. CASE Resting \/ UNCHANGED vars
    BY <2>4, ContractStutter DEF Resting, vars, memVars, flagVars, envVars
  <2> QED
    BY <2>1, <2>2, <2>3, <2>4 DEF Next
<1> QED
  BY <1>1, <1>2, Inductive, PTL DEF Safe, ImplementsContract, Contract!Safe

=============================================================================
