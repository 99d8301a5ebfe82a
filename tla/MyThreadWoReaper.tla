--------------------------- MODULE MyThreadWoReaper ---------------------------
(***************************************************************************)
(* The thread library without a reaper (1.6/src/wo_reaper/mythread.c): a   *)
(* detached thread releases itself, from a temporary stack it jumps to.    *)
(* Whoever sets joined first, of a joiner, a detaching client and the      *)
(* exiting thread, has the thread to release.                              *)
(*                                                                         *)
(* A thread and its descriptor have one name.  A client that looks at a    *)
(* descriptor after its free() finds anything there, and what it writes    *)
(* there changes no other thread's descriptor; errno is left out.          *)
(***************************************************************************)
EXTENDS Integers, Sequences, FiniteSets

CONSTANTS Threads, Clients, NULL,
          Programs,  \* the sequences of calls every client may make
          MaxFail    \* bound: system and library calls that fail in a run

Calls == [op : {"create", "join", "detach"}, t : Threads]

ASSUME WoReaperConstantsOK ==
    /\ NULL \notin Threads
    /\ IsFiniteSet(Threads)
    /\ Threads \cap Clients = {}
    /\ Programs \subseteq [Clients -> Seq(Calls)]
    /\ MaxFail \in Nat

VARIABLES
    live,            \* descriptors allocated and not yet freed
    stack,           \* threads whose stack is mapped
    temp,            \* threads whose temporary stack is mapped
    retval,          \* threads whose t->retval holds what the routine returned
    finished, joined, detached,   \* threads whose field of that name is 1
    claimedBy,       \* history: who set joined: nobody, the joiner, the detacher, the thread
    inTime,          \* history: threads detached before they have looked whether they are
    published,       \* threads whose descriptor a mythread_create has returned
    pc, arg,         \* control point of every actor, argument of a client's call
    got,             \* what mythread_join stored through its retval argument
    todo,            \* the calls a client has still to make
    uaf,             \* clients that have touched a freed descriptor in their call
    dead,            \* the process has died of a signal or of _exit(1)
    failures

memVars   == <<live, stack, temp>>
flagVars  == <<retval, finished, joined, detached, claimedBy, inTime>>
callVars  == <<published, arg, got, todo, uaf>>
envVars   == <<dead, failures>>
vars == <<memVars, flagVars, callVars, pc, envVars>>

Actors == Threads \cup Clients

\* Where a thread runs on its own stack, and where on the temporary one.
OwnStackPCs  == {"run", "finish", "wake_joiner", "claim", "load_detached", "alloc_args",
                 "map_temp", "swap", "exit"}
TempStackPCs == {"unmap", "free", "exit_temp"}
ThreadPCs    == OwnStackPCs \cup TempStackPCs \cup {"none", "gone"}

ClientPCs == {"idle", "publish", "returned", "failed",
              "join_load", "join_poll", "join_wait", "join_asleep", "join_value",
              "join_claim",
              "detach_store", "detach_finished", "detach_claim",
              "release_stack", "release_descriptor"}

Goto(p, label) == pc' = [pc EXCEPT ![p] = label]

\* A step that only takes an actor further.
Move(p, from, to) ==
    /\ pc[p] = from
    /\ Goto(p, to)
    /\ UNCHANGED <<memVars, flagVars, callVars, envVars>>

Fail == /\ failures < MaxFail
        /\ failures' = failures + 1

\* A client's access to the descriptor it was given.
Touch(c) == uaf' = IF arg[c] \in live THEN uaf ELSE uaf \cup {c}

\* What a client can find in a flag of that descriptor.
Sees(c, flag) == IF arg[c] \in live THEN {arg[c] \in flag} ELSE BOOLEAN

\* A step of a client that goes on according to a flag.
Look(c, from, flag, ifSet, ifNot) ==
    /\ pc[c] = from
    /\ Touch(c)
    /\ \E set \in Sees(c, flag) : Goto(c, IF set THEN ifSet ELSE ifNot)
    /\ UNCHANGED <<memVars, flagVars, published, arg, got, todo, envVars>>

\* The atomic exchange of joined: the first to come has the thread to release.
\* Exchange and compare-and-swap leave a joined that is set as it is.
TakeJoined(t, who) ==
    /\ joined' = joined \cup {t}
    /\ claimedBy' = IF t \in joined THEN claimedBy ELSE [claimedBy EXCEPT ![t] = who]

-----------------------------------------------------------------------------
(* Slips the code could have had: each stands in for the action it is named  *)
(* after when the properties are tried out.  None is part of Next.           *)

\* mythread_join releases without asking who was first.
JoinClaimBlind(c) ==
    /\ pc[c] = "join_claim"
    /\ TakeJoined(arg[c], "joiner")
    /\ Goto(c, "release_stack")
    /\ UNCHANGED <<memVars, retval, finished, detached, inTime, callVars, envVars>>

\* mythread_detach does not test whether the thread has finished.
DetachUntested(c) == Move(c, "detach_finished", "detach_claim")

\* A thread that is its own releaser exits without looking at detached.
LoadDetachedNot(t) == Move(t, "load_detached", "exit")

\* thread_startup announces the end before it stores the value ...
FinishedFirst(t) ==
    /\ pc[t] = "run"
    /\ finished' = finished \cup {t}
    /\ Goto(t, "finish")
    /\ UNCHANGED <<memVars, retval, joined, detached, claimedBy, inTime, callVars, envVars>>

\* ... or wakes nobody.
WakeForgotten(t) == Move(t, "wake_joiner", "claim")

\* A client that releases a thread forgets the free().
StackOnly(c) ==
    /\ pc[c] = "release_stack"
    /\ stack' = stack \ {arg[c]}
    /\ Goto(c, "returned")
    /\ UNCHANGED <<live, temp, flagVars, callVars, envVars>>

\* A failed mmap() of the temporary stack goes unnoticed.
MapTempUntested(t) ==
    /\ pc[t] = "map_temp"
    /\ \/ temp' = temp \cup {t} /\ UNCHANGED failures
       \/ Fail /\ UNCHANGED temp
    /\ Goto(t, "swap")
    /\ UNCHANGED <<live, stack, flagVars, callVars, dead>>

-----------------------------------------------------------------------------
(* thread_startup and cleanup_and_exit_from_other_stack                    *)

\* The start routine returns.
Run(t) ==
    /\ pc[t] = "run"
    /\ retval' = retval \cup {t}
    /\ Goto(t, "finish")
    /\ UNCHANGED <<memVars, finished, joined, detached, claimedBy, inTime, callVars, envVars>>

Finish(t) ==
    /\ pc[t] = "finish"
    /\ finished' = finished \cup {t}
    /\ Goto(t, "wake_joiner")
    /\ UNCHANGED <<memVars, retval, joined, detached, claimedBy, inTime, callVars, envVars>>

Joiners(t) == {c \in Clients : pc[c] = "join_asleep" /\ arg[c] = t}

WakeJoiner(t) ==
    /\ pc[t] = "wake_joiner"
    /\ \/ \E c \in Joiners(t) :
             pc' = [pc EXCEPT ![t] = "claim", ![c] = "join_poll"]
       \/ Joiners(t) = {} /\ Goto(t, "claim")
    /\ UNCHANGED <<memVars, flagVars, callVars, envVars>>

\* Every exiting thread takes joined, detached or not.
ThreadClaim(t) ==
    /\ pc[t] = "claim"
    /\ TakeJoined(t, "thread")
    /\ Goto(t, IF t \in joined THEN "exit" ELSE "load_detached")
    /\ UNCHANGED <<memVars, retval, finished, detached, inTime, callVars, envVars>>

LoadDetached(t) ==
    Move(t, "load_detached", IF t \in detached THEN "alloc_args" ELSE "exit")

\* The malloc() of the cleanup arguments, whose result nobody tests.
AllocArgs(t) ==
    /\ pc[t] = "alloc_args"
    /\ \/ Goto(t, "map_temp") /\ UNCHANGED envVars
       \/ Fail /\ dead' = TRUE /\ UNCHANGED pc
    /\ UNCHANGED <<memVars, flagVars, callVars>>

\* Without a temporary stack the whole process ends with _exit(1).
MapTemp(t) ==
    /\ pc[t] = "map_temp"
    /\ \/ temp' = temp \cup {t} /\ Goto(t, "swap") /\ UNCHANGED envVars
       \/ Fail /\ dead' = TRUE /\ UNCHANGED <<temp, pc>>
    /\ UNCHANGED <<live, stack, flagVars, callVars>>

SwapContext(t) == Move(t, "swap", "unmap")

\* cleanup_trampoline
UnmapOwn(t) ==
    /\ pc[t] = "unmap"
    /\ stack' = stack \ {t}
    /\ Goto(t, "free")
    /\ UNCHANGED <<live, temp, flagVars, callVars, envVars>>

FreeOwn(t) ==
    /\ pc[t] = "free"
    /\ live' = live \ {t}
    /\ Goto(t, "exit_temp")
    /\ UNCHANGED <<stack, temp, flagVars, callVars, envVars>>

\* Nobody unmaps the temporary stack.
Exit(t) ==
    /\ pc[t] \in {"exit", "exit_temp"}
    /\ Goto(t, "gone")
    /\ UNCHANGED <<memVars, flagVars, callVars, envVars>>

\* A thread steps only while the stack it is on is mapped ...
OnMappedStack(t) == IF pc[t] \in TempStackPCs THEN t \in temp ELSE t \in stack

ThreadStep(t) ==
    /\ ~dead
    /\ OnMappedStack(t)
    /\ \/ Run(t) \/ Finish(t) \/ WakeJoiner(t) \/ ThreadClaim(t) \/ LoadDetached(t)
       \/ AllocArgs(t) \/ MapTemp(t) \/ SwapContext(t)
       \/ UnmapOwn(t) \/ FreeOwn(t) \/ Exit(t)

\* ... and takes the process down otherwise.
Fault(t) ==
    /\ ~dead
    /\ pc[t] \notin {"none", "gone"}
    /\ ~OnMappedStack(t)
    /\ dead' = TRUE
    /\ UNCHANGED <<memVars, flagVars, callVars, pc, failures>>

-----------------------------------------------------------------------------
(* mythread_create                                                         *)

Calling(c, op) == /\ pc[c] = "idle"
                  /\ todo[c] # <<>>
                  /\ Head(todo[c]).op = op

Create(c) ==
    /\ Calling(c, "create")
    /\ LET t == Head(todo[c]).t IN
          /\ pc[t] = "none"
          /\ live' = live \cup {t}
          /\ stack' = stack \cup {t}
          /\ pc' = [pc EXCEPT ![c] = "publish", ![t] = "run"]
          /\ arg' = [arg EXCEPT ![c] = t]
    /\ UNCHANGED <<temp, flagVars, published, got, todo, uaf, envVars>>

\* calloc(), mmap() or clone() fails, and the caller gives up.
CreateFails(c) ==
    /\ Calling(c, "create")
    /\ Fail
    /\ todo' = [todo EXCEPT ![c] = <<>>]
    /\ UNCHANGED <<memVars, flagVars, published, arg, got, uaf, pc, dead>>

\* *thread = t, while the thread already runs.
Publish(c) ==
    /\ pc[c] = "publish"
    /\ published' = published \cup {arg[c]}
    /\ Goto(c, "returned")
    /\ UNCHANGED <<memVars, flagVars, arg, got, todo, uaf, envVars>>

\* A join or detach of a thread whose pointer the client can have.
Enter(c, op, label) ==
    /\ Calling(c, op)
    /\ Head(todo[c]).t \in published
    /\ arg' = [arg EXCEPT ![c] = Head(todo[c]).t]
    /\ got' = [got EXCEPT ![c] = NULL]
    /\ uaf' = uaf \ {c}
    /\ Goto(c, label)
    /\ UNCHANGED <<memVars, flagVars, published, todo, envVars>>

Return(c) ==
    /\ pc[c] \in {"returned", "failed"}
    /\ todo' = [todo EXCEPT ![c] = Tail(@)]
    /\ Goto(c, "idle")
    /\ UNCHANGED <<memVars, flagVars, published, arg, got, uaf, envVars>>

\* The exchange or compare-and-swap of joined at the end of a join or detach: the
\* first to come goes on to release the thread.  In a descriptor that is freed
\* the client finds joined set, or it finds it clear and releases what is not its
\* own: from then on nothing is promised of the process.
Claim(c, from, who) ==
    /\ pc[c] = from
    /\ Touch(c)
    /\ \/ /\ arg[c] \in live
          /\ TakeJoined(arg[c], who)
          /\ Goto(c, IF arg[c] \in joined THEN "returned" ELSE "release_stack")
          /\ UNCHANGED dead
       \/ /\ arg[c] \notin live
          /\ \/ Goto(c, "returned") /\ UNCHANGED dead
             \/ dead' = TRUE /\ UNCHANGED pc
          /\ UNCHANGED <<joined, claimedBy>>
    /\ UNCHANGED <<memVars, retval, finished, detached, inTime, published, arg, got, todo,
                   failures>>

-----------------------------------------------------------------------------
(* mythread_join                                                           *)

\* Only this first load looks at detached: a later detach is not noticed.
JoinLoad(c) == Look(c, "join_load", detached, "failed", "join_poll")

JoinPoll(c) == Look(c, "join_poll", finished, "join_value", "join_wait")

\* futex_wait(&finished, 0): the kernel compares and sleeps in one step.
JoinWait(c) == Look(c, "join_wait", finished, "join_poll", "join_asleep")

\* *retval = thread->retval
JoinRead(c) ==
    /\ pc[c] = "join_value"
    /\ Touch(c)
    /\ \E set \in Sees(c, retval) :
          got' = [got EXCEPT ![c] = IF set THEN arg[c] ELSE NULL]
    /\ Goto(c, "join_claim")
    /\ UNCHANGED <<memVars, flagVars, published, arg, todo, envVars>>

\* Returns 0 even if the thread was not its to release.
JoinClaim(c) == Claim(c, "join_claim", "joiner")

-----------------------------------------------------------------------------
(* mythread_detach                                                         *)

DetachStore(c) ==
    /\ pc[c] = "detach_store"
    /\ Touch(c)
    /\ detached' = detached \cup ({arg[c]} \cap live)
    /\ inTime' = inTime \cup {t \in {arg[c]} \cap live : pc[t] \notin {"exit", "gone"}}
    /\ Goto(c, "detach_finished")
    /\ UNCHANGED <<memVars, retval, finished, joined, claimedBy, published, arg, got, todo,
                   envVars>>

DetachFinished(c) == Look(c, "detach_finished", finished, "detach_claim", "returned")

DetachClaim(c) == Claim(c, "detach_claim", "detacher")

\* destroy_stack and free, of a joiner or of a detaching client.
ReleaseStack(c) ==
    /\ pc[c] = "release_stack"
    /\ stack' = stack \ {arg[c]}
    /\ Goto(c, "release_descriptor")
    /\ UNCHANGED <<live, temp, flagVars, callVars, envVars>>

ReleaseDescriptor(c) ==
    /\ pc[c] = "release_descriptor"
    /\ live' = live \ {arg[c]}
    /\ Goto(c, "returned")
    /\ UNCHANGED <<stack, temp, flagVars, callVars, envVars>>

ClientStep(c) ==
    /\ ~dead
    /\ \/ Create(c) \/ CreateFails(c) \/ Publish(c)
       \/ Enter(c, "join", "join_load")
       \/ JoinLoad(c) \/ JoinPoll(c) \/ JoinWait(c) \/ JoinRead(c) \/ JoinClaim(c)
       \/ Enter(c, "detach", "detach_store")
       \/ DetachStore(c) \/ DetachFinished(c) \/ DetachClaim(c)
       \/ ReleaseStack(c) \/ ReleaseDescriptor(c)
       \/ Return(c)

-----------------------------------------------------------------------------

Init ==
    /\ live = {} /\ stack = {} /\ temp = {}
    /\ retval = {} /\ finished = {} /\ joined = {} /\ detached = {}
    /\ claimedBy = [t \in Threads |-> "nobody"]
    /\ inTime = {}
    /\ published = {}
    /\ pc = [p \in Actors |-> IF p \in Threads THEN "none" ELSE "idle"]
    /\ arg = [c \in Clients |-> NULL]
    /\ got = [c \in Clients |-> NULL]
    /\ todo \in Programs
    /\ uaf = {}
    /\ dead = FALSE
    /\ failures = 0

\* A client that has made its calls, or holds no pointer to make the next one.
Idle(c) ==
    /\ pc[c] = "idle"
    /\ todo[c] # <<>> =>
          Head(todo[c]).op # "create" /\ Head(todo[c]).t \notin published

\* Of two clients that join the same thread one may never be woken, nor is one
\* that has gone to sleep on a freed descriptor.
Stranded(c) == pc[c] = "join_asleep" /\ pc[arg[c]] = "gone"

Resting ==
    /\ \/ dead
       \/ /\ \A c \in Clients : Idle(c) \/ Stranded(c)
          /\ \A t \in Threads : pc[t] \in {"none", "gone"}
    /\ UNCHANGED vars

Next ==
    \/ \E t \in Threads : ThreadStep(t) \/ Fault(t)
    \/ \E c \in Clients : ClientStep(c)
    \/ Resting

Safe == Init /\ [][Next]_vars

\* The kernel runs every runnable thread, and start routines return.
Spec ==
    /\ Safe
    /\ \A t \in Threads : WF_vars(ThreadStep(t) \/ Fault(t))
    /\ \A c \in Clients : WF_vars(ClientStep(c))

-----------------------------------------------------------------------------
(* Properties                                                              *)

\* The type invariant; a thread on a temporary stack has mapped it.
TypeOK ==
    /\ live \subseteq Threads
    /\ stack \subseteq live
    /\ temp \subseteq Threads
    /\ finished \subseteq retval /\ retval \subseteq Threads
    /\ joined \subseteq finished
    /\ detached \subseteq published
    /\ claimedBy \in [Threads -> {"nobody", "joiner", "detacher", "thread"}]
    /\ inTime \subseteq detached
    /\ published \subseteq Threads
    /\ pc \in [Actors -> ThreadPCs \cup ClientPCs]
    /\ \A t \in Threads : pc[t] \in TempStackPCs => t \in temp
    /\ arg \in [Clients -> Threads \cup {NULL}]
    /\ got \in [Clients -> Threads \cup {NULL}]
    /\ todo \in [Clients -> Seq(Calls)]
    /\ uaf \subseteq Clients
    /\ dead \in BOOLEAN
    /\ failures \in 0 .. MaxFail

Releasers(t) ==
    {c \in Clients : arg[c] = t /\ pc[c] \in {"release_stack", "release_descriptor"}}
    \cup {u \in {t} : pc[u] \in {"alloc_args", "map_temp", "swap", "unmap", "free"}}

\* joined lets one actor at most, of any joiner, any detaching client and the
\* thread itself, release a thread, and that one finds mapped and allocated
\* what it releases.
ReleasedOnce ==
    \A t \in Threads :
        /\ Cardinality(Releasers(t)) <= 1
        /\ \A c \in Releasers(t) : /\ t \in live
                                   /\ pc[c] # "release_descriptor" /\ pc[c] # "free"
                                         => t \in stack

\* What remains allocated for good is what the exiting thread has claimed and
\* nobody had detached when it looked (thread_startup): a thread whose joined was
\* set by a client is given back by that client, and one that was detached in
\* time by one or the other, however the three raced.
OnlyLateClaimsLeak ==
    \A t \in Threads :
        pc[t] = "gone" /\ t \in live /\ Releasers(t) = {} =>
            claimedBy[t] = "thread" /\ t \notin inTime

\* A join has the value its thread returned, unless it has read it from a freed
\* descriptor; and that happens only to a join that a detach, or another join,
\* of the same thread has overtaken (mythread_join looks at detached once).
JoinValue ==
    \A c \in Clients :
        pc[c] = "join_claim" /\ got[c] # arg[c] =>
            /\ c \in uaf
            /\ arg[c] \in detached \/ claimedBy[arg[c]] = "joiner"

\* The process dies in three ways only: a thread that is to release itself gets no
\* memory for it (a malloc() that is not tested, _exit(1)); a client has unmapped
\* the stack of a thread that has announced its end and not yet left; or a client
\* has freed what others had freed.  A thread that releases itself, from the
\* stack it swaps to, is never the cause once it has that stack.
DeathHasCause ==
    dead =>
        \/ failures > 0 /\ \E t \in Threads : pc[t] \in {"alloc_args", "map_temp"}
        \/ \E t \in Threads \ stack : /\ claimedBy[t] \in {"joiner", "detacher"}
                                     /\ pc[t] \in {"wake_joiner", "claim", "exit"}
        \/ \E c \in uaf : pc[c] \in {"join_claim", "detach_claim"}

\* The state of the contract, read off the library's.
Life  == [t \in Threads |-> IF pc[t] = "none" THEN "absent"
                            ELSE IF t \in finished THEN "finished" ELSE "running"]
Owner == [t \in Threads |-> IF claimedBy[t] = "nobody" THEN "none"
                            ELSE IF claimedBy[t] = "joiner" THEN "joined"
                            ELSE "detached"]
Held  == [t \in Threads |-> {h \in {"stack", "descriptor"} :
                                t \in IF h = "stack" THEN stack ELSE live}]

Contract == INSTANCE ThreadContract
    WITH life <- Life, owner <- Owner, held <- Held, crashed <- dead

\* The safety half of the contract holds here too: a thread is claimed once,
\* and given back, stack first, only when it is finished and claimed.
ImplementsContract == Contract!Safe

\* The liveness half holds for the threads detached before they finish, by
\* whomever they are then released.  It does not hold for the others: every
\* exiting thread sets joined, and a join or detach that comes later finds the
\* thread taken and leaves it to nobody.
DetachedBeforeExitReleased ==
    \A t \in Threads :
        (t \in detached /\ t \notin finished) ~> (t \notin live \/ dead)

\* Of the clients that sleep in a join of the same thread one at least returns,
\* with its value: futex_wake wakes a single one, and no more is promised, nor
\* this much if the descriptor is freed before the woken client reads it.
FirstJoinerReturns ==
    \A t \in Threads :
        Joiners(t) # {} /\ t \notin finished ~>
            \/ \E c \in Clients : pc[c] = "returned" /\ arg[c] = t /\ got[c] = t
            \/ \E c \in uaf : arg[c] = t
            \/ dead

\* A detach that finds the thread at its end gives it back, or leaves it to whom
\* it belongs: "If the stream has already ended, we release it ourselves".
DetachReleasesEnded ==
    \A t \in Threads :
        (\E c \in Clients : pc[c] = "detach_claim" /\ arg[c] = t) ~> (t \notin live \/ dead)

=============================================================================
