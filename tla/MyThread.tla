------------------------------- MODULE MyThread -------------------------------
(***************************************************************************)
(* mythread_create, mythread_join, mythread_detach and thread_startup of   *)
(* the user-level thread library (1.6/src/mythread.c), composed with its   *)
(* reaper (ReapQueue).                                                     *)
(*                                                                         *)
(* Clients are the program's own flows of control; each makes a sequence   *)
(* of library calls.  A started thread and its descriptor have one name,   *)
(* which is also the value its start routine returns.  Memory that was     *)
(* freed keeps its contents: no later allocation reuses it.                *)
(***************************************************************************)
EXTENDS Integers, Sequences, FiniteSets

CONSTANTS Threads, Clients, Reapers, NULL,
          Programs,  \* the sequences of calls every client may make
          MaxFail

Calls == [op : {"create", "join", "detach"}, t : Threads]

ASSUME ThreadConstantsOK ==
    /\ NULL \notin Threads
    /\ IsFiniteSet(Threads)
    /\ Threads \cap Clients = {}
    /\ Programs \subseteq [Clients -> Seq(Calls)]
    /\ MaxFail \in Nat

\* The kernel runs finitely many flows of control.
ASSUME ActorsFinite == IsFiniteSet(Clients) /\ IsFiniteSet(Reapers)

VARIABLES
    state, live, stack, reaper_started, head, tail, next, count, lock,
    pc, arg, rpc, current, processed, errno, failures,   \* as in ReapQueue
    finished,        \* threads whose finished field, also a futex word, is 1
    retval,          \* t->retval
    published,       \* threads whose descriptor a mythread_create has returned
    todo,            \* the calls a client has still to make
    seen,            \* the state s a join or detach has loaded
    got,             \* what mythread_join stored through its retval argument
    uaf,             \* clients that have touched a freed descriptor
    crashed          \* the process has died of SIGSEGV

RQ == INSTANCE ReapQueue WITH Callers <- Threads \cup Clients

myVars == <<finished, retval, published, todo, seen, got, uaf, crashed>>
descVars   == <<state, live, stack>>
queueVars  == <<head, tail, next, count, lock>>
reaperVars == <<rpc, current, processed>>
envVars    == <<errno, failures>>
rqVars == <<descVars, reaper_started, queueVars, pc, arg, reaperVars, envVars>>
vars   == <<rqVars, myVars>>

Actors == Threads \cup Clients

ThreadPCs == RQ!CallerPCs \cup
    {"none", "run", "finish", "wake_joiner", "load_state", "claim", "gone"}

ClientPCs == RQ!CallerPCs \cup
    {"publish", "failed",
     "join_load", "join_cas", "join_poll", "join_wait", "join_asleep",
     "join_read", "join_reap", "join_unmap", "join_free",
     "detach_load", "detach_cas", "detach_finished", "detach_claim"}

Goto(p, label) == pc' = [pc EXCEPT ![p] = label]

\* A client's access to the descriptor it was given.
Touch(c) == uaf' = IF arg[c] \in live THEN uaf ELSE uaf \cup {c}

\* The tests of s that mythread_join makes before its compare-and-swap.
Unclaimed(s) == "DETACHED" \notin s /\ "JOINED" \notin s

\* A call of the library fails and returns -1.
Reject(c) == /\ errno' = "EINVAL"
             /\ Goto(c, "failed")

-----------------------------------------------------------------------------
(* Slips the code could have had: each stands in for the action it is named  *)
(* after when the properties are tried out.  None is part of Next.           *)

\* The thread does not wake the client that sleeps on its finished word.
FinishSilently(t) ==
    /\ pc[t] = "wake_joiner"
    /\ Goto(t, "load_state")
    /\ UNCHANGED <<descVars, reaper_started, queueVars, arg, reaperVars,
                   envVars, myVars>>

\* mythread_join sets its bit without comparing what it loaded.
JoinCasBlind(c) ==
    /\ pc[c] = "join_cas"
    /\ Touch(c)
    /\ state' = [state EXCEPT ![arg[c]] = @ \cup {"JOINED"}]
    /\ Goto(c, "join_poll")
    /\ UNCHANGED <<live, stack, reaper_started, queueVars, arg, reaperVars,
                   envVars, finished, retval, published, todo, seen, got,
                   crashed>>

\* mythread_join does not wait for the thread.
JoinPollNot(c) ==
    /\ pc[c] = "join_poll"
    /\ Touch(c)
    /\ Goto(c, "join_read")
    /\ UNCHANGED <<descVars, reaper_started, queueVars, arg, reaperVars,
                   envVars, finished, retval, published, todo, seen, got,
                   crashed>>

\* mythread_join sleeps without the kernel comparing the word.
JoinWaitUnchecked(c) ==
    /\ pc[c] = "join_wait"
    /\ Touch(c)
    /\ Goto(c, "join_asleep")
    /\ UNCHANGED <<descVars, reaper_started, queueVars, arg, reaperVars,
                   envVars, finished, retval, published, todo, seen, got,
                   crashed>>

\* mythread_join frees the descriptor first, then reads t->stack from it.
JoinFreeFirst(c) ==
    /\ pc[c] = "join_unmap"
    /\ Touch(c)
    /\ live' = live \ {arg[c]}
    /\ Goto(c, "join_free")
    /\ UNCHANGED <<state, stack, reaper_started, queueVars, arg, reaperVars,
                   envVars, finished, retval, published, todo, seen, got,
                   crashed>>

\* mythread_detach stores s | MT_DETACHED without comparing.
DetachStore(c) ==
    /\ pc[c] = "detach_cas"
    /\ Touch(c)
    /\ state' = [state EXCEPT ![arg[c]] = seen[c] \cup {"DETACHED"}]
    /\ Goto(c, "detach_finished")
    /\ UNCHANGED <<live, stack, reaper_started, queueVars, arg, reaperVars,
                   envVars, finished, retval, published, todo, seen, got,
                   crashed>>

\* mythread_detach leaves a thread that has finished to itself.
DetachNeverClaims(c) ==
    /\ pc[c] = "detach_finished"
    /\ Touch(c)
    /\ Goto(c, "returned")
    /\ UNCHANGED <<descVars, reaper_started, queueVars, arg, reaperVars,
                   envVars, finished, retval, published, todo, seen, got,
                   crashed>>

\* mythread_detach claims a thread that may still run.
DetachAlwaysClaims(c) ==
    /\ pc[c] = "detach_finished"
    /\ Touch(c)
    /\ Goto(c, "detach_claim")
    /\ UNCHANGED <<descVars, reaper_started, queueVars, arg, reaperVars,
                   envVars, finished, retval, published, todo, seen, got,
                   crashed>>

-----------------------------------------------------------------------------
(* thread_startup: what a thread does, on the stack named after it         *)

Run(t) ==
    /\ pc[t] = "run"
    /\ retval' = [retval EXCEPT ![t] = t]
    /\ Goto(t, "finish")
    /\ UNCHANGED <<descVars, reaper_started, queueVars, arg, reaperVars,
                   envVars, finished, published, todo, seen, got, uaf, crashed>>

Finish(t) ==
    /\ pc[t] = "finish"
    /\ finished' = finished \cup {t}
    /\ Goto(t, "wake_joiner")
    /\ UNCHANGED <<descVars, reaper_started, queueVars, arg, reaperVars,
                   envVars, retval, published, todo, seen, got, uaf, crashed>>

\* Clients that sleep on t->finished.
Joiners(t) == {c \in Clients : pc[c] = "join_asleep" /\ arg[c] = t}

WakeJoiner(t) ==
    /\ pc[t] = "wake_joiner"
    /\ \/ \E c \in Joiners(t) :
             pc' = [pc EXCEPT ![t] = "load_state", ![c] = "join_poll"]
       \/ Joiners(t) = {} /\ Goto(t, "load_state")
    /\ UNCHANGED <<descVars, reaper_started, queueVars, arg, reaperVars,
                   envVars, myVars>>

LoadState(t) ==
    /\ pc[t] = "load_state"
    /\ Goto(t, IF "DETACHED" \in state[t] THEN "claim" ELSE "returned")
    /\ UNCHANGED <<descVars, reaper_started, queueVars, arg, reaperVars,
                   envVars, myVars>>

ExitClaim(t) ==
    /\ pc[t] = "claim"
    /\ RQ!Claim(t, t)
    /\ UNCHANGED myVars

Exit(t) ==
    /\ pc[t] = "returned"
    /\ Goto(t, "gone")
    /\ UNCHANGED <<descVars, reaper_started, queueVars, arg, reaperVars,
                   envVars, myVars>>

\* A thread steps only while its stack is mapped ...
ThreadStep(t) ==
    /\ ~crashed
    /\ t \in stack
    /\ \/ Run(t) \/ Finish(t) \/ WakeJoiner(t) \/ LoadState(t) \/ ExitClaim(t)
       \/ RQ!CallerStep(t) /\ UNCHANGED myVars
       \/ Exit(t)

\* ... and takes the process down if it is scheduled after the munmap().
Fault(t) ==
    /\ ~crashed
    /\ pc[t] \notin {"none", "gone"}
    /\ t \notin stack
    /\ crashed' = TRUE
    /\ UNCHANGED <<rqVars, finished, retval, published, todo, seen, got, uaf>>

-----------------------------------------------------------------------------
(* mythread_create                                                         *)

Calling(c, op) == /\ pc[c] = "idle"
                  /\ todo[c] # <<>>
                  /\ Head(todo[c]).op = op

Create(c) ==
    /\ Calling(c, "create")
    /\ LET t == Head(todo[c]).t IN
          /\ pc[t] = "none"
          /\ live' = live \cup {t}
          /\ stack' = stack \cup {t}
          /\ pc' = [pc EXCEPT ![c] = "publish", ![t] = "run"]
          /\ arg' = [arg EXCEPT ![c] = t]
    /\ UNCHANGED <<state, reaper_started, queueVars, reaperVars, envVars,
                   myVars>>

\* calloc(), mmap(), mprotect() or clone() fails: what was allocated is given
\* back, and the caller gives up.
CreateFails(c) ==
    /\ Calling(c, "create")
    /\ \E e \in {"ENOMEM", "EAGAIN"} : RQ!Fail(e)
    /\ todo' = [todo EXCEPT ![c] = <<>>]
    /\ UNCHANGED <<descVars, reaper_started, queueVars, pc, arg,
                   reaperVars, finished, retval, published, seen, got, uaf,
                   crashed>>

\* *thread = t, while the thread already runs.
Publish(c) ==
    /\ pc[c] = "publish"
    /\ published' = published \cup {arg[c]}
    /\ Goto(c, "returned")
    /\ UNCHANGED <<descVars, reaper_started, queueVars, arg, reaperVars,
                   envVars, finished, retval, todo, seen, got, uaf, crashed>>

\* A join or detach of a thread whose pointer the client can have.
Enter(c, op, label) ==
    /\ Calling(c, op)
    /\ Head(todo[c]).t \in published
    /\ arg' = [arg EXCEPT ![c] = Head(todo[c]).t]
    /\ got' = [got EXCEPT ![c] = NULL]
    /\ Goto(c, label)
    /\ UNCHANGED <<descVars, reaper_started, queueVars, reaperVars,
                   envVars, finished, retval, published, todo, seen, uaf, crashed>>

\* The call is over, with 0 ...
Return(c) ==
    /\ pc[c] = "returned"
    /\ todo' = [todo EXCEPT ![c] = Tail(@)]
    /\ Goto(c, "idle")
    /\ UNCHANGED <<descVars, reaper_started, queueVars, arg, reaperVars,
                   envVars, finished, retval, published, seen, got, uaf, crashed>>

\* ... or with -1, and the client has looked at errno.
ReadErrno(c) ==
    /\ pc[c] = "failed"
    /\ todo' = [todo EXCEPT ![c] = Tail(@)]
    /\ Goto(c, "idle")
    /\ UNCHANGED <<descVars, reaper_started, queueVars, arg, reaperVars,
                   envVars, finished, retval, published, seen, got, uaf, crashed>>

-----------------------------------------------------------------------------
(* mythread_join                                                           *)

JoinLoad(c) ==
    /\ pc[c] = "join_load"
    /\ Touch(c)
    /\ seen' = [seen EXCEPT ![c] = state[arg[c]]]
    /\ IF Unclaimed(state[arg[c]])
       THEN Goto(c, "join_cas") /\ UNCHANGED errno
       ELSE Reject(c)
    /\ UNCHANGED <<descVars, reaper_started, queueVars, arg, reaperVars,
                   failures, finished, retval, published, todo, got, crashed>>

\* The compare-and-swap; when it fails it reloads s and the loop tests it again.
JoinCas(c) ==
    /\ pc[c] = "join_cas"
    /\ Touch(c)
    /\ LET t == arg[c] IN
          \/ /\ state[t] = seen[c]
             /\ state' = [state EXCEPT ![t] = seen[c] \cup {"JOINED"}]
             /\ Goto(c, "join_poll")
             /\ UNCHANGED <<seen, errno>>
          \/ /\ state[t] # seen[c]
             /\ seen' = [seen EXCEPT ![c] = state[t]]
             /\ IF Unclaimed(state[t])
                THEN UNCHANGED <<pc, errno>>
                ELSE Reject(c)
             /\ UNCHANGED state
    /\ UNCHANGED <<live, stack, reaper_started, queueVars, arg, reaperVars,
                   failures, finished, retval, published, todo, got, crashed>>

JoinPoll(c) ==
    /\ pc[c] = "join_poll"
    /\ Touch(c)
    /\ Goto(c, IF arg[c] \in finished THEN "join_read" ELSE "join_wait")
    /\ UNCHANGED <<descVars, reaper_started, queueVars, arg, reaperVars,
                   envVars, finished, retval, published, todo, seen, got,
                   crashed>>

\* futex_wait(&finished, 0): the kernel compares and sleeps in one step.
JoinWait(c) ==
    /\ pc[c] = "join_wait"
    /\ Touch(c)
    /\ \/ /\ arg[c] \notin finished
          /\ Goto(c, "join_asleep")
          /\ UNCHANGED errno
       \/ /\ arg[c] \in finished
          /\ Goto(c, "join_poll")
          /\ errno' = "EAGAIN"
    /\ UNCHANGED <<descVars, reaper_started, queueVars, arg, reaperVars,
                   failures, finished, retval, published, todo, seen, got, crashed>>

JoinRead(c) ==
    /\ pc[c] = "join_read"
    /\ Touch(c)
    /\ got' = [got EXCEPT ![c] = retval[arg[c]]]
    /\ Goto(c, "join_reap")
    /\ UNCHANGED <<descVars, reaper_started, queueVars, arg, reaperVars,
                   envVars, finished, retval, published, todo, seen, crashed>>

\* fetch_or of MT_REAPED.
JoinReap(c) ==
    /\ pc[c] = "join_reap"
    /\ Touch(c)
    /\ state' = [state EXCEPT ![arg[c]] = @ \cup {"REAPED"}]
    /\ Goto(c, IF "REAPED" \in state[arg[c]] THEN "returned" ELSE "join_unmap")
    /\ UNCHANGED <<live, stack, reaper_started, queueVars, arg, reaperVars,
                   envVars, finished, retval, published, todo, seen, got,
                   crashed>>

\* destroy_stack: nothing waits for the thread to have left its stack.
JoinUnmap(c) ==
    /\ pc[c] = "join_unmap"
    /\ Touch(c)
    /\ stack' = stack \ {arg[c]}
    /\ Goto(c, "join_free")
    /\ UNCHANGED <<state, live, reaper_started, queueVars, arg, reaperVars,
                   envVars, finished, retval, published, todo, seen, got,
                   crashed>>

JoinFree(c) ==
    /\ pc[c] = "join_free"
    /\ live' = live \ {arg[c]}
    /\ Goto(c, "returned")
    /\ UNCHANGED <<state, stack, reaper_started, queueVars, arg, reaperVars,
                   envVars, myVars>>

-----------------------------------------------------------------------------
(* mythread_detach                                                         *)

\* The tests of a loaded state, in the loop around the compare-and-swap.
DetachTest(c, s) ==
    CASE "DETACHED" \in s -> Goto(c, "returned") /\ UNCHANGED errno
      [] "DETACHED" \notin s /\ "JOINED" \in s -> Reject(c)
      [] OTHER -> Goto(c, "detach_cas") /\ UNCHANGED errno

DetachLoad(c) ==
    /\ pc[c] = "detach_load"
    /\ Touch(c)
    /\ seen' = [seen EXCEPT ![c] = state[arg[c]]]
    /\ DetachTest(c, state[arg[c]])
    /\ UNCHANGED <<descVars, reaper_started, queueVars, arg, reaperVars,
                   failures, finished, retval, published, todo, got, crashed>>

\* A spurious failure of the weak compare-and-swap reloads the same s: a stutter.
DetachCas(c) ==
    /\ pc[c] = "detach_cas"
    /\ Touch(c)
    /\ LET t == arg[c] IN
          \/ /\ state[t] = seen[c]
             /\ state' = [state EXCEPT ![t] = seen[c] \cup {"DETACHED"}]
             /\ Goto(c, "detach_finished")
             /\ UNCHANGED <<seen, errno>>
          \/ /\ state[t] # seen[c]
             /\ seen' = [seen EXCEPT ![c] = state[t]]
             /\ DetachTest(c, state[t])
             /\ UNCHANGED state
    /\ UNCHANGED <<live, stack, reaper_started, queueVars, arg, reaperVars,
                   failures, finished, retval, published, todo, got, crashed>>

\* The descriptor is read again after the thread was given to its reaper.
DetachFinished(c) ==
    /\ pc[c] = "detach_finished"
    /\ Touch(c)
    /\ Goto(c, IF arg[c] \in finished THEN "detach_claim" ELSE "returned")
    /\ UNCHANGED <<descVars, reaper_started, queueVars, arg, reaperVars,
                   envVars, finished, retval, published, todo, seen, got,
                   crashed>>

DetachClaim(c) ==
    /\ pc[c] = "detach_claim"
    /\ Touch(c)
    /\ RQ!Claim(c, arg[c])
    /\ UNCHANGED <<finished, retval, published, todo, seen, got, crashed>>

ClientStep(c) ==
    /\ ~crashed
    /\ \/ Create(c) \/ CreateFails(c) \/ Publish(c)
       \/ Enter(c, "join", "join_load")
       \/ JoinLoad(c) \/ JoinCas(c) \/ JoinPoll(c) \/ JoinWait(c)
       \/ JoinRead(c) \/ JoinReap(c) \/ JoinUnmap(c) \/ JoinFree(c)
       \/ Enter(c, "detach", "detach_load")
       \/ DetachLoad(c) \/ DetachCas(c) \/ DetachFinished(c) \/ DetachClaim(c)
       \/ RQ!CallerStep(c) /\ UNCHANGED myVars
       \/ Return(c) \/ ReadErrno(c)

ReaperStep(r) ==
    /\ ~crashed
    /\ RQ!ReaperStep(r)
    /\ UNCHANGED myVars

-----------------------------------------------------------------------------

Init ==
    /\ RQ!InitQueue
    /\ state = [t \in Threads |-> {}]
    /\ live = {}
    /\ stack = {}
    /\ pc = [p \in Actors |-> IF p \in Threads THEN "none" ELSE "idle"]
    /\ arg = [p \in Actors |-> NULL]
    /\ finished = {}
    /\ retval = [t \in Threads |-> NULL]
    /\ published = {}
    /\ todo \in Programs
    /\ seen = [c \in Clients |-> {}]
    /\ got = [c \in Clients |-> NULL]
    /\ uaf = {}
    /\ crashed = FALSE

\* A client that has made its calls, or holds no pointer to make the next one.
Idle(c) ==
    /\ pc[c] = "idle"
    /\ todo[c] # <<>> =>
          Head(todo[c]).op # "create" /\ Head(todo[c]).t \notin published

\* Nothing is left to do; or the process is dead.
Resting ==
    /\ \/ crashed
       \/ /\ \A c \in Clients : Idle(c)
          /\ \A t \in Threads : pc[t] \in {"none", "gone"}
          /\ \A r \in Reapers : rpc[r] \in {"unborn", "asleep"}
    /\ UNCHANGED vars

Next ==
    \/ \E t \in Threads : ThreadStep(t) \/ Fault(t)
    \/ \E c \in Clients : ClientStep(c)
    \/ \E r \in Reapers : ReaperStep(r)
    \/ Resting

\* The kernel runs every runnable thread, and start routines return.
Fairness ==
    /\ \A t \in Threads : WF_vars(ThreadStep(t) \/ Fault(t))
    /\ \A c \in Clients : WF_vars(ClientStep(c))
    /\ \A r \in Reapers : WF_vars(ReaperStep(r))

Safe == Init /\ [][Next]_vars
Spec == Safe /\ Fairness

-----------------------------------------------------------------------------
(* Properties                                                              *)

\* The type invariant: every variable holds a value its C type and role allow,
\* and a thread's stack is never mapped without the descriptor that names it.
TypeOK ==
    /\ RQ!QueueTypeOK
    /\ pc \in [Actors -> ThreadPCs \cup ClientPCs]
    /\ \A t \in Threads : pc[t] \in ThreadPCs
    /\ \A c \in Clients : pc[c] \in ClientPCs
    /\ arg \in [Actors -> Threads \cup {NULL}]
    /\ finished \subseteq Threads
    /\ retval \in [Threads -> Threads \cup {NULL}]
    /\ published \subseteq Threads
    /\ todo \in [Clients -> Seq(Calls)]
    /\ seen \in [Clients -> SUBSET RQ!Flags]
    /\ got \in [Clients -> Threads \cup {NULL}]
    /\ uaf \subseteq Clients
    /\ crashed \in BOOLEAN

\* Join and detach exclude each other whatever the interleaving of their
\* compare-and-swap loops, and only a detached thread that has finished is
\* ever handed to the reaper (thread_startup, mythread_detach).
OwnershipProtocol ==
    \A t \in Threads :
        /\ ~("JOINED" \in state[t] /\ "DETACHED" \in state[t])
        /\ "QUEUED" \in state[t] => "DETACHED" \in state[t] /\ t \in finished

\* The responsibility for a detached thread is never dropped between the two
\* sides that test each other's flag: once it has finished and is not queued,
\* the thread itself or the detaching client is on its way to queue it.
DetachHandover ==
    \A t \in finished :
        "DETACHED" \in state[t] /\ "QUEUED" \notin state[t] =>
            \/ pc[t] \in {"wake_joiner", "load_state", "claim"}
            \/ \E c \in Clients : /\ arg[c] = t
                                  /\ pc[c] \in {"detach_finished", "detach_claim"}

Releasers(t) ==
    {c \in Clients : arg[c] = t /\ pc[c] \in {"join_unmap", "join_free"}}
    \cup {r \in Reapers : current[r] = t /\ rpc[r] \in {"unmap", "free"}}

\* No double munmap() and no double free(): one joiner or one reaper at a time
\* releases a thread, and it finds mapped and allocated what it releases.
ReleasedOnce ==
    /\ \A t \in Threads : Cardinality(Releasers(t)) <= 1
    /\ \A c \in Clients : /\ pc[c] = "join_unmap" => arg[c] \in stack
                          /\ pc[c] = "join_free" => arg[c] \in live
    /\ \A r \in Reapers : /\ rpc[r] = "unmap" => current[r] \in stack
                          /\ rpc[r] = "free" => current[r] \in live

\* A join that succeeds delivers the value the thread's start routine returned.
JoinValue ==
    \A c \in Clients :
        pc[c] \in {"join_reap", "join_unmap", "join_free"} => got[c] = arg[c]

\* A joiner sleeps on the finished word only while the wake-up is still to come.
JoinerWoken ==
    \A c \in Clients :
        pc[c] = "join_asleep" =>
            pc[arg[c]] \in {"run", "finish", "wake_joiner"}

\* What the contract speaks of.
Life  == [t \in Threads |-> IF pc[t] = "none" THEN "absent"
                            ELSE IF t \in finished THEN "finished" ELSE "running"]
Owner == [t \in Threads |-> IF "JOINED" \in state[t] THEN "joined"
                            ELSE IF "DETACHED" \in state[t] THEN "detached"
                            ELSE "none"]
Held  == [t \in Threads |-> {h \in {"stack", "descriptor"} :
                                t \in IF h = "stack" THEN stack ELSE live}]

Contract == INSTANCE ThreadContract WITH life <- Life, owner <- Owner, held <- Held

\* Safety half of the contract: a thread is claimed once, and its stack, then
\* its descriptor, are given back only when it is finished and claimed.
ImplementsContract == Contract!Safe

\* With the liveness half: whatever is finished and claimed is given back,
\* unless the process dies or, with failing calls, the reaper loses it.
KeepsPromise == Contract!Spec

\* What the queue sees of the library: a thread nobody has queued yet, born or
\* not, is a whole one that waits to be handed over, and an actor is idle
\* unless it works for the queue or returns.
Queued(t)  == "QUEUED" \in state[t]
QueueState == [t \in Threads |-> IF Queued(t) THEN state[t] ELSE {"DETACHED"}]
QueueLive  == {t \in Threads : Queued(t) => t \in live}
QueueStack == {t \in Threads : Queued(t) => t \in stack}
QueuePC    == [p \in Actors |-> IF pc[p] \in RQ!CallerPCs THEN pc[p] ELSE "idle"]

QueueView == INSTANCE ReapQueue WITH
    Callers <- Actors, state <- QueueState, live <- QueueLive,
    stack <- QueueStack, pc <- QueuePC

\* The library uses the queue only in the ways its component allows: nobody hands
\* over a thread that a join may touch, and whatever a join or a detach does to
\* a descriptor leaves the queued ones alone (mythread_join, mythread_detach,
\* thread_startup).
UsesQueue == QueueView!InProgram

\* A join returns, when the start routine does and the process lives.
JoinReturns ==
    \A c \in Clients :
        pc[c] = "join_load" ~> pc[c] \in {"returned", "failed"} \/ crashed

\* What the tests of main.c say of the calls they make.

\* Joining does not bring the process down (test_join).
NoCrash == ~crashed

\* Detaching a thread, again or not, touches no freed descriptor
\* (test_multiple_detach).
NoUseAfterFree == uaf = {}

\* A failed join or detach leaves EINVAL in errno for the caller to read
\* (test_detach_then_join_fails).
ErrnoKept == \A c \in Clients : pc[c] = "failed" => errno = "EINVAL"

=============================================================================
