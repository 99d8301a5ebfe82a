------------------------------- MODULE ReapQueue -------------------------------
(***************************************************************************)
(* The reaper of the user-level thread library (1.6/src/queue.h): a        *)
(* singly linked queue of finished, detached threads behind a spinlock, an *)
(* atomic counter that is also the futex the reaper sleeps on, and the     *)
(* lazily started reaper thread that unmaps the stack of every queued      *)
(* thread and frees its descriptor.                                        *)
(*                                                                         *)
(* A node of the queue is named by the descriptor it carries: MT_QUEUED    *)
(* lets one caller at most allocate a node for a descriptor.  Atomic       *)
(* operations and lock-protected accesses are steps; the memory order is   *)
(* sequential consistency.                                                 *)
(***************************************************************************)
EXTENDS Integers, FiniteSetsExt

CONSTANTS Threads,   \* the descriptors (mythread_t) that may be queued
          Callers,   \* flows of control that start the reaper and enqueue
          Reapers,   \* kernel threads available to clone() for reaper_main
          NULL,
          MaxFail    \* bound: system and library calls that fail in a run

ASSUME ConstantsOK ==
    /\ NULL \notin Threads
    /\ IsFiniteSet(Threads) /\ IsFiniteSet(Callers) /\ IsFiniteSet(Reapers)
    /\ MaxFail \in Nat

VARIABLES
    state,           \* t->state, as the set of its MT_ bits
    live,            \* descriptors allocated and not yet freed
    stack,           \* descriptors whose thread stack is mapped
    reaper_started,
    head, tail,      \* reap_queue.head, reap_queue.tail
    next,            \* the next field of a descriptor's node
    count,           \* reap_queue.count
    lock,            \* reap_queue.lock
    pc, arg,         \* control point and descriptor of every caller
    rpc,             \* control point of every reaper
    current,         \* reaper_main's list and current
    processed,       \* reaper_main's processed
    errno,           \* one cell: clone() without CLONE_SETTLS shares the TLS
    failures         \* calls that have failed so far

descVars   == <<state, live, stack>>
listVars   == <<head, tail, next>>
queueVars  == <<head, tail, next, count, lock>>
callerVars == <<pc, arg>>
reaperVars == <<rpc, current, processed>>
envVars    == <<errno, failures>>
vars == <<descVars, reaper_started, queueVars, callerVars, reaperVars, envVars>>

Flags  == {"DETACHED", "JOINED", "REAPED", "QUEUED"}
Errors == {"0", "EINVAL", "EAGAIN", "ENOMEM"}

\* Control points of a caller between its fetch_or of MT_QUEUED and its return.
Starting  == {"start_reaper", "clone_reaper", "reset_again"}
Enqueuing == {"alloc", "lock", "link", "tail", "unlock", "count", "wake"}
CallerPCs == Starting \cup Enqueuing \cup {"idle", "returned"}

ReaperPCs == {"unborn", "load", "wait", "asleep", "lock", "take", "clear",
              "unlock", "reap", "unmap", "free", "advance", "sub"}

Goto(p, label)  == pc'  = [pc EXCEPT ![p] = label]
RGoto(r, label) == rpc' = [rpc EXCEPT ![r] = label]

\* A library or system call fails and reports e.
Fail(e) == /\ failures < MaxFail
           /\ failures' = failures + 1
           /\ errno' = e

-----------------------------------------------------------------------------
(* Slips the code could have had: each stands in for the action it is named  *)
(* after when the properties are tried out.  None is part of Next.           *)

\* start_reaper tests nothing and always starts a reaper.
StartReaperAlways(p) ==
    /\ pc[p] = "start_reaper"
    /\ reaper_started' = TRUE
    /\ Goto(p, "clone_reaper")
    /\ UNCHANGED <<descVars, queueVars, arg, reaperVars, envVars>>

\* reap_enqueue tests the value after the addition, not the one before.
AddCountOffByOne(p) ==
    /\ pc[p] = "count"
    /\ count' = count + 1
    /\ Goto(p, IF count' = 0 THEN "wake" ELSE "returned")
    /\ UNCHANGED <<descVars, reaper_started, listVars, lock, arg, reaperVars,
                   envVars>>

\* The reaper sleeps on what it loaded before, without the futex comparing.
WaitUnchecked(r) ==
    /\ rpc[r] = "wait"
    /\ RGoto(r, "asleep")
    /\ UNCHANGED <<descVars, reaper_started, queueVars, callerVars, current,
                   processed, envVars>>

\* reap_dequeue returns the list and leaves head pointing to it.
TakeKeepsHead(r) ==
    /\ rpc[r] = "take"
    /\ current' = [current EXCEPT ![r] = head]
    /\ RGoto(r, IF head = NULL THEN "unlock" ELSE "clear")
    /\ UNCHANGED <<descVars, reaper_started, queueVars, callerVars, processed,
                   envVars>>

\* reap_dequeue takes the list and leaves tail pointing into it.
ClearTailForgotten(r) ==
    /\ rpc[r] = "clear"
    /\ RGoto(r, "unlock")
    /\ UNCHANGED <<descVars, reaper_started, queueVars, callerVars, current,
                   processed, envVars>>

\* The reaper frees the descriptor first, then reads t->stack from it.
FreeFirst(r) ==
    /\ rpc[r] = "unmap"
    /\ live' = live \ {current[r]}
    /\ RGoto(r, "free")
    /\ UNCHANGED <<state, stack, reaper_started, queueVars, callerVars, current,
                   processed, envVars>>

\* The reaper frees the first node of the list only.
AdvanceOnce(r) ==
    /\ rpc[r] = "advance"
    /\ processed' = [processed EXCEPT ![r] = @ + 1]
    /\ current' = [current EXCEPT ![r] = NULL]
    /\ RGoto(r, "sub")
    /\ UNCHANGED <<descVars, reaper_started, queueVars, callerVars, envVars>>

\* The counter falls by one, whatever the size of the batch.
SubCountOne(r) ==
    /\ rpc[r] = "sub"
    /\ count' = count - 1
    /\ RGoto(r, "load")
    /\ UNCHANGED <<descVars, reaper_started, listVars, lock, callerVars,
                   current, processed, envVars>>

-----------------------------------------------------------------------------
(* The claim on the queue: fetch_or of MT_QUEUED, made by the exiting thread *)
(* and by mythread_detach alike; only the first one goes on to enqueue.      *)
Claim(p, t) ==
    /\ arg' = [arg EXCEPT ![p] = t]
    /\ state' = [state EXCEPT ![t] = @ \cup {"QUEUED"}]
    /\ Goto(p, IF "QUEUED" \in state[t] THEN "returned" ELSE "start_reaper")
    /\ UNCHANGED <<live, stack, reaper_started, queueVars, reaperVars, envVars>>

(* start_reaper                                                            *)

StartReaper(p) ==
    /\ pc[p] = "start_reaper"
    /\ \/ /\ ~reaper_started
          /\ reaper_started' = TRUE
          /\ Goto(p, "clone_reaper")
       \/ /\ reaper_started
          /\ Goto(p, "alloc")
          /\ UNCHANGED reaper_started
    /\ UNCHANGED <<descVars, queueVars, arg, reaperVars, envVars>>

CloneReaper(p) ==
    /\ pc[p] = "clone_reaper"
    /\ \E r \in Reapers :
          /\ rpc[r] = "unborn"
          /\ RGoto(r, "load")
    /\ Goto(p, "alloc")
    /\ UNCHANGED <<descVars, reaper_started, queueVars, arg, current, processed,
                   envVars>>

\* mmap() or mprotect() fails: the flag is reset once, and errno written back.
MapReaperFails(p) ==
    /\ pc[p] = "clone_reaper"
    /\ Fail("ENOMEM")
    /\ reaper_started' = FALSE
    /\ Goto(p, "alloc")
    /\ UNCHANGED <<descVars, queueVars, arg, reaperVars>>

\* clone() fails: start_reaper resets the flag ...
CloneReaperFails(p) ==
    /\ pc[p] = "clone_reaper"
    /\ Fail("EAGAIN")
    /\ reaper_started' = FALSE
    /\ Goto(p, "reset_again")
    /\ UNCHANGED <<descVars, queueVars, arg, reaperVars>>

\* ... and __reaper_cleanup_on_error resets it again, after the munmap(); then
\* the errno that clone() has left is written back.
ResetAgain(p) ==
    /\ pc[p] = "reset_again"
    /\ reaper_started' = FALSE
    /\ errno' = "EAGAIN"
    /\ Goto(p, "alloc")
    /\ UNCHANGED <<descVars, queueVars, arg, reaperVars, failures>>

(* reap_enqueue                                                            *)

AllocNode(p) ==
    /\ pc[p] = "alloc"
    /\ next' = [next EXCEPT ![arg[p]] = NULL]
    /\ Goto(p, "lock")
    /\ UNCHANGED <<descVars, reaper_started, head, tail, count, lock, arg,
                   reaperVars, envVars>>

\* malloc() fails: the descriptor stays claimed and is never enqueued.
AllocNodeFails(p) ==
    /\ pc[p] = "alloc"
    /\ Fail("ENOMEM")
    /\ Goto(p, "returned")
    /\ UNCHANGED <<descVars, reaper_started, queueVars, arg, reaperVars>>

EnqueueLock(p) ==
    /\ pc[p] = "lock"
    /\ ~lock
    /\ lock' = TRUE
    /\ Goto(p, "link")
    /\ UNCHANGED <<descVars, reaper_started, listVars, count, arg, reaperVars,
                   envVars>>

Link(p) ==
    /\ pc[p] = "link"
    /\ \/ /\ tail = NULL
          /\ head' = arg[p]
          /\ UNCHANGED next
       \/ /\ tail # NULL
          /\ next' = [next EXCEPT ![tail] = arg[p]]
          /\ UNCHANGED head
    /\ Goto(p, "tail")
    /\ UNCHANGED <<descVars, reaper_started, tail, count, lock, arg, reaperVars,
                   envVars>>

SetTail(p) ==
    /\ pc[p] = "tail"
    /\ tail' = arg[p]
    /\ Goto(p, "unlock")
    /\ UNCHANGED <<descVars, reaper_started, head, next, count, lock, arg,
                   reaperVars, envVars>>

EnqueueUnlock(p) ==
    /\ pc[p] = "unlock"
    /\ lock' = FALSE
    /\ Goto(p, "count")
    /\ UNCHANGED <<descVars, reaper_started, listVars, count, arg, reaperVars,
                   envVars>>

\* The counter is raised after the unlock: the reaper may already hold the node.
AddCount(p) ==
    /\ pc[p] = "count"
    /\ count' = count + 1
    /\ Goto(p, IF count = 0 THEN "wake" ELSE "returned")
    /\ UNCHANGED <<descVars, reaper_started, listVars, lock, arg, reaperVars,
                   envVars>>

Asleep == {r \in Reapers : rpc[r] = "asleep"}

WakeReaper(p) ==
    /\ pc[p] = "wake"
    /\ \/ \E r \in Asleep : RGoto(r, "load")
       \/ Asleep = {} /\ UNCHANGED rpc
    /\ Goto(p, "returned")
    /\ UNCHANGED <<descVars, reaper_started, queueVars, arg, current, processed,
                   envVars>>

CallerStep(p) ==
    \/ StartReaper(p) \/ CloneReaper(p) \/ MapReaperFails(p)
    \/ CloneReaperFails(p) \/ ResetAgain(p)
    \/ AllocNode(p) \/ AllocNodeFails(p) \/ EnqueueLock(p) \/ Link(p)
    \/ SetTail(p) \/ EnqueueUnlock(p) \/ AddCount(p) \/ WakeReaper(p)

-----------------------------------------------------------------------------
(* reaper_main                                                             *)

LoadCount(r) ==
    /\ rpc[r] = "load"
    /\ RGoto(r, IF count = 0 THEN "wait" ELSE "lock")
    /\ UNCHANGED <<descVars, reaper_started, queueVars, callerVars, current,
                   processed, envVars>>

\* futex_wait(&count, 0): the kernel compares and sleeps in one step.
WaitCount(r) ==
    /\ rpc[r] = "wait"
    /\ \/ /\ count = 0
          /\ RGoto(r, "asleep")
          /\ UNCHANGED errno
       \/ /\ count # 0
          /\ RGoto(r, "load")
          /\ errno' = "EAGAIN"
    /\ UNCHANGED <<descVars, reaper_started, queueVars, callerVars, current,
                   processed, failures>>

DequeueLock(r) ==
    /\ rpc[r] = "lock"
    /\ ~lock
    /\ lock' = TRUE
    /\ RGoto(r, "take")
    /\ UNCHANGED <<descVars, reaper_started, listVars, count, callerVars,
                   current, processed, envVars>>

TakeHead(r) ==
    /\ rpc[r] = "take"
    /\ current' = [current EXCEPT ![r] = head]
    /\ head' = NULL
    /\ RGoto(r, IF head = NULL THEN "unlock" ELSE "clear")
    /\ UNCHANGED <<descVars, reaper_started, tail, next, count, lock,
                   callerVars, processed, envVars>>

ClearTail(r) ==
    /\ rpc[r] = "clear"
    /\ tail' = NULL
    /\ RGoto(r, "unlock")
    /\ UNCHANGED <<descVars, reaper_started, head, next, count, lock,
                   callerVars, current, processed, envVars>>

DequeueUnlock(r) ==
    /\ rpc[r] = "unlock"
    /\ lock' = FALSE
    /\ processed' = [processed EXCEPT ![r] = 0]
    /\ RGoto(r, IF current[r] = NULL THEN "load" ELSE "reap")
    /\ UNCHANGED <<descVars, reaper_started, listVars, count, callerVars,
                   current, envVars>>

\* fetch_or of MT_REAPED: a descriptor already reaped is not freed again.
Reap(r) ==
    /\ rpc[r] = "reap"
    /\ LET t == current[r] IN
          /\ state' = [state EXCEPT ![t] = @ \cup {"REAPED"}]
          /\ RGoto(r, IF "REAPED" \in state[t] THEN "advance" ELSE "unmap")
    /\ UNCHANGED <<live, stack, reaper_started, queueVars, callerVars, current,
                   processed, envVars>>

UnmapStack(r) ==
    /\ rpc[r] = "unmap"
    /\ stack' = stack \ {current[r]}
    /\ RGoto(r, "free")
    /\ UNCHANGED <<state, live, reaper_started, queueVars, callerVars, current,
                   processed, envVars>>

FreeThread(r) ==
    /\ rpc[r] = "free"
    /\ live' = live \ {current[r]}
    /\ RGoto(r, "advance")
    /\ UNCHANGED <<state, stack, reaper_started, queueVars, callerVars, current,
                   processed, envVars>>

\* Nobody writes the next field of a dequeued node, so that the code's early
\* read of current->next and this late one give the same pointer.
Advance(r) ==
    /\ rpc[r] = "advance"
    /\ processed' = [processed EXCEPT ![r] = @ + 1]
    /\ current' = [current EXCEPT ![r] = next[current[r]]]
    /\ RGoto(r, IF next[current[r]] = NULL THEN "sub" ELSE "reap")
    /\ UNCHANGED <<descVars, reaper_started, queueVars, callerVars, envVars>>

\* The counter falls by the batch; whatever the difference, the loop restarts.
SubCount(r) ==
    /\ rpc[r] = "sub"
    /\ count' = count - processed[r]
    /\ RGoto(r, "load")
    /\ UNCHANGED <<descVars, reaper_started, listVars, lock, callerVars,
                   current, processed, envVars>>

ReaperStep(r) ==
    \/ LoadCount(r) \/ WaitCount(r) \/ DequeueLock(r) \/ TakeHead(r)
    \/ ClearTail(r) \/ DequeueUnlock(r) \/ Reap(r) \/ UnmapStack(r)
    \/ FreeThread(r) \/ Advance(r) \/ SubCount(r)

-----------------------------------------------------------------------------
(* The component on its own: callers hand over detached, finished threads  *)
(* in any order and number, as mythread_detach and exiting threads do.     *)

InitQueue ==
    /\ reaper_started = FALSE
    /\ head = NULL /\ tail = NULL
    /\ next = [t \in Threads |-> NULL]
    /\ count = 0
    /\ lock = FALSE
    /\ rpc = [r \in Reapers |-> "unborn"]
    /\ current = [r \in Reapers |-> NULL]
    /\ processed = [r \in Reapers |-> 0]
    /\ errno = "0"
    /\ failures = 0

Init ==
    /\ InitQueue
    /\ state = [t \in Threads |-> {"DETACHED"}]
    /\ live = Threads
    /\ stack = Threads
    /\ pc = [p \in Callers |-> "idle"]
    /\ arg = [p \in Callers |-> NULL]

Submit(p, t) ==
    /\ pc[p] = "idle"
    /\ t \in live
    /\ Claim(p, t)

Return(p) ==
    /\ pc[p] = "returned"
    /\ Goto(p, "idle")
    /\ UNCHANGED <<descVars, reaper_started, queueVars, arg, reaperVars, envVars>>

\* Nobody calls and no reaper is awake: the component rests.
Resting ==
    /\ \A p \in Callers : pc[p] = "idle"
    /\ \A r \in Reapers : rpc[r] \in {"unborn", "asleep"}
    /\ UNCHANGED vars

Next ==
    \/ \E p \in Callers : \/ \E t \in Threads : Submit(p, t)
                          \/ CallerStep(p)
                          \/ Return(p)
    \/ \E r \in Reapers : ReaperStep(r)
    \/ Resting

\* The kernel runs every runnable thread; the waits on the spinlock are short.
Fairness ==
    /\ \A p \in Callers : WF_vars(CallerStep(p)) /\ WF_vars(Return(p))
    /\ \A r \in Reapers : WF_vars(ReaperStep(r))

Safe == Init /\ [][Next]_vars
Spec == Safe /\ Fairness

-----------------------------------------------------------------------------
(* The component in a program: its callers have other things to do.        *)

\* A caller that is not at work on the queue goes on with its own code: it turns
\* to another descriptor, returns, and sees other calls fail.
Elsewhere(p) ==
    /\ pc[p] \in {"idle", "returned"}
    /\ \E label \in {"idle", "returned"} : Goto(p, label)
    /\ \E t \in Threads \cup {NULL} : arg' = [arg EXCEPT ![p] = t]
    /\ errno' \in Errors
    /\ failures' \in failures .. MaxFail
    /\ UNCHANGED <<descVars, reaper_started, queueVars, reaperVars>>

NextInProgram == Next \/ \E p \in Callers : Elsewhere(p)

\* What the queue promises to every program that uses it in this way only.
InProgram == Init /\ [][NextInProgram]_vars

-----------------------------------------------------------------------------
(* Properties                                                              *)

N == Cardinality(Threads)

\* The types of what the queue and the reapers own, in any composition.
QueueTypeOK ==
    /\ state \in [Threads -> SUBSET Flags]
    /\ live \subseteq Threads
    /\ stack \subseteq live
    /\ reaper_started \in BOOLEAN
    /\ head \in Threads \cup {NULL}
    /\ tail \in Threads \cup {NULL}
    /\ next \in [Threads -> Threads \cup {NULL}]
    /\ count \in Int
    /\ lock \in BOOLEAN
    /\ rpc \in [Reapers -> ReaperPCs]
    /\ current \in [Reapers -> Threads \cup {NULL}]
    /\ processed \in [Reapers -> Nat]
    /\ errno \in Errors
    /\ failures \in 0 .. MaxFail

\* The type invariant: every variable holds a value its C type and role allow,
\* and a stack stays mapped only as long as the descriptor that names it lives.
TypeOK ==
    /\ QueueTypeOK
    /\ pc \in [Callers -> CallerPCs]
    /\ arg \in [Callers -> Threads \cup {NULL}]

\* The nodes reached from n along next, n included.
Chain(n) ==
    LET reach[k \in Nat] ==
            IF k = 0 THEN {n} \ {NULL}
            ELSE reach[k-1] \cup ({next[m] : m \in reach[k-1]} \ {NULL})
    IN  reach[N]

Batch(r) == IF rpc[r] \in {"clear", "unlock", "reap", "unmap", "free", "advance"}
            THEN Chain(current[r]) ELSE {}
Done(r)  == IF rpc[r] \in {"reap", "unmap", "free", "advance", "sub"}
            THEN processed[r] ELSE 0

\* Callers whose node is linked and not yet counted.
Uncounted == {p \in Callers : pc[p] \in {"tail", "unlock", "count"}}

\* The futex word tells the truth once every caller is through: the counter,
\* with the nodes linked but not counted yet, equals the nodes in the queue
\* and in the reapers' hands (reap_enqueue counts after the unlock, reaper_main
\* subtracts a whole batch after freeing it).
CountBalance ==
    count + Cardinality(Uncounted) =
        Cardinality(Chain(head)) +
        MapThenSumSet(LAMBDA r : Cardinality(Batch(r)) + Done(r), Reapers)

\* No lost wakeup: when every reaper that exists sleeps on the counter and the
\* queue holds a node, some caller is still on its way to count and to wake.
NoLostWakeup ==
    /\ Asleep # {}
    /\ Asleep = {r \in Reapers : rpc[r] # "unborn"}
    /\ Chain(head) # {}
    => \E p \in Callers : pc[p] \in {"tail", "unlock", "count", "wake"}

\* Ownership: a descriptor is in one place at most (the queue or one reaper's
\* batch), and whatever is there has not been unmapped, reaped or freed, except
\* the one node its reaper is working on.
OwnedOnce ==
    /\ \A r \in Reapers : /\ Chain(head) \cap Batch(r) = {}
                          /\ \A q \in Reapers \ {r} : Batch(q) \cap Batch(r) = {}
    /\ \A t \in Chain(head) \cup UNION {Batch(r) : r \in Reapers} :
          \/ t \in live \cap stack /\ "REAPED" \notin state[t]
          \/ \E r \in Reapers : /\ current[r] = t
                                /\ rpc[r] \in {"unmap", "free", "advance"}

\* Only a failing malloc() loses a descriptor: whatever is claimed for the queue
\* and not yet freed is on its caller's way to the queue, in it, or in a reaper's
\* batch, except for one descriptor for each call that failed (reap_enqueue gives
\* up and leaves MT_QUEUED set, so that nobody tries again).
LostOnlyToFailure ==
    LET InHand   == {arg[p] : p \in {q \in Callers :
                                pc[q] \in Starting \cup {"alloc", "lock", "link"}}}
        Reaching == InHand \cup Chain(head) \cup UNION {Batch(r) : r \in Reapers}
    IN  Cardinality({t \in live : "QUEUED" \in state[t]} \ Reaching) <= failures

\* start_reaper starts one reaper, and one more for each clone() that failed:
\* the error path resets reaper_started twice, and the second reset can undo
\* another caller's successful start.
ReaperBound ==
    Cardinality({r \in Reapers : rpc[r] # "unborn"}) <= 1 + failures

\* Every descriptor claimed for the queue is eventually freed, unless a system
\* or library call has failed (the return value of start_reaper is ignored, and
\* reap_enqueue gives a descriptor up when malloc() fails).
EventuallyReclaimed ==
    \A t \in Threads : "QUEUED" \in state[t] ~> (t \notin live \/ failures > 0)

\* Even after failures: as soon as a reaper exists, every node in the queue is
\* taken and its descriptor freed, the nodes stranded by an earlier failed
\* start included.
ReaperDrains ==
    \A t \in Threads :
        (t \in Chain(head) /\ \E r \in Reapers : rpc[r] # "unborn")
            ~> t \notin live

\* What the message "ERROR: old < processed" of reaper_main presumes never
\* happens: the batch is never larger than the counter it is taken from.
CountNonNegative == count >= 0

=============================================================================
