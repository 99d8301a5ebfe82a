--------------------------- MODULE ReapQueueProofs ---------------------------
(***************************************************************************)
(* Theorems about the reaper queue: for any number of threads, callers     *)
(* and reapers and any number of failing calls, a descriptor is in one     *)
(* place at most and is freed once, no wakeup is lost, and the counter     *)
(* balances.  They need no fairness.                                       *)
(***************************************************************************)
EXTENDS ReapQueue, DataLemmas

-----------------------------------------------------------------------------
(* The inductive invariant                                                 *)

\* The spinlock is held by one thread at most, between its lock and its unlock.
Holds(p)  == pc[p] \in {"link", "tail", "unlock"}
RHolds(r) == rpc[r] \in {"take", "clear", "unlock"}

LockInv ==
    /\ \A p \in Callers : Holds(p) => lock
    /\ \A r \in Reapers : RHolds(r) => lock
    /\ \A p, q \in Callers : Holds(p) /\ Holds(q) => p = q
    /\ \A r, s \in Reapers : RHolds(r) /\ RHolds(s) => r = s
    /\ \A p \in Callers, r \in Reapers : ~ (Holds(p) /\ RHolds(r))

\* A descriptor nobody has unmapped, reaped or freed.
Fresh(t) == t \in live /\ t \in stack /\ "REAPED" \notin state[t]

\* A descriptor is fresh until it is claimed, and so it is in the hands of the
\* one caller that has claimed it and not linked it yet.
Claiming(p) == pc[p] \in Starting \cup {"alloc", "lock", "link"}

ClaimInv ==
    /\ \A t \in Threads : "QUEUED" \notin state[t] => Fresh(t)
    /\ \A p \in Callers : Claiming(p) => /\ arg[p] \in Threads
                                         /\ "QUEUED" \in state[arg[p]]
                                         /\ Fresh(arg[p])
    /\ \A p, q \in Callers : Claiming(p) /\ Claiming(q) /\ arg[p] = arg[q] => p = q
    /\ \A p \in Callers : pc[p] \in {"lock", "link"} => next[arg[p]] = NULL

\* A reaper works on a descriptor of its own: the stack goes first.
Reaping == {"reap", "unmap", "free", "advance"}

ReapInv ==
    /\ \A r \in Reapers : rpc[r] \in Reaping => current[r] \in Threads
    /\ \A r \in Reapers : rpc[r] = "free" => current[r] \notin stack
    /\ \A r \in Reapers : rpc[r] = "advance" => current[r] \notin live

\* The nodes of a list, in the order in which they have been linked: rank counts
\* them, n is the first, and each but the last points to its successor.
IsList(n, nodes, rank) ==
    /\ IF n = NULL THEN nodes = {} ELSE n \in nodes
    /\ \A m \in nodes :
          /\ rank[n] <= rank[m]
          /\ IF next[m] = NULL THEN \A o \in nodes : rank[o] <= rank[m]
             ELSE next[m] \in nodes /\ rank[next[m]] = rank[m] + 1

HasBatch(r) == rpc[r] \in {"clear", "unlock"} \cup Reaping

\* The lists of the heap: linked holds every descriptor ever linked, queue those
\* in the queue and batch those in the hands of each reaper.
Ranked(linked, rank) ==
    /\ linked \subseteq Threads /\ rank \in [Threads -> Nat]
    /\ \A t \in linked : "QUEUED" \in state[t] /\ rank[t] < Cardinality(linked)
    /\ \A t, u \in linked : rank[t] = rank[u] => t = u
    /\ \A p \in Callers : Claiming(p) => arg[p] \notin linked

Listed(linked, rank, queue, batch) ==
    /\ queue \subseteq linked /\ batch \in [Reapers -> SUBSET linked]
    /\ IsList(head, queue, rank)
    /\ \A r \in Reapers : IF HasBatch(r) THEN IsList(current[r], batch[r], rank)
                          ELSE batch[r] = {}
    /\ \A r \in Reapers : queue \cap batch[r] = {}
    /\ \A r, s \in Reapers : r # s => batch[r] \cap batch[s] = {}

\* Who extends the queue finds its end: tail points to it, except while its
\* holder of the lock is about to set it.
EndInv(linked, rank, queue) ==
    /\ \A m \in queue : next[m] = NULL => rank[m] + 1 = Cardinality(linked)
    /\ \A p \in Callers : pc[p] = "tail" => arg[p] \in queue /\ next[arg[p]] = NULL
    /\ \A r \in Reapers : rpc[r] = "clear" => queue = {}
    /\ (\A p \in Callers : pc[p] # "tail") /\ (\A r \in Reapers : rpc[r] # "clear") =>
          IF queue = {} THEN tail = NULL ELSE tail \in queue /\ next[tail] = NULL

FreshInv(queue, batch) ==
    /\ \A t \in queue : Fresh(t)
    /\ \A r \in Reapers : \A t \in batch[r] :
          \/ Fresh(t)
          \/ t = current[r] /\ rpc[r] \in {"unmap", "free", "advance"}

\* The counter, with the nodes not counted yet, counts the nodes in the queue and
\* those each reaper has taken and not subtracted yet.
Weight(batch) == [r \in Reapers |-> Cardinality(batch[r]) + Done(r)]

Balanced(queue, batch) ==
    count + Cardinality(Uncounted) = Cardinality(queue) + Total(Weight(batch), Reapers)

\* A descriptor that is claimed and not freed is in somebody's hands, or lost.
Given(queue, batch) == {arg[p] : p \in {q \in Callers : Claiming(q)}}
                           \cup queue \cup UNION {batch[r] : r \in Reapers}
Lost(queue, batch)  == {t \in live : "QUEUED" \in state[t]} \ Given(queue, batch)

LostInv(queue, batch) == Cardinality(Lost(queue, batch)) <= failures

Lists(linked, rank, queue, batch) ==
    /\ Ranked(linked, rank)
    /\ Listed(linked, rank, queue, batch)
    /\ EndInv(linked, rank, queue)
    /\ FreshInv(queue, batch)
    /\ Balanced(queue, batch)
    /\ LostInv(queue, batch)

Listing == \E linked, rank, queue, batch : Lists(linked, rank, queue, batch)

\* When every reaper that exists sleeps, the caller that made the counter positive
\* has not made its wake up call yet.
WakeInv ==
    Asleep # {} /\ (\A r \in Reapers : rpc[r] \in {"unborn", "asleep"}) /\ count > 0 =>
        \E p \in Callers : pc[p] = "wake"

\* The reapers, the callers that may start another or reset the flag, and the flag.
Born      == {r \in Reapers : rpc[r] # "unborn"}
Cloning   == {p \in Callers : pc[p] = "clone_reaper"}
Resetting == {p \in Callers : pc[p] = "reset_again"}

BoundInv ==
    Cardinality(Born) + Cardinality(Cloning) + Cardinality(Resetting)
        + (IF reaper_started THEN 0 ELSE 1) <= 1 + failures

IInv == TypeOK /\ LockInv /\ ClaimInv /\ ReapInv /\ Listing /\ WakeInv /\ BoundInv

-----------------------------------------------------------------------------
(* Types                                                                   *)

\* A reaper never finds a descriptor reaped already.
LEMMA ReapsFresh ==
    ASSUME IInv, NEW r \in Reapers, rpc[r] = "reap"
    PROVE  /\ "REAPED" \notin state[current[r]]
           /\ current[r] \in live /\ current[r] \in stack
<1>1. PICK linked, rank, queue, batch : Lists(linked, rank, queue, batch)
  BY DEF IInv, Listing
<1>2. current[r] \in Threads /\ HasBatch(r)
  BY DEF IInv, ReapInv, HasBatch, Reaping
<1>3. current[r] \in batch[r]
  BY <1>1, <1>2, ConstantsOK DEF Lists, Listed, IsList
<1> QED BY <1>1, <1>3 DEF Lists, FreshInv, Fresh

\* A reaper works on a descriptor that has been linked, so that no other thread
\* has it; and a caller that links finds the end of the queue.
LEMMA ReapsLinked ==
    ASSUME IInv, NEW r \in Reapers, rpc[r] \in Reaping
    PROVE  /\ current[r] \in Threads /\ "QUEUED" \in state[current[r]]
           /\ \A p \in Callers : Claiming(p) => arg[p] # current[r]
<1>1. PICK linked, rank, queue, batch : Lists(linked, rank, queue, batch)
  BY DEF IInv, Listing
<1>2. current[r] \in Threads /\ HasBatch(r)
  BY DEF IInv, ReapInv, HasBatch
<1>3. current[r] \in linked
  BY <1>1, <1>2, ConstantsOK DEF Lists, Listed, IsList
<1> QED BY <1>1, <1>2, <1>3 DEF Lists, Ranked

LEMMA LinksToEnd ==
    ASSUME IInv, NEW p \in Callers, pc[p] = "link", tail # NULL
    PROVE  \A q \in Callers : Claiming(q) => arg[q] # tail
<1>1. PICK linked, rank, queue, batch : Lists(linked, rank, queue, batch)
  BY DEF IInv, Listing
<1>2. (\A q \in Callers : pc[q] # "tail") /\ (\A r \in Reapers : rpc[r] # "clear")
  BY DEF IInv, LockInv, Holds, RHolds
<1>3. tail \in linked
  BY <1>1, <1>2 DEF Lists, EndInv, Listed
<1> QED BY <1>1, <1>3 DEF Lists, Ranked

LEMMA TypeInit == Init => TypeOK
<1> SUFFICES ASSUME Init PROVE TypeOK
  OBVIOUS
<1> USE DEF Init, InitQueue
<1>1. reaper_started \in BOOLEAN /\ lock \in BOOLEAN
  OBVIOUS
<1>2. /\ state \in [Threads -> SUBSET Flags] /\ live \subseteq Threads /\ stack \subseteq live
      /\ next \in [Threads -> Threads \cup {NULL}]
  BY DEF Flags
<1>3. /\ rpc \in [Reapers -> ReaperPCs] /\ current \in [Reapers -> Threads \cup {NULL}]
      /\ processed \in [Reapers -> Nat] /\ pc \in [Callers -> CallerPCs]
      /\ arg \in [Callers -> Threads \cup {NULL}]
  BY DEF ReaperPCs, CallerPCs
<1>4. errno \in Errors /\ failures \in 0 .. MaxFail /\ count \in Int
  BY ConstantsOK DEF Errors
<1> QED BY <1>1, <1>2, <1>3, <1>4 DEF TypeOK, QueueTypeOK

LEMMA TypeNext == IInv /\ [Next]_vars => TypeOK'
<1> SUFFICES ASSUME IInv, [Next]_vars PROVE TypeOK'
  OBVIOUS
<1> USE DEF TypeOK, QueueTypeOK, descVars, queueVars, listVars, callerVars, reaperVars, envVars
<1>1. TypeOK /\ ReapInv
  BY DEF IInv
<1>2. ASSUME NEW p \in Callers, CallerStep(p) PROVE TypeOK'
  <2> USE <1>1 DEF Goto, RGoto, Fail, CallerPCs, Starting, Enqueuing, ReaperPCs, Errors
  <2>1. CASE StartReaper(p)
    BY <2>1, ConstantsOK DEF StartReaper
  <2>2. CASE CloneReaper(p)
    BY <2>2, ConstantsOK DEF CloneReaper
  <2>3. CASE MapReaperFails(p)
    <3>1. failures' \in 0 .. MaxFail
      BY <2>3, ConstantsOK DEF MapReaperFails
    <3>2. reaper_started' \in BOOLEAN
      BY <2>3 DEF MapReaperFails
    <3>3. pc' \in [Callers -> CallerPCs] /\ errno' \in Errors
      BY <2>3 DEF MapReaperFails
    <3> QED BY <2>3, <3>1, <3>2, <3>3 DEF MapReaperFails
  <2>4. CASE CloneReaperFails(p)
    <3>1. failures' \in 0 .. MaxFail
      BY <2>4, ConstantsOK DEF CloneReaperFails
    <3>2. reaper_started' \in BOOLEAN
      BY <2>4 DEF CloneReaperFails
    <3>3. pc' \in [Callers -> CallerPCs] /\ errno' \in Errors
      BY <2>4 DEF CloneReaperFails
    <3> QED BY <2>4, <3>1, <3>2, <3>3 DEF CloneReaperFails
  <2>5. CASE ResetAgain(p)
    BY <2>5, ConstantsOK DEF ResetAgain
  <2>6. CASE AllocNode(p)
    BY <2>6, ConstantsOK DEF AllocNode
  <2>7. CASE AllocNodeFails(p)
    BY <2>7, ConstantsOK DEF AllocNodeFails
  <2>8. CASE EnqueueLock(p)
    BY <2>8, ConstantsOK DEF EnqueueLock
  <2>9. CASE Link(p)
    BY <2>9, ConstantsOK DEF Link
  <2>10. CASE SetTail(p)
    BY <2>10, ConstantsOK DEF SetTail
  <2>11. CASE EnqueueUnlock(p)
    BY <2>11, ConstantsOK DEF EnqueueUnlock
  <2>12. CASE AddCount(p)
    BY <2>12, ConstantsOK DEF AddCount
  <2>13. CASE WakeReaper(p)
    BY <2>13, ConstantsOK DEF WakeReaper, Asleep
  <2> QED BY <1>2, <2>1, <2>2, <2>3, <2>4, <2>5, <2>6, <2>7, <2>8, <2>9, <2>10, <2>11,
      <2>12, <2>13 DEF CallerStep
<1>3. ASSUME NEW r \in Reapers, ReaperStep(r) PROVE TypeOK'
  <2> USE <1>1 DEF RGoto, ReaperPCs, Errors, ReapInv, Reaping, Flags
  <2>1. CASE LoadCount(r)
    BY <2>1, ConstantsOK DEF LoadCount
  <2>2. CASE WaitCount(r)
    BY <2>2, ConstantsOK DEF WaitCount
  <2>3. CASE DequeueLock(r)
    BY <2>3, ConstantsOK DEF DequeueLock
  <2>4. CASE TakeHead(r)
    BY <2>4, ConstantsOK DEF TakeHead
  <2>5. CASE ClearTail(r)
    BY <2>5, ConstantsOK DEF ClearTail
  <2>6. CASE DequeueUnlock(r)
    BY <2>6, ConstantsOK DEF DequeueUnlock
  <2>7. CASE Reap(r)
    BY <2>7, ConstantsOK DEF Reap
  <2>8. CASE UnmapStack(r)
    BY <2>8, ConstantsOK DEF UnmapStack
  <2>9. CASE FreeThread(r)
    BY <2>9, ConstantsOK DEF FreeThread
  <2>10. CASE Advance(r)
    BY <2>10, ConstantsOK DEF Advance
  <2>11. CASE SubCount(r)
    BY <2>11, ConstantsOK DEF SubCount
  <2> QED BY <1>3, <2>1, <2>2, <2>3, <2>4, <2>5, <2>6, <2>7, <2>8, <2>9, <2>10, <2>11 DEF
      ReaperStep
<1>4. ASSUME NEW p \in Callers, NEW t \in Threads, Submit(p, t) PROVE TypeOK'
  BY <1>1, <1>4 DEF Submit, Claim, Goto, CallerPCs, Starting, Enqueuing, Flags
<1>5. ASSUME NEW p \in Callers, Return(p) PROVE TypeOK'
  BY <1>1, <1>5 DEF Return, Goto, CallerPCs
<1>6. CASE Resting \/ UNCHANGED vars
  BY <1>1, <1>6 DEF Resting, vars
<1> QED BY <1>2, <1>3, <1>4, <1>5, <1>6 DEF Next

LEMMA LockNext == IInv /\ [Next]_vars => LockInv'
<1> SUFFICES ASSUME IInv, [Next]_vars PROVE LockInv'
  OBVIOUS
<1> USE DEF descVars, queueVars, listVars, callerVars, reaperVars, envVars, TypeOK,
    QueueTypeOK
<1>1. TypeOK /\ LockInv /\ ClaimInv /\ ReapInv
  BY DEF IInv
<1>2. ASSUME NEW p \in Callers, CallerStep(p) PROVE LockInv'
  <2> USE <1>1 DEF LockInv, Holds, RHolds, Goto, RGoto, Fail, Asleep
  <2>1. CASE StartReaper(p)
    BY <2>1 DEF StartReaper
  <2>2. CASE CloneReaper(p)
    BY <2>2 DEF CloneReaper
  <2>3. CASE MapReaperFails(p)
    BY <2>3 DEF MapReaperFails
  <2>4. CASE CloneReaperFails(p)
    BY <2>4 DEF CloneReaperFails
  <2>5. CASE ResetAgain(p)
    BY <2>5 DEF ResetAgain
  <2>6. CASE AllocNode(p)
    BY <2>6 DEF AllocNode
  <2>7. CASE AllocNodeFails(p)
    BY <2>7 DEF AllocNodeFails
  <2>8. CASE EnqueueLock(p)
    BY <2>8 DEF EnqueueLock
  <2>9. CASE Link(p)
    BY <2>9 DEF Link
  <2>10. CASE SetTail(p)
    BY <2>10 DEF SetTail
  <2>11. CASE EnqueueUnlock(p)
    BY <2>11 DEF EnqueueUnlock
  <2>12. CASE AddCount(p)
    BY <2>12 DEF AddCount
  <2>13. CASE WakeReaper(p)
    BY <2>13 DEF WakeReaper
  <2> QED BY <1>2, <2>1, <2>2, <2>3, <2>4, <2>5, <2>6, <2>7, <2>8, <2>9, <2>10, <2>11,
      <2>12, <2>13 DEF CallerStep
<1>3. ASSUME NEW r \in Reapers, ReaperStep(r) PROVE LockInv'
  <2> USE <1>1 DEF LockInv, Holds, RHolds, RGoto
  <2>1. CASE LoadCount(r)
    BY <2>1 DEF LoadCount
  <2>2. CASE WaitCount(r)
    BY <2>2 DEF WaitCount
  <2>3. CASE DequeueLock(r)
    BY <2>3 DEF DequeueLock
  <2>4. CASE TakeHead(r)
    BY <2>4 DEF TakeHead
  <2>5. CASE ClearTail(r)
    BY <2>5 DEF ClearTail
  <2>6. CASE DequeueUnlock(r)
    BY <2>6 DEF DequeueUnlock
  <2>7. CASE Reap(r)
    BY <2>7 DEF Reap
  <2>8. CASE UnmapStack(r)
    BY <2>8 DEF UnmapStack
  <2>9. CASE FreeThread(r)
    BY <2>9 DEF FreeThread
  <2>10. CASE Advance(r)
    BY <2>10 DEF Advance
  <2>11. CASE SubCount(r)
    BY <2>11 DEF SubCount
  <2> QED BY <1>3, <2>1, <2>2, <2>3, <2>4, <2>5, <2>6, <2>7, <2>8, <2>9, <2>10, <2>11 DEF
      ReaperStep
<1>4. ASSUME NEW p \in Callers, NEW t \in Threads, Submit(p, t) PROVE LockInv'
  BY <1>1, <1>4 DEF Submit, Claim, LockInv, Holds, RHolds, Goto
<1>5. ASSUME NEW p \in Callers, Return(p) PROVE LockInv'
  BY <1>1, <1>5 DEF Return, LockInv, Holds, RHolds, Goto
<1>6. CASE Resting \/ UNCHANGED vars
  BY <1>1, <1>6 DEF Resting, vars, LockInv, Holds, RHolds, Goto
<1> QED BY <1>2, <1>3, <1>4, <1>5, <1>6 DEF Next

LEMMA ClaimNext == IInv /\ [Next]_vars => ClaimInv'
<1> SUFFICES ASSUME IInv, [Next]_vars PROVE ClaimInv'
  OBVIOUS
<1> USE DEF descVars, queueVars, listVars, callerVars, reaperVars, envVars, TypeOK,
    QueueTypeOK
<1>1. TypeOK /\ LockInv /\ ClaimInv /\ ReapInv
  BY DEF IInv
<1>2. ASSUME NEW p \in Callers, CallerStep(p) PROVE ClaimInv'
  <2> USE <1>1 DEF ClaimInv, Claiming, Fresh, Starting, Goto, RGoto, Fail
  <2>1. CASE StartReaper(p)
    BY <2>1 DEF StartReaper
  <2>2. CASE CloneReaper(p)
    BY <2>2 DEF CloneReaper
  <2>3. CASE MapReaperFails(p)
    BY <2>3 DEF MapReaperFails
  <2>4. CASE CloneReaperFails(p)
    BY <2>4 DEF CloneReaperFails
  <2>5. CASE ResetAgain(p)
    BY <2>5 DEF ResetAgain
  <2>6. CASE AllocNode(p)
    BY <2>6 DEF AllocNode
  <2>7. CASE AllocNodeFails(p)
    BY <2>7 DEF AllocNodeFails
  <2>8. CASE EnqueueLock(p)
    BY <2>8 DEF EnqueueLock
  <2>9. CASE Link(p)
    BY <2>9, LinksToEnd DEF Link
  <2>10. CASE SetTail(p)
    BY <2>10 DEF SetTail
  <2>11. CASE EnqueueUnlock(p)
    BY <2>11 DEF EnqueueUnlock
  <2>12. CASE AddCount(p)
    BY <2>12 DEF AddCount
  <2>13. CASE WakeReaper(p)
    BY <2>13 DEF WakeReaper
  <2> QED BY <1>2, <2>1, <2>2, <2>3, <2>4, <2>5, <2>6, <2>7, <2>8, <2>9, <2>10, <2>11,
      <2>12, <2>13 DEF CallerStep
<1>3. ASSUME NEW r \in Reapers, ReaperStep(r) PROVE ClaimInv'
  <2> USE <1>1 DEF ClaimInv, Claiming, Fresh, Starting, RGoto
  <2>1. CASE LoadCount(r)
    BY <2>1 DEF LoadCount
  <2>2. CASE WaitCount(r)
    BY <2>2 DEF WaitCount
  <2>3. CASE DequeueLock(r)
    BY <2>3 DEF DequeueLock
  <2>4. CASE TakeHead(r)
    BY <2>4 DEF TakeHead
  <2>5. CASE ClearTail(r)
    BY <2>5 DEF ClearTail
  <2>6. CASE DequeueUnlock(r)
    BY <2>6 DEF DequeueUnlock
  <2>7. CASE Reap(r)
    <3>1. rpc[r] \in Reaping
      BY <2>7 DEF Reap, Reaping
    <3> QED BY <2>7, <3>1, ReapsLinked DEF Reap
  <2>8. CASE UnmapStack(r)
    <3>1. rpc[r] \in Reaping
      BY <2>8 DEF UnmapStack, Reaping
    <3> QED BY <2>8, <3>1, ReapsLinked DEF UnmapStack
  <2>9. CASE FreeThread(r)
    <3>1. rpc[r] \in Reaping
      BY <2>9 DEF FreeThread, Reaping
    <3> QED BY <2>9, <3>1, ReapsLinked DEF FreeThread
  <2>10. CASE Advance(r)
    BY <2>10 DEF Advance
  <2>11. CASE SubCount(r)
    BY <2>11 DEF SubCount
  <2> QED BY <1>3, <2>1, <2>2, <2>3, <2>4, <2>5, <2>6, <2>7, <2>8, <2>9, <2>10, <2>11 DEF
      ReaperStep
<1>4. ASSUME NEW p \in Callers, NEW t \in Threads, Submit(p, t) PROVE ClaimInv'
  BY <1>1, <1>4 DEF Submit, Claim, ClaimInv, Claiming, Fresh, Starting, Goto
<1>5. ASSUME NEW p \in Callers, Return(p) PROVE ClaimInv'
  BY <1>1, <1>5 DEF Return, ClaimInv, Claiming, Fresh, Starting, Goto
<1>6. CASE Resting \/ UNCHANGED vars
  BY <1>1, <1>6 DEF Resting, vars, ClaimInv, Claiming, Fresh, Starting, Goto
<1> QED BY <1>2, <1>3, <1>4, <1>5, <1>6 DEF Next

LEMMA ReapNext == IInv /\ [Next]_vars => ReapInv'
<1> SUFFICES ASSUME IInv, [Next]_vars PROVE ReapInv'
  OBVIOUS
<1> USE DEF descVars, queueVars, listVars, callerVars, reaperVars, envVars, TypeOK,
    QueueTypeOK
<1>1. TypeOK /\ LockInv /\ ClaimInv /\ ReapInv
  BY DEF IInv
<1>2. ASSUME NEW p \in Callers, CallerStep(p) PROVE ReapInv'
  <2> USE <1>1 DEF ReapInv, Reaping, Goto, RGoto, Fail, Asleep
  <2>1. CASE StartReaper(p)
    BY <2>1 DEF StartReaper
  <2>2. CASE CloneReaper(p)
    BY <2>2 DEF CloneReaper
  <2>3. CASE MapReaperFails(p)
    BY <2>3 DEF MapReaperFails
  <2>4. CASE CloneReaperFails(p)
    BY <2>4 DEF CloneReaperFails
  <2>5. CASE ResetAgain(p)
    BY <2>5 DEF ResetAgain
  <2>6. CASE AllocNode(p)
    BY <2>6 DEF AllocNode
  <2>7. CASE AllocNodeFails(p)
    BY <2>7 DEF AllocNodeFails
  <2>8. CASE EnqueueLock(p)
    BY <2>8 DEF EnqueueLock
  <2>9. CASE Link(p)
    BY <2>9 DEF Link
  <2>10. CASE SetTail(p)
    BY <2>10 DEF SetTail
  <2>11. CASE EnqueueUnlock(p)
    BY <2>11 DEF EnqueueUnlock
  <2>12. CASE AddCount(p)
    BY <2>12 DEF AddCount
  <2>13. CASE WakeReaper(p)
    BY <2>13 DEF WakeReaper
  <2> QED BY <1>2, <2>1, <2>2, <2>3, <2>4, <2>5, <2>6, <2>7, <2>8, <2>9, <2>10, <2>11,
      <2>12, <2>13 DEF CallerStep
<1>3. ASSUME NEW r \in Reapers, ReaperStep(r) PROVE ReapInv'
  <2> USE <1>1 DEF ReapInv, Reaping, RGoto
  <2>1. CASE LoadCount(r)
    BY <2>1 DEF LoadCount
  <2>2. CASE WaitCount(r)
    BY <2>2 DEF WaitCount
  <2>3. CASE DequeueLock(r)
    BY <2>3 DEF DequeueLock
  <2>4. CASE TakeHead(r)
    BY <2>4 DEF TakeHead
  <2>5. CASE ClearTail(r)
    BY <2>5 DEF ClearTail
  <2>6. CASE DequeueUnlock(r)
    BY <2>6 DEF DequeueUnlock
  <2>7. CASE Reap(r)
    BY <2>7, ReapsFresh DEF Reap
  <2>8. CASE UnmapStack(r)
    BY <2>8 DEF UnmapStack
  <2>9. CASE FreeThread(r)
    BY <2>9 DEF FreeThread
  <2>10. CASE Advance(r)
    BY <2>10 DEF Advance
  <2>11. CASE SubCount(r)
    BY <2>11 DEF SubCount
  <2> QED BY <1>3, <2>1, <2>2, <2>3, <2>4, <2>5, <2>6, <2>7, <2>8, <2>9, <2>10, <2>11 DEF
      ReaperStep
<1>4. ASSUME NEW p \in Callers, NEW t \in Threads, Submit(p, t) PROVE ReapInv'
  BY <1>1, <1>4 DEF Submit, Claim, ReapInv, Reaping
<1>5. ASSUME NEW p \in Callers, Return(p) PROVE ReapInv'
  BY <1>1, <1>5 DEF Return, ReapInv, Reaping
<1>6. CASE Resting \/ UNCHANGED vars
  BY <1>1, <1>6 DEF Resting, vars, ReapInv, Reaping
<1> QED BY <1>2, <1>3, <1>4, <1>5, <1>6 DEF Next

-----------------------------------------------------------------------------
(* The lists, as far as a step does not change them                        *)

LEMMA RankedKept ==
    ASSUME NEW linked, NEW rank, Ranked(linked, rank),
           \A t \in linked : "QUEUED" \in state'[t],
           \A p \in Callers :
              Claiming(p)' => (Claiming(p) /\ arg'[p] = arg[p]) \/ arg'[p] \notin linked
    PROVE  Ranked(linked, rank)'
  BY DEF Ranked

LEMMA ListedKept ==
    ASSUME NEW linked, NEW rank, NEW queue, NEW batch, Listed(linked, rank, queue, batch),
           head' = head, \A m \in linked : next'[m] = next[m],
           \A r \in Reapers : IF HasBatch(r)' THEN HasBatch(r) /\ current'[r] = current[r]
                              ELSE batch[r] = {}
    PROVE  Listed(linked, rank, queue, batch)'
<1>1. /\ queue \subseteq linked
      /\ \A r \in Reapers : batch[r] \subseteq linked
  BY DEF Listed
<1>2. ASSUME NEW n, NEW nodes \in SUBSET linked, IsList(n, nodes, rank)
      PROVE  IsList(n, nodes, rank)'
  BY <1>2 DEF IsList
<1>3. IsList(head, queue, rank)'
  BY <1>1, <1>2 DEF Listed
<1>4. ASSUME NEW r \in Reapers, HasBatch(r)'
      PROVE  IsList(current[r], batch[r], rank)'
  BY <1>1, <1>2, <1>4 DEF Listed
<1> QED BY <1>3, <1>4 DEF Listed

LEMMA EndKept ==
    ASSUME NEW linked, NEW rank, NEW queue, EndInv(linked, rank, queue),
           queue \subseteq linked, tail' = tail, \A m \in linked : next'[m] = next[m],
           \A p \in Callers : /\ pc'[p] = "tail" <=> pc[p] = "tail"
                              /\ pc[p] = "tail" => arg'[p] = arg[p],
           \A r \in Reapers : rpc'[r] = "clear" <=> rpc[r] = "clear"
    PROVE  EndInv(linked, rank, queue)'
  BY DEF EndInv

LEMMA FreshKept ==
    ASSUME NEW queue, NEW batch, FreshInv(queue, batch), queue \subseteq Threads,
           \A r \in Reapers : batch[r] \subseteq Threads,
           live' = live, stack' = stack, current' = current,
           \A t \in Threads : "REAPED" \in state'[t] <=> "REAPED" \in state[t],
           \A r \in Reapers : rpc[r] \in {"unmap", "free", "advance"} =>
                                 rpc'[r] \in {"unmap", "free", "advance"}
    PROVE  FreshInv(queue, batch)'
  BY DEF FreshInv, Fresh

LEMMA BalancedKept ==
    ASSUME NEW queue, NEW batch, Balanced(queue, batch), count' = count,
           \A p \in Callers : pc'[p] \in {"tail", "unlock", "count"} <=>
                              pc[p] \in {"tail", "unlock", "count"},
           \A r \in Reapers : Done(r)' = Done(r)
    PROVE  Balanced(queue, batch)'
<1>1. Uncounted' = Uncounted
  BY DEF Uncounted
<1>2. Weight(batch)' = Weight(batch)
  BY DEF Weight
<1> QED BY <1>1, <1>2 DEF Balanced

LEMMA WeightType ==
    ASSUME TypeOK, NEW linked, NEW rank, NEW queue, NEW batch,
           Ranked(linked, rank), Listed(linked, rank, queue, batch)
    PROVE  /\ IsFiniteSet(linked) /\ IsFiniteSet(queue) /\ Cardinality(queue) \in Nat
           /\ \A r \in Reapers : /\ IsFiniteSet(batch[r])
                                 /\ Cardinality(batch[r]) \in Nat
                                 /\ Done(r) \in Nat
                                 /\ Weight(batch)[r] = Cardinality(batch[r]) + Done(r)
                                 /\ Weight(batch)[r] \in Nat
           /\ Total(Weight(batch), Reapers) \in Nat
           /\ IsFiniteSet(Uncounted) /\ Cardinality(Uncounted) \in Nat
<1>1. IsFiniteSet(linked)
  BY ConstantsOK, FS_Subset DEF Ranked
<1>2. IsFiniteSet(queue) /\ Cardinality(queue) \in Nat
  BY <1>1, FS_Subset, FS_CardinalityType DEF Listed
<1>3. ASSUME NEW r \in Reapers
      PROVE  /\ IsFiniteSet(batch[r])
             /\ Cardinality(batch[r]) \in Nat
             /\ Done(r) \in Nat
             /\ Weight(batch)[r] = Cardinality(batch[r]) + Done(r)
  <2>1. batch[r] \in SUBSET linked
    BY DEF Listed
  <2>2. IsFiniteSet(batch[r]) /\ Cardinality(batch[r]) \in Nat
    BY <1>1, <2>1, FS_Subset, FS_CardinalityType
  <2>3. Done(r) \in Nat
    BY DEF Done, TypeOK, QueueTypeOK
  <2> QED BY <2>2, <2>3 DEF Weight
<1>4. \A r \in Reapers : Weight(batch)[r] \in Nat
  BY <1>3
<1>5. Total(Weight(batch), Reapers) \in Nat
  BY <1>4, ConstantsOK, UnitsFinite
<1>6. IsFiniteSet(Uncounted) /\ Cardinality(Uncounted) \in Nat
  BY ConstantsOK, FS_Subset, FS_CardinalityType DEF Uncounted
<1> QED BY <1>1, <1>2, <1>3, <1>4, <1>5, <1>6

LEMMA LostKept ==
    ASSUME TypeOK, NEW queue, NEW batch, LostInv(queue, batch), NEW queue2, NEW batch2,
           live' \subseteq live,
           \A t \in live' : "QUEUED" \in state'[t] => "QUEUED" \in state[t],
           \A t \in live' : t \in Given(queue, batch) => t \in Given(queue2, batch2)',
           failures' \in Nat, failures <= failures'
    PROVE  LostInv(queue2, batch2)'
<1>1. Lost(queue2, batch2)' \subseteq Lost(queue, batch)
  BY DEF Lost
<1>2. IsFiniteSet(Lost(queue, batch))
  BY ConstantsOK, FS_Subset DEF Lost, TypeOK, QueueTypeOK
<1>3. PICK lost, lost2 : lost = Lost(queue, batch) /\ lost2 = Lost(queue2, batch2)'
  OBVIOUS
<1>4. Cardinality(lost) \in Nat /\ Cardinality(lost2) \in Nat
      /\ Cardinality(lost2) <= Cardinality(lost)
  BY <1>1, <1>2, <1>3, FS_Subset, FS_CardinalityType
<1>5. Cardinality(lost) <= failures /\ failures \in Nat
  BY <1>3, ConstantsOK DEF LostInv, TypeOK, QueueTypeOK
<1>6. Cardinality(lost2) <= failures'
  BY <1>4, <1>5
<1> QED BY <1>3, <1>6 DEF LostInv

\* A step that changes no list, nor what the invariant says of the descriptors.
LEMMA QuietLists ==
    ASSUME Listing, UNCHANGED <<head, tail, current, live, stack>>,
           \A linked, rank : Ranked(linked, rank) =>
              /\ \A m \in linked : next'[m] = next[m]
              /\ \A p \in Callers :
                    Claiming(p)' => (Claiming(p) /\ arg'[p] = arg[p]) \/ arg'[p] \notin linked,
           \A t \in Threads : /\ "QUEUED" \in state[t] => "QUEUED" \in state'[t]
                              /\ "REAPED" \in state'[t] <=> "REAPED" \in state[t],
           \A p \in Callers : /\ pc'[p] = "tail" <=> pc[p] = "tail"
                              /\ pc[p] = "tail" => arg'[p] = arg[p],
           \A r \in Reapers : /\ HasBatch(r)' <=> HasBatch(r)
                              /\ rpc'[r] = "clear" <=> rpc[r] = "clear"
                              /\ rpc[r] \in {"unmap", "free", "advance"} =>
                                    rpc'[r] \in {"unmap", "free", "advance"},
           \A linked, rank, queue, batch :
              Lists(linked, rank, queue, batch) =>
                 Balanced(queue, batch)' /\ LostInv(queue, batch)'
    PROVE  Listing'
<1>1. PICK linked, rank, queue, batch : Lists(linked, rank, queue, batch)
  BY DEF Listing
<1>2. Ranked(linked, rank)'
  BY <1>1, RankedKept DEF Lists, Ranked
<1>3. Listed(linked, rank, queue, batch)'
  <2>1. \A r \in Reapers : IF HasBatch(r)' THEN HasBatch(r) /\ current'[r] = current[r]
                           ELSE batch[r] = {}
    BY <1>1 DEF Lists, Listed
  <2> QED BY <1>1, <2>1, ListedKept DEF Lists
<1>4. EndInv(linked, rank, queue)'
  BY <1>1, EndKept DEF Lists, Listed
<1>5. FreshInv(queue, batch)'
  <2>1. queue \subseteq Threads /\ \A r \in Reapers : batch[r] \subseteq Threads
    BY <1>1 DEF Lists, Ranked, Listed
  <2> QED BY <1>1, <2>1, FreshKept DEF Lists
<1>6. Balanced(queue, batch)' /\ LostInv(queue, batch)'
  BY <1>1
<1> QED BY <1>2, <1>3, <1>4, <1>5, <1>6 DEF Listing, Lists

LEMMA CallerLists ==
    ASSUME IInv, NEW p \in Callers,
           \/ CallerStep(p) /\ ~ Link(p) /\ ~ SetTail(p)
           \/ Return(p)
           \/ \E t \in Threads : Submit(p, t)
    PROVE  Listing'
<1> USE DEF TypeOK, QueueTypeOK, descVars, queueVars, listVars, callerVars, reaperVars, envVars, Goto, RGoto, Fail
<1>1. /\ TypeOK /\ ClaimInv /\ Listing
  BY DEF IInv
<1>2. UNCHANGED <<head, tail, current, live, stack>>
  BY DEF CallerStep, Return, Submit, Claim, StartReaper, CloneReaper, MapReaperFails,
      CloneReaperFails, ResetAgain, AllocNode, AllocNodeFails, EnqueueLock, EnqueueUnlock,
      AddCount, WakeReaper
<1>3. /\ \A q \in Callers \ {p} : pc'[q] = pc[q] /\ arg'[q] = arg[q]
      /\ pc[p] # "tail" /\ pc'[p] # "tail"
      /\ Claiming(p)' => \/ Claiming(p) /\ arg'[p] = arg[p]
                         \/ arg'[p] \in Threads /\ "QUEUED" \notin state[arg'[p]]
  BY <1>1 DEF CallerStep, Return, Submit, Claim, Claiming, Starting, StartReaper,
      CloneReaper, MapReaperFails, CloneReaperFails, ResetAgain, AllocNode, AllocNodeFails,
      EnqueueLock, EnqueueUnlock, AddCount, WakeReaper
<1>4. \/ next' = next
      \/ Claiming(p) /\ \A m \in Threads : m # arg[p] => next'[m] = next[m]
  BY <1>1 DEF CallerStep, Return, Submit, Claim, Claiming, StartReaper, CloneReaper,
      MapReaperFails, CloneReaperFails, ResetAgain, AllocNode, AllocNodeFails, EnqueueLock,
      EnqueueUnlock, AddCount, WakeReaper
<1>5. ASSUME NEW linked, NEW rank, Ranked(linked, rank)
      PROVE  /\ \A m \in linked : next'[m] = next[m]
             /\ \A q \in Callers :
                   Claiming(q)' => (Claiming(q) /\ arg'[q] = arg[q]) \/ arg'[q] \notin linked
  <2>1. \A m \in linked : next'[m] = next[m]
    BY <1>4, <1>5 DEF Ranked
  <2>2. ASSUME NEW q \in Callers, Claiming(q)'
        PROVE  (Claiming(q) /\ arg'[q] = arg[q]) \/ arg'[q] \notin linked
    BY <1>3, <1>5, <2>2 DEF Ranked, Claiming
  <2> QED BY <2>1, <2>2
<1>6. \A t \in Threads : /\ "QUEUED" \in state[t] => "QUEUED" \in state'[t]
                         /\ "REAPED" \in state'[t] <=> "REAPED" \in state[t]
  BY <1>1 DEF CallerStep, Return, Submit, Claim, StartReaper, CloneReaper, MapReaperFails,
      CloneReaperFails, ResetAgain, AllocNode, AllocNodeFails, EnqueueLock, EnqueueUnlock,
      AddCount, WakeReaper
<1>7. \/ rpc' = rpc
      \/ \E s \in Reapers : rpc[s] \in {"unborn", "asleep"} /\ rpc' = [rpc EXCEPT ![s] = "load"]
  <2>1. CASE CloneReaper(p) \/ WakeReaper(p)
    BY <2>1 DEF CloneReaper, WakeReaper, Asleep
  <2>2. CASE ~ (CloneReaper(p) \/ WakeReaper(p))
    BY <2>2 DEF CallerStep, Return, Submit, Claim, StartReaper, MapReaperFails,
                CloneReaperFails, ResetAgain, AllocNode, AllocNodeFails, EnqueueLock,
                EnqueueUnlock, AddCount
  <2> QED BY <2>1, <2>2
<1>8. \A q \in Callers : /\ pc'[q] = "tail" <=> pc[q] = "tail"
                         /\ pc[q] = "tail" => arg'[q] = arg[q]
  BY <1>3
<1>9. ASSUME NEW r \in Reapers
      PROVE  /\ HasBatch(r)' <=> HasBatch(r)
             /\ rpc'[r] = "clear" <=> rpc[r] = "clear"
             /\ rpc[r] \in {"unmap", "free", "advance"} =>
                   rpc'[r] \in {"unmap", "free", "advance"}
  BY <1>1, <1>7 DEF HasBatch, Reaping
<1>10. ASSUME NEW linked, NEW rank, NEW queue, NEW batch, Lists(linked, rank, queue, batch)
       PROVE  Balanced(queue, batch)'
  <2>0. Ranked(linked, rank) /\ Listed(linked, rank, queue, batch) /\ Balanced(queue, batch)
    BY <1>10 DEF Lists
  <2>1. processed' = processed
    BY DEF CallerStep, Return, Submit, Claim, StartReaper, CloneReaper, MapReaperFails,
      CloneReaperFails, ResetAgain, AllocNode, AllocNodeFails, EnqueueLock, EnqueueUnlock,
      AddCount, WakeReaper
  <2>2. \A r \in Reapers : Done(r)' = Done(r)
    BY <1>1, <1>7, <2>1 DEF Done
  <2>3. CASE AddCount(p)
    <3>1. /\ p \in Uncounted /\ Uncounted' = Uncounted \ {p} /\ count' = count + 1
      BY <1>1, <2>3 DEF AddCount, Uncounted
    <3>2. Cardinality(Uncounted') = Cardinality(Uncounted) - 1
      BY <1>1, <2>0, <3>1, WeightType, FS_RemoveElement
    <3>3. Weight(batch)' = Weight(batch)
      BY <2>2 DEF Weight
    <3>4. /\ Cardinality(Uncounted) \in Nat /\ Cardinality(queue) \in Nat
          /\ Total(Weight(batch), Reapers) \in Nat
      BY <1>1, <2>0, WeightType
    <3> QED BY <1>1, <2>0, <3>1, <3>2, <3>3, <3>4 DEF Balanced
  <2>4. CASE ~ AddCount(p)
    <3>1. /\ count' = count
          /\ pc'[p] \in {"tail", "unlock", "count"} <=> pc[p] \in {"tail", "unlock", "count"}
      BY <1>1, <2>4 DEF CallerStep, Return, Submit, Claim, StartReaper, CloneReaper,
        MapReaperFails, CloneReaperFails, ResetAgain, AllocNode, AllocNodeFails, EnqueueLock,
        EnqueueUnlock, WakeReaper
    <3>2. \A q \in Callers : pc'[q] \in {"tail", "unlock", "count"} <=>
                             pc[q] \in {"tail", "unlock", "count"}
      BY <1>3, <3>1
    <3> QED BY <2>0, <2>2, <3>1, <3>2, BalancedKept
  <2> QED BY <2>3, <2>4
<1>11. ASSUME NEW linked, NEW rank, NEW queue, NEW batch, Lists(linked, rank, queue, batch)
       PROVE  LostInv(queue, batch)'
  <2>0. LostInv(queue, batch) /\ live' = live
    BY <1>2, <1>11 DEF Lists
  <2>1. failures \in Nat /\ failures' \in Nat /\ failures <= failures'
    BY <1>1, ConstantsOK DEF CallerStep, Return, Submit, Claim, StartReaper, CloneReaper,
      MapReaperFails, CloneReaperFails, ResetAgain, AllocNode, AllocNodeFails, EnqueueLock,
      EnqueueUnlock, AddCount, WakeReaper
  <2>2. CASE AllocNodeFails(p)
    <3>1. /\ state' = state /\ arg' = arg /\ failures' = failures + 1
          /\ \A q \in Callers : q # p /\ Claiming(q) => Claiming(q)'
      BY <1>1, <1>3, <2>2 DEF AllocNodeFails, Claiming
    <3>2. Lost(queue, batch)' \subseteq Lost(queue, batch) \cup {arg[p]}
      BY <2>0, <3>1 DEF Lost, Given
    <3>3. IsFiniteSet(Lost(queue, batch))
      BY <1>1, ConstantsOK, FS_Subset DEF Lost
    <3>4. PICK lost, lost2 : lost = Lost(queue, batch) /\ lost2 = Lost(queue, batch)'
      OBVIOUS
    <3>5. /\ IsFiniteSet(lost \cup {arg[p]})
          /\ Cardinality(lost) \in Nat
          /\ Cardinality(lost \cup {arg[p]}) \in Nat
          /\ Cardinality(lost \cup {arg[p]}) <= Cardinality(lost) + 1
      <4>1. IsFiniteSet(lost) /\ Cardinality(lost) \in Nat
        BY <3>3, <3>4, FS_CardinalityType
      <4>2. /\ IsFiniteSet(lost \cup {arg[p]})
            /\ Cardinality(lost \cup {arg[p]}) =
                  IF arg[p] \in lost THEN Cardinality(lost) ELSE Cardinality(lost) + 1
        BY <4>1, FS_AddElement
      <4> QED BY <4>1, <4>2
    <3>6. /\ Cardinality(lost2) \in Nat
          /\ Cardinality(lost2) <= Cardinality(lost \cup {arg[p]})
      BY <3>2, <3>4, <3>5, FS_Subset, FS_CardinalityType
    <3>7. Cardinality(lost) <= failures
      BY <2>0, <3>4 DEF LostInv
    <3>8. Cardinality(lost2) <= failures'
      BY <2>1, <3>1, <3>5, <3>6, <3>7
    <3> QED BY <3>4, <3>8 DEF LostInv
  <2>3. ASSUME NEW t \in Threads, Submit(p, t) PROVE LostInv(queue, batch)'
    <3>1. /\ arg'[p] = t /\ failures' = failures /\ ~ Claiming(p)
          /\ "QUEUED" \notin state[t] => Claiming(p)'
          /\ \A m \in Threads : m # t => state'[m] = state[m]
      BY <1>1, <2>3 DEF Submit, Claim, Claiming, Starting
    <3>2. Given(queue, batch) \subseteq Given(queue, batch)'
      BY <1>3, <3>1 DEF Given, Claiming
    <3>3. "QUEUED" \notin state[t] => t \in Given(queue, batch)'
      BY <3>1 DEF Given
    <3>4. Lost(queue, batch)' \subseteq Lost(queue, batch)
      BY <1>1, <2>0, <3>1, <3>2, <3>3 DEF Lost
    <3>5. IsFiniteSet(Lost(queue, batch))
      BY <1>1, ConstantsOK, FS_Subset DEF Lost
    <3>6. PICK lost, lost2 : lost = Lost(queue, batch) /\ lost2 = Lost(queue, batch)'
      OBVIOUS
    <3>7. Cardinality(lost) \in Nat /\ Cardinality(lost2) \in Nat
          /\ Cardinality(lost2) <= Cardinality(lost)
      BY <3>4, <3>5, <3>6, FS_Subset, FS_CardinalityType
    <3>8. Cardinality(lost) <= failures
      BY <2>0, <3>6 DEF LostInv
    <3>9. Cardinality(lost2) <= failures'
      BY <2>1, <3>1, <3>7, <3>8
    <3> QED BY <3>6, <3>9 DEF LostInv
  <2>4. CASE ~ AllocNodeFails(p) /\ ~ (\E t \in Threads : Submit(p, t))
    <3>1. state' = state /\ arg' = arg /\ (Claiming(p) => Claiming(p)')
      BY <1>1, <2>4 DEF CallerStep, Return, StartReaper, CloneReaper, MapReaperFails,
        CloneReaperFails, ResetAgain, AllocNode, EnqueueLock, EnqueueUnlock, AddCount,
        WakeReaper, Claiming, Starting
    <3>2. Given(queue, batch) \subseteq Given(queue, batch)'
      BY <1>3, <3>1 DEF Given, Claiming
    <3> QED BY <1>1, <2>0, <2>1, <3>1, <3>2, LostKept
  <2> QED BY <2>2, <2>3, <2>4
<1> QED BY <1>1, <1>2, <1>5, <1>6, <1>8, <1>9, <1>10, <1>11, QuietLists

LEMMA ReaperLists ==
    ASSUME IInv, NEW r \in Reapers,
           LoadCount(r) \/ WaitCount(r) \/ DequeueLock(r) \/ SubCount(r)
    PROVE  Listing'
<1> USE DEF descVars, queueVars, listVars, callerVars, envVars
<1>1. /\ TypeOK /\ Listing
      /\ UNCHANGED <<head, tail, next, current, state, live, stack, pc, arg>>
  BY DEF IInv, LoadCount, WaitCount, DequeueLock, SubCount
<1>2. ASSUME NEW s \in Reapers
      PROVE  /\ HasBatch(s)' <=> HasBatch(s)
             /\ rpc'[s] = "clear" <=> rpc[s] = "clear"
             /\ rpc[s] \in {"unmap", "free", "advance"} =>
                   rpc'[s] \in {"unmap", "free", "advance"}
  BY <1>1 DEF TypeOK, QueueTypeOK, LoadCount, WaitCount, DequeueLock, SubCount, RGoto,
              HasBatch, Reaping
<1>3. ASSUME NEW linked, NEW rank, Ranked(linked, rank)
      PROVE  /\ \A m \in linked : next'[m] = next[m]
             /\ \A q \in Callers :
                   Claiming(q)' => (Claiming(q) /\ arg'[q] = arg[q]) \/ arg'[q] \notin linked
  BY <1>1 DEF Claiming
<1>4. ASSUME NEW linked, NEW rank, NEW queue, NEW batch, Lists(linked, rank, queue, batch)
      PROVE  Balanced(queue, batch)'
  <2> USE DEF TypeOK, QueueTypeOK
  <2>0. /\ Ranked(linked, rank) /\ Listed(linked, rank, queue, batch)
        /\ Balanced(queue, batch)
    BY <1>4 DEF Lists
  <2>1. processed' = processed /\ Uncounted' = Uncounted
    BY <1>1 DEF LoadCount, WaitCount, DequeueLock, SubCount, reaperVars, Uncounted
  <2>2. \A s \in Reapers : s # r => Done(s)' = Done(s)
    BY <1>1, <2>1 DEF Done, LoadCount, WaitCount, DequeueLock, SubCount, RGoto
  <2>3. CASE SubCount(r)
    <3>1. /\ Done(r) = processed[r] /\ Done(r)' = 0 /\ count' = count - processed[r]
          /\ batch[r] = {}
      BY <1>1, <2>0, <2>3 DEF SubCount, Done, RGoto, Listed, HasBatch, Reaping
    <3>2. PICK w, v : w = Weight(batch) /\ v = Weight(batch)'
      OBVIOUS
    <3>3. \A s \in Reapers : w[s] \in Nat /\ w[s] = Cardinality(batch[s]) + Done(s)
      BY <1>1, <2>0, <3>2, WeightType
    <3>4. \A s \in Reapers : v[s] = Cardinality(batch[s]) + Done(s)'
      BY <3>2 DEF Weight
    <3>5. \A s \in Reapers \ {r} : v[s] = w[s]
      BY <2>2, <3>3, <3>4
    <3>6. w[r] = processed[r] /\ v[r] = 0
      <4>1. Cardinality(batch[r]) = 0
        BY <3>1, FS_EmptySet
      <4>2. processed[r] \in Nat
        BY <1>1
      <4>3. w[r] = 0 + processed[r] /\ v[r] = 0 + 0
        BY <3>1, <3>3, <3>4, <4>1
      <4> QED BY <4>2, <4>3
    <3>7. Total(v, Reapers) + w[r] = Total(w, Reapers) + v[r]
      BY <3>3, <3>5, <3>6, ConstantsOK, TotalChanged
    <3>8. Total(w, Reapers) \in Nat /\ Total(v, Reapers) \in Nat
      BY <3>3, <3>5, <3>6, ConstantsOK, UnitsFinite
    <3>9. /\ count + Cardinality(Uncounted) = Cardinality(queue) + Total(w, Reapers)
          /\ Cardinality(queue) \in Nat /\ Cardinality(Uncounted) \in Nat
      BY <1>1, <2>0, <3>2, WeightType DEF Balanced
    <3> QED BY <1>1, <2>1, <3>1, <3>2, <3>6, <3>7, <3>8, <3>9 DEF Balanced
  <2>4. CASE ~ SubCount(r)
    <3>1. count' = count /\ Done(r)' = Done(r)
      BY <1>1, <2>1, <2>4 DEF LoadCount, WaitCount, DequeueLock, Done, RGoto
    <3> QED BY <1>1, <2>0, <2>2, <3>1, BalancedKept
  <2> QED BY <2>3, <2>4
<1>5. ASSUME NEW linked, NEW rank, NEW queue, NEW batch, Lists(linked, rank, queue, batch)
      PROVE  LostInv(queue, batch)'
  <2>1. failures' = failures /\ failures \in Nat
    BY <1>1, ConstantsOK DEF LoadCount, WaitCount, DequeueLock, SubCount, TypeOK, QueueTypeOK
  <2>2. Given(queue, batch)' = Given(queue, batch)
    BY <1>1 DEF Given, Claiming
  <2> QED BY <1>1, <1>5, <2>1, <2>2, LostKept DEF Lists
<1> QED BY <1>1, <1>2, <1>3, <1>4, <1>5, QuietLists

-----------------------------------------------------------------------------
(* The steps that change the lists, or a descriptor in them                *)

\* A node that is linked becomes the last of the queue.
LEMMA LinkLists ==
    ASSUME IInv, NEW p \in Callers, Link(p)
    PROVE  Listing'
<1> USE DEF TypeOK, QueueTypeOK, descVars, callerVars, reaperVars, envVars
<1>1. PICK linked, rank, queue, batch : Lists(linked, rank, queue, batch)
  BY DEF IInv, Listing
<1>2. /\ TypeOK /\ LockInv /\ ClaimInv /\ pc[p] = "link"
      /\ Ranked(linked, rank) /\ Listed(linked, rank, queue, batch)
      /\ EndInv(linked, rank, queue) /\ FreshInv(queue, batch)
  BY <1>1 DEF IInv, Lists, Link
<1>3. PICK t \in Threads : t = arg[p]
  BY <1>2 DEF ClaimInv, Claiming
<1>4. /\ t \notin linked /\ t # NULL /\ "QUEUED" \in state[t] /\ Fresh(t) /\ next[t] = NULL
      /\ \A q \in Callers : q # p /\ Claiming(q) => arg[q] # t
  BY <1>2, <1>3, ConstantsOK DEF Ranked, ClaimInv, Claiming
<1>5. /\ \A q \in Callers : pc[q] # "tail"
      /\ \A r \in Reapers : rpc[r] # "clear"
  BY <1>2 DEF LockInv, Holds, RHolds
<1>6. PICK c \in Nat : c = Cardinality(linked) /\ Cardinality(linked \cup {t}) = c + 1
  <2>1. IsFiniteSet(linked)
    BY <1>2, ConstantsOK, FS_Subset DEF Ranked
  <2> QED BY <1>4, <2>1, FS_CardinalityType, FS_AddElement
<1> DEFINE linked2 == linked \cup {t}
           queue2  == queue \cup {t}
           rank2   == [rank EXCEPT ![t] = c]
<1>7. /\ rank2 \in [Threads -> Nat] /\ rank2[t] = c
      /\ \A m \in linked : m # t /\ rank2[m] = rank[m] /\ rank[m] < c
      /\ queue \subseteq linked /\ linked \subseteq Threads
  BY <1>2, <1>4, <1>6 DEF Ranked, Listed
<1> HIDE DEF rank2
<1>8. /\ pc'[p] = "tail" /\ \A q \in Callers : q # p => pc'[q] = pc[q]
      /\ UNCHANGED <<state, live, stack, arg, rpc, current, tail>>
  BY <1>2 DEF Link, Goto
<1>9. \/ tail = NULL /\ queue = {} /\ head' = t /\ next' = next
      \/ /\ tail \in queue /\ next[tail] = NULL /\ rank[tail] + 1 = c /\ head' = head
         /\ head # NULL /\ next'[tail] = t /\ \A m \in Threads \ {tail} : next'[m] = next[m]
  <2>1. IF queue = {} THEN tail = NULL ELSE tail \in queue /\ next[tail] = NULL
    BY <1>2, <1>5 DEF EndInv
  <2>2. CASE queue = {}
    BY <1>3, <2>1, <2>2 DEF Link
  <2>3. CASE queue # {}
    <3>1. tail \in queue /\ next[tail] = NULL /\ tail \in Threads /\ head # NULL /\ tail # NULL
      BY <1>2, <1>7, <2>1, <2>3, ConstantsOK DEF Listed, IsList
    <3>2. rank[tail] + 1 = c
      BY <1>2, <1>6, <3>1 DEF EndInv
    <3> QED BY <1>2, <1>3, <3>1, <3>2 DEF Link
  <2> QED BY <2>2, <2>3
<1>10. /\ next'[t] = NULL
       /\ \A m \in queue : next'[m] # NULL
       /\ \A m \in linked \ queue : next'[m] = next[m]
  <2>1. \A m \in queue : next[m] = NULL => rank[m] + 1 = c
    BY <1>2, <1>6 DEF EndInv
  <2>2. ASSUME NEW m \in queue, next[m] = NULL, tail \in queue, rank[tail] + 1 = c
        PROVE  m = tail
    <3>1. rank[m] = rank[tail]
      BY <1>2, <1>7, <2>1, <2>2 DEF Ranked
    <3> QED BY <1>2, <1>7, <2>2, <3>1 DEF Ranked
  <2> QED BY <1>4, <1>7, <1>9, <2>2
<1>11. Ranked(linked2, rank2)'
  <2>1. \A m \in linked2 : "QUEUED" \in state'[m] /\ rank2[m] < Cardinality(linked2)
    BY <1>2, <1>4, <1>6, <1>7, <1>8 DEF Ranked
  <2>2. \A m, n \in linked2 : rank2[m] = rank2[n] => m = n
    BY <1>2, <1>7 DEF Ranked
  <2>3. ASSUME NEW q \in Callers, Claiming(q)' PROVE arg'[q] \notin linked2
    BY <1>2, <1>4, <1>8, <2>3 DEF Ranked, Claiming, Starting
  <2> QED BY <1>3, <1>7, <2>1, <2>2, <2>3 DEF Ranked
<1>12. IsList(head, queue2, rank2)'
  BY <1>2, <1>4, <1>7, <1>9, <1>10 DEF Listed, IsList, Ranked
<1>13. ASSUME NEW r \in Reapers, HasBatch(r)
       PROVE  IsList(current[r], batch[r], rank2)'
  BY <1>2, <1>7, <1>8, <1>10, <1>13, ConstantsOK DEF Listed, IsList
<1>14. Listed(linked2, rank2, queue2, batch)'
  BY <1>2, <1>4, <1>8, <1>12, <1>13 DEF Listed, HasBatch
<1>15. EndInv(linked2, rank2, queue2)'
  BY <1>3, <1>5, <1>6, <1>7, <1>8, <1>10 DEF EndInv
<1>16. FreshInv(queue2, batch)'
  BY <1>2, <1>4, <1>8 DEF FreshInv, Fresh
<1>17. Balanced(queue2, batch)'
  <2>1. count' = count /\ p \notin Uncounted /\ Uncounted' = Uncounted \cup {p}
    BY <1>2, <1>8 DEF Link, Uncounted
  <2>2. Weight(batch)' = Weight(batch)
    BY <1>8 DEF Link, Weight, Done
  <2>3. Cardinality(Uncounted') = Cardinality(Uncounted) + 1
    BY <1>2, <2>1, WeightType, FS_AddElement
  <2>4. Cardinality(queue2) = Cardinality(queue) + 1
    BY <1>2, <1>4, <1>7, WeightType, FS_AddElement
  <2>5. /\ Cardinality(Uncounted) \in Nat /\ Cardinality(queue) \in Nat
        /\ Total(Weight(batch), Reapers) \in Nat
    BY <1>2, WeightType
  <2>6. Balanced(queue, batch)
    BY <1>1 DEF Lists
  <2> QED BY <1>2, <2>1, <2>2, <2>3, <2>4, <2>5, <2>6 DEF Balanced
<1>18. LostInv(queue2, batch)'
  <2>1. failures' = failures /\ failures \in Nat
    BY <1>2, ConstantsOK DEF Link
  <2>2. PICK longer : longer = queue2
    OBVIOUS
  <2>3. Given(queue, batch) \subseteq Given(longer, batch)'
    BY <1>3, <1>8, <2>2 DEF Given, Claiming
  <2>4. LostInv(longer, batch)'
    BY <1>1, <1>2, <1>8, <2>1, <2>3, LostKept DEF Lists
  <2> QED BY <2>2, <2>4
<1> QED BY <1>11, <1>14, <1>15, <1>16, <1>17, <1>18 DEF Listing, Lists

LEMMA SetTailLists ==
    ASSUME IInv, NEW p \in Callers, SetTail(p)
    PROVE  Listing'
<1> USE DEF TypeOK, QueueTypeOK, descVars, callerVars, reaperVars, envVars
<1>1. PICK linked, rank, queue, batch : Lists(linked, rank, queue, batch)
  BY DEF IInv, Listing
<1>2. /\ TypeOK /\ LockInv /\ pc[p] = "tail"
      /\ Ranked(linked, rank) /\ Listed(linked, rank, queue, batch)
      /\ EndInv(linked, rank, queue) /\ FreshInv(queue, batch)
  BY <1>1 DEF IInv, Lists, SetTail
<1>3. /\ pc'[p] = "unlock" /\ \A q \in Callers : q # p => pc'[q] = pc[q]
      /\ UNCHANGED <<state, live, stack, arg, rpc, current, head, next>> /\ tail' = arg[p]
  BY <1>2 DEF SetTail, Goto
<1>4. \A q \in Callers : pc[q] = "tail" => q = p
  BY <1>2 DEF LockInv, Holds
<1>5. Ranked(linked, rank)'
  BY <1>2, <1>3, RankedKept DEF Ranked, Claiming, Starting
<1>6. Listed(linked, rank, queue, batch)'
  <2>1. \A r \in Reapers : IF HasBatch(r)' THEN HasBatch(r) /\ current'[r] = current[r]
                           ELSE batch[r] = {}
    BY <1>2, <1>3 DEF Listed, HasBatch
  <2> QED BY <1>2, <1>3, <2>1, ListedKept
<1>7. EndInv(linked, rank, queue)'
  BY <1>2, <1>3, <1>4 DEF EndInv
<1>8. FreshInv(queue, batch)'
  BY <1>2, <1>3 DEF FreshInv, Fresh
<1>9. Balanced(queue, batch)'
  BY <1>1, <1>2, <1>3, BalancedKept DEF SetTail, Done, Lists
<1>10. LostInv(queue, batch)'
  <2>1. failures' = failures /\ failures \in Nat
    BY <1>2, ConstantsOK DEF SetTail
  <2>2. Given(queue, batch) \subseteq Given(queue, batch)'
    BY <1>2, <1>3 DEF Given, Claiming, Starting
  <2> QED BY <1>1, <1>2, <1>3, <2>1, <2>2, LostKept DEF Lists
<1> QED BY <1>5, <1>6, <1>7, <1>8, <1>9, <1>10 DEF Listing, Lists

\* The reaper takes the whole queue ...
LEMMA TakeHeadLists ==
    ASSUME IInv, NEW r \in Reapers, TakeHead(r)
    PROVE  Listing'
<1> USE DEF TypeOK, QueueTypeOK, descVars, listVars, callerVars, envVars
<1>1. PICK linked, rank, queue, batch : Lists(linked, rank, queue, batch)
  BY DEF IInv, Listing
<1>2. /\ TypeOK /\ LockInv /\ ReapInv /\ rpc[r] = "take"
      /\ Ranked(linked, rank) /\ Listed(linked, rank, queue, batch)
      /\ EndInv(linked, rank, queue) /\ FreshInv(queue, batch)
  BY <1>1 DEF IInv, Lists, TakeHead
<1>3. /\ UNCHANGED <<state, live, stack, pc, arg, next, tail>>
      /\ head' = NULL /\ current'[r] = head
      /\ \A s \in Reapers : s # r => rpc'[s] = rpc[s] /\ current'[s] = current[s]
      /\ rpc'[r] = IF head = NULL THEN "unlock" ELSE "clear"
  BY <1>2 DEF TakeHead, RGoto
<1>4. batch[r] = {}
  BY <1>2 DEF Listed, HasBatch, Reaping
<1>5. Ranked(linked, rank)'
  BY <1>2, <1>3, RankedKept DEF Ranked, Claiming
<1> DEFINE batch2 == [batch EXCEPT ![r] = queue]
<1>6. /\ batch2 \in [Reapers -> SUBSET linked] /\ batch2[r] = queue
      /\ \A s \in Reapers : s # r => batch2[s] = batch[s]
  BY <1>2 DEF Listed
<1> HIDE DEF batch2
<1>7. PICK first : first = head /\ IsList(first, queue, rank)
  BY <1>2 DEF Listed
<1>8. Listed(linked, rank, {}, batch2)'
  <2>1. IsList(NULL, {}, rank)'
    BY DEF IsList
  <2>2. IsList(current[r], batch2[r], rank)'
    <3>1. IsList(first, queue, rank)'
      BY <1>3, <1>7 DEF IsList
    <3> QED BY <1>3, <1>6, <1>7, <3>1
  <2>3. ASSUME NEW s \in Reapers, s # r
        PROVE  IF HasBatch(s)' THEN IsList(current[s], batch2[s], rank)' ELSE batch2[s] = {}
    BY <1>2, <1>3, <1>6, <2>3 DEF Listed, IsList, HasBatch
  <2>4. HasBatch(r)'
    BY <1>3 DEF HasBatch
  <2>5. \A s, u \in Reapers : s # u => batch2[s] \cap batch2[u] = {}
    BY <1>2, <1>6 DEF Listed
  <2> QED BY <1>3, <1>6, <2>1, <2>2, <2>3, <2>4, <2>5 DEF Listed
<1>9. EndInv(linked, rank, {})'
  BY <1>2, <1>3, ConstantsOK DEF EndInv, LockInv, Holds, RHolds, Listed, IsList
<1>10. FreshInv({}, batch2)'
  BY <1>2, <1>3, <1>4, <1>6 DEF FreshInv, Fresh
<1>11. Balanced({}, batch2)'
  <2>1. PICK w, v : w = Weight(batch) /\ v = Weight(batch2)'
    OBVIOUS
  <2>2. \A s \in Reapers : w[s] \in Nat /\ w[s] = Cardinality(batch[s]) + Done(s)
    BY <1>2, <2>1, WeightType
  <2>3. \A s \in Reapers : v[s] = Cardinality(batch2[s]) + Done(s)'
    BY <2>1 DEF Weight
  <2>4. /\ Done(r) = 0 /\ Done(r)' = 0
        /\ \A s \in Reapers : s # r => Done(s)' = Done(s)
    BY <1>2, <1>3 DEF TakeHead, Done
  <2>5. \A s \in Reapers \ {r} : v[s] = w[s]
    BY <1>6, <2>2, <2>3, <2>4
  <2>6. w[r] = 0 /\ v[r] = Cardinality(queue) /\ Cardinality(queue) \in Nat
    BY <1>2, <1>4, <1>6, <2>2, <2>3, <2>4, WeightType, FS_EmptySet
  <2>7. Total(v, Reapers) + w[r] = Total(w, Reapers) + v[r]
    BY <2>2, <2>5, <2>6, ConstantsOK, TotalChanged
  <2>8. Total(w, Reapers) \in Nat /\ Total(v, Reapers) \in Nat
    BY <2>2, <2>5, <2>6, ConstantsOK, UnitsFinite
  <2>9. /\ count + Cardinality(Uncounted) = Cardinality(queue) + Total(w, Reapers)
        /\ Cardinality(Uncounted) \in Nat
    BY <1>1, <1>2, <2>1, WeightType DEF Balanced, Lists
  <2>10. count' = count /\ Uncounted' = Uncounted
    BY <1>2, <1>3 DEF TakeHead, Uncounted
  <2> QED BY <1>2, <2>1, <2>6, <2>7, <2>8, <2>9, <2>10, FS_EmptySet DEF Balanced
<1>12. LostInv({}, batch2)'
  <2>1. failures' = failures /\ failures \in Nat
    BY <1>2, ConstantsOK DEF TakeHead
  <2>2. Given(queue, batch) \subseteq Given({}, batch2)'
    BY <1>3, <1>4, <1>6 DEF Given, Claiming
  <2> QED BY <1>1, <1>2, <1>3, <2>1, <2>2, LostKept DEF Lists
<1> QED BY <1>5, <1>8, <1>9, <1>10, <1>11, <1>12 DEF Listing, Lists

LEMMA ClearTailLists ==
    ASSUME IInv, NEW r \in Reapers, ClearTail(r)
    PROVE  Listing'
<1> USE DEF TypeOK, QueueTypeOK, descVars, listVars, callerVars, envVars
<1>1. PICK linked, rank, queue, batch : Lists(linked, rank, queue, batch)
  BY DEF IInv, Listing
<1>2. /\ TypeOK /\ LockInv /\ ReapInv /\ rpc[r] = "clear"
      /\ Ranked(linked, rank) /\ Listed(linked, rank, queue, batch)
      /\ EndInv(linked, rank, queue) /\ FreshInv(queue, batch)
  BY <1>1 DEF IInv, Lists, ClearTail
<1>3. /\ UNCHANGED <<state, live, stack, pc, arg, next, head, current>>
      /\ tail' = NULL /\ rpc'[r] = "unlock"
      /\ \A s \in Reapers : s # r => rpc'[s] = rpc[s]
  BY <1>2 DEF ClearTail, RGoto
<1>4. Ranked(linked, rank)'
  BY <1>2, <1>3, RankedKept DEF Ranked, Claiming
<1>5. Listed(linked, rank, queue, batch)'
  <2>1. \A s \in Reapers : IF HasBatch(s)' THEN HasBatch(s) /\ current'[s] = current[s]
                           ELSE batch[s] = {}
    BY <1>2, <1>3 DEF Listed, HasBatch
  <2> QED BY <1>2, <1>3, <2>1, ListedKept
<1>6. EndInv(linked, rank, queue)'
  BY <1>2, <1>3 DEF EndInv, LockInv, Holds, RHolds
<1>7. FreshInv(queue, batch)'
  BY <1>2, <1>3 DEF FreshInv, Fresh
<1>8. Balanced(queue, batch)'
  BY <1>1, <1>2, <1>3, BalancedKept DEF ClearTail, Done, Lists
<1>9. LostInv(queue, batch)'
  <2>1. failures' = failures /\ failures \in Nat
    BY <1>2, ConstantsOK DEF ClearTail
  <2>2. Given(queue, batch) \subseteq Given(queue, batch)'
    BY <1>3 DEF Given, Claiming
  <2> QED BY <1>1, <1>2, <1>3, <2>1, <2>2, LostKept DEF Lists
<1> QED BY <1>4, <1>5, <1>6, <1>7, <1>8, <1>9 DEF Listing, Lists

LEMMA DequeueUnlockLists ==
    ASSUME IInv, NEW r \in Reapers, DequeueUnlock(r)
    PROVE  Listing'
<1> USE DEF TypeOK, QueueTypeOK, descVars, listVars, callerVars, envVars
<1>1. PICK linked, rank, queue, batch : Lists(linked, rank, queue, batch)
  BY DEF IInv, Listing
<1>2. /\ TypeOK /\ LockInv /\ ReapInv /\ rpc[r] = "unlock"
      /\ Ranked(linked, rank) /\ Listed(linked, rank, queue, batch)
      /\ EndInv(linked, rank, queue) /\ FreshInv(queue, batch)
  BY <1>1 DEF IInv, Lists, DequeueUnlock
<1>3. /\ UNCHANGED <<state, live, stack, pc, arg, next, head, tail, current>>
      /\ rpc'[r] = IF current[r] = NULL THEN "load" ELSE "reap"
      /\ \A s \in Reapers : s # r => rpc'[s] = rpc[s]
  BY <1>2 DEF DequeueUnlock, RGoto
<1>4. Ranked(linked, rank)'
  BY <1>2, <1>3, RankedKept DEF Ranked, Claiming
<1>5. Listed(linked, rank, queue, batch)'
  <2>1. \A s \in Reapers : IF HasBatch(s)' THEN HasBatch(s) /\ current'[s] = current[s]
                           ELSE batch[s] = {}
    BY <1>2, <1>3 DEF Listed, HasBatch, Reaping, IsList
  <2> QED BY <1>2, <1>3, <2>1, ListedKept
<1>6. EndInv(linked, rank, queue)'
  BY <1>2, <1>3 DEF EndInv
<1>7. FreshInv(queue, batch)'
  BY <1>2, <1>3 DEF FreshInv, Fresh
<1>8. Balanced(queue, batch)'
  BY <1>1, <1>2, <1>3, BalancedKept DEF DequeueUnlock, Done, Lists
<1>9. LostInv(queue, batch)'
  <2>1. failures' = failures /\ failures \in Nat
    BY <1>2, ConstantsOK DEF DequeueUnlock
  <2>2. Given(queue, batch) \subseteq Given(queue, batch)'
    BY <1>3 DEF Given, Claiming
  <2> QED BY <1>1, <1>2, <1>3, <2>1, <2>2, LostKept DEF Lists
<1> QED BY <1>4, <1>5, <1>6, <1>7, <1>8, <1>9 DEF Listing, Lists

\* ... and works on its first node, which is in no other list.
LEMMA ReapLists ==
    ASSUME IInv, NEW r \in Reapers, Reap(r) \/ UnmapStack(r) \/ FreeThread(r)
    PROVE  Listing'
<1> USE DEF TypeOK, QueueTypeOK, descVars, queueVars, listVars, callerVars, envVars
<1>1. PICK linked, rank, queue, batch : Lists(linked, rank, queue, batch)
  BY DEF IInv, Listing
<1>2. /\ TypeOK /\ ReapInv /\ rpc[r] \in {"reap", "unmap", "free"}
      /\ Ranked(linked, rank) /\ Listed(linked, rank, queue, batch)
      /\ EndInv(linked, rank, queue) /\ FreshInv(queue, batch)
  BY <1>1 DEF IInv, Lists, Reap, UnmapStack, FreeThread
<1>3. PICK t \in Threads : t = current[r]
  BY <1>2 DEF ReapInv, Reaping
<1>4. /\ UNCHANGED <<pc, arg, next, head, tail, current>>
      /\ \A m \in Threads : /\ m # t /\ Fresh(m) => Fresh(m)'
                            /\ "QUEUED" \in state[m] => "QUEUED" \in state'[m]
      /\ rpc'[r] \in {"unmap", "free", "advance"}
      /\ \A s \in Reapers : s # r => rpc'[s] = rpc[s]
  BY <1>2, <1>3, ReapsFresh DEF Reap, UnmapStack, FreeThread, RGoto, Fresh
<1>5. /\ t \notin queue
      /\ \A s \in Reapers : s # r => t \notin batch[s]
  BY <1>2, <1>3, ConstantsOK DEF Listed, IsList, HasBatch, Reaping
<1>6. Ranked(linked, rank)'
  BY <1>2, <1>4, RankedKept DEF Ranked, Claiming
<1>7. Listed(linked, rank, queue, batch)'
  <2>1. \A s \in Reapers : IF HasBatch(s)' THEN HasBatch(s) /\ current'[s] = current[s]
                           ELSE batch[s] = {}
    BY <1>2, <1>4 DEF Listed, HasBatch, Reaping
  <2> QED BY <1>2, <1>4, <2>1, ListedKept
<1>8. EndInv(linked, rank, queue)'
  <2>1. \A s \in Reapers : rpc'[s] = "clear" <=> rpc[s] = "clear"
    BY <1>2, <1>4
  <2> QED BY <1>2, <1>4, <2>1, EndKept DEF Listed
<1>9. FreshInv(queue, batch)'
  <2>1. queue \subseteq Threads /\ \A s \in Reapers : batch[s] \subseteq Threads
    BY <1>2 DEF Ranked, Listed
  <2>2. \A m \in queue : Fresh(m)'
    BY <1>2, <1>4, <1>5, <2>1 DEF FreshInv
  <2>3. ASSUME NEW s \in Reapers, s # r, NEW m \in batch[s]
        PROVE  \/ Fresh(m)'
               \/ m = current'[s] /\ rpc'[s] \in {"unmap", "free", "advance"}
    BY <1>2, <1>4, <1>5, <2>1, <2>3 DEF FreshInv
  <2>4. ASSUME NEW m \in batch[r]
        PROVE  \/ Fresh(m)'
               \/ m = current'[r] /\ rpc'[r] \in {"unmap", "free", "advance"}
    BY <1>2, <1>3, <1>4, <2>1 DEF FreshInv
  <2> QED BY <2>2, <2>3, <2>4 DEF FreshInv
<1>10. Balanced(queue, batch)'
  BY <1>1, <1>2, <1>3, <1>4, BalancedKept DEF Reap, UnmapStack, FreeThread, reaperVars, Done, Lists
<1>11. LostInv(queue, batch)'
  <2>1. failures' = failures /\ failures \in Nat
    BY <1>2, ConstantsOK DEF Reap, UnmapStack, FreeThread
  <2>2. Given(queue, batch) \subseteq Given(queue, batch)'
    BY <1>4 DEF Given, Claiming
  <2>3. live' \subseteq live /\ \A m \in live' : "QUEUED" \in state'[m] => "QUEUED" \in state[m]
    BY <1>2, <1>3 DEF Reap, UnmapStack, FreeThread
  <2> QED BY <1>1, <1>2, <2>1, <2>2, <2>3, LostKept DEF Lists
<1> QED BY <1>6, <1>7, <1>8, <1>9, <1>10, <1>11 DEF Listing, Lists

LEMMA AdvanceLists ==
    ASSUME IInv, NEW r \in Reapers, Advance(r)
    PROVE  Listing'
<1> USE DEF TypeOK, QueueTypeOK, descVars, queueVars, listVars, callerVars, envVars
<1>1. PICK linked, rank, queue, batch : Lists(linked, rank, queue, batch)
  BY DEF IInv, Listing
<1>2. /\ TypeOK /\ LockInv /\ ReapInv /\ rpc[r] = "advance"
      /\ Ranked(linked, rank) /\ Listed(linked, rank, queue, batch)
      /\ EndInv(linked, rank, queue) /\ FreshInv(queue, batch)
  BY <1>1 DEF IInv, Lists, Advance
<1>3. PICK t \in Threads : t = current[r]
  BY <1>2 DEF ReapInv, Reaping
<1>4. /\ UNCHANGED <<state, live, stack, pc, arg, next, head, tail>>
      /\ current'[r] = next[t] /\ rpc'[r] = IF next[t] = NULL THEN "sub" ELSE "reap"
      /\ \A s \in Reapers : s # r => rpc'[s] = rpc[s] /\ current'[s] = current[s]
  BY <1>2, <1>3 DEF Advance, RGoto
<1>5. IsList(t, batch[r], rank) /\ t \in batch[r] /\ batch[r] \subseteq linked
  BY <1>2, <1>3, ConstantsOK DEF Listed, IsList, HasBatch, Reaping
<1>6. Ranked(linked, rank)'
  BY <1>2, <1>4, RankedKept DEF Ranked, Claiming
<1> DEFINE batch2 == [batch EXCEPT ![r] = @ \ {t}]
<1>7. /\ batch2 \in [Reapers -> SUBSET linked] /\ batch2[r] = batch[r] \ {t}
      /\ \A s \in Reapers : s # r => batch2[s] = batch[s]
  BY <1>2 DEF Listed
<1> HIDE DEF batch2
<1>8. IsList(next[t], batch2[r], rank)
  <2>1. \A m \in batch2[r] : rank[t] < rank[m]
    BY <1>2, <1>5, <1>7, ConstantsOK DEF IsList, Ranked
  <2>2. CASE next[t] = NULL
    <3>1. batch2[r] = {}
      BY <1>2, <1>5, <1>7, <2>1, <2>2 DEF IsList, Ranked
    <3> QED BY <2>2, <3>1 DEF IsList
  <2>3. CASE next[t] # NULL
    <3>1. /\ next[t] \in batch[r] /\ next[t] # t /\ rank[next[t]] = rank[t] + 1
      BY <1>2, <1>5, <2>3 DEF IsList, Ranked
    <3>2. ASSUME NEW m \in batch2[r]
          PROVE  /\ rank[next[t]] <= rank[m]
                 /\ IF next[m] = NULL THEN \A o \in batch2[r] : rank[o] <= rank[m]
                    ELSE next[m] \in batch2[r] /\ rank[next[m]] = rank[m] + 1
      BY <1>2, <1>5, <1>7, <2>1, <3>1 DEF IsList, Ranked
    <3> QED BY <1>7, <2>3, <3>1, <3>2 DEF IsList
  <2> QED BY <2>2, <2>3
<1>9. Listed(linked, rank, queue, batch2)'
  <2>1. IsList(head, queue, rank)'
    BY <1>2, <1>4 DEF Listed, IsList
  <2>2. IF HasBatch(r)' THEN IsList(current[r], batch2[r], rank)' ELSE batch2[r] = {}
    BY <1>4, <1>8 DEF IsList, HasBatch, Reaping
  <2>3. ASSUME NEW s \in Reapers, s # r
        PROVE  IF HasBatch(s)' THEN IsList(current[s], batch2[s], rank)' ELSE batch2[s] = {}
    BY <1>2, <1>4, <1>7, <2>3 DEF Listed, IsList, HasBatch
  <2>4. \A s \in Reapers : queue \cap batch2[s] = {}
    BY <1>2, <1>7 DEF Listed
  <2>5. \A s, u \in Reapers : s # u => batch2[s] \cap batch2[u] = {}
    BY <1>2, <1>7 DEF Listed
  <2> QED BY <1>2, <1>7, <2>1, <2>2, <2>3, <2>4, <2>5 DEF Listed
<1>10. EndInv(linked, rank, queue)'
  <2>1. \A s \in Reapers : rpc'[s] = "clear" <=> rpc[s] = "clear"
    BY <1>2, <1>4
  <2> QED BY <1>2, <1>4, <2>1, EndKept DEF Listed
<1>11. FreshInv(queue, batch2)'
  <2>1. ASSUME NEW m \in batch2[r] PROVE Fresh(m)'
    BY <1>2, <1>3, <1>4, <1>7 DEF FreshInv, Fresh
  <2> QED BY <1>2, <1>4, <1>7, <2>1 DEF FreshInv, Fresh
<1>12. Balanced(queue, batch2)'
  <2>1. PICK w, v : w = Weight(batch) /\ v = Weight(batch2)'
    OBVIOUS
  <2>2. \A s \in Reapers : w[s] = Cardinality(batch[s]) + Done(s)
    BY <2>1 DEF Weight
  <2>3. \A s \in Reapers : v[s] = Cardinality(batch2[s]) + Done(s)'
    BY <2>1 DEF Weight
  <2>4. /\ Done(r)' = Done(r) + 1
        /\ \A s \in Reapers : s # r => Done(s)' = Done(s)
    BY <1>2, <1>4 DEF Advance, Done
  <2>5. Cardinality(batch2[r]) = Cardinality(batch[r]) - 1
    <3>1. IsFiniteSet(batch[r])
      BY <1>2, WeightType
    <3>2. Cardinality(batch[r] \ {t}) = Cardinality(batch[r]) - 1
      BY <1>5, <3>1, FS_RemoveElement
    <3> QED BY <1>7, <3>2
  <2>6. \A s \in Reapers : v[s] = w[s]
    <3>1. Cardinality(batch[r]) \in Nat /\ Done(r) \in Nat
      BY <1>2, WeightType
    <3>2. v[r] = w[r]
      BY <2>2, <2>3, <2>4, <2>5, <3>1
    <3>3. ASSUME NEW s \in Reapers, s # r PROVE v[s] = w[s]
      BY <1>7, <2>2, <2>3, <2>4, <3>3
    <3> QED BY <3>2, <3>3
  <2>7. Total(v, Reapers) = Total(w, Reapers)
    BY <2>6, TotalKept
  <2>8. count' = count /\ Uncounted' = Uncounted
    BY <1>2, <1>4 DEF Advance, Uncounted
  <2> QED BY <1>1, <2>1, <2>7, <2>8 DEF Balanced, Lists
<1>13. LostInv(queue, batch2)'
  <2>1. failures' = failures /\ failures \in Nat
    BY <1>2, ConstantsOK DEF Advance
  <2>2. \A m \in live' : m \in Given(queue, batch) => m \in Given(queue, batch2)'
    <3>1. t \notin live
      BY <1>2, <1>3 DEF ReapInv
    <3> QED BY <1>4, <1>7, <3>1 DEF Given, Claiming
  <2> QED BY <1>1, <1>2, <1>4, <2>1, <2>2, LostKept DEF Lists
<1> QED BY <1>6, <1>9, <1>10, <1>11, <1>12, <1>13 DEF Listing, Lists

LEMMA ListingNext == IInv /\ [Next]_vars => Listing'
<1> SUFFICES ASSUME IInv, [Next]_vars PROVE Listing'
  OBVIOUS
<1>1. ASSUME NEW p \in Callers, CallerStep(p) \/ Return(p) \/ \E t \in Threads : Submit(p, t)
      PROVE  Listing'
  BY <1>1, CallerLists, LinkLists, SetTailLists
<1>2. ASSUME NEW r \in Reapers, ReaperStep(r) PROVE Listing'
  BY <1>2, ReaperLists, TakeHeadLists, ClearTailLists, DequeueUnlockLists, ReapLists,
     AdvanceLists DEF ReaperStep
<1>3. CASE Resting \/ UNCHANGED vars
  <2> USE DEF descVars, queueVars, listVars, callerVars, reaperVars
  <2>1. UNCHANGED <<state, live, stack, head, tail, next, pc, arg, rpc, current>>
    BY <1>3 DEF Resting, vars
  <2>2. count' = count /\ processed' = processed
    BY <1>3 DEF Resting, vars
  <2>3. \A r \in Reapers : HasBatch(r)' <=> HasBatch(r)
    BY <2>1 DEF HasBatch
  <2>4. ASSUME NEW linked, NEW rank, NEW queue, NEW batch, Lists(linked, rank, queue, batch)
        PROVE  Balanced(queue, batch)'
    BY <2>1, <2>2, <2>4, BalancedKept DEF Lists, Done
  <2>5. Listing /\ TypeOK
    BY DEF IInv
  <2>6. ASSUME NEW linked, NEW rank, NEW queue, NEW batch, Lists(linked, rank, queue, batch)
        PROVE  LostInv(queue, batch)'
    <3>1. failures' = failures /\ failures \in Nat
      BY <1>3, <2>5, ConstantsOK DEF Resting, vars, envVars, TypeOK, QueueTypeOK
    <3>2. Given(queue, batch)' = Given(queue, batch)
      BY <2>1 DEF Given, Claiming
    <3> QED BY <2>1, <2>5, <2>6, <3>1, <3>2, LostKept DEF Lists
  <2> QED BY <2>1, <2>3, <2>4, <2>5, <2>6, QuietLists DEF Claiming
<1> QED BY <1>1, <1>2, <1>3 DEF Next

-----------------------------------------------------------------------------
(* The wake up call and the number of reapers                              *)

LEMMA WakeNext == IInv /\ [Next]_vars => WakeInv'
<1> SUFFICES ASSUME IInv, [Next]_vars PROVE WakeInv'
  OBVIOUS
<1> USE DEF descVars, queueVars, listVars, callerVars, reaperVars, envVars, TypeOK, QueueTypeOK
<1>1. TypeOK /\ WakeInv
  BY DEF IInv
<1>2. ASSUME NEW p \in Callers, CallerStep(p) PROVE WakeInv'
  <2> USE <1>1 DEF WakeInv, Asleep, Goto, RGoto, Fail
  <2>1. CASE StartReaper(p)
    BY <2>1 DEF StartReaper
  <2>2. CASE CloneReaper(p)
    BY <2>2 DEF CloneReaper
  <2>3. CASE MapReaperFails(p)
    BY <2>3 DEF MapReaperFails
  <2>4. CASE CloneReaperFails(p)
    BY <2>4 DEF CloneReaperFails
  <2>5. CASE ResetAgain(p)
    BY <2>5 DEF ResetAgain
  <2>6. CASE AllocNode(p)
    BY <2>6 DEF AllocNode
  <2>7. CASE AllocNodeFails(p)
    BY <2>7 DEF AllocNodeFails
  <2>8. CASE EnqueueLock(p)
    BY <2>8 DEF EnqueueLock
  <2>9. CASE Link(p)
    BY <2>9 DEF Link
  <2>10. CASE SetTail(p)
    BY <2>10 DEF SetTail
  <2>11. CASE EnqueueUnlock(p)
    BY <2>11 DEF EnqueueUnlock
  <2>12. CASE AddCount(p)
    BY <2>12 DEF AddCount
  <2>13. CASE WakeReaper(p)
    BY <2>13 DEF WakeReaper
  <2> QED BY <1>2, <2>1, <2>2, <2>3, <2>4, <2>5, <2>6, <2>7, <2>8, <2>9, <2>10, <2>11,
      <2>12, <2>13 DEF CallerStep
<1>3. ASSUME NEW r \in Reapers, ReaperStep(r) PROVE WakeInv'
  <2> USE <1>1 DEF WakeInv, Asleep, RGoto
  <2>1. CASE LoadCount(r)
    BY <2>1 DEF LoadCount
  <2>2. CASE WaitCount(r)
    BY <2>2 DEF WaitCount
  <2>3. CASE DequeueLock(r)
    BY <2>3 DEF DequeueLock
  <2>4. CASE TakeHead(r)
    BY <2>4 DEF TakeHead
  <2>5. CASE ClearTail(r)
    BY <2>5 DEF ClearTail
  <2>6. CASE DequeueUnlock(r)
    BY <2>6 DEF DequeueUnlock
  <2>7. CASE Reap(r)
    BY <2>7 DEF Reap
  <2>8. CASE UnmapStack(r)
    BY <2>8 DEF UnmapStack
  <2>9. CASE FreeThread(r)
    BY <2>9 DEF FreeThread
  <2>10. CASE Advance(r)
    BY <2>10 DEF Advance
  <2>11. CASE SubCount(r)
    BY <2>11 DEF SubCount
  <2> QED BY <1>3, <2>1, <2>2, <2>3, <2>4, <2>5, <2>6, <2>7, <2>8, <2>9, <2>10, <2>11 DEF
      ReaperStep
<1>4. ASSUME NEW p \in Callers, NEW t \in Threads, Submit(p, t) PROVE WakeInv'
  BY <1>1, <1>4 DEF Submit, Claim, WakeInv, Asleep, Goto
<1>5. ASSUME NEW p \in Callers, Return(p) PROVE WakeInv'
  BY <1>1, <1>5 DEF Return, WakeInv, Asleep, Goto
<1>6. CASE Resting \/ UNCHANGED vars
  BY <1>1, <1>6 DEF Resting, vars, WakeInv, Asleep, Goto
<1> QED BY <1>2, <1>3, <1>4, <1>5, <1>6 DEF Next

LEMMA BoundTypes ==
    ASSUME TypeOK
    PROVE  /\ IsFiniteSet(Born) /\ IsFiniteSet(Cloning) /\ IsFiniteSet(Resetting)
           /\ Cardinality(Born) \in Nat /\ Cardinality(Cloning) \in Nat
           /\ Cardinality(Resetting) \in Nat
           /\ failures \in Nat
<1>1. IsFiniteSet(Born) /\ IsFiniteSet(Cloning) /\ IsFiniteSet(Resetting)
  BY ConstantsOK, FS_Subset DEF Born, Cloning, Resetting
<1>2. failures \in Nat
  BY ConstantsOK DEF TypeOK, QueueTypeOK
<1> QED BY <1>1, <1>2, FS_CardinalityType

\* Each failing call pays for the start it lets another caller make.
LEMMA BoundNext == IInv /\ [Next]_vars => BoundInv'
<1> SUFFICES ASSUME IInv, [Next]_vars PROVE BoundInv'
  OBVIOUS
<1> USE DEF descVars, queueVars, listVars, callerVars, reaperVars, envVars
<1>1. TypeOK /\ BoundInv
  BY DEF IInv
<1>2. /\ IsFiniteSet(Born) /\ IsFiniteSet(Cloning) /\ IsFiniteSet(Resetting)
      /\ Cardinality(Born) \in Nat /\ Cardinality(Cloning) \in Nat
      /\ Cardinality(Resetting) \in Nat
      /\ failures \in Nat
  BY <1>1, BoundTypes
<1>3. /\ rpc \in [Reapers -> ReaperPCs] /\ pc \in [Callers -> CallerPCs]
      /\ reaper_started \in BOOLEAN
  BY <1>1 DEF TypeOK, QueueTypeOK
<1>4. ASSUME /\ Born' = Born /\ Cloning' = Cloning /\ Resetting' = Resetting
             /\ reaper_started' = reaper_started /\ failures' = failures
      PROVE  BoundInv'
  BY <1>1, <1>4 DEF BoundInv
<1>5. ASSUME NEW p \in Callers, StartReaper(p) PROVE BoundInv'
  <2>1. CASE reaper_started
    <3>1. /\ reaper_started' = reaper_started /\ failures' = failures
          /\ Born' = Born /\ Cloning' = Cloning /\ Resetting' = Resetting
      BY <1>3, <1>5, <2>1 DEF StartReaper, Goto, Born, Cloning, Resetting
    <3> QED BY <1>4, <3>1
  <2>2. CASE ~ reaper_started
    <3>1. /\ reaper_started' = TRUE /\ failures' = failures
          /\ Born' = Born /\ Resetting' = Resetting
          /\ Cloning' = Cloning \cup {p} /\ p \notin Cloning
      BY <1>3, <1>5, <2>2 DEF StartReaper, Goto, Born, Cloning, Resetting
    <3>2. Cardinality(Cloning') = Cardinality(Cloning) + 1
      BY <1>2, <3>1, FS_AddElement
    <3> QED BY <1>1, <1>2, <2>2, <3>1, <3>2 DEF BoundInv
  <2> QED BY <2>1, <2>2
<1>6. ASSUME NEW p \in Callers, CloneReaper(p) PROVE BoundInv'
  <2>1. PICK r \in Reapers : rpc[r] = "unborn" /\ rpc' = [rpc EXCEPT ![r] = "load"]
    BY <1>6 DEF CloneReaper, RGoto
  <2>2. /\ reaper_started' = reaper_started /\ failures' = failures
        /\ Resetting' = Resetting /\ Cloning' = Cloning \ {p} /\ p \in Cloning
    BY <1>3, <1>6 DEF CloneReaper, Goto, Cloning, Resetting
  <2>3. Born' = Born \cup {r} /\ r \notin Born
    BY <1>3, <2>1 DEF Born
  <2>4. Cardinality(Born') = Cardinality(Born) + 1
    BY <1>2, <2>3, FS_AddElement
  <2>5. Cardinality(Cloning') = Cardinality(Cloning) - 1
    BY <1>2, <2>2, FS_RemoveElement
  <2> QED BY <1>1, <1>2, <2>2, <2>4, <2>5 DEF BoundInv
<1>7. ASSUME NEW p \in Callers, MapReaperFails(p) PROVE BoundInv'
  <2>1. /\ reaper_started' = FALSE /\ failures' = failures + 1
        /\ Born' = Born /\ Resetting' = Resetting
        /\ Cloning' = Cloning \ {p} /\ p \in Cloning
    BY <1>3, <1>7 DEF MapReaperFails, Fail, Goto, Born, Cloning, Resetting
  <2>2. Cardinality(Cloning') = Cardinality(Cloning) - 1
    BY <1>2, <2>1, FS_RemoveElement
  <2> QED BY <1>1, <1>2, <2>1, <2>2 DEF BoundInv
<1>8. ASSUME NEW p \in Callers, CloneReaperFails(p) PROVE BoundInv'
  <2>1. /\ reaper_started' = FALSE /\ failures' = failures + 1
        /\ Born' = Born /\ Resetting' = Resetting \cup {p} /\ p \notin Resetting
        /\ Cloning' = Cloning \ {p} /\ p \in Cloning
    BY <1>3, <1>8 DEF CloneReaperFails, Fail, Goto, Born, Cloning, Resetting
  <2>2. Cardinality(Cloning') = Cardinality(Cloning) - 1
    BY <1>2, <2>1, FS_RemoveElement
  <2>3. Cardinality(Resetting') = Cardinality(Resetting) + 1
    BY <1>2, <2>1, FS_AddElement
  <2> QED BY <1>1, <1>2, <2>1, <2>2, <2>3 DEF BoundInv
<1>9. ASSUME NEW p \in Callers, ResetAgain(p) PROVE BoundInv'
  <2>1. /\ reaper_started' = FALSE /\ failures' = failures
        /\ Born' = Born /\ Cloning' = Cloning
        /\ Resetting' = Resetting \ {p} /\ p \in Resetting
    BY <1>3, <1>9 DEF ResetAgain, Goto, Born, Cloning, Resetting
  <2>2. Cardinality(Resetting') = Cardinality(Resetting) - 1
    BY <1>2, <2>1, FS_RemoveElement
  <2> QED BY <1>1, <1>2, <2>1, <2>2 DEF BoundInv
<1>10. ASSUME NEW p \in Callers, AllocNodeFails(p) PROVE BoundInv'
  <2>1. /\ reaper_started' = reaper_started /\ failures' = failures + 1
        /\ Born' = Born /\ Cloning' = Cloning /\ Resetting' = Resetting
    BY <1>3, <1>10 DEF AllocNodeFails, Fail, Goto, Born, Cloning, Resetting
  <2> QED BY <1>1, <1>2, <2>1 DEF BoundInv
<1>11. ASSUME NEW p \in Callers,
              \/ AllocNode(p) \/ EnqueueLock(p) \/ Link(p) \/ SetTail(p) \/ EnqueueUnlock(p)
              \/ AddCount(p) \/ WakeReaper(p) \/ Return(p) \/ \E t \in Threads : Submit(p, t)
       PROVE  BoundInv'
  <2>1. reaper_started' = reaper_started /\ failures' = failures
    BY <1>11 DEF AllocNode, EnqueueLock, Link, SetTail, EnqueueUnlock, AddCount, WakeReaper,
                 Return, Submit, Claim
  <2>2. Cloning' = Cloning /\ Resetting' = Resetting
    BY <1>3, <1>11 DEF AllocNode, EnqueueLock, Link, SetTail, EnqueueUnlock, AddCount,
                       WakeReaper, Return, Submit, Claim, Goto, Cloning, Resetting
  <2>3. Born' = Born
    <3>1. CASE WakeReaper(p)
      BY <1>3, <3>1 DEF WakeReaper, Asleep, RGoto, Born
    <3>2. CASE ~ WakeReaper(p)
      BY <1>11, <3>2 DEF AllocNode, EnqueueLock, Link, SetTail, EnqueueUnlock, AddCount,
                         Return, Submit, Claim, Born
    <3> QED BY <3>1, <3>2
  <2> QED BY <1>4, <2>1, <2>2, <2>3
<1>12. ASSUME NEW r \in Reapers, ReaperStep(r) PROVE BoundInv'
  <2>1. /\ reaper_started' = reaper_started /\ failures' = failures
        /\ Cloning' = Cloning /\ Resetting' = Resetting
    BY <1>12 DEF ReaperStep, LoadCount, WaitCount, DequeueLock, TakeHead, ClearTail,
      DequeueUnlock, Reap, UnmapStack, FreeThread, Advance, SubCount, Cloning, Resetting
  <2>2. /\ rpc[r] # "unborn" /\ rpc'[r] # "unborn"
        /\ \A s \in Reapers \ {r} : rpc'[s] = rpc[s]
    BY <1>3, <1>12 DEF ReaperStep, LoadCount, WaitCount, DequeueLock, TakeHead, ClearTail,
      DequeueUnlock, Reap, UnmapStack, FreeThread, Advance, SubCount, RGoto
  <2>3. Born' = Born
    BY <2>2 DEF Born
  <2> QED BY <1>4, <2>1, <2>3
<1>13. CASE Resting \/ UNCHANGED vars
  <2>1. UNCHANGED <<rpc, pc, reaper_started, failures>>
    BY <1>13 DEF Resting, vars
  <2> QED BY <1>4, <2>1 DEF Born, Cloning, Resetting
<1> QED BY <1>5, <1>6, <1>7, <1>8, <1>9, <1>10, <1>11, <1>12, <1>13 DEF Next, CallerStep

-----------------------------------------------------------------------------
(* The theorems                                                            *)

LEMMA IInit == Init => IInv
<1> SUFFICES ASSUME Init PROVE IInv
  OBVIOUS
<1>1. TypeOK
  BY TypeInit
<1>2. LockInv /\ ClaimInv /\ ReapInv
  BY DEF Init, InitQueue, LockInv, Holds, RHolds, ClaimInv, Claiming, Starting, Fresh,
         ReapInv, Reaping
<1>3. Listing
  <2> DEFINE rank  == [t \in Threads |-> 0]
             batch == [r \in Reapers |-> {}]
  <2>1. Ranked({}, rank)
    BY DEF Init, Ranked
  <2>2. Listed({}, rank, {}, batch)
    BY DEF Init, InitQueue, Listed, IsList, HasBatch, Reaping
  <2>3. EndInv({}, rank, {})
    BY DEF Init, InitQueue, EndInv
  <2>4. FreshInv({}, batch)
    BY DEF FreshInv
  <2>5. Balanced({}, batch)
    <3>1. \A r \in Reapers : Weight(batch)[r] = 0
      BY FS_EmptySet DEF Init, InitQueue, Weight, Done
    <3>2. Units(Weight(batch), Reapers) = {}
      BY <3>1 DEF Units
    <3>3. Uncounted = {} /\ count = 0
      BY DEF Init, InitQueue, Uncounted
    <3> QED BY <3>2, <3>3, FS_EmptySet DEF Balanced, Total
  <2>6. LostInv({}, batch)
    <3>1. Lost({}, batch) = {} /\ failures = 0
      BY DEF Init, InitQueue, Lost
    <3> QED BY <3>1, FS_EmptySet DEF LostInv
  <2> QED BY <2>1, <2>2, <2>3, <2>4, <2>5, <2>6 DEF Listing, Lists
<1>4. WakeInv
  BY DEF Init, InitQueue, WakeInv, Asleep
<1>5. BoundInv
  <2>1. Born = {} /\ Cloning = {} /\ Resetting = {} /\ failures = 0
    BY DEF Init, InitQueue, Born, Cloning, Resetting
  <2> QED BY <2>1, FS_EmptySet DEF BoundInv
<1> QED BY <1>1, <1>2, <1>3, <1>4, <1>5 DEF IInv

\* What a caller does elsewhere leaves the queue as it is.
LEMMA ElsewhereInv == ASSUME IInv, NEW p \in Callers, Elsewhere(p) PROVE IInv'
<1> USE DEF descVars, queueVars, reaperVars, Goto
<1>1. /\ TypeOK /\ LockInv /\ ClaimInv /\ ReapInv /\ Listing /\ WakeInv /\ BoundInv
      /\ pc \in [Callers -> CallerPCs] /\ arg \in [Callers -> Threads \cup {NULL}]
  BY DEF IInv, TypeOK
<1>2. /\ UNCHANGED <<state, live, stack, reaper_started, head, tail, next, count, lock,
                     rpc, current, processed>>
      /\ \A q \in Callers : q # p => pc'[q] = pc[q] /\ arg'[q] = arg[q]
      /\ pc[p] \in {"idle", "returned"} /\ pc'[p] \in {"idle", "returned"}
      /\ pc' \in [Callers -> CallerPCs] /\ arg' \in [Callers -> Threads \cup {NULL}]
      /\ errno' \in Errors
  BY <1>1 DEF Elsewhere, CallerPCs
<1>3. failures \in Nat /\ failures' \in 0 .. MaxFail /\ failures' \in Nat /\ failures <= failures'
  BY <1>1, ConstantsOK DEF Elsewhere, TypeOK, QueueTypeOK
<1>4. TypeOK'
  BY <1>1, <1>2, <1>3 DEF TypeOK, QueueTypeOK
<1>5. LockInv' /\ ReapInv'
  BY <1>1, <1>2 DEF LockInv, Holds, RHolds, ReapInv, Reaping
<1>6. ClaimInv'
  BY <1>1, <1>2 DEF ClaimInv, Claiming, Starting, Fresh
<1>7. Listing'
  <2>1. \A q \in Callers : Claiming(q)' <=> Claiming(q)
    BY <1>2 DEF Claiming, Starting
  <2>2. \A q \in Callers : Claiming(q) => arg'[q] = arg[q]
    BY <1>2 DEF Claiming, Starting
  <2>3. \A r \in Reapers : /\ HasBatch(r)' <=> HasBatch(r)
                           /\ Done(r)' = Done(r)
    BY <1>2 DEF HasBatch, Done
  <2>4. ASSUME NEW linked, NEW rank, NEW queue, NEW batch, Lists(linked, rank, queue, batch)
        PROVE  Balanced(queue, batch)' /\ LostInv(queue, batch)'
    <3>1. Balanced(queue, batch)'
      <4>1. \A q \in Callers : pc'[q] \in {"tail", "unlock", "count"} <=>
                               pc[q] \in {"tail", "unlock", "count"}
        BY <1>2
      <4>2. Balanced(queue, batch)
        BY <2>4 DEF Lists
      <4> QED BY <1>2, <2>3, <4>1, <4>2, BalancedKept
    <3>2. Given(queue, batch) \subseteq Given(queue, batch)'
      BY <2>1, <2>2 DEF Given
    <3>3. LostInv(queue, batch)'
      BY <1>1, <1>2, <1>3, <2>4, <3>2, LostKept DEF Lists
    <3> QED BY <3>1, <3>3
  <2>5. \A q \in Callers : /\ pc'[q] = "tail" <=> pc[q] = "tail"
                           /\ pc[q] = "tail" => arg'[q] = arg[q]
    BY <1>2
  <2>7. \A linked, rank : Ranked(linked, rank) =>
           /\ \A m \in linked : next'[m] = next[m]
           /\ \A q \in Callers :
                 Claiming(q)' => (Claiming(q) /\ arg'[q] = arg[q]) \/ arg'[q] \notin linked
    BY <1>2, <2>1, <2>2
  <2>8. \A t \in Threads : /\ "QUEUED" \in state[t] => "QUEUED" \in state'[t]
                           /\ "REAPED" \in state'[t] <=> "REAPED" \in state[t]
    BY <1>2
  <2>9. \A r \in Reapers : /\ HasBatch(r)' <=> HasBatch(r)
                           /\ rpc'[r] = "clear" <=> rpc[r] = "clear"
                           /\ rpc[r] \in {"unmap", "free", "advance"} =>
                                 rpc'[r] \in {"unmap", "free", "advance"}
    BY <1>2, <2>3
  <2>10. UNCHANGED <<head, tail, current, live, stack>>
    BY <1>2
  <2> QED BY <1>1, <2>4, <2>5, <2>7, <2>8, <2>9, <2>10, QuietLists
<1>8. WakeInv'
  BY <1>1, <1>2 DEF WakeInv, Asleep
<1>9. BoundInv'
  <2>1. Born' = Born /\ Cloning' = Cloning /\ Resetting' = Resetting
    BY <1>2 DEF Born, Cloning, Resetting
  <2> QED BY <1>1, <1>2, <1>3, <2>1, BoundTypes DEF BoundInv
<1> QED BY <1>4, <1>5, <1>6, <1>7, <1>8, <1>9 DEF IInv

LEMMA NextInv == IInv /\ [Next]_vars => IInv'
  BY TypeNext, LockNext, ClaimNext, ReapNext, ListingNext, WakeNext, BoundNext DEF IInv

LEMMA Inductive == Safe => []IInv
  BY IInit, NextInv, PTL DEF Safe

\* The same invariant, whatever the callers do elsewhere.
LEMMA InductiveInProgram == InProgram => []IInv
<1>1. IInv /\ [NextInProgram]_vars => IInv'
  BY NextInv, ElsewhereInv DEF NextInProgram
<1> QED BY <1>1, IInit, PTL DEF InProgram

\* The type invariant; the spinlock excludes (reap_enqueue, reap_dequeue).
THEOREM TypeCorrect == Safe => []TypeOK
<1>1. IInv => TypeOK
  BY DEF IInv
<1> QED BY Inductive, <1>1, PTL

-----------------------------------------------------------------------------
(* The nodes of a chain                                                    *)

\* The recursion of Chain defines the nodes reached in each number of steps.
Reaches(reach, n) ==
    /\ reach \in [Nat -> SUBSET Threads]
    /\ reach[0] = {n} \ {NULL}
    /\ \A k \in Nat : reach[k+1] = reach[k] \cup ({next[m] : m \in reach[k]} \ {NULL})
    /\ Chain(n) = reach[N]

LEMMA ChainUnfolds ==
    ASSUME TypeOK, NEW n \in Threads \cup {NULL}
    PROVE  \E reach : Reaches(reach, n)
<1>1. next \in [Threads -> Threads \cup {NULL}]
  BY DEF TypeOK, QueueTypeOK
<1> DEFINE More(S) == S \cup ({next[m] : m \in S} \ {NULL})
           reach[k \in Nat] ==
              IF k = 0 THEN {n} \ {NULL}
              ELSE reach[k-1] \cup ({next[m] : m \in reach[k-1]} \ {NULL})
           step(f) == [k \in Nat |->
              IF k = 0 THEN {n} \ {NULL}
              ELSE f[k-1] \cup ({next[m] : m \in f[k-1]} \ {NULL})]
<1>2. \E f : f = step(f) /\ f \in [Nat -> SUBSET Threads]
  <2> DEFINE V == SUBSET Threads
             g == [p \in V \X Nat |-> More(p[1])]
  <2>1. \A S \in V : More(S) \in V
    BY <1>1
  <2>2. ({n} \ {NULL}) \in V
    OBVIOUS
  <2> HIDE DEF V, More
  <2>3. g \in [V \X Nat -> V] /\ \A S \in V, k \in Nat : g[<<S, k>>] = More(S)
    BY <2>1
  <2> HIDE DEF g
  <2>4. PICK f \in [Nat -> V] : f[0] = {n} \ {NULL} /\ \A k \in Nat : f[k+1] = More(f[k])
    <3>1. PICK f : IsRecursion(f, V, {n} \ {NULL}, g)
      BY <2>2, <2>3, Recursion
    <3>2. /\ f \in [Nat -> V] /\ f[0] = {n} \ {NULL}
          /\ \A k \in Nat : f[k+1] = g[<<f[k], k>>]
      BY <3>1 DEF IsRecursion
    <3>3. ASSUME NEW k \in Nat PROVE f[k+1] = More(f[k])
      <4>1. f[k] \in V
        BY <3>2
      <4> QED BY <2>3, <3>2, <4>1
    <3> QED BY <3>2, <3>3
  <2>5. ASSUME NEW k \in Nat
        PROVE  f[k] = IF k = 0 THEN {n} \ {NULL}
                      ELSE f[k-1] \cup ({next[m] : m \in f[k-1]} \ {NULL})
    <3>1. CASE k = 0
      BY <2>4, <3>1
    <3>2. CASE k # 0
      <4>1. k - 1 \in Nat /\ (k - 1) + 1 = k
        BY <3>2
      <4>2. f[k] = More(f[k-1])
        BY <2>4, <4>1
      <4> QED BY <3>2, <4>2 DEF More
    <3> QED BY <3>1, <3>2
  <2>6. f = step(f)
    BY <2>4, <2>5
  <2> QED BY <2>4, <2>6 DEF V
<1>3. reach = step(reach)
  BY <1>2
<1>4. Chain(n) = reach[N]
  BY DEF Chain
<1> HIDE DEF reach
<1>5. /\ \A k \in Nat : reach[k] = IF k = 0 THEN {n} \ {NULL}
                                   ELSE reach[k-1] \cup ({next[m] : m \in reach[k-1]} \ {NULL})
      /\ DOMAIN reach = Nat
  BY <1>3
<1>6. \A k \in Nat : reach[k+1] = reach[k] \cup ({next[m] : m \in reach[k]} \ {NULL})
  <2>1. \A k \in Nat : k + 1 \in Nat /\ k + 1 # 0 /\ (k + 1) - 1 = k
    OBVIOUS
  <2> QED BY <1>5, <2>1
<1> DEFINE T == {k \in Nat : reach[k] \subseteq Threads}
<1>7. 0 \in T
  BY <1>5
<1>8. ASSUME NEW k \in T PROVE k + 1 \in T
  BY <1>1, <1>6
<1> HIDE DEF T
<1>9. T = Nat
  BY <1>7, <1>8, SetInduction DEF T
<1>10. reach \in [Nat -> SUBSET Threads]
  <2>1. \A k \in Nat : reach[k] \in SUBSET Threads
    BY <1>9 DEF T
  <2>2. reach = [k \in Nat |-> reach[k]]
    BY <1>3
  <2> QED BY <2>1, <2>2
<1>11. reach[0] = {n} \ {NULL}
  BY <1>5
<1> QED BY <1>4, <1>6, <1>10, <1>11 DEF Reaches

\* Chain finds the nodes of a list, and no others.
LEMMA ChainIs ==
    ASSUME TypeOK, NEW linked, NEW rank, NEW nodes \in SUBSET linked,
           NEW n \in Threads \cup {NULL}, Ranked(linked, rank), IsList(n, nodes, rank)
    PROVE  Chain(n) = nodes
<1>1. PICK reach : Reaches(reach, n)
  BY ChainUnfolds
<1>2. /\ linked \subseteq Threads /\ rank \in [Threads -> Nat] /\ NULL \notin Threads
      /\ next \in [Threads -> Threads \cup {NULL}]
  BY ConstantsOK DEF Ranked, TypeOK, QueueTypeOK
<1>3. N \in Nat /\ Cardinality(linked) \in Nat /\ Cardinality(linked) <= N
  BY <1>2, ConstantsOK, FS_Subset, FS_CardinalityType DEF N
<1>4. reach[N] \subseteq nodes
  <2> DEFINE T == {k \in Nat : reach[k] \subseteq nodes}
  <2>1. 0 \in T
    BY <1>1, <1>2 DEF Reaches, IsList
  <2>2. ASSUME NEW k \in T PROVE k + 1 \in T
    <3>1. reach[k+1] = reach[k] \cup ({next[m] : m \in reach[k]} \ {NULL})
      BY <1>1 DEF Reaches
    <3>2. \A m \in nodes : next[m] # NULL => next[m] \in nodes
      BY DEF IsList
    <3> QED BY <3>1, <3>2
  <2> HIDE DEF T
  <2>3. T = Nat
    BY <2>1, <2>2, SetInduction DEF T
  <2> QED BY <1>3, <2>3 DEF T
<1>5. ASSUME n # NULL PROVE nodes \subseteq reach[N]
  <2> DEFINE Near(k) == \A m \in nodes : rank[m] <= rank[n] + k => m \in reach[k]
             Far(k)  == \A m \in nodes : rank[m] >= rank[n] + k =>
                           \E x \in nodes : rank[x] = rank[n] + k
             T == {k \in Nat : Near(k) /\ Far(k)}
  <2>1. n \in nodes /\ \A m \in nodes : rank[m] \in Nat /\ rank[n] <= rank[m]
    BY <1>2, <1>5 DEF IsList
  <2>2. \A m, x \in nodes : rank[m] = rank[x] => m = x
    BY DEF Ranked
  <2>3. 0 \in T
    <3>1. Far(0)
      BY <2>1
    <3>2. ASSUME NEW m \in nodes, rank[m] <= rank[n] + 0 PROVE m \in reach[0]
      <4>1. m = n
        BY <2>1, <2>2, <3>2
      <4> QED BY <1>1, <1>5, <4>1 DEF Reaches
    <3> QED BY <3>1, <3>2
  <2>4. ASSUME NEW k \in T PROVE k + 1 \in T
    <3>0. k \in Nat /\ Near(k) /\ Far(k)
      OBVIOUS
    <3>1. reach[k+1] = reach[k] \cup ({next[m] : m \in reach[k]} \ {NULL})
      BY <1>1 DEF Reaches
    <3>2. ASSUME NEW m \in nodes, rank[m] >= rank[n] + (k + 1)
          PROVE  \E x \in nodes : /\ x \in reach[k] /\ next[x] \in nodes
                                  /\ rank[next[x]] = rank[n] + (k + 1)
      <4>1. PICK x \in nodes : rank[x] = rank[n] + k
        BY <2>1, <3>0, <3>2
      <4>2. x \in reach[k]
        BY <2>1, <3>0, <4>1
      <4>3. next[x] # NULL
        BY <2>1, <3>2, <4>1 DEF IsList
      <4>4. next[x] \in nodes /\ rank[next[x]] = rank[x] + 1
        BY <4>3 DEF IsList
      <4> QED BY <2>1, <4>1, <4>2, <4>4
    <3>3. Far(k+1)
      BY <3>2
    <3>4. ASSUME NEW m \in nodes, rank[m] <= rank[n] + (k + 1) PROVE m \in reach[k+1]
      <4>1. CASE rank[m] <= rank[n] + k
        BY <3>0, <3>1, <4>1
      <4>2. CASE ~ (rank[m] <= rank[n] + k)
        <5>1. rank[m] = rank[n] + (k + 1)
          BY <2>1, <3>4, <4>2
        <5>2. PICK x \in nodes : /\ x \in reach[k] /\ next[x] \in nodes
                                 /\ rank[next[x]] = rank[n] + (k + 1)
          BY <2>1, <3>2, <5>1
        <5>3. m = next[x]
          BY <2>2, <5>1, <5>2
        <5> QED BY <1>2, <3>1, <5>2, <5>3
      <4> QED BY <4>1, <4>2
    <3> QED BY <3>3, <3>4
  <2> HIDE DEF T
  <2>5. T = Nat
    BY <2>3, <2>4, SetInduction DEF T
  <2>6. ASSUME NEW m \in nodes PROVE rank[m] <= rank[n] + N
    BY <1>2, <1>3, <2>1 DEF Ranked
  <2> QED BY <1>3, <2>5, <2>6 DEF T
<1>6. n = NULL => nodes = {}
  BY DEF IsList
<1>7. Chain(n) = reach[N]
  BY <1>1 DEF Reaches
<1>8. nodes \subseteq reach[N]
  BY <1>5, <1>6
<1> QED BY <1>4, <1>7, <1>8

\* So the queue and the batches are what Chain says they are.
LEMMA ListsAre ==
    ASSUME TypeOK, NEW linked, NEW rank, NEW queue, NEW batch,
           Ranked(linked, rank), Listed(linked, rank, queue, batch)
    PROVE  Chain(head) = queue /\ \A r \in Reapers : Batch(r) = batch[r]
<1>1. Chain(head) = queue
  BY ChainIs DEF Listed, TypeOK, QueueTypeOK
<1>2. ASSUME NEW r \in Reapers, HasBatch(r) PROVE Batch(r) = batch[r]
  <2>1. batch[r] \in SUBSET linked /\ IsList(current[r], batch[r], rank)
    BY <1>2 DEF Listed
  <2>2. current[r] \in Threads \cup {NULL}
    BY DEF TypeOK, QueueTypeOK
  <2>3. Chain(current[r]) = batch[r]
    BY <2>1, <2>2, ChainIs
  <2> QED BY <1>2, <2>3 DEF Batch, HasBatch, Reaping
<1>3. ASSUME NEW r \in Reapers, ~ HasBatch(r) PROVE Batch(r) = batch[r]
  BY <1>3 DEF Listed, Batch, HasBatch, Reaping
<1> QED BY <1>1, <1>2, <1>3

LEMMA OwnedHere == IInv => OwnedOnce
<1> SUFFICES ASSUME IInv PROVE OwnedOnce
  OBVIOUS
<1>1. PICK linked, rank, queue, batch : Lists(linked, rank, queue, batch)
  BY DEF IInv, Listing
<1>2. /\ TypeOK /\ Ranked(linked, rank) /\ Listed(linked, rank, queue, batch)
      /\ FreshInv(queue, batch)
  BY <1>1 DEF IInv, Lists
<1>3. Chain(head) = queue /\ \A r \in Reapers : Batch(r) = batch[r]
  BY <1>2, ListsAre
<1>4. \A r \in Reapers : /\ Chain(head) \cap Batch(r) = {}
                         /\ \A q \in Reapers \ {r} : Batch(q) \cap Batch(r) = {}
  BY <1>2, <1>3 DEF Listed
<1>5. ASSUME NEW t \in Chain(head) \cup UNION {Batch(r) : r \in Reapers}
      PROVE  \/ t \in live \cap stack /\ "REAPED" \notin state[t]
             \/ \E r \in Reapers : /\ current[r] = t
                                   /\ rpc[r] \in {"unmap", "free", "advance"}
  <2>1. CASE t \in queue
    BY <1>2, <2>1 DEF FreshInv, Fresh
  <2>2. ASSUME NEW r \in Reapers, t \in batch[r]
        PROVE  \/ t \in live \cap stack /\ "REAPED" \notin state[t]
               \/ current[r] = t /\ rpc[r] \in {"unmap", "free", "advance"}
    BY <1>2, <2>2 DEF FreshInv, Fresh
  <2> QED BY <1>3, <2>1, <2>2
<1> QED BY <1>4, <1>5 DEF OwnedOnce

\* A descriptor is in the queue or in one reaper's batch, never in two places,
\* and nobody has unmapped, reaped or freed it there but the reaper at work on it
\* (reap_enqueue, reap_dequeue, reaper_main).
THEOREM OneOwner == Safe => []OwnedOnce
  BY Inductive, OwnedHere, PTL

-----------------------------------------------------------------------------
(* The counter                                                             *)

\* The sum of CountBalance is the total of the weights: the recursion of
\* MapThenSumSet takes one reaper off at each step, whichever it chooses.
LEMMA SumIsTotal ==
    ASSUME NEW w, \A r \in Reapers : w[r] \in Nat /\ w[r] = Cardinality(Batch(r)) + Done(r)
    PROVE  MapThenSumSet(LAMBDA r : Cardinality(Batch(r)) + Done(r), Reapers) =
              Total(w, Reapers)
<1> DEFINE iter[s \in SUBSET Reapers] ==
              IF s = {} THEN 0
              ELSE LET x == CHOOSE y \in s : TRUE
                   IN  Cardinality(Batch(x)) + Done(x) + iter[s \ {x}]
           step(f) == [s \in SUBSET Reapers |->
              IF s = {} THEN 0
              ELSE LET x == CHOOSE y \in s : TRUE
                   IN  Cardinality(Batch(x)) + Done(x) + f[s \ {x}]]
           total == [s \in SUBSET Reapers |-> Total(w, s)]
<1>1. MapThenSumSet(LAMBDA r : Cardinality(Batch(r)) + Done(r), Reapers) = iter[Reapers]
  BY DEF MapThenSumSet, MapThenFoldSet
<1>2. /\ Total(w, {}) = 0
      /\ \A s \in SUBSET Reapers, x \in Reapers :
            x \in s => Total(w, s) = w[x] + Total(w, s \ {x})
  BY ConstantsOK, TotalUnfolds
<1>3. ASSUME NEW s \in SUBSET Reapers, s # {}
      PROVE  /\ (CHOOSE y \in s : TRUE) \in s
             /\ s \ {CHOOSE y \in s : TRUE} \in SUBSET Reapers
  BY <1>3
<1>4. \E f : f = step(f)
  <2> HIDE DEF iter
  <2>1. ASSUME NEW s \in SUBSET Reapers
        PROVE  Total(w, s) = IF s = {} THEN 0
                             ELSE LET x == CHOOSE y \in s : TRUE
                                  IN  Cardinality(Batch(x)) + Done(x) + total[s \ {x}]
    <3>1. CASE s = {}
      BY <1>2, <3>1
    <3>2. CASE s # {}
      <4>1. PICK x \in s : x = CHOOSE y \in s : TRUE
        BY <3>2
      <4>2. s \ {x} \in SUBSET Reapers
        OBVIOUS
      <4>3. total[s \ {x}] = Total(w, s \ {x})
        BY <4>2
      <4>4. Total(w, s) = Cardinality(Batch(x)) + Done(x) + Total(w, s \ {x})
        BY <1>2, <3>2, <4>1
      <4> QED BY <3>2, <4>1, <4>3, <4>4
    <3> QED BY <3>1, <3>2
  <2>2. total = step(total)
    BY <2>1
  <2> QED BY <2>2
<1>5. iter = step(iter)
  BY <1>4
<1> HIDE DEF iter
<1>6. iter[{}] = 0
  BY <1>5
<1>7. ASSUME NEW s \in SUBSET Reapers, s # {}
      PROVE  \E x \in s : iter[s] = w[x] + iter[s \ {x}]
  <2>1. PICK x \in s : x = CHOOSE y \in s : TRUE
    BY <1>7
  <2>2. iter[s] = Cardinality(Batch(x)) + Done(x) + iter[s \ {x}]
    BY <1>5, <1>7, <2>1
  <2> QED BY <2>2
<1> DEFINE T == {n \in Nat : \A s \in SUBSET Reapers :
                    Cardinality(s) = n => iter[s] = Total(w, s)}
<1> HIDE DEF step, total
<1>8. 0 \in T
  <2>1. \A s \in SUBSET Reapers : Cardinality(s) = 0 => s = {}
    BY ConstantsOK, FS_Subset, FS_EmptySet
  <2> QED BY <1>2, <1>6, <2>1
<1>9. ASSUME NEW n \in T PROVE n + 1 \in T
  <2>1. ASSUME NEW s \in SUBSET Reapers, Cardinality(s) = n + 1 PROVE iter[s] = Total(w, s)
    <3>1. IsFiniteSet(s) /\ s # {}
      BY <2>1, ConstantsOK, FS_Subset, FS_EmptySet
    <3>2. PICK x \in s : iter[s] = w[x] + iter[s \ {x}]
      BY <1>7, <3>1
    <3>3. Cardinality(s \ {x}) = n /\ s \ {x} \in SUBSET Reapers
      <4>1. Cardinality(s \ {x}) = Cardinality(s) - 1 /\ n \in Nat
        BY <3>1, <3>2, FS_RemoveElement
      <4> QED BY <2>1, <4>1
    <3>4. iter[s \ {x}] = Total(w, s \ {x})
      BY <3>3
    <3> QED BY <1>2, <3>2, <3>4
  <2> QED BY <2>1
<1> HIDE DEF T
<1>10. T = Nat
  BY <1>8, <1>9, SetInduction DEF T
<1>11. Cardinality(Reapers) \in T
  BY <1>10, ConstantsOK, FS_CardinalityType
<1> QED BY <1>1, <1>11 DEF T

LEMMA BalancedHere == IInv => CountBalance
<1> SUFFICES ASSUME IInv PROVE CountBalance
  OBVIOUS
<1>1. PICK linked, rank, queue, batch : Lists(linked, rank, queue, batch)
  BY DEF IInv, Listing
<1>2. /\ TypeOK /\ Ranked(linked, rank) /\ Listed(linked, rank, queue, batch)
      /\ Balanced(queue, batch)
  BY <1>1 DEF IInv, Lists
<1>3. Chain(head) = queue /\ \A r \in Reapers : Batch(r) = batch[r]
  BY <1>2, ListsAre
<1>4. \A r \in Reapers : /\ Weight(batch)[r] \in Nat
                         /\ Weight(batch)[r] = Cardinality(Batch(r)) + Done(r)
  BY <1>2, <1>3, WeightType
<1>5. MapThenSumSet(LAMBDA r : Cardinality(Batch(r)) + Done(r), Reapers) =
         Total(Weight(batch), Reapers)
  BY <1>4, SumIsTotal
<1> QED BY <1>2, <1>3, <1>5 DEF Balanced, CountBalance

\* The counter, with the nodes linked and not counted yet, equals the nodes in the
\* queue and in the reapers' hands (reap_enqueue, reaper_main).
THEOREM CounterBalances == Safe => []CountBalance
  BY Inductive, BalancedHere, PTL

LEMMA WakeUpHere == IInv => NoLostWakeup
<1> SUFFICES ASSUME IInv, Asleep # {}, Asleep = {r \in Reapers : rpc[r] # "unborn"},
                    Chain(head) # {}
             PROVE  \E p \in Callers : pc[p] \in {"tail", "unlock", "count", "wake"}
  BY DEF NoLostWakeup
<1>1. PICK linked, rank, queue, batch : Lists(linked, rank, queue, batch)
  BY DEF IInv, Listing
<1>2. /\ TypeOK /\ Ranked(linked, rank) /\ Listed(linked, rank, queue, batch)
      /\ Balanced(queue, batch)
  BY <1>1 DEF IInv, Lists
<1>3. \A r \in Reapers : rpc[r] \in {"unborn", "asleep"}
  BY DEF Asleep
<1>4. \A r \in Reapers : Weight(batch)[r] = 0
  <2>1. \A r \in Reapers : Cardinality(batch[r]) = 0 /\ Done(r) = 0
    BY <1>2, <1>3, FS_EmptySet DEF Listed, HasBatch, Reaping, Done
  <2> QED BY <2>1 DEF Weight
<1>5. Total(Weight(batch), Reapers) = 0
  <2>1. Units(Weight(batch), Reapers) = {}
    BY <1>4 DEF Units
  <2> QED BY <2>1, FS_EmptySet DEF Total
<1>6. Cardinality(queue) \in Nat /\ Cardinality(queue) # 0
  <2>1. IsFiniteSet(queue) /\ Cardinality(queue) \in Nat /\ queue # {}
    BY <1>2, WeightType, ListsAre
  <2> QED BY <2>1, FS_EmptySet
<1>7. CASE Uncounted = {}
  <2>1. count > 0
    <3>1. Cardinality(Uncounted) = 0 /\ count \in Int
      BY <1>2, <1>7, FS_EmptySet DEF TypeOK, QueueTypeOK
    <3> QED BY <1>2, <1>5, <1>6, <3>1 DEF Balanced
  <2> QED BY <1>3, <2>1 DEF IInv, WakeInv
<1>8. CASE Uncounted # {}
  BY <1>8 DEF Uncounted
<1> QED BY <1>7, <1>8

\* No wakeup is lost: while every reaper sleeps and the queue holds a node, a caller
\* is still to count its node or to wake the reaper (reap_enqueue, reaper_main).
THEOREM WakeUpToCome == Safe => []NoLostWakeup
  BY Inductive, WakeUpHere, PTL

LEMMA LostHere == IInv => LostOnlyToFailure
<1> SUFFICES ASSUME IInv PROVE LostOnlyToFailure
  OBVIOUS
<1>1. PICK linked, rank, queue, batch : Lists(linked, rank, queue, batch)
  BY DEF IInv, Listing
<1>2. /\ TypeOK /\ Ranked(linked, rank) /\ Listed(linked, rank, queue, batch)
      /\ LostInv(queue, batch)
  BY <1>1 DEF IInv, Lists
<1>3. Chain(head) = queue /\ \A r \in Reapers : Batch(r) = batch[r]
  BY <1>2, ListsAre
<1>4. UNION {Batch(r) : r \in Reapers} = UNION {batch[r] : r \in Reapers}
  BY <1>3
<1> QED BY <1>2, <1>3, <1>4 DEF LostInv, Lost, Given, Claiming, LostOnlyToFailure

\* A descriptor is lost for the reaper only to a call that fails (reap_enqueue).
THEOREM LossIsFailure == Safe => []LostOnlyToFailure
  BY Inductive, LostHere, PTL

LEMMA BoundedHere == IInv => ReaperBound
<1> SUFFICES ASSUME IInv PROVE ReaperBound
  OBVIOUS
<1>1. BoundInv /\ TypeOK
  BY DEF IInv
<1>2. /\ Cardinality(Born) \in Nat /\ Cardinality(Cloning) \in Nat
      /\ Cardinality(Resetting) \in Nat /\ failures \in Nat
  BY <1>1, BoundTypes
<1>3. Cardinality(Born) <= 1 + failures
  BY <1>1, <1>2 DEF BoundInv
<1> QED BY <1>3 DEF ReaperBound, Born

\* There is one reaper at most, and one more for each call that failed (start_reaper,
\* __reaper_cleanup_on_error).
THEOREM ReapersBounded == Safe => []ReaperBound
  BY Inductive, BoundedHere, PTL

-----------------------------------------------------------------------------
(* The queue in a program                                                  *)

\* What the component promises on its own it promises to every program whose
\* actors use it like its callers, whatever else they do.
QueueSound ==
    TypeOK /\ OwnedOnce /\ CountBalance /\ NoLostWakeup /\ LostOnlyToFailure /\ ReaperBound

\* Whatever else its callers do, the queue keeps its promises.
THEOREM SoundInProgram == InProgram => []QueueSound
<1>1. IInv => QueueSound
  BY OwnedHere, BalancedHere, WakeUpHere, LostHere, BoundedHere DEF IInv, QueueSound
<1> QED BY <1>1, InductiveInProgram, PTL

\* The descriptors in the queue and in the batches are claimed for it.
LEMMA ChainsQueued ==
    ASSUME IInv
    PROVE  \A t \in Chain(head) \cup UNION {Batch(r) : r \in Reapers} :
              t \in Threads /\ "QUEUED" \in state[t]
<1>1. PICK linked, rank, queue, batch : Lists(linked, rank, queue, batch)
  BY DEF IInv, Listing
<1>2. TypeOK /\ Ranked(linked, rank) /\ Listed(linked, rank, queue, batch)
  BY <1>1 DEF IInv, Lists
<1>3. Chain(head) = queue /\ \A r \in Reapers : Batch(r) = batch[r]
  BY <1>2, ListsAre
<1>4. queue \subseteq linked /\ \A r \in Reapers : batch[r] \subseteq linked
  BY <1>2 DEF Listed
<1>5. \A t \in linked : t \in Threads /\ "QUEUED" \in state[t]
  BY <1>2 DEF Ranked
<1> QED BY <1>3, <1>4, <1>5

=============================================================================
