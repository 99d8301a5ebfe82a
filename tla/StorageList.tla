------------------------------ MODULE StorageList ------------------------------
(***************************************************************************)
(* The singly linked storage that searching threads traverse while         *)
(* swapping threads exchange neighbouring nodes, and the main program that *)
(* builds it, starts the threads and stops them (2.3/src).  Every node has *)
(* its own lock; all threads move hand over hand, taking the lock of the   *)
(* next node before they give the previous one back.                       *)
(*                                                                         *)
(* The three builds differ in the lock: a mutex or a spinlock, which is    *)
(* held by one thread, or a read-write lock, which searchers share.        *)
(*                                                                         *)
(* Left out: the monitor and the totals it prints, a failing               *)
(* pthread_create() and a missing argument.                                *)
(***************************************************************************)
EXTENDS Integers, FiniteSets, Sequences, Functions

CONSTANTS Nodes,      \* the nodes malloc() can give, without the first one
          FIRST,      \* s->first, which carries no value
          STORAGE,    \* the Storage itself
          NULL,
          Searchers,  \* threads that run search_pairs
          Swappers,   \* threads that run swap_pairs
          Order,      \* what each searcher counts and each swapper pursues
          Length,     \* strlen(value) of each node
          Sizes,      \* the sizes given on the command line
          Builds      \* may searchers share a lock

\* generate_gandom_string takes the size of a pointer for that of the buffer.
MaxLength == 7

ASSUME StorageConstantsOK ==
    /\ IsFiniteSet(Nodes)
    /\ FIRST \notin Nodes /\ STORAGE \notin Nodes \cup {FIRST}
    /\ NULL \notin Nodes \cup {FIRST, STORAGE}
    /\ Searchers \cap Swappers = {}
    /\ \A s \in Searchers : Order[s] \in {"asc", "desc", "equal"}
    /\ \A w \in Swappers  : Order[w] \in {"asc", "desc", "not_equal"}
    /\ Length \in [Nodes -> 1 .. MaxLength]
    /\ Sizes \subseteq {n \in Int : n <= Cardinality(Nodes)}
    /\ Builds \subseteq BOOLEAN

VARIABLES
    shared,        \* the build: searchers share the lock of a node
    size,          \* argv[1], and s->size
    is_running,
    mpc,           \* control point of main
    storage, first,  \* main's s, and s->first
    heap,          \* what is allocated
    crashed,       \* the process has died of a signal
    next,          \* the next field of every node
    holders,       \* the threads that hold a node's lock
    pc,
    prev, cur,     \* prev and cur of a swapper; cur is the a of a searcher
    nxt,           \* next of a swapper, b of a searcher
    left_index, i, \* of a swapper
    visited,       \* history: the nodes a searcher has reached on its way
    cycle_pairs    \* of a searcher

buildVars  == <<storage, first, heap, next>>
mainVars   == <<shared, size, is_running, mpc, storage, first, heap, crashed>>
searchVars == <<visited, cycle_pairs>>
swapVars   == <<prev, left_index, i>>
listVars   == <<next, holders, swapVars, cur, nxt, searchVars>>
vars == <<mainVars, pc, listVars>>

Threads == Searchers \cup Swappers

SearchPCs == {"start", "lock_first", "read", "lock_next", "pass", "unlock_last", "done"}
SwapPCs   == {"start", "lock_prev", "read_cur", "lock_cur", "step", "lock_next",
              "drop_prev", "compare", "swap_prev", "swap_left", "swap_right",
              "unlock_next", "unlock_cur", "unlock_prev", "done"}
InitPCs   == {"malloc_storage", "malloc_first", "malloc_node", "destroy"}
MainPCs   == InitPCs \cup {"create", "sleep", "join", "returned"}

Goto(p, label) == pc' = [pc EXCEPT ![p] = label]

\* The nodes of the list that storage_init has made so far.
Made == heap \ {FIRST, STORAGE}

\* A step that only takes a thread further.
Move(p, from, to) ==
    /\ pc[p] = from
    /\ Goto(p, to)
    /\ UNCHANGED listVars

\* pthread_mutex_lock, pthread_spin_lock, pthread_rwlock_wrlock; and
\* pthread_rwlock_rdlock, which readers that hold the lock do not block.
Lock(p, n) ==
    /\ \/ holders[n] = {}
       \/ shared /\ holders[n] \cup {p} \subseteq Searchers
    /\ holders' = [holders EXCEPT ![n] = @ \cup {p}]

Unlock(p, n) == holders' = [holders EXCEPT ![n] = @ \ {p}]

\* cmp_asc, cmp_desc, cmp_equal: the pairs a searcher counts.
search_cmp(s, len_1, len_2) == CASE Order[s] = "asc"   -> len_1 < len_2
                                 [] Order[s] = "desc"  -> len_1 > len_2
                                 [] Order[s] = "equal" -> len_1 = len_2

\* swap_asc_func, swap_desc_func, swap_not_equal_func: the pairs a swapper changes.
swap_cmp(w, len_1, len_2) == CASE Order[w] = "asc"       -> len_1 > len_2
                               [] Order[w] = "desc"      -> len_1 < len_2
                               [] Order[w] = "not_equal" -> len_1 # len_2

-----------------------------------------------------------------------------
(* Slips the code could have had: each stands in for the action it is named  *)
(* after when the properties are tried out.  None is part of Next.           *)

\* A failing malloc() in the loop of storage_init returns NULL at once.
MallocNodeFailsBare ==
    /\ mpc = "malloc_node" /\ Cardinality(Made) < size
    /\ mpc' = "create"
    /\ UNCHANGED <<buildVars, pc, is_running>>

\* The searcher gives a back before it has locked b.
SearchReadUnlocks(s) ==
    /\ pc[s] = "read"
    /\ nxt' = [nxt EXCEPT ![s] = next[cur[s]]]
    /\ IF next[cur[s]] = NULL
       THEN Goto(s, "unlock_last") /\ UNCHANGED holders
       ELSE Goto(s, "lock_next") /\ Unlock(s, cur[s])
    /\ UNCHANGED <<next, swapVars, cur, searchVars>>

\* At the end of the list the searcher leaves the loop with the lock ...
UnlockLastForgotten(s) ==
    /\ pc[s] = "unlock_last"
    /\ cur' = [cur EXCEPT ![s] = FIRST]
    /\ visited' = [visited EXCEPT ![s] = {}]
    /\ cycle_pairs' = [cycle_pairs EXCEPT ![s] = 0]
    /\ Goto(s, "start")
    /\ UNCHANGED <<next, holders, swapVars, nxt>>

\* ... or begins the next traversal with the pairs of this one.
PairsKept(s) ==
    /\ pc[s] = "unlock_last"
    /\ Unlock(s, cur[s])
    /\ cur' = [cur EXCEPT ![s] = FIRST]
    /\ visited' = [visited EXCEPT ![s] = {}]
    /\ Goto(s, "start")
    /\ UNCHANGED <<next, swapVars, nxt, cycle_pairs>>

\* The index is drawn from one place too many.
SwapStartWide(w) ==
    /\ pc[w] = "start" /\ is_running /\ size >= 2
    /\ \E k \in 0 .. size - 1 : left_index' = [left_index EXCEPT ![w] = k]
    /\ i' = [i EXCEPT ![w] = 0]
    /\ prev' = [prev EXCEPT ![w] = first]
    /\ Goto(w, "lock_prev")
    /\ UNCHANGED <<next, holders, cur, nxt, searchVars>>

\* The loop makes one step too many.
SwapLockNextFar(w) ==
    /\ pc[w] = "lock_next"
    /\ Lock(w, nxt[w])
    /\ Goto(w, IF i[w] <= left_index[w] THEN "drop_prev" ELSE "compare")
    /\ UNCHANGED <<next, swapVars, cur, nxt, searchVars>>

\* The swapper does not compare.
CompareNot(w) == Move(w, "compare", "swap_prev")

\* The swap does not hang the right node under prev.
SwapPrevForgotten(w) == Move(w, "swap_prev", "swap_left")

-----------------------------------------------------------------------------
(* storage_init, storage_destroy and main                                  *)

\* storage_init refuses a size of zero or less.
RefuseSize ==
    /\ mpc = "malloc_storage" /\ size <= 0
    /\ mpc' = "create"
    /\ UNCHANGED <<buildVars, pc, is_running>>

\* Its first two malloc()s, and what it does when one of them fails: it returns
\* NULL, and does not give the Storage back.
MallocStorage ==
    /\ mpc = "malloc_storage" /\ size > 0
    /\ \/ mpc' = "malloc_first" /\ heap' = heap \cup {STORAGE}
       \/ mpc' = "create" /\ UNCHANGED heap
    /\ UNCHANGED <<storage, first, next, pc, is_running>>

MallocFirst ==
    /\ mpc = "malloc_first"
    /\ \/ mpc' = "malloc_node" /\ heap' = heap \cup {FIRST} /\ first' = FIRST
       \/ mpc' = "create" /\ UNCHANGED <<heap, first>>
    /\ UNCHANGED <<storage, next, pc, is_running>>

\* The end of the list, the prev of storage_init.
End == CHOOSE n \in Made \cup {FIRST} : next[n] = NULL

MallocNode ==
    /\ mpc = "malloc_node" /\ Cardinality(Made) < size
    /\ \E n \in Nodes \ heap : /\ heap' = heap \cup {n}
                               /\ next' = [next EXCEPT ![End] = n]
    /\ UNCHANGED <<mpc, storage, first, pc, is_running>>

MallocNodeFails ==
    /\ mpc = "malloc_node" /\ Cardinality(Made) < size
    /\ mpc' = "destroy"
    /\ UNCHANGED <<buildVars, pc, is_running>>

InitReturns ==
    /\ mpc = "malloc_node" /\ Cardinality(Made) = size
    /\ mpc' = "create"
    /\ storage' = STORAGE
    /\ UNCHANGED <<first, heap, next, pc, is_running>>

\* storage_destroy, which only storage_init calls.
storage_destroy ==
    /\ mpc = "destroy"
    /\ \/ /\ first # NULL
          /\ heap' = heap \ {first}
          /\ first' = next[first]
          /\ UNCHANGED mpc
       \/ /\ first = NULL
          /\ heap' = heap \ {STORAGE}
          /\ mpc' = "create"
          /\ UNCHANGED first
    /\ UNCHANGED <<storage, next, pc, is_running>>

\* All the pthread_create()s: main does nothing between them, and a thread that
\* is created later might as well have been scheduled later.
CreateThreads ==
    /\ mpc = "create"
    /\ mpc' = "sleep"
    /\ pc' = [p \in Threads |-> "start"]
    /\ UNCHANGED <<buildVars, is_running>>

stop ==
    /\ mpc = "sleep"
    /\ mpc' = "join"
    /\ is_running' = FALSE
    /\ UNCHANGED <<buildVars, pc>>

\* The pthread_join()s.
Join ==
    /\ mpc = "join"
    /\ \A p \in Threads : pc[p] = "done"
    /\ mpc' = "returned"
    /\ UNCHANGED <<buildVars, pc, is_running>>

MainStep ==
    /\ ~crashed
    /\ \/ RefuseSize \/ MallocStorage \/ MallocFirst \/ MallocNode
       \/ MallocNodeFails \/ InitReturns \/ storage_destroy
       \/ CreateThreads \/ stop \/ Join
    /\ UNCHANGED <<shared, size, crashed, holders, swapVars, cur, nxt,
                   searchVars>>

\* Every thread begins with s->size, whatever storage_init has returned.
Crash(p) ==
    /\ ~crashed
    /\ pc[p] = "start" /\ storage = NULL
    /\ crashed' = TRUE
    /\ UNCHANGED <<shared, size, is_running, mpc, storage, first, heap, pc, listVars>>

-----------------------------------------------------------------------------
(* pair_searcher_asc, _desc and _equal, with their search_pairs            *)

\* A list too short, or the end of the loop; is_running is looked at only here.
SearchStart(s) ==
    Move(s, "start", IF is_running /\ size >= 2 THEN "lock_first" ELSE "done")

SearchLockFirst(s) ==
    /\ pc[s] = "lock_first"
    /\ Lock(s, first)
    /\ Goto(s, "read")
    /\ UNCHANGED <<next, swapVars, cur, nxt, searchVars>>

\* b = a->next; the walk from first to the first a is no different.
SearchRead(s) ==
    /\ pc[s] = "read"
    /\ nxt' = [nxt EXCEPT ![s] = next[cur[s]]]
    /\ Goto(s, IF next[cur[s]] = NULL THEN "unlock_last" ELSE "lock_next")
    /\ UNCHANGED <<next, holders, swapVars, cur, searchVars>>

SearchLockNext(s) ==
    /\ pc[s] = "lock_next"
    /\ Lock(s, nxt[s])
    /\ visited' = [visited EXCEPT ![s] = @ \cup {nxt[s]}]
    /\ Goto(s, "pass")
    /\ UNCHANGED <<next, swapVars, cur, nxt, cycle_pairs>>

\* Compares a with b, of which first has no part, and goes on to b.
SearchPass(s) ==
    /\ pc[s] = "pass"
    /\ cycle_pairs' =
          IF cur[s] # first /\ search_cmp(s, Length[cur[s]], Length[nxt[s]])
          THEN [cycle_pairs EXCEPT ![s] = @ + 1] ELSE cycle_pairs
    /\ Unlock(s, cur[s])
    /\ cur' = [cur EXCEPT ![s] = nxt[s]]
    /\ nxt' = [nxt EXCEPT ![s] = NULL]
    /\ Goto(s, "read")
    /\ UNCHANGED <<next, swapVars, visited>>

\* The traversal ends, and the next one counts from zero.
UnlockLast(s) ==
    /\ pc[s] = "unlock_last"
    /\ Unlock(s, cur[s])
    /\ cur' = [cur EXCEPT ![s] = FIRST]
    /\ visited' = [visited EXCEPT ![s] = {}]
    /\ cycle_pairs' = [cycle_pairs EXCEPT ![s] = 0]
    /\ Goto(s, "start")
    /\ UNCHANGED <<next, swapVars, nxt>>

SearcherStep(s) ==
    /\ ~crashed /\ storage # NULL
    /\ \/ SearchStart(s) \/ SearchLockFirst(s) \/ SearchRead(s)
       \/ SearchLockNext(s) \/ SearchPass(s) \/ UnlockLast(s)
    /\ UNCHANGED mainVars

-----------------------------------------------------------------------------
(* swapper_asc, _desc and _not_eql, with their swap_pairs                  *)

\* left_index = rand_r(seed) % (size - 1)
SwapStart(w) ==
    /\ pc[w] = "start" /\ is_running /\ size >= 2
    /\ \E k \in 0 .. size - 2 : left_index' = [left_index EXCEPT ![w] = k]
    /\ i' = [i EXCEPT ![w] = 0]
    /\ prev' = [prev EXCEPT ![w] = first]
    /\ Goto(w, "lock_prev")
    /\ UNCHANGED <<next, holders, cur, nxt, searchVars>>

SwapEnd(w) == ~(is_running /\ size >= 2) /\ Move(w, "start", "done")

SwapLockPrev(w) ==
    /\ pc[w] = "lock_prev"
    /\ Lock(w, prev[w])
    /\ Goto(w, "read_cur")
    /\ UNCHANGED <<next, swapVars, cur, nxt, searchVars>>

SwapReadCur(w) ==
    /\ pc[w] = "read_cur"
    /\ cur' = [cur EXCEPT ![w] = next[prev[w]]]
    /\ Goto(w, IF next[prev[w]] = NULL THEN "unlock_prev" ELSE "lock_cur")
    /\ UNCHANGED <<next, holders, swapVars, nxt, searchVars>>

SwapLockCur(w) ==
    /\ pc[w] = "lock_cur"
    /\ Lock(w, cur[w])
    /\ Goto(w, "step")
    /\ UNCHANGED <<next, swapVars, cur, nxt, searchVars>>

\* next = cur->next, in the loop and after it.
SwapStep(w) ==
    /\ pc[w] = "step"
    /\ nxt' = [nxt EXCEPT ![w] = next[cur[w]]]
    /\ Goto(w, IF next[cur[w]] = NULL THEN "unlock_cur" ELSE "lock_next")
    /\ UNCHANGED <<next, holders, swapVars, cur, searchVars>>

SwapLockNext(w) ==
    /\ pc[w] = "lock_next"
    /\ Lock(w, nxt[w])
    /\ Goto(w, IF i[w] < left_index[w] THEN "drop_prev" ELSE "compare")
    /\ UNCHANGED <<next, swapVars, cur, nxt, searchVars>>

DropPrev(w) ==
    /\ pc[w] = "drop_prev"
    /\ Unlock(w, prev[w])
    /\ prev' = [prev EXCEPT ![w] = cur[w]]
    /\ cur' = [cur EXCEPT ![w] = nxt[w]]
    /\ i' = [i EXCEPT ![w] = @ + 1]
    /\ Goto(w, "step")
    /\ UNCHANGED <<next, left_index, nxt, searchVars>>

Compare(w) ==
    Move(w, "compare", IF swap_cmp(w, Length[cur[w]], Length[nxt[w]])
                       THEN "swap_prev" ELSE "unlock_next")

\* swap_nodes: PREV - L - R - NEXT becomes PREV - R - L - NEXT in three writes.
SwapPrev(w) ==
    /\ pc[w] = "swap_prev"
    /\ next' = [next EXCEPT ![prev[w]] = nxt[w]]
    /\ Goto(w, "swap_left")
    /\ UNCHANGED <<holders, swapVars, cur, nxt, searchVars>>

SwapLeft(w) ==
    /\ pc[w] = "swap_left"
    /\ next' = [next EXCEPT ![cur[w]] = next[nxt[w]]]
    /\ Goto(w, "swap_right")
    /\ UNCHANGED <<holders, swapVars, cur, nxt, searchVars>>

SwapRight(w) ==
    /\ pc[w] = "swap_right"
    /\ next' = [next EXCEPT ![nxt[w]] = cur[w]]
    /\ Goto(w, "unlock_next")
    /\ UNCHANGED <<holders, swapVars, cur, nxt, searchVars>>

\* The unlocks of the three nodes, of which an early return makes the last ones.
SwapUnlock(w, from, n, to) ==
    /\ pc[w] = from
    /\ Unlock(w, n)
    /\ Goto(w, to)
    /\ UNCHANGED <<next, swapVars, cur, nxt, searchVars>>

\* The call returns, and its locals are gone.
UnlockPrev(w) ==
    /\ pc[w] = "unlock_prev"
    /\ Unlock(w, prev[w])
    /\ prev' = [prev EXCEPT ![w] = FIRST]
    /\ cur' = [cur EXCEPT ![w] = FIRST]
    /\ nxt' = [nxt EXCEPT ![w] = NULL]
    /\ left_index' = [left_index EXCEPT ![w] = 0]
    /\ i' = [i EXCEPT ![w] = 0]
    /\ Goto(w, "start")
    /\ UNCHANGED <<next, searchVars>>

SwapperStep(w) ==
    /\ ~crashed /\ storage # NULL
    /\ \/ SwapStart(w) \/ SwapEnd(w) \/ SwapLockPrev(w) \/ SwapReadCur(w)
       \/ SwapLockCur(w) \/ SwapStep(w) \/ SwapLockNext(w) \/ DropPrev(w)
       \/ Compare(w) \/ SwapPrev(w) \/ SwapLeft(w) \/ SwapRight(w)
       \/ SwapUnlock(w, "unlock_next", nxt[w], "unlock_cur")
       \/ SwapUnlock(w, "unlock_cur", cur[w], "unlock_prev")
       \/ UnlockPrev(w)
    /\ UNCHANGED mainVars

-----------------------------------------------------------------------------

Init ==
    /\ shared \in Builds
    /\ size \in Sizes
    /\ is_running = TRUE
    /\ mpc = "malloc_storage"
    /\ storage = NULL /\ first = NULL
    /\ heap = {}
    /\ crashed = FALSE
    /\ next = [n \in Nodes \cup {FIRST} |-> NULL]
    /\ holders = [n \in Nodes \cup {FIRST} |-> {}]
    /\ pc = [p \in Threads |-> "none"]
    /\ prev = [w \in Swappers |-> FIRST]
    /\ cur = [p \in Threads |-> FIRST]
    /\ nxt = [p \in Threads |-> NULL]
    /\ left_index = [w \in Swappers |-> 0]
    /\ i = [w \in Swappers |-> 0]
    /\ visited = [s \in Searchers |-> {}]
    /\ cycle_pairs = [s \in Searchers |-> 0]

\* The process has ended.
Ended ==
    /\ mpc = "returned" \/ crashed
    /\ UNCHANGED vars

Next ==
    \/ MainStep
    \/ \E p \in Threads : Crash(p)
    \/ \E s \in Searchers : SearcherStep(s)
    \/ \E w \in Swappers : SwapperStep(w)
    \/ Ended

Safe == Init /\ [][Next]_vars

\* Every thread that can run does, and main's sleep(10) ends; no lock is
\* promised to any waiter.
Spec ==
    /\ Safe
    /\ WF_vars(MainStep)
    /\ \A s \in Searchers : WF_vars(SearcherStep(s) \/ Crash(s))
    /\ \A w \in Swappers : WF_vars(SwapperStep(w) \/ Crash(w))

-----------------------------------------------------------------------------
(* Properties                                                              *)

\* The type invariant: pointers point to nodes or nowhere, and a swapper's
\* index leaves room for a right neighbour.
TypeOK ==
    /\ shared \in BOOLEAN /\ is_running \in BOOLEAN /\ crashed \in BOOLEAN
    /\ size \in Sizes
    /\ mpc \in MainPCs
    /\ storage \in {STORAGE, NULL}
    /\ first \in Nodes \cup {FIRST, NULL}
    /\ heap \subseteq Nodes \cup {FIRST, STORAGE}
    /\ next \in [Nodes \cup {FIRST} -> Nodes \cup {NULL}]
    /\ holders \in [Nodes \cup {FIRST} -> SUBSET Threads]
    /\ pc \in [Threads -> SearchPCs \cup SwapPCs \cup {"none"}]
    /\ prev \in [Swappers -> Nodes \cup {FIRST}]
    /\ cur \in [Threads -> Nodes \cup {FIRST, NULL}]
    /\ nxt \in [Threads -> Nodes \cup {NULL}]
    /\ \A w \in Swappers : /\ left_index[w] \in {0} \cup 0 .. size - 2
                           /\ i[w] \in 0 .. left_index[w]
    /\ visited \in [Searchers -> SUBSET Nodes]
    /\ cycle_pairs \in [Searchers -> Nat]

\* storage_init hands over a whole list of the size asked for, or NULL and no
\* node left allocated, whichever of its malloc()s fails (the Storage itself
\* stays behind when the second one does).
StorageWhole ==
    mpc \notin InitPCs =>
        \/ storage = NULL /\ heap \subseteq {STORAGE}
        \/ /\ storage # NULL
           /\ {STORAGE, FIRST} \subseteq heap
           /\ Cardinality(Made) = size

\* Swappers between the first and the last write of swap_nodes.
Swapping == {w \in Swappers : pc[w] \in {"swap_left", "swap_right"}}

\* The list as it was before the swaps that are half done.
Settled == [n \in Nodes \cup {FIRST} |->
    IF \E w \in Swapping : n = prev[w]
    THEN cur[CHOOSE w \in Swapping : n = prev[w]]
    ELSE IF \E w \in Swapping : n = cur[w]
    THEN nxt[CHOOSE w \in Swapping : n = cur[w]]
    ELSE next[n]]

\* The nodes one meets from the first one on.
Walk == LET to   == Settled
            at[k \in 0 .. size + 1] ==
              IF k = 0 THEN FIRST
              ELSE LET n == at[k-1] IN IF n = NULL THEN NULL ELSE to[n]
        IN  at

\* No swap loses a node, doubles one or closes a cycle: the list leads through
\* every node and then ends (swap_nodes, under three locks).
NoNodeLost ==
    storage # NULL =>
        LET at == Walk IN
            /\ {at[k] : k \in 1 .. size} = Made
            /\ at[size + 1] = NULL

\* A traversal meets every node once: whatever the swappers do, the nodes a
\* searcher has met are those in front of the one it stands on, no node slips
\* from one side of it to the other, and at the end it has met them all.
TraversalComplete ==
    LET at == Walk IN
        \A s \in Searchers :
            /\ pc[s] = "read" =>
                  \E k \in 0 .. size : /\ at[k] = cur[s]
                                       /\ visited[s] = {at[j] : j \in 1 .. k}
            /\ pc[s] = "unlock_last" => visited[s] = Made

\* The pairs of a traversal are those of one order of the nodes, although the
\* order changes under it: no pair is made up of two halves of a swap, and none
\* is left over from the traversal before.
PairsOfOneOrder ==
    \A s \in Searchers :
        pc[s] = "unlock_last" =>
            \E o \in Bijection(1 .. size, Made) :
                cycle_pairs[s] =
                    Cardinality({k \in 1 .. size - 1 :
                                    search_cmp(s, Length[o[k]], Length[o[k + 1]])})

\* A swapper arrives where its random index says, and exchanges the nodes that
\* are at that place when it gets there.
SwapsAtItsIndex ==
    LET at == Walk IN
        \A w \in Swappers :
            pc[w] \in {"compare", "swap_prev"} =>
                /\ at[left_index[w]] = prev[w]
                /\ at[left_index[w] + 1] = cur[w]
                /\ at[left_index[w] + 2] = nxt[w]

\* To its users the storage is a list whose neighbours change places in one
\* step each, and only in the direction some swapper pursues.
Shown == IF storage = NULL THEN <<>> ELSE LET at == Walk IN [k \in 1 .. size |-> at[k]]

Exchanges == INSTANCE ExchangeList WITH
    list <- Shown, Orders <- {Order[w] : w \in Swappers}

ImplementsExchanges == Exchanges!Spec

\* The program ends: nobody waits for a lock that is not given back, no list is
\* too short for a swapper, and only a storage that could not be made brings
\* the process down (main).
Terminates == <>(mpc = "returned" \/ (crashed /\ storage = NULL))

=============================================================================
