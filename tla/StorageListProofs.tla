--------------------------- MODULE StorageListProofs ---------------------------
(***************************************************************************)
(* Theorems about the storage list: for any number of nodes, searchers and *)
(* swappers and whichever lock the build uses, the swaps keep the list in  *)
(* one piece, every traversal meets every node once, and the storage       *)
(* implements ExchangeList.  They need no fairness.                        *)
(***************************************************************************)
EXTENDS StorageList, DataLemmas

-----------------------------------------------------------------------------
(* The inductive invariant                                                 *)

\* storage_init and main: no thread runs before the storage is made, and none
\* goes on with a storage that is not.
PhaseInv ==
    /\ mpc \in InitPCs \cup {"create"} => \A p \in Threads : pc[p] = "none"
    /\ mpc \in InitPCs => storage = NULL
    /\ mpc \in {"malloc_storage", "malloc_first"} => first = NULL /\ heap \subseteq {STORAGE}
    /\ mpc \in {"malloc_first", "malloc_node"} => STORAGE \in heap /\ size > 0
    /\ mpc = "malloc_node" => FIRST \in heap /\ first = FIRST
    /\ mpc \in InitPCs \ {"destroy"} =>
          \A n \in Nodes \cup {FIRST} : n \notin heap => next[n] = NULL
    /\ storage = NULL => \A p \in Threads : pc[p] \in {"none", "start"}
    /\ storage = NULL /\ mpc \notin InitPCs => heap \subseteq {STORAGE}
    /\ storage # NULL => /\ {STORAGE, FIRST} \subseteq heap /\ first = FIRST
                         /\ Cardinality(Made) = size
    /\ \A p \in Threads : pc[p] \notin {"none", "start", "done"} => size >= 2

\* Searchers run search_pairs, swappers swap_pairs; the locals between calls.
LocalInv ==
    /\ \A s \in Searchers : pc[s] \in SearchPCs \cup {"none"}
    /\ \A w \in Swappers : pc[w] \in SwapPCs \cup {"none"}
    /\ left_index \in [Swappers -> Nat] /\ i \in [Swappers -> Nat]
    /\ \A s \in Searchers : pc[s] \in {"none", "start", "lock_first"} =>
                               visited[s] = {} /\ cycle_pairs[s] = 0 /\ cur[s] = FIRST

\* The nodes a thread has locked, by its control point.
Holding(p) ==
    IF p \in Searchers
    THEN CASE pc[p] \in {"read", "lock_next", "unlock_last"} -> {cur[p]}
           [] pc[p] = "pass" -> {cur[p], nxt[p]}
           [] OTHER -> {}
    ELSE CASE pc[p] \in {"read_cur", "lock_cur", "unlock_prev"} -> {prev[p]}
           [] pc[p] \in {"step", "lock_next", "unlock_cur"} -> {prev[p], cur[p]}
           [] pc[p] \in {"drop_prev", "compare", "swap_prev", "swap_left", "swap_right",
                         "unlock_next"} -> {prev[p], cur[p], nxt[p]}
           [] OTHER -> {}

\* A lock is held by those who think so, and by several only if all search.
Held ==
    /\ \A n \in Nodes \cup {FIRST} : holders[n] = {p \in Threads : n \in Holding(p)}
    /\ \A p, q \in Threads : p # q /\ Holding(p) \cap Holding(q) # {} =>
                                p \in Searchers /\ q \in Searchers

\* What swap_pairs knows of its three nodes when it gives them back.
Apart(w) ==
    /\ pc[w] = "unlock_next" => nxt[w] \notin {prev[w], cur[w], NULL}
    /\ pc[w] \in {"unlock_next", "unlock_cur"} => cur[w] \notin {prev[w], NULL}

LockInv == Held /\ \A w \in Swappers : Apart(w)

\* The nodes in their order, with the first one before them and NULL behind.
IsOrder(at, m) ==
    /\ m \in Nat /\ at \in [0 .. m + 1 -> Nodes \cup {FIRST, NULL}]
    /\ at[0] = FIRST /\ at[m + 1] = NULL
    /\ \A k \in 1 .. m : at[k] \in Nodes
    /\ \A j, k \in 0 .. m : at[j] = at[k] => j = k

\* Each points to its successor, except for those whose swap is half done.
Linked(at, m) ==
    /\ \A k \in 0 .. m :
          (\A w \in Swapping : at[k] # prev[w] /\ at[k] # cur[w]) => next[at[k]] = at[k + 1]
    /\ \A w \in Swapping : /\ next[prev[w]] = nxt[w]
                           /\ pc[w] = "swap_left"  => next[cur[w]] = nxt[w]
                           /\ pc[w] = "swap_right" => next[cur[w]] = next[nxt[w]]

\* A searcher stands on some place and has met the nodes up to it.
Searching == {"read", "lock_next", "pass", "unlock_last"}

SearchesAt(s, at, m, k) ==
    /\ cur[s] = at[k]
    /\ visited[s] = {at[j] : j \in 1 .. IF pc[s] = "pass" THEN k + 1 ELSE k}
    /\ pc[s] \in {"lock_next", "pass"} => k < m /\ nxt[s] = at[k + 1]
    /\ pc[s] = "unlock_last" => k = m

\* A swapper stands where its index says.
OnPrev == {"lock_prev", "read_cur", "lock_cur", "step", "lock_next", "drop_prev", "compare",
           "swap_prev", "swap_left", "swap_right"}
OnCur  == OnPrev \ {"lock_prev", "read_cur"}
OnNext == OnCur \ {"lock_cur", "step"}
AtGoal == {"compare", "swap_prev", "swap_left", "swap_right"}

SwapsAt(w, at) ==
    /\ pc[w] = "lock_prev" => i[w] = 0
    /\ pc[w] \in OnPrev => prev[w] = at[i[w]]
    /\ pc[w] \in OnCur  => cur[w] = at[i[w] + 1]
    /\ pc[w] \in OnNext => nxt[w] = at[i[w] + 2]
    /\ pc[w] = "drop_prev" => i[w] < left_index[w]
    /\ pc[w] \in AtGoal => i[w] = left_index[w]
    /\ pc[w] \in AtGoal \ {"compare"} => swap_cmp(w, Length[cur[w]], Length[nxt[w]])

Placed(at, m) ==
    /\ \A s \in Searchers : pc[s] \in Searching => \E k \in 0 .. m : SearchesAt(s, at, m, k)
    /\ \A w \in Swappers : SwapsAt(w, at)

IsList(at, m) ==
    /\ IsOrder(at, m) /\ Linked(at, m) /\ Placed(at, m)
    /\ Made = {at[k] : k \in 1 .. m}

\* What storage_destroy has not freed yet.
IsRest(at, m, k) ==
    /\ IsOrder(at, m) /\ Linked(at, m)
    /\ k \in 0 .. m + 1 /\ first = at[k]
    /\ heap = {STORAGE} \cup {at[j] : j \in k .. m}

ListInv ==
    /\ mpc = "malloc_node" \/ storage # NULL => \E at, m : IsList(at, m)
    /\ mpc = "destroy" => \E at, m, k : IsRest(at, m, k)

\* The pairs a searcher has counted are those of the nodes in the order in which
\* it has met them.
Passed(s) == IF pc[s] = "pass" THEN visited[s] \ {nxt[s]} ELSE visited[s]

IsPath(s, path, k) ==
    /\ k \in Nat /\ path \in Bijection(1 .. k, Passed(s))
    /\ IF k = 0 THEN cur[s] = FIRST ELSE cur[s] = path[k]
    /\ cycle_pairs[s] =
          Cardinality({j \in 1 .. k - 1 : search_cmp(s, Length[path[j]], Length[path[j + 1]])})

PathInv == \A s \in Searchers : pc[s] \in Searching => \E path, k : IsPath(s, path, k)

IInv == TypeOK /\ PhaseInv /\ LocalInv /\ LockInv /\ ListInv /\ PathInv

-----------------------------------------------------------------------------
(* What the invariant says of a list and of who stands on it               *)

\* A list is as long as it has nodes.
LEMMA OrderSize ==
    ASSUME NEW at, NEW m, IsOrder(at, m)
    PROVE  /\ IsFiniteSet({at[k] : k \in 1 .. m})
           /\ Cardinality({at[k] : k \in 1 .. m}) = m
           /\ [k \in 1 .. m |-> at[k]] \in Bijection(1 .. m, {at[k] : k \in 1 .. m})
<1>1. m \in Nat /\ 1 .. m \subseteq 0 .. m + 1
  BY DEF IsOrder
<1> DEFINE nodes == {at[k] : k \in 1 .. m}
           f == [k \in 1 .. m |-> at[k]]
<1>2. f \in [1 .. m -> nodes]
  OBVIOUS
<1>3. \A j, k \in 1 .. m : f[j] = f[k] => j = k
  BY DEF IsOrder
<1>4. \A n \in nodes : \E k \in 1 .. m : f[k] = n
  OBVIOUS
<1> HIDE DEF f, nodes
<1>5. f \in Bijection(1 .. m, nodes)
  BY <1>2, <1>3, <1>4 DEF Bijection, Injection, Surjection, IsInjective
<1>6. IsFiniteSet(1 .. m) /\ Cardinality(1 .. m) = m
  BY <1>1, FS_Interval
<1>7. IsFiniteSet(nodes) /\ Cardinality(nodes) = Cardinality(1 .. m)
  BY <1>5, <1>6, FS_Bijection DEF ExistsBijection
<1> QED BY <1>5, <1>6, <1>7 DEF nodes, f

LEMMA ListSize ==
    ASSUME IInv, storage # NULL, NEW at, NEW m, IsList(at, m)
    PROVE  m = size
  BY OrderSize DEF IInv, PhaseInv, IsList

\* A searcher holds the lock of the node it stands on, and goes on from there.
LEMMA SearcherStands ==
    ASSUME IInv, NEW s \in Searchers, pc[s] \in Searching, NEW at, NEW m, IsList(at, m)
    PROVE  /\ cur[s] \in Nodes \cup {FIRST}
           /\ pc[s] \in {"lock_next", "pass"} => nxt[s] \in Nodes /\ nxt[s] # cur[s]
<1>1. PICK k \in 0 .. m : SearchesAt(s, at, m, k)
  BY DEF IsList, Placed
<1>2. cur[s] = at[k] /\ (pc[s] \in {"lock_next", "pass"} => k < m /\ nxt[s] = at[k + 1])
  BY <1>1 DEF SearchesAt
<1>3. /\ m \in Nat /\ at[0] = FIRST /\ \A j \in 1 .. m : at[j] \in Nodes
      /\ \A j, l \in 0 .. m : at[j] = at[l] => j = l
  BY DEF IsList, IsOrder
<1>4. cur[s] \in Nodes \cup {FIRST}
  <2>1. k = 0 \/ k \in 1 .. m
    OBVIOUS
  <2> QED BY <1>2, <1>3, <2>1
<1>5. ASSUME k < m PROVE at[k + 1] \in Nodes /\ at[k + 1] # at[k]
  <2>1. k + 1 \in 1 .. m /\ k + 1 \in 0 .. m /\ k + 1 # k
    BY <1>3, <1>5
  <2> QED BY <1>3, <2>1
<1> QED BY <1>2, <1>4, <1>5

\* A swapper has three places before it, and they are different.
LEMMA SwapperStands ==
    ASSUME IInv, NEW w \in Swappers, pc[w] \in OnPrev, NEW at, NEW m, IsList(at, m),
           storage # NULL
    PROVE  /\ m = size /\ m >= 2 /\ i[w] \in Nat /\ i[w] + 2 <= m
           /\ prev[w] = at[i[w]] /\ prev[w] \in Nodes \cup {FIRST}
           /\ pc[w] \in OnCur => /\ cur[w] = at[i[w] + 1] /\ cur[w] \in Nodes
                                 /\ cur[w] # prev[w]
           /\ pc[w] \in OnNext => /\ nxt[w] = at[i[w] + 2] /\ nxt[w] \in Nodes
                                  /\ nxt[w] # prev[w] /\ nxt[w] # cur[w]
<1>1. /\ prev[w] = at[i[w]] /\ (pc[w] \in OnCur => cur[w] = at[i[w] + 1])
      /\ (pc[w] \in OnNext => nxt[w] = at[i[w] + 2])
  BY DEF IsList, Placed, SwapsAt
<1>2. /\ m \in Nat /\ at[0] = FIRST /\ \A j \in 1 .. m : at[j] \in Nodes
      /\ \A j, l \in 0 .. m : at[j] = at[l] => j = l
  BY DEF IsList, IsOrder
<1>3. m = size /\ size >= 2 /\ size \in Int
  <2>1. size >= 2
    BY DEF IInv, PhaseInv, OnPrev, Threads
  <2>2. size \in Int
    BY StorageConstantsOK DEF IInv, TypeOK
  <2> QED BY <2>1, <2>2, ListSize
<1>4. i[w] \in Nat /\ i[w] + 2 <= m
  <2>1. left_index[w] \in {0} \cup 0 .. size - 2 /\ i[w] \in 0 .. left_index[w]
    BY DEF IInv, TypeOK
  <2> QED BY <1>3, <2>1
<1>5. prev[w] \in Nodes \cup {FIRST}
  BY DEF IInv, TypeOK
<1>6. PICK j \in Nat : j = i[w] /\ j + 2 <= m
  BY <1>4
<1>7. /\ j \in 0 .. m /\ j + 1 \in 1 .. m /\ j + 2 \in 1 .. m
      /\ j + 1 \in 0 .. m /\ j + 2 \in 0 .. m /\ j # j + 1 /\ j # j + 2 /\ j + 1 # j + 2
  BY <1>2, <1>6
<1>8. /\ at[j + 1] \in Nodes /\ at[j + 2] \in Nodes
      /\ at[j] # at[j + 1] /\ at[j] # at[j + 2] /\ at[j + 1] # at[j + 2]
  BY <1>2, <1>7
<1>9. OnNext \subseteq OnCur
  BY DEF OnNext
<1> QED BY <1>1, <1>3, <1>4, <1>5, <1>6, <1>8, <1>9

-----------------------------------------------------------------------------
(* Types, phases and locals                                                *)

\* The end of the list that storage_init extends.
LEMMA EndIs ==
    ASSUME IInv, mpc = "malloc_node", NEW at, NEW m, IsList(at, m)
    PROVE  /\ End = at[m] /\ End \in Made \cup {FIRST} /\ End \in Nodes \cup {FIRST}
           /\ next[End] = NULL
<1>1. /\ m \in Nat /\ at[0] = FIRST /\ at[m + 1] = NULL /\ \A j \in 1 .. m : at[j] \in Nodes
      /\ \A k \in 0 .. m : next[at[k]] = at[k + 1]
      /\ Made = {at[k] : k \in 1 .. m}
  <2>1. Swapping = {}
    BY DEF IInv, PhaseInv, InitPCs, Swapping, Threads
  <2> QED BY <2>1 DEF IsList, IsOrder, Linked
<1>2. Made \cup {FIRST} = {at[k] : k \in 0 .. m}
  <2>1. \A k \in 0 .. m : k = 0 \/ k \in 1 .. m
    BY <1>1
  <2>2. 0 \in 0 .. m /\ 1 .. m \subseteq 0 .. m
    BY <1>1
  <2> QED BY <1>1, <2>1, <2>2
<1>3. m \in 0 .. m /\ next[at[m]] = NULL
  BY <1>1
<1>4. \A k \in 0 .. m : next[at[k]] = NULL => k = m
  <2>1. ASSUME NEW k \in 0 .. m, k # m PROVE next[at[k]] # NULL
    <3>1. k + 1 \in 1 .. m
      BY <1>1, <2>1
    <3> QED BY <1>1, <3>1, StorageConstantsOK
  <2> QED BY <2>1
<1>5. End = at[m]
  BY <1>2, <1>3, <1>4 DEF End
<1>6. at[m] \in Nodes \cup {FIRST}
  BY <1>1, <1>2
<1> QED BY <1>2, <1>3, <1>5, <1>6

LEMMA TypeInit == Init => TypeOK
<1> SUFFICES ASSUME Init PROVE TypeOK
  OBVIOUS
<1> USE DEF Init
<1>1. shared \in BOOLEAN
  BY StorageConstantsOK
<1>2. is_running \in BOOLEAN
  OBVIOUS
<1>3. crashed \in BOOLEAN
  OBVIOUS
<1>4. /\ size \in Sizes /\ mpc \in MainPCs /\ storage \in {STORAGE, NULL}
      /\ first \in Nodes \cup {FIRST, NULL} /\ heap \subseteq Nodes \cup {FIRST, STORAGE}
  BY DEF MainPCs, InitPCs
<1>5. /\ next \in [Nodes \cup {FIRST} -> Nodes \cup {NULL}]
      /\ holders \in [Nodes \cup {FIRST} -> SUBSET Threads]
      /\ pc \in [Threads -> SearchPCs \cup SwapPCs \cup {"none"}]
      /\ prev \in [Swappers -> Nodes \cup {FIRST}]
      /\ cur \in [Threads -> Nodes \cup {FIRST, NULL}]
      /\ nxt \in [Threads -> Nodes \cup {NULL}]
  OBVIOUS
<1>6. /\ visited \in [Searchers -> SUBSET Nodes] /\ cycle_pairs \in [Searchers -> Nat]
  OBVIOUS
<1>7. \A w \in Swappers : /\ left_index[w] \in {0} \cup 0 .. size - 2
                          /\ i[w] \in 0 .. left_index[w]
  OBVIOUS
<1> QED BY <1>1, <1>2, <1>3, <1>4, <1>5, <1>6, <1>7 DEF TypeOK

LEMMA MainTypes == IInv /\ MainStep => TypeOK'
<1> SUFFICES ASSUME IInv, MainStep PROVE TypeOK'
  OBVIOUS
<1> USE DEF TypeOK, buildVars, swapVars, searchVars
<1>1. TypeOK /\ PhaseInv /\ ListInv
  BY DEF IInv
<1>2. UNCHANGED <<shared, size, crashed, holders, swapVars, cur, nxt, searchVars>>
  BY DEF MainStep
<1>3. ASSUME /\ is_running' \in BOOLEAN /\ mpc' \in MainPCs
             /\ storage' \in {STORAGE, NULL} /\ first' \in Nodes \cup {FIRST, NULL}
             /\ heap' \subseteq Nodes \cup {FIRST, STORAGE}
             /\ next' \in [Nodes \cup {FIRST} -> Nodes \cup {NULL}]
             /\ pc' \in [Threads -> SearchPCs \cup SwapPCs \cup {"none"}]
      PROVE  TypeOK'
  BY <1>1, <1>2, <1>3
<1>4. CASE RefuseSize \/ MallocNodeFails
  <2>1. is_running' \in BOOLEAN
    BY <1>1, <1>4 DEF RefuseSize, MallocNodeFails
  <2> QED BY <1>1, <1>3, <1>4, <2>1 DEF RefuseSize, MallocNodeFails, MainPCs, InitPCs
<1>5. CASE MallocStorage \/ MallocFirst
  <2>1. is_running' \in BOOLEAN
    BY <1>1, <1>5 DEF MallocStorage, MallocFirst
  <2> QED BY <1>1, <1>3, <1>5, <2>1 DEF MallocStorage, MallocFirst, MainPCs, InitPCs
<1>6. CASE MallocNode
  <2>1. is_running' \in BOOLEAN
    BY <1>1, <1>6 DEF MallocNode
  <2>2. PICK n \in Nodes : heap' = heap \cup {n} /\ next' = [next EXCEPT ![End] = n]
    BY <1>6 DEF MallocNode
  <2>3. next' \in [Nodes \cup {FIRST} -> Nodes \cup {NULL}]
    BY <1>1, <2>2
  <2>4. heap' \subseteq Nodes \cup {FIRST, STORAGE}
    BY <1>1, <2>2
  <2>5. UNCHANGED <<mpc, storage, first, pc>>
    BY <1>6 DEF MallocNode
  <2> QED BY <1>1, <1>3, <2>1, <2>3, <2>4, <2>5
<1>7. CASE InitReturns
  <2>1. is_running' \in BOOLEAN
    BY <1>1, <1>7 DEF InitReturns
  <2> QED BY <1>1, <1>3, <1>7, <2>1 DEF InitReturns, MainPCs, InitPCs
<1>8. CASE storage_destroy
  <2>1. is_running' \in BOOLEAN
    BY <1>1, <1>8 DEF storage_destroy
  <2> QED BY <1>1, <1>3, <1>8, <2>1 DEF storage_destroy, MainPCs, InitPCs
<1>9. CASE CreateThreads
  <2>1. is_running' \in BOOLEAN
    BY <1>1, <1>9 DEF CreateThreads
  <2> QED BY <1>1, <1>3, <1>9, <2>1 DEF CreateThreads, MainPCs, InitPCs, SearchPCs
<1>10. CASE stop \/ Join
  <2>1. is_running' \in BOOLEAN
    BY <1>1, <1>10 DEF stop, Join
  <2> QED BY <1>1, <1>3, <1>10, <2>1 DEF stop, Join, MainPCs, InitPCs
<1> QED BY <1>4, <1>5, <1>6, <1>7, <1>8, <1>9, <1>10 DEF MainStep

LEMMA SearcherTypes == IInv /\ (\E s \in Searchers : SearcherStep(s)) => TypeOK'
<1> SUFFICES ASSUME IInv, NEW s \in Searchers, SearcherStep(s) PROVE TypeOK'
  OBVIOUS
<1> USE DEF TypeOK, swapVars, searchVars, Goto
<1>1. /\ TypeOK /\ storage # NULL /\ s \in Threads
      /\ UNCHANGED <<shared, size, is_running, mpc, storage, first, heap, crashed>>
  BY DEF IInv, SearcherStep, mainVars, Threads
<1>2. PICK at, m : IsList(at, m)
  BY <1>1 DEF IInv, ListInv
<1>3. pc[s] \in Searching => /\ cur[s] \in Nodes \cup {FIRST}
                             /\ pc[s] \in {"lock_next", "pass"} => nxt[s] \in Nodes
  BY <1>2, SearcherStands
<1>4. /\ shared' \in BOOLEAN
      /\ is_running' \in BOOLEAN
      /\ crashed' \in BOOLEAN
  <2>1. shared' \in BOOLEAN
    BY <1>1
  <2>2. is_running' \in BOOLEAN
    BY <1>1
  <2>3. crashed' \in BOOLEAN
    BY <1>1
  <2> QED BY <2>1, <2>2, <2>3
<1>5. /\ next' = next /\ prev' = prev /\ left_index' = left_index /\ i' = i
  BY DEF SearcherStep, SearchStart, Move, SearchLockFirst, SearchRead, SearchLockNext,
         SearchPass, UnlockLast, listVars
<1>6. pc' \in [Threads -> SearchPCs \cup SwapPCs \cup {"none"}]
  BY <1>1 DEF SearcherStep, SearchStart, Move, SearchLockFirst, SearchRead, SearchLockNext,
              SearchPass, UnlockLast, SearchPCs
<1>7. holders' \in [Nodes \cup {FIRST} -> SUBSET Threads]
  BY <1>1 DEF SearcherStep, SearchStart, Move, SearchLockFirst, SearchRead, SearchLockNext,
              SearchPass, UnlockLast, Lock, Unlock, listVars
<1>8. cur' \in [Threads -> Nodes \cup {FIRST, NULL}]
  BY <1>1 DEF SearcherStep, SearchStart, Move, SearchLockFirst, SearchRead, SearchLockNext,
              SearchPass, UnlockLast, listVars
<1>9. nxt' \in [Threads -> Nodes \cup {NULL}]
  BY <1>1, <1>3 DEF SearcherStep, SearchStart, Move, SearchLockFirst, SearchRead,
              SearchLockNext, SearchPass, UnlockLast, listVars, Searching
<1>10. visited' \in [Searchers -> SUBSET Nodes]
  BY <1>1, <1>3 DEF SearcherStep, SearchStart, Move, SearchLockFirst, SearchRead,
              SearchLockNext, SearchPass, UnlockLast, listVars, Searching
<1>11. cycle_pairs' \in [Searchers -> Nat]
  BY <1>1 DEF SearcherStep, SearchStart, Move, SearchLockFirst, SearchRead,
              SearchLockNext, SearchPass, UnlockLast, listVars
<1> QED BY <1>1, <1>4, <1>5, <1>6, <1>7, <1>8, <1>9, <1>10, <1>11

LEMMA SwapperTypes == IInv /\ (\E w \in Swappers : SwapperStep(w)) => TypeOK'
<1> SUFFICES ASSUME IInv, NEW w \in Swappers, SwapperStep(w) PROVE TypeOK'
  OBVIOUS
<1> USE DEF TypeOK, swapVars, searchVars, Goto
<1>1. /\ TypeOK /\ storage # NULL /\ w \in Threads /\ first = FIRST
      /\ UNCHANGED <<shared, size, is_running, mpc, storage, first, heap, crashed>>
  BY DEF IInv, PhaseInv, SwapperStep, mainVars, Threads
<1>2. PICK at, m : IsList(at, m)
  BY <1>1 DEF IInv, ListInv
<1>3. /\ pc[w] \in OnCur => cur[w] \in Nodes
      /\ pc[w] \in OnNext => nxt[w] \in Nodes
  BY <1>1, <1>2, SwapperStands DEF OnCur, OnNext
<1>4. /\ shared' \in BOOLEAN
      /\ is_running' \in BOOLEAN
      /\ crashed' \in BOOLEAN
  <2>1. shared' \in BOOLEAN
    BY <1>1
  <2>2. is_running' \in BOOLEAN
    BY <1>1
  <2>3. crashed' \in BOOLEAN
    BY <1>1
  <2> QED BY <2>1, <2>2, <2>3
<1>5. visited' = visited /\ cycle_pairs' = cycle_pairs
  BY DEF SwapperStep, SwapStart, SwapEnd, Move, SwapLockPrev, SwapReadCur, SwapLockCur,
    SwapStep, SwapLockNext, DropPrev, Compare, SwapPrev, SwapLeft, SwapRight, SwapUnlock,
    UnlockPrev, listVars
<1>6. pc' \in [Threads -> SearchPCs \cup SwapPCs \cup {"none"}]
  BY <1>1 DEF SwapperStep, SwapStart, SwapEnd, Move, SwapLockPrev, SwapReadCur, SwapLockCur,
    SwapStep, SwapLockNext, DropPrev, Compare, SwapPrev, SwapLeft, SwapRight, SwapUnlock,
    UnlockPrev, SwapPCs
<1>7. holders' \in [Nodes \cup {FIRST} -> SUBSET Threads]
  BY <1>1 DEF SwapperStep, SwapStart, SwapEnd, Move, SwapLockPrev, SwapReadCur, SwapLockCur,
    SwapStep, SwapLockNext, DropPrev, Compare, SwapPrev, SwapLeft, SwapRight, SwapUnlock,
    UnlockPrev, Lock, Unlock, listVars
<1>8. next' \in [Nodes \cup {FIRST} -> Nodes \cup {NULL}]
  BY <1>1, <1>3 DEF SwapperStep, SwapStart, SwapEnd, Move, SwapLockPrev, SwapReadCur,
    SwapLockCur, SwapStep, SwapLockNext, DropPrev, Compare, SwapPrev, SwapLeft, SwapRight,
    SwapUnlock, UnlockPrev, listVars, OnCur, OnNext, OnPrev
<1>9. prev' \in [Swappers -> Nodes \cup {FIRST}]
  BY <1>1, <1>3 DEF SwapperStep, SwapStart, SwapEnd, Move, SwapLockPrev, SwapReadCur,
    SwapLockCur, SwapStep, SwapLockNext, DropPrev, Compare, SwapPrev, SwapLeft, SwapRight,
    SwapUnlock, UnlockPrev, listVars, OnCur, OnNext, OnPrev
<1>10. cur' \in [Threads -> Nodes \cup {FIRST, NULL}]
  BY <1>1 DEF SwapperStep, SwapStart, SwapEnd, Move, SwapLockPrev, SwapReadCur, SwapLockCur,
    SwapStep, SwapLockNext, DropPrev, Compare, SwapPrev, SwapLeft, SwapRight, SwapUnlock,
    UnlockPrev, listVars
<1>11. nxt' \in [Threads -> Nodes \cup {NULL}]
  BY <1>1, <1>3 DEF SwapperStep, SwapStart, SwapEnd, Move, SwapLockPrev, SwapReadCur,
    SwapLockCur, SwapStep, SwapLockNext, DropPrev, Compare, SwapPrev, SwapLeft, SwapRight,
    SwapUnlock, UnlockPrev, listVars, OnCur, OnPrev
<1>12. /\ left_index' \in [Swappers -> Nat] /\ i' \in [Swappers -> Nat]
       /\ \A v \in Swappers : /\ left_index'[v] \in {0} \cup 0 .. size' - 2
                              /\ i'[v] \in 0 .. left_index'[v]
  <2>1. left_index \in [Swappers -> Nat] /\ i \in [Swappers -> Nat] /\ size' = size
    BY <1>1 DEF IInv, LocalInv
  <2>2. CASE SwapStart(w)
    <3>1. PICK k \in 0 .. size - 2 : /\ left_index' = [left_index EXCEPT ![w] = k]
                                     /\ i' = [i EXCEPT ![w] = 0]
      BY <2>2 DEF SwapStart
    <3> QED BY <1>1, <2>1, <3>1
  <2>3. CASE DropPrev(w)
    <3>1. /\ left_index' = left_index /\ i' = [i EXCEPT ![w] = @ + 1]
          /\ i[w] < left_index[w]
      BY <1>2, <2>3 DEF DropPrev, IsList, Placed, SwapsAt
    <3> QED BY <1>1, <2>1, <3>1
  <2>4. CASE UnlockPrev(w)
    <3>1. /\ left_index' = [left_index EXCEPT ![w] = 0] /\ i' = [i EXCEPT ![w] = 0]
      BY <2>4 DEF UnlockPrev
    <3> QED BY <1>1, <2>1, <3>1
  <2>5. CASE ~ SwapStart(w) /\ ~ DropPrev(w) /\ ~ UnlockPrev(w)
    <3>1. left_index' = left_index /\ i' = i
      BY <2>5 DEF SwapperStep, SwapEnd, Move, SwapLockPrev, SwapReadCur, SwapLockCur,
        SwapStep, SwapLockNext, Compare, SwapPrev, SwapLeft, SwapRight, SwapUnlock, listVars
    <3> QED BY <1>1, <2>1, <3>1
  <2> QED BY <2>2, <2>3, <2>4, <2>5
<1> QED BY <1>1, <1>4, <1>5, <1>6, <1>7, <1>8, <1>9, <1>10, <1>11, <1>12

LEMMA TypeNext == IInv /\ [Next]_vars => TypeOK'
<1> SUFFICES ASSUME IInv, [Next]_vars PROVE TypeOK'
  OBVIOUS
<1>1. ASSUME NEW p \in Threads, Crash(p) PROVE TypeOK'
  <2>1. crashed' \in BOOLEAN /\ UNCHANGED <<size, mpc, storage, first, heap, pc, listVars>>
    BY <1>1 DEF Crash
  <2>2. shared' \in BOOLEAN
    BY <1>1 DEF Crash, IInv, TypeOK
  <2>3. is_running' \in BOOLEAN
    BY <1>1 DEF Crash, IInv, TypeOK
  <2> QED BY <2>1, <2>2, <2>3 DEF IInv, TypeOK, listVars, swapVars, searchVars
<1>2. CASE Ended \/ UNCHANGED vars
  <2>1. UNCHANGED <<size, mpc, storage, first, heap, pc, listVars>>
    BY <1>2 DEF Ended, vars, mainVars
  <2>2. shared' \in BOOLEAN
    BY <1>2 DEF Ended, vars, mainVars, IInv, TypeOK
  <2>3. is_running' \in BOOLEAN
    BY <1>2 DEF Ended, vars, mainVars, IInv, TypeOK
  <2>4. crashed' \in BOOLEAN
    BY <1>2 DEF Ended, vars, mainVars, IInv, TypeOK
  <2> QED BY <2>1, <2>2, <2>3, <2>4 DEF IInv, TypeOK, listVars, swapVars, searchVars
<1> QED BY <1>1, <1>2, MainTypes, SearcherTypes, SwapperTypes DEF Next

LEMMA IInit == Init => IInv
<1> SUFFICES ASSUME Init PROVE IInv
  OBVIOUS
<1>1. TypeOK
  BY TypeInit
<1>2. PhaseInv
  BY StorageConstantsOK DEF Init, PhaseInv, InitPCs
<1>3. LocalInv
  BY DEF Init, LocalInv, Threads
<1>4. LockInv
  <2>1. \A p \in Threads : pc[p] = "none" /\ Holding(p) = {}
    BY DEF Init, Holding
  <2>2. \A n \in Nodes \cup {FIRST} : holders[n] = {}
    BY DEF Init
  <2> QED BY <2>1, <2>2 DEF LockInv, Held, Apart, Threads
<1>5. ListInv
  BY StorageConstantsOK DEF Init, ListInv
<1>6. PathInv
  BY DEF Init, PathInv, Searching, Threads
<1> QED BY <1>1, <1>2, <1>3, <1>4, <1>5, <1>6 DEF IInv

\* A thread steps alone, and only once the storage is handed over.
LEMMA ThreadFrame ==
    ASSUME NEW p \in Threads,
           (p \in Searchers /\ SearcherStep(p)) \/ (p \in Swappers /\ SwapperStep(p))
    PROVE  /\ storage # NULL /\ UNCHANGED mainVars
           /\ \E to : pc' = [pc EXCEPT ![p] = to]
<1>1. CASE p \in Searchers /\ SearcherStep(p)
  BY <1>1 DEF SearcherStep, SearchStart, Move, SearchLockFirst, SearchRead, SearchLockNext,
              SearchPass, UnlockLast, Goto
<1>2. CASE p \in Swappers /\ SwapperStep(p)
  BY <1>2 DEF SwapperStep, SwapStart, SwapEnd, Move, SwapLockPrev, SwapReadCur, SwapLockCur,
    SwapStep, SwapLockNext, DropPrev, Compare, SwapPrev, SwapLeft, SwapRight, SwapUnlock,
    UnlockPrev, Goto
<1> QED BY <1>1, <1>2

\* Which control points a thread passes, and what it needs to leave the first.
LEMMA ThreadMoves ==
    ASSUME NEW p \in Threads, IInv,
           (p \in Searchers /\ SearcherStep(p)) \/ (p \in Swappers /\ SwapperStep(p))
    PROVE  /\ pc[p] # "none" /\ pc[p] # "done"
           /\ pc'[p] \notin {"none", "start", "done"} => size >= 2
           /\ p \in Searchers => pc'[p] \in SearchPCs
           /\ p \in Swappers => pc'[p] \in SwapPCs
<1>1. pc \in [Threads -> SearchPCs \cup SwapPCs \cup {"none"}]
  BY DEF IInv, TypeOK
<1>2. pc[p] \notin {"none", "start", "done"} => size >= 2
  BY DEF IInv, PhaseInv
<1>3. CASE p \in Searchers /\ SearcherStep(p)
  <2>1. p \notin Swappers
    BY <1>3, StorageConstantsOK
  <2> QED BY <1>1, <1>2, <1>3, <2>1 DEF SearcherStep, SearchStart, Move, SearchLockFirst,
      SearchRead, SearchLockNext, SearchPass, UnlockLast, Goto, SearchPCs
<1>4. CASE p \in Swappers /\ SwapperStep(p)
  <2>1. p \notin Searchers
    BY <1>4, StorageConstantsOK
  <2> QED BY <1>1, <1>2, <1>4, <2>1 DEF SwapperStep, SwapStart, SwapEnd, Move,
      SwapLockPrev, SwapReadCur, SwapLockCur, SwapStep, SwapLockNext, DropPrev, Compare,
      SwapPrev, SwapLeft, SwapRight, SwapUnlock, UnlockPrev, Goto, SwapPCs
<1> QED BY <1>3, <1>4

\* Main, step by step.
LEMMA MainPhases == IInv /\ MainStep => PhaseInv'
<1> SUFFICES ASSUME IInv, MainStep PROVE PhaseInv'
  OBVIOUS
<1>1. /\ TypeOK /\ PhaseInv
      /\ UNCHANGED <<shared, size, holders, cur, nxt, prev, i>>
  BY DEF IInv, MainStep, swapVars
<1> USE DEF buildVars, InitPCs
<1>2. CASE RefuseSize \/ MallocStorage \/ MallocFirst \/ MallocNodeFails
  BY <1>1, <1>2 DEF PhaseInv, RefuseSize, MallocStorage, MallocFirst, MallocNodeFails,
      TypeOK,
                    Made
<1>3. CASE MallocNode
  <2>1. PICK at, m : IsList(at, m)
    BY <1>3 DEF MallocNode, IInv, ListInv
  <2>2. /\ End \in heap
    BY <1>1, <1>3, <2>1, EndIs DEF MallocNode, PhaseInv, Made
  <2>3. PICK n \in Nodes : heap' = heap \cup {n} /\ next' = [next EXCEPT ![End] = n]
    BY <1>3 DEF MallocNode
  <2>4. UNCHANGED <<mpc, storage, first, pc, is_running>> /\ mpc = "malloc_node"
    BY <1>3 DEF MallocNode
  <2>5. \A l \in Nodes \cup {FIRST} : l \notin heap' => next'[l] = NULL
    BY <1>1, <2>2, <2>3, <2>4 DEF PhaseInv, TypeOK
  <2>6. storage = NULL
    BY <1>1, <2>4 DEF PhaseInv
  <2> QED BY <1>1, <2>3, <2>4, <2>5, <2>6 DEF PhaseInv
<1>4. CASE InitReturns
  <2>1. /\ storage' = STORAGE /\ mpc' = "create" /\ mpc = "malloc_node"
        /\ UNCHANGED <<first, heap, next, pc>> /\ Cardinality(Made) = size
    BY <1>4 DEF InitReturns
  <2>2. Cardinality(Made)' = size'
    BY <1>1, <2>1 DEF Made
  <2> QED BY <1>1, <2>1, <2>2, StorageConstantsOK DEF PhaseInv
<1>5. CASE storage_destroy
  <2>1. UNCHANGED <<storage, next, pc, is_running>> /\ mpc = "destroy"
    BY <1>5 DEF storage_destroy
  <2>2. PICK at, m, k : IsRest(at, m, k)
    BY <2>1 DEF IInv, ListInv
  <2>3. first = NULL => heap \subseteq {STORAGE}
    <3>1. SUFFICES ASSUME first = NULL, k # m + 1 PROVE FALSE
      <4>1. m \in Nat /\ ({at[j] : j \in (m + 1) .. m} = {})
        BY <2>2 DEF IsRest, IsOrder
      <4> QED BY <2>2, <4>1, <3>1 DEF IsRest
    <3>2. k = 0 \/ k \in 1 .. m
      BY <2>2, <3>1 DEF IsRest, IsOrder
    <3> QED BY <2>2, <3>1, <3>2, StorageConstantsOK DEF IsRest, IsOrder
  <2> QED BY <1>1, <1>5, <2>1, <2>3 DEF storage_destroy, PhaseInv
<1>6. CASE CreateThreads
  <2>1. /\ UNCHANGED <<storage, first, heap, next>> /\ mpc = "create" /\ mpc' = "sleep"
        /\ \A p \in Threads : pc'[p] = "start"
    BY <1>6 DEF CreateThreads
  <2>2. Made' = Made
    BY <2>1 DEF Made
  <2> QED BY <1>1, <2>1, <2>2 DEF PhaseInv
<1>7. CASE stop \/ Join
  <2>1. /\ UNCHANGED <<storage, first, heap, next, pc>> /\ mpc \notin InitPCs \cup {"create"}
        /\ mpc' \notin InitPCs \cup {"create"}
    BY <1>7 DEF stop, Join
  <2>2. Made' = Made
    BY <2>1 DEF Made
  <2> QED BY <1>1, <2>1, <2>2 DEF PhaseInv
<1> QED BY <1>2, <1>3, <1>4, <1>5, <1>6, <1>7 DEF MainStep

LEMMA PhaseNext == IInv /\ [Next]_vars => PhaseInv'
<1> SUFFICES ASSUME IInv, [Next]_vars PROVE PhaseInv'
  OBVIOUS
<1>1. ASSUME NEW p \in Threads,
             (p \in Searchers /\ SearcherStep(p)) \/ (p \in Swappers /\ SwapperStep(p))
      PROVE  PhaseInv'
  <2>1. PICK to : pc' = [pc EXCEPT ![p] = to]
    BY <1>1, ThreadFrame
  <2>2. /\ storage # NULL
        /\ UNCHANGED <<shared, size, is_running, mpc, storage, first, heap, crashed>>
    BY <1>1, ThreadFrame DEF mainVars
  <2>3. mpc \notin InitPCs \cup {"create"}
    BY <1>1, <2>2, ThreadMoves DEF IInv, PhaseInv
  <2>4. Made' = Made
    BY <2>2 DEF Made
  <2>5. /\ \A q \in Threads : q # p => pc'[q] = pc[q]
        /\ pc'[p] \notin {"none", "start", "done"} => size >= 2
    BY <1>1, <2>1, ThreadMoves DEF IInv, TypeOK
  <2> QED BY <2>2, <2>3, <2>4, <2>5 DEF IInv, PhaseInv, InitPCs
<1>2. ASSUME UNCHANGED <<shared, size, mpc, storage, first, heap, pc, next>> PROVE PhaseInv'
  <2>1. Made' = Made
    BY <1>2 DEF Made
  <2> QED BY <1>2, <2>1 DEF IInv, PhaseInv
<1>3. ASSUME NEW p \in Threads, Crash(p) PROVE PhaseInv'
  BY <1>2, <1>3 DEF Crash, listVars
<1>4. CASE Ended \/ UNCHANGED vars
  BY <1>2, <1>4 DEF Ended, vars, mainVars, listVars
<1> QED BY <1>1, <1>3, <1>4, MainPhases DEF Next, Threads

\* What a thread finds, or leaves, when it is between two calls.
LEMMA LocalNext == IInv /\ [Next]_vars => LocalInv'
<1> SUFFICES ASSUME IInv, [Next]_vars PROVE LocalInv'
  OBVIOUS
<1> USE DEF Threads
<1>1. /\ TypeOK /\ LocalInv
  BY DEF IInv
<1>2. ASSUME NEW s \in Searchers, SearcherStep(s) PROVE LocalInv'
  <2>1. /\ pc'[s] \in SearchPCs
        /\ pc' = [pc EXCEPT ![s] = pc'[s]]
    BY <1>1, <1>2, ThreadMoves, ThreadFrame DEF TypeOK
  <2>2. UNCHANGED <<left_index, i>>
    BY <1>2 DEF SearcherStep, SearchStart, Move, SearchLockFirst, SearchRead,
        SearchLockNext,
                SearchPass, UnlockLast, listVars, swapVars
  <2>3. \A q \in Searchers \ {s} : UNCHANGED <<visited[q], cycle_pairs[q], cur[q]>>
    BY <1>1, <1>2 DEF SearcherStep, SearchStart, Move, SearchLockFirst, SearchRead,
       SearchLockNext, SearchPass, UnlockLast, listVars, searchVars, TypeOK
  <2>4. pc'[s] \in {"start", "lock_first"} =>
           visited'[s] = {} /\ cycle_pairs'[s] = 0 /\ cur'[s] = FIRST
    BY <1>1, <1>2 DEF SearcherStep, SearchStart, Move, SearchLockFirst, SearchRead, Goto,
       SearchLockNext, SearchPass, UnlockLast, listVars, searchVars, TypeOK, LocalInv
  <2>5. \A q \in Threads \ {s} : pc'[q] = pc[q]
    BY <1>1, <2>1 DEF TypeOK
  <2>6. s \notin Swappers
    BY StorageConstantsOK
  <2> QED BY <1>1, <2>1, <2>2, <2>3, <2>4, <2>5, <2>6 DEF LocalInv, SearchPCs
<1>3. ASSUME NEW w \in Swappers, SwapperStep(w) PROVE LocalInv'
  <2>1. /\ pc'[w] \in SwapPCs
        /\ pc' = [pc EXCEPT ![w] = pc'[w]]
    BY <1>1, <1>3, ThreadMoves, ThreadFrame DEF TypeOK
  <2>2. w \notin Searchers
    BY StorageConstantsOK
  <2>3. UNCHANGED <<visited, cycle_pairs>> /\ \A q \in Searchers : cur'[q] = cur[q]
    BY <1>1, <1>3, <2>2 DEF SwapperStep, SwapStart, SwapEnd, Move, SwapLockPrev,
        SwapReadCur,
       SwapLockCur, SwapStep, SwapLockNext, DropPrev, Compare, SwapPrev, SwapLeft, SwapRight,
       SwapUnlock, UnlockPrev, listVars, searchVars, TypeOK
  <2>4. left_index' \in [Swappers -> Nat]
    <3>1. size - 2 \in Int /\ (size >= 2 => 0 .. size - 2 \subseteq Nat)
      BY <1>1, StorageConstantsOK DEF TypeOK
    <3> QED BY <1>1, <1>3, <3>1 DEF SwapperStep, SwapStart, SwapEnd, Move, SwapLockPrev,
        SwapReadCur, SwapLockCur, SwapStep, SwapLockNext, DropPrev, Compare, SwapPrev,
        SwapLeft, SwapRight, SwapUnlock, UnlockPrev, listVars, swapVars, LocalInv
  <2>5. i' \in [Swappers -> Nat]
    BY <1>1, <1>3 DEF SwapperStep, SwapStart, SwapEnd, Move, SwapLockPrev, SwapReadCur,
       SwapLockCur, SwapStep, SwapLockNext, DropPrev, Compare, SwapPrev, SwapLeft, SwapRight,
       SwapUnlock, UnlockPrev, listVars, swapVars, LocalInv
  <2>6. \A q \in Threads \ {w} : pc'[q] = pc[q]
    BY <1>1, <2>1 DEF TypeOK
  <2> QED BY <1>1, <2>1, <2>2, <2>3, <2>4, <2>5, <2>6 DEF LocalInv
<1>4. ASSUME UNCHANGED <<pc, visited, cycle_pairs, cur, left_index, i>> PROVE LocalInv'
  BY <1>1, <1>4 DEF LocalInv
<1>5. CASE MainStep
  <2>1. UNCHANGED <<visited, cycle_pairs, cur, left_index, i>>
    BY <1>5 DEF MainStep, swapVars, searchVars
  <2>2. CASE CreateThreads
    <3>1. \A p \in Threads : pc[p] = "none" /\ pc'[p] = "start"
      BY <2>2 DEF CreateThreads, IInv, PhaseInv
    <3> QED BY <1>1, <2>1, <3>1 DEF LocalInv, SearchPCs, SwapPCs
  <2>3. CASE ~ CreateThreads
    BY <1>4, <1>5, <2>1, <2>3 DEF MainStep, RefuseSize, MallocStorage, MallocFirst,
       MallocNode, MallocNodeFails, InitReturns, storage_destroy, stop, Join
  <2> QED BY <2>2, <2>3
<1>6. ASSUME NEW p \in Threads, Crash(p) PROVE LocalInv'
  BY <1>4, <1>6 DEF Crash, listVars, swapVars, searchVars
<1>7. CASE Ended \/ UNCHANGED vars
  BY <1>4, <1>7 DEF Ended, vars, listVars, swapVars, searchVars
<1> QED BY <1>2, <1>3, <1>5, <1>6, <1>7 DEF Next

-----------------------------------------------------------------------------
(* The locks                                                               *)

\* A step of one thread leaves the locals of the others alone.
Untouched(q) ==
    /\ UNCHANGED <<pc[q], cur[q], nxt[q]>>
    /\ q \in Swappers => UNCHANGED <<prev[q], left_index[q], i[q]>>
    /\ q \in Searchers => UNCHANGED <<visited[q], cycle_pairs[q]>>

LEMMA OthersUntouched ==
    ASSUME IInv, NEW p \in Threads,
           (p \in Searchers /\ SearcherStep(p)) \/ (p \in Swappers /\ SwapperStep(p))
    PROVE  \A q \in Threads \ {p} : Untouched(q)
<1> USE DEF Untouched, swapVars, searchVars, listVars, Threads
<1>1. TypeOK /\ LocalInv
  BY DEF IInv
<1>2. \A q \in Threads \ {p} : pc'[q] = pc[q]
  <2>1. PICK to : pc' = [pc EXCEPT ![p] = to]
    BY ThreadFrame
  <2> QED BY <1>1, <2>1 DEF TypeOK
<1>3. CASE p \in Searchers /\ SearcherStep(p)
  <2>1. UNCHANGED <<prev, left_index, i>>
    BY <1>3 DEF SearcherStep, SearchStart, Move, SearchLockFirst, SearchRead,
        SearchLockNext, SearchPass, UnlockLast
  <2>2. \A q \in Threads \ {p} : cur'[q] = cur[q] /\ nxt'[q] = nxt[q]
    BY <1>1, <1>3 DEF SearcherStep, SearchStart, Move, SearchLockFirst, SearchRead,
        SearchLockNext, SearchPass, UnlockLast, TypeOK
  <2>3. \A q \in Searchers \ {p} : visited'[q] = visited[q] /\ cycle_pairs'[q] = cycle_pairs[q]
    BY <1>1, <1>3 DEF SearcherStep, SearchStart, Move, SearchLockFirst, SearchRead,
        SearchLockNext, SearchPass, UnlockLast, TypeOK
  <2> QED BY <1>2, <2>1, <2>2, <2>3
<1>4. CASE p \in Swappers /\ SwapperStep(p)
  <2>1. UNCHANGED <<visited, cycle_pairs>>
    BY <1>4 DEF SwapperStep, SwapStart, SwapEnd, Move, SwapLockPrev, SwapReadCur,
        SwapLockCur, SwapStep, SwapLockNext, DropPrev, Compare, SwapPrev, SwapLeft,
        SwapRight, SwapUnlock, UnlockPrev
  <2>2. \A q \in Threads \ {p} : cur'[q] = cur[q] /\ nxt'[q] = nxt[q]
    BY <1>1, <1>4 DEF SwapperStep, SwapStart, SwapEnd, Move, SwapLockPrev, SwapReadCur,
        SwapLockCur, SwapStep, SwapLockNext, DropPrev, Compare, SwapPrev, SwapLeft,
        SwapRight, SwapUnlock, UnlockPrev, TypeOK
  <2>3. \A q \in Swappers \ {p} : prev'[q] = prev[q]
    BY <1>1, <1>4 DEF SwapperStep, SwapStart, SwapEnd, Move, SwapLockPrev, SwapReadCur,
        SwapLockCur, SwapStep, SwapLockNext, DropPrev, Compare, SwapPrev, SwapLeft,
        SwapRight, SwapUnlock, UnlockPrev, TypeOK
  <2>4. \A q \in Swappers \ {p} : left_index'[q] = left_index[q] /\ i'[q] = i[q]
    BY <1>1, <1>4 DEF SwapperStep, SwapStart, SwapEnd, Move, SwapLockPrev, SwapReadCur,
        SwapLockCur, SwapStep, SwapLockNext, DropPrev, Compare, SwapPrev, SwapLeft,
        SwapRight, SwapUnlock, UnlockPrev, LocalInv
  <2> QED BY <1>2, <2>1, <2>2, <2>3, <2>4
<1> QED BY <1>3, <1>4

LEMMA HoldingUntouched ==
    ASSUME NEW q \in Threads, Untouched(q)
    PROVE  Holding(q)' = Holding(q)
<1>1. q \in Searchers \/ q \in Swappers
  BY DEF Threads
<1> QED BY <1>1 DEF Untouched, Holding

LEMMA HeldMore ==
    ASSUME IInv, NEW p \in Threads, \A q \in Threads \ {p} : Untouched(q),
           NEW n \in Nodes \cup {FIRST}, Lock(p, n), Holding(p)' = Holding(p) \cup {n}
    PROVE  Held'
<1>1. /\ \A q \in Threads \ {p} : Holding(q)' = Holding(q)
      /\ Held /\ holders \in [Nodes \cup {FIRST} -> SUBSET Threads]
  BY HoldingUntouched DEF IInv, LockInv, Held, TypeOK
<1>2. \A l \in Nodes \cup {FIRST} : holders'[l] = IF l = n THEN holders[n] \cup {p} ELSE holders[l]
  BY <1>1 DEF Lock
<1>3. \A l \in Nodes \cup {FIRST} : holders'[l] = {q \in Threads : l \in Holding(q)'}
  BY <1>1, <1>2 DEF Held
<1>4. \A q \in Threads \ {p} : n \in Holding(q) => p \in Searchers /\ q \in Searchers
  BY <1>1 DEF Lock, Held
<1>5. \A q, r \in Threads : q # r /\ Holding(q)' \cap Holding(r)' # {} =>
                                q \in Searchers /\ r \in Searchers
  BY <1>1, <1>4 DEF Held
<1> QED BY <1>3, <1>5 DEF Held

LEMMA HeldLess ==
    ASSUME IInv, NEW p \in Threads, \A q \in Threads \ {p} : Untouched(q),
           NEW n \in Nodes \cup {FIRST}, Unlock(p, n), Holding(p)' = Holding(p) \ {n}
    PROVE  Held'
<1>1. /\ \A q \in Threads \ {p} : Holding(q)' = Holding(q)
      /\ Held /\ holders \in [Nodes \cup {FIRST} -> SUBSET Threads]
  BY HoldingUntouched DEF IInv, LockInv, Held, TypeOK
<1>2. \A l \in Nodes \cup {FIRST} : holders'[l] = IF l = n THEN holders[n] \ {p} ELSE holders[l]
  BY <1>1 DEF Unlock
<1>3. \A l \in Nodes \cup {FIRST} : holders'[l] = {q \in Threads : l \in Holding(q)'}
  BY <1>1, <1>2 DEF Held
<1>4. \A q, r \in Threads : q # r /\ Holding(q)' \cap Holding(r)' # {} =>
                                q \in Searchers /\ r \in Searchers
  BY <1>1 DEF Held
<1> QED BY <1>3, <1>4 DEF Held

LEMMA HeldSame ==
    ASSUME IInv, UNCHANGED holders, \A q \in Threads : Holding(q)' = Holding(q)
    PROVE  Held'
  BY DEF IInv, LockInv, Held

LEMMA SearcherLocks ==
    ASSUME IInv, NEW s \in Searchers, SearcherStep(s)
    PROVE  LockInv'
<1> USE DEF Threads
<1>1. /\ TypeOK /\ LocalInv /\ storage # NULL /\ first = FIRST /\ s \notin Swappers
      /\ \A w \in Swappers : Apart(w)
  BY StorageConstantsOK DEF IInv, PhaseInv, LockInv, SearcherStep, Apart
<1>2. PICK at, m : IsList(at, m)
  BY <1>1 DEF IInv, ListInv
<1>3. pc[s] \in Searching => /\ cur[s] \in Nodes \cup {FIRST}
                             /\ pc[s] \in {"lock_next", "pass"} =>
                                   nxt[s] \in Nodes /\ nxt[s] # cur[s]
  BY <1>2, SearcherStands
<1>4. \A q \in Threads \ {s} : Untouched(q)
  BY OthersUntouched
<1>5. \A w \in Swappers : Apart(w)'
  BY <1>1, <1>4 DEF Untouched, Apart
<1>6. Held'
  <2>1. CASE SearchStart(s)
    <3>1. UNCHANGED listVars /\ pc[s] = "start" /\ pc'[s] \in {"lock_first", "done"}
      BY <1>1, <2>1 DEF SearchStart, Move, Goto, TypeOK
    <3> QED BY <1>4, <3>1, HeldSame, HoldingUntouched DEF listVars, Holding
  <2>2. CASE SearchLockFirst(s)
    <3>1. /\ Lock(s, FIRST) /\ UNCHANGED cur /\ cur[s] = FIRST
          /\ pc[s] = "lock_first" /\ pc'[s] = "read"
      BY <1>1, <2>2 DEF SearchLockFirst, Goto, TypeOK, LocalInv
    <3> QED BY <1>4, <3>1, HeldMore DEF Holding
  <2>3. CASE SearchRead(s)
    <3>1. /\ UNCHANGED <<holders, cur>> /\ pc[s] = "read"
          /\ pc'[s] \in {"unlock_last", "lock_next"}
      BY <1>1, <2>3 DEF SearchRead, Goto, TypeOK
    <3> QED BY <1>4, <3>1, HeldSame, HoldingUntouched DEF Holding
  <2>4. CASE SearchLockNext(s)
    <3>1. /\ Lock(s, nxt[s]) /\ UNCHANGED <<cur, nxt>> /\ nxt[s] \in Nodes
          /\ pc[s] = "lock_next" /\ pc'[s] = "pass"
      BY <1>1, <1>3, <2>4 DEF SearchLockNext, Goto, TypeOK, Searching
    <3> QED BY <1>4, <3>1, HeldMore DEF Holding
  <2>5. CASE SearchPass(s)
    <3>1. /\ Unlock(s, cur[s]) /\ cur'[s] = nxt[s] /\ nxt[s] # cur[s]
          /\ cur[s] \in Nodes \cup {FIRST}
          /\ pc[s] = "pass" /\ pc'[s] = "read"
      BY <1>1, <1>3, <2>5 DEF SearchPass, Goto, TypeOK, Searching
    <3> QED BY <1>4, <3>1, HeldLess DEF Holding
  <2>6. CASE UnlockLast(s)
    <3>1. /\ Unlock(s, cur[s]) /\ cur[s] \in Nodes \cup {FIRST}
          /\ pc[s] = "unlock_last" /\ pc'[s] = "start"
      BY <1>1, <1>3, <2>6 DEF UnlockLast, Goto, TypeOK, Searching
    <3> QED BY <1>4, <3>1, HeldLess DEF Holding
  <2> QED BY <2>1, <2>2, <2>3, <2>4, <2>5, <2>6 DEF SearcherStep
<1> QED BY <1>5, <1>6 DEF Held, LockInv, Apart

LEMMA SwapperLocks ==
    ASSUME IInv, NEW w \in Swappers, SwapperStep(w)
    PROVE  LockInv'
<1> USE DEF Threads
<1>1. /\ TypeOK /\ LocalInv /\ storage # NULL /\ first = FIRST /\ w \notin Searchers
      /\ \A v \in Swappers : Apart(v)
  BY StorageConstantsOK DEF IInv, PhaseInv, LockInv, SwapperStep, Apart
<1>2. PICK at, m : IsList(at, m)
  BY <1>1 DEF IInv, ListInv
<1>3. /\ prev[w] \in Nodes \cup {FIRST}
      /\ pc[w] \in OnCur => cur[w] \in Nodes /\ cur[w] # prev[w]
      /\ pc[w] \in OnNext => nxt[w] \in Nodes /\ nxt[w] # prev[w] /\ nxt[w] # cur[w]
  BY <1>1, <1>2, SwapperStands DEF OnCur, OnNext, TypeOK
<1>4. \A q \in Threads \ {w} : Untouched(q)
  BY OthersUntouched
<1>5. NULL \notin Nodes \cup {FIRST}
  BY StorageConstantsOK
<1>6. \A v \in Swappers \ {w} : Apart(v)'
  BY <1>1, <1>4 DEF Untouched, Apart
<1>7. ASSUME pc'[w] \notin {"unlock_next", "unlock_cur"}, Held' PROVE LockInv'
  <2>1. Apart(w)'
    BY <1>7 DEF Apart
  <2> QED BY <1>6, <1>7, <2>1 DEF Held, LockInv, Apart
<1>8. ASSUME Apart(w)', Held' PROVE LockInv'
  BY <1>6, <1>8 DEF Held, LockInv, Apart
<1>9. CASE SwapStart(w) \/ SwapEnd(w)
  <2>1. /\ UNCHANGED <<holders, cur, nxt>> /\ pc[w] = "start" /\ pc'[w] \in {"lock_prev", "done"}
    BY <1>1, <1>9 DEF SwapStart, SwapEnd, Move, Goto, TypeOK, listVars
  <2> QED BY <1>1, <1>4, <1>7, <2>1, HeldSame, HoldingUntouched DEF Holding
<1>10. CASE SwapLockPrev(w)
  <2>1. /\ Lock(w, prev[w]) /\ UNCHANGED <<prev, cur, nxt>>
        /\ pc[w] = "lock_prev" /\ pc'[w] = "read_cur"
    BY <1>1, <1>10 DEF SwapLockPrev, Goto, TypeOK, swapVars
  <2>2. Holding(w)' = Holding(w) \cup {prev[w]}
    BY <1>1, <2>1 DEF Holding
  <2> QED BY <1>3, <1>4, <1>7, <2>1, <2>2, HeldMore
<1>11. CASE SwapReadCur(w)
  <2>1. /\ UNCHANGED <<holders, prev, nxt>> /\ pc[w] = "read_cur"
        /\ pc'[w] \in {"unlock_prev", "lock_cur"}
    BY <1>1, <1>11 DEF SwapReadCur, Goto, TypeOK, swapVars
  <2>2. Holding(w)' = Holding(w)
    BY <1>1, <2>1 DEF Holding
  <2> QED BY <1>4, <1>7, <2>1, <2>2, HeldSame, HoldingUntouched
<1>12. CASE SwapLockCur(w)
  <2>1. /\ Lock(w, cur[w]) /\ UNCHANGED <<prev, cur, nxt>> /\ cur[w] \in Nodes
        /\ pc[w] = "lock_cur" /\ pc'[w] = "step"
    BY <1>1, <1>3, <1>12 DEF SwapLockCur, Goto, TypeOK, swapVars, OnCur, OnPrev
  <2>2. Holding(w)' = Holding(w) \cup {cur[w]}
    BY <1>1, <2>1 DEF Holding
  <2> QED BY <1>4, <1>7, <2>1, <2>2, HeldMore
<1>13. CASE SwapStep(w)
  <2>1. /\ UNCHANGED <<holders, prev, cur>> /\ pc[w] = "step"
        /\ pc'[w] \in {"unlock_cur", "lock_next"}
    BY <1>1, <1>13 DEF SwapStep, Goto, TypeOK, swapVars
  <2>2. Holding(w)' = Holding(w)
    BY <1>1, <2>1 DEF Holding
  <2>3. Apart(w)'
    BY <1>3, <1>5, <2>1 DEF Apart, OnCur, OnPrev
  <2> QED BY <1>4, <1>8, <2>1, <2>2, <2>3, HeldSame, HoldingUntouched
<1>14. CASE SwapLockNext(w)
  <2>1. /\ Lock(w, nxt[w]) /\ UNCHANGED <<prev, cur, nxt>> /\ nxt[w] \in Nodes
        /\ pc[w] = "lock_next" /\ pc'[w] \in {"drop_prev", "compare"}
    BY <1>1, <1>3, <1>14 DEF SwapLockNext, Goto, TypeOK, swapVars, OnNext, OnCur, OnPrev
  <2>2. Holding(w)' = Holding(w) \cup {nxt[w]}
    BY <1>1, <2>1 DEF Holding
  <2> QED BY <1>4, <1>7, <2>1, <2>2, HeldMore
<1>15. CASE DropPrev(w)
  <2>1. /\ Unlock(w, prev[w]) /\ prev'[w] = cur[w] /\ cur'[w] = nxt[w]
        /\ cur[w] # prev[w] /\ nxt[w] # prev[w]
        /\ pc[w] = "drop_prev" /\ pc'[w] = "step"
    BY <1>1, <1>3, <1>15 DEF DropPrev, Goto, TypeOK, OnNext, OnCur, OnPrev
  <2>2. Holding(w)' = Holding(w) \ {prev[w]}
    BY <1>1, <2>1 DEF Holding
  <2> QED BY <1>3, <1>4, <1>7, <2>1, <2>2, HeldLess
<1>16. CASE Compare(w) \/ SwapPrev(w) \/ SwapLeft(w) \/ SwapRight(w)
  <2>1. /\ UNCHANGED <<holders, prev, cur, nxt>> /\ pc[w] \in OnNext \ {"drop_prev", "lock_next"}
        /\ pc'[w] \in {"swap_prev", "swap_left", "swap_right", "unlock_next"}
    BY <1>1, <1>16 DEF Compare, SwapPrev, SwapLeft, SwapRight, Move, Goto, TypeOK, listVars,
                       swapVars, OnNext, OnCur, OnPrev
  <2>2. Holding(w)' = Holding(w)
    BY <1>1, <2>1 DEF Holding, OnNext, OnCur, OnPrev
  <2>3. Apart(w)'
    BY <1>3, <1>5, <2>1 DEF Apart, OnNext
  <2> QED BY <1>4, <1>8, <2>1, <2>2, <2>3, HeldSame, HoldingUntouched
<1>17. CASE SwapUnlock(w, "unlock_next", nxt[w], "unlock_cur")
  <2>1. /\ Unlock(w, nxt[w]) /\ UNCHANGED <<prev, cur, nxt>>
        /\ pc[w] = "unlock_next" /\ pc'[w] = "unlock_cur"
    BY <1>1, <1>17 DEF SwapUnlock, Goto, TypeOK, swapVars
  <2>2. /\ nxt[w] \in Nodes /\ nxt[w] \notin {prev[w], cur[w]}
    BY <1>1, <2>1 DEF Apart, TypeOK
  <2>3. Holding(w)' = Holding(w) \ {nxt[w]}
    BY <1>1, <2>1, <2>2 DEF Holding
  <2>4. Apart(w)'
    BY <1>1, <2>1 DEF Apart
  <2> QED BY <1>4, <1>8, <2>1, <2>2, <2>3, <2>4, HeldLess
<1>18. CASE SwapUnlock(w, "unlock_cur", cur[w], "unlock_prev")
  <2>1. /\ Unlock(w, cur[w]) /\ UNCHANGED <<prev, cur, nxt>>
        /\ pc[w] = "unlock_cur" /\ pc'[w] = "unlock_prev"
    BY <1>1, <1>18 DEF SwapUnlock, Goto, TypeOK, swapVars
  <2>2. cur[w] \in Nodes \cup {FIRST} /\ cur[w] # prev[w]
    BY <1>1, <2>1 DEF Apart, TypeOK
  <2>3. Holding(w)' = Holding(w) \ {cur[w]}
    BY <1>1, <2>1, <2>2 DEF Holding
  <2> QED BY <1>4, <1>7, <2>1, <2>2, <2>3, HeldLess
<1>19. CASE UnlockPrev(w)
  <2>1. /\ Unlock(w, prev[w]) /\ pc[w] = "unlock_prev" /\ pc'[w] = "start"
    BY <1>1, <1>19 DEF UnlockPrev, Goto, TypeOK
  <2>2. Holding(w)' = Holding(w) \ {prev[w]}
    BY <1>1, <2>1 DEF Holding
  <2> QED BY <1>3, <1>4, <1>7, <2>1, <2>2, HeldLess
<1> QED BY <1>9, <1>10, <1>11, <1>12, <1>13, <1>14, <1>15, <1>16, <1>17, <1>18, <1>19
        DEF SwapperStep

LEMMA LockNext == IInv /\ [Next]_vars => LockInv'
<1> SUFFICES ASSUME IInv, [Next]_vars PROVE LockInv'
  OBVIOUS
<1>1. ASSUME UNCHANGED <<holders, pc, prev, cur, nxt>> PROVE LockInv'
  <2>1. \A p : Holding(p)' = Holding(p)
    BY <1>1 DEF Holding
  <2> QED BY <1>1, <2>1 DEF IInv, LockInv, Held, Apart
<1>2. CASE MainStep
  <2>1. UNCHANGED <<holders, prev, cur, nxt>>
    BY <1>2 DEF MainStep, swapVars
  <2>2. CASE CreateThreads
    <3>1. \A p \in Threads : pc[p] = "none" /\ pc'[p] = "start"
      BY <2>2 DEF CreateThreads, IInv, PhaseInv
    <3>2. \A p \in Threads : Holding(p) = {} /\ Holding(p)' = {}
      BY <3>1 DEF Holding
    <3> QED BY <2>1, <3>1, <3>2 DEF IInv, LockInv, Held, Apart, Threads
  <2>3. CASE ~ CreateThreads
    BY <1>1, <1>2, <2>1, <2>3 DEF MainStep, RefuseSize, MallocStorage, MallocFirst,
       MallocNode, MallocNodeFails, InitReturns, storage_destroy, stop, Join
  <2> QED BY <2>2, <2>3
<1>3. ASSUME NEW p \in Threads, Crash(p) PROVE LockInv'
  BY <1>1, <1>3 DEF Crash, listVars, swapVars
<1>4. CASE Ended \/ UNCHANGED vars
  BY <1>1, <1>4 DEF Ended, vars, listVars, swapVars
<1> QED BY <1>2, <1>3, <1>4, SearcherLocks, SwapperLocks DEF Next

-----------------------------------------------------------------------------
(* Main builds the list, or takes it apart again                           *)

LEMMA ListKept ==
    ASSUME NEW at, NEW m, IsList(at, m),
           UNCHANGED <<heap, next, pc, prev, cur, nxt, left_index, i, visited>>
    PROVE  IsList(at, m)'
  BY DEF IsList, IsOrder, Linked, Placed, SearchesAt, SwapsAt, Swapping, Made

LEMMA MallocFirstList ==
    ASSUME IInv, MallocFirst, mpc' = "malloc_node"
    PROVE  \E at, m : IsList(at, m)'
<1> DEFINE at == [k \in 0 .. 1 |-> IF k = 0 THEN FIRST ELSE NULL]
<1>1. /\ heap' = heap \cup {FIRST} /\ heap \subseteq {STORAGE}
      /\ next[FIRST] = NULL /\ UNCHANGED <<next, pc>>
      /\ \A p \in Threads : pc'[p] = "none"
  BY StorageConstantsOK DEF MallocFirst, IInv, PhaseInv, InitPCs
<1>2. Made' = {}
  BY <1>1 DEF Made
<1>3. IsOrder(at, 0)'
  BY DEF IsOrder
<1>4. at[0] = FIRST /\ at[1] = NULL /\ {at[k] : k \in 1 .. 0} = {}
  OBVIOUS
<1> HIDE DEF at
<1>5. \A k \in 0 .. 0 : next'[at[k]] = at[k + 1]
  BY <1>1, <1>4
<1>6. Swapping' = {} /\ Searchers \subseteq Threads /\ Swappers \subseteq Threads
  BY <1>1 DEF Swapping, Threads
<1>7. Linked(at, 0)'
  BY <1>5, <1>6 DEF Linked
<1>8. Placed(at, 0)'
  BY <1>1, <1>6 DEF Placed, SwapsAt, Searching, OnPrev, OnCur, OnNext, AtGoal
<1> QED BY <1>2, <1>3, <1>4, <1>7, <1>8 DEF IsList

LEMMA MallocNodeList ==
    ASSUME IInv, MallocNode
    PROVE  \E at, m : IsList(at, m)'
<1>1. PICK at, m : IsList(at, m)
  BY DEF MallocNode, IInv, ListInv
<1>2. PICK n \in Nodes \ heap : /\ heap' = heap \cup {n}
                                /\ next' = [next EXCEPT ![End] = n]
  BY DEF MallocNode
<1>3. /\ mpc = "malloc_node" /\ UNCHANGED <<mpc, storage, first, pc>>
      /\ \A p \in Threads : pc[p] = "none" /\ pc'[p] = "none"
      /\ next \in [Nodes \cup {FIRST} -> Nodes \cup {NULL}] /\ FIRST \in heap
      /\ next[n] = NULL
  BY <1>2 DEF MallocNode, IInv, PhaseInv, TypeOK, InitPCs
<1>4. End = at[m] /\ End \in Nodes \cup {FIRST} /\ End \in Made \cup {FIRST}
  BY <1>1, <1>3, EndIs
<1>5. /\ m \in Nat /\ at \in [0 .. m + 1 -> Nodes \cup {FIRST, NULL}]
      /\ at[0] = FIRST /\ at[m + 1] = NULL /\ \A k \in 1 .. m : at[k] \in Nodes
      /\ \A j, k \in 0 .. m : at[j] = at[k] => j = k
      /\ Made = {at[k] : k \in 1 .. m}
  BY <1>1 DEF IsList, IsOrder
<1>6. Swapping = {} /\ Swapping' = {} /\ Searchers \subseteq Threads /\ Swappers \subseteq Threads
  BY <1>3 DEF Swapping, Threads
<1>7. \A k \in 0 .. m : next[at[k]] = at[k + 1]
  BY <1>1, <1>6 DEF IsList, Linked
<1>8. n # FIRST /\ n # STORAGE /\ n \notin Made
  BY <1>2, StorageConstantsOK DEF Made
<1>9. Made' = Made \cup {n}
  BY <1>2, <1>8 DEF Made
<1> DEFINE at2 == [k \in 0 .. m + 2 |-> IF k <= m THEN at[k] ELSE IF k = m + 1 THEN n ELSE NULL]
<1>10. /\ \A k \in 0 .. m : at2[k] = at[k] /\ at2[m + 1] = n /\ at2[m + 2] = NULL
       /\ at2 \in [0 .. (m + 1) + 1 -> Nodes \cup {FIRST, NULL}]
  <2>1. \A k \in 0 .. m : at2[k] = at[k]
    BY <1>5
  <2>2. at2[m + 1] = n
    BY <1>5
  <2>3. at2[m + 2] = NULL
    BY <1>5
  <2>4. at2 \in [0 .. (m + 1) + 1 -> Nodes \cup {FIRST, NULL}]
    <3>1. (m + 1) + 1 = m + 2
      BY <1>5
    <3> QED BY <1>2, <1>5, <3>1
  <2> QED BY <2>1, <2>2, <2>3, <2>4
<1> HIDE DEF at2
<1>11. \A k \in 0 .. m + 1 : k \in 0 .. m \/ k = m + 1
  BY <1>5
<1>12. \A k \in 0 .. m : at[k] \in Made \cup {FIRST}
  <2>1. \A k \in 0 .. m : k = 0 \/ k \in 1 .. m
    BY <1>5
  <2> QED BY <1>5, <2>1
<1>13. IsOrder(at2, m + 1)'
  <2>1. m + 1 \in Nat /\ at2[0] = FIRST /\ at2[(m + 1) + 1] = NULL
    BY <1>5, <1>10
  <2>2. \A k \in 1 .. m + 1 : at2[k] \in Nodes
    <3>1. \A k \in 1 .. m + 1 : (k \in 1 .. m /\ k \in 0 .. m) \/ k = m + 1
      BY <1>5
    <3> QED BY <1>2, <1>5, <1>10, <3>1
  <2>3. \A j, k \in 0 .. m + 1 : at2[j] = at2[k] => j = k
    BY <1>5, <1>8, <1>10, <1>11, <1>12
  <2> QED BY <1>10, <2>1, <2>2, <2>3 DEF IsOrder
<1>14. \A k \in 0 .. m + 1 : next'[at2[k]] = at2[k + 1]
  <2>1. ASSUME NEW k \in 0 .. m - 1 PROVE next'[at2[k]] = at2[k + 1]
    <3>1. k \in 0 .. m /\ k + 1 \in 0 .. m /\ k # m /\ m \in 0 .. m
      BY <1>5
    <3>2. at[k] # End /\ at[k] \in Nodes \cup {FIRST}
      BY <1>4, <1>5, <1>12, <3>1 DEF Made
    <3> QED BY <1>2, <1>3, <1>7, <1>10, <3>1, <3>2
  <2>2. next'[at2[m]] = at2[m + 1]
    <3>1. m \in 0 .. m
      BY <1>5
    <3> QED BY <1>2, <1>3, <1>4, <1>10, <3>1
  <2>3. next'[at2[m + 1]] = at2[m + 2]
    <3>1. n # End
      BY <1>4, <1>8
    <3> QED BY <1>2, <1>3, <1>10, <3>1, <1>5
  <2>4. \A k \in 0 .. m + 1 : k \in 0 .. m - 1 \/ k = m \/ k = m + 1
    BY <1>5
  <2>5. (m + 1) + 1 = m + 2
    BY <1>5
  <2> QED BY <2>1, <2>2, <2>3, <2>4, <2>5
<1>15. Linked(at2, m + 1)'
  BY <1>6, <1>14 DEF Linked
<1>16. Placed(at2, m + 1)'
  BY <1>3, <1>6 DEF Placed, SwapsAt, Searching, OnPrev, OnCur, OnNext, AtGoal
<1>17. Made' = {at2[k] : k \in 1 .. m + 1}
  <2>1. \A k \in 1 .. m + 1 : k \in 1 .. m \/ k = m + 1
    BY <1>5
  <2>2. 1 .. m \subseteq 1 .. m + 1 /\ m + 1 \in 1 .. m + 1 /\ 1 .. m \subseteq 0 .. m
    BY <1>5
  <2> QED BY <1>5, <1>9, <1>10, <2>1, <2>2
<1> QED BY <1>13, <1>15, <1>16, <1>17 DEF IsList

LEMMA DestroyRest ==
    ASSUME IInv, storage_destroy, mpc' = "destroy"
    PROVE  \E at, m, k : IsRest(at, m, k)'
<1>1. /\ mpc = "destroy" /\ UNCHANGED <<next, pc>> /\ first # NULL
      /\ heap' = heap \ {first} /\ first' = next[first]
      /\ \A p \in Threads : pc[p] = "none" /\ pc'[p] = "none"
  BY DEF storage_destroy, IInv, PhaseInv, InitPCs
<1>2. PICK at, m, k : IsRest(at, m, k)
  BY <1>1 DEF IInv, ListInv
<1>3. /\ m \in Nat /\ at \in [0 .. m + 1 -> Nodes \cup {FIRST, NULL}]
      /\ at[m + 1] = NULL /\ k \in 0 .. m + 1 /\ first = at[k]
      /\ \A j, l \in 0 .. m : at[j] = at[l] => j = l
      /\ heap = {STORAGE} \cup {at[j] : j \in k .. m}
  BY <1>2 DEF IsRest, IsOrder
<1>4. Swapping = {} /\ Swapping' = {}
  BY <1>1 DEF Swapping, Threads
<1>5. k \in 0 .. m /\ next[at[k]] = at[k + 1]
  <2>1. k \in 0 .. m
    BY <1>1, <1>3
  <2> QED BY <1>2, <1>4, <2>1 DEF IsRest, Linked
<1>6. /\ k + 1 \in 0 .. m + 1 /\ \A j \in k + 1 .. m : j \in k .. m /\ j # k /\ j \in 0 .. m
      /\ \A j \in k .. m : j = k \/ j \in k + 1 .. m
  BY <1>3, <1>5
<1>7. at[k] # STORAGE
  <2>1. k \in 0 .. m + 1
    BY <1>3
  <2>2. at[k] \in Nodes \cup {FIRST, NULL}
    BY <1>3, <2>1
  <2> QED BY <2>2, StorageConstantsOK
<1>8. heap' = {STORAGE} \cup {at[j] : j \in k + 1 .. m}
  BY <1>1, <1>3, <1>5, <1>6, <1>7
<1>9. IsOrder(at, m)' /\ Linked(at, m)'
  BY <1>1, <1>2, <1>4 DEF IsRest, IsOrder, Linked
<1>10. first' = at[k + 1]
  BY <1>1, <1>3, <1>5
<1>11. IsRest(at, m, k + 1)'
  BY <1>6, <1>8, <1>9, <1>10 DEF IsRest
<1> QED BY <1>11

LEMMA MainLists == IInv /\ MainStep => ListInv'
<1> SUFFICES ASSUME IInv, MainStep PROVE ListInv'
  OBVIOUS
<1>1. UNCHANGED <<prev, cur, nxt, left_index, i, visited>>
  BY DEF MainStep, swapVars, searchVars
<1>2. mpc \in InitPCs => storage = NULL
  BY DEF IInv, PhaseInv
<1> USE DEF InitPCs, buildVars
<1>3. CASE RefuseSize \/ MallocStorage
  BY <1>2, <1>3 DEF RefuseSize, MallocStorage, ListInv
<1>4. CASE MallocFirst
  <2>1. storage' = NULL /\ mpc' \in {"malloc_node", "create"}
    BY <1>2, <1>4 DEF MallocFirst
  <2> QED BY <1>4, <2>1, MallocFirstList DEF ListInv
<1>5. CASE MallocNode
  <2>1. mpc' = "malloc_node"
    BY <1>5 DEF MallocNode
  <2> QED BY <1>5, <2>1, MallocNodeList DEF ListInv
<1>6. CASE MallocNodeFails
  <2>1. /\ mpc = "malloc_node" /\ mpc' = "destroy" /\ UNCHANGED <<storage, first, heap, next, pc>>
        /\ first = FIRST /\ STORAGE \in heap /\ FIRST \in heap /\ storage = NULL
    BY <1>6 DEF MallocNodeFails, IInv, PhaseInv
  <2>2. PICK at, m : IsList(at, m)
    BY <2>1 DEF IInv, ListInv
  <2>3. m \in Nat /\ at[0] = FIRST /\ Made = {at[k] : k \in 1 .. m}
    BY <2>2 DEF IsList, IsOrder
  <2>4. heap = {STORAGE} \cup {at[j] : j \in 0 .. m}
    <3>1. \A k \in 0 .. m : k = 0 \/ k \in 1 .. m
      BY <2>3
    <3>2. 0 \in 0 .. m /\ 1 .. m \subseteq 0 .. m
      BY <2>3
    <3>3. heap = {STORAGE, FIRST} \cup Made
      BY <2>1 DEF Made
    <3> QED BY <2>3, <3>1, <3>2, <3>3
  <2>5. 0 \in 0 .. m + 1 /\ first = at[0]
    BY <2>1, <2>3
  <2>6. IsOrder(at, m)' /\ Linked(at, m)'
    BY <1>1, <2>1, <2>2 DEF IsList, IsOrder, Linked, Swapping
  <2>7. IsRest(at, m, 0)'
    BY <2>1, <2>4, <2>5, <2>6 DEF IsRest
  <2> QED BY <2>1, <2>7 DEF ListInv
<1>7. ASSUME UNCHANGED <<heap, next, pc>>, mpc' \notin {"malloc_node", "destroy"},
             mpc = "malloc_node" \/ storage # NULL
      PROVE  ListInv'
  <2>1. PICK at, m : IsList(at, m)
    BY <1>7 DEF IInv, ListInv
  <2> QED BY <1>1, <1>7, <2>1, ListKept DEF ListInv
<1>8. CASE InitReturns
  BY <1>7, <1>8 DEF InitReturns
<1>9. CASE storage_destroy
  <2>1. storage' = NULL /\ mpc' \in {"destroy", "create"}
    BY <1>2, <1>9 DEF storage_destroy
  <2> QED BY <1>9, <2>1, DestroyRest DEF ListInv
<1>10. CASE CreateThreads
  <2>1. /\ mpc' = "sleep" /\ UNCHANGED <<storage, heap, next>>
        /\ \A p \in Threads : pc[p] = "none" /\ pc'[p] = "start"
    BY <1>10 DEF CreateThreads, IInv, PhaseInv
  <2>2. ASSUME storage # NULL PROVE \E at, m : IsList(at, m)'
    <3>1. PICK at, m : IsList(at, m)
      BY <2>2 DEF IInv, ListInv
    <3>2. /\ Swapping = {} /\ Swapping' = {}
          /\ Searchers \subseteq Threads /\ Swappers \subseteq Threads
      BY <2>1 DEF Swapping, Threads
    <3>3. IsOrder(at, m)' /\ Linked(at, m)' /\ Made' = Made
      BY <2>1, <3>1, <3>2 DEF IsList, IsOrder, Linked, Made
    <3>4. Placed(at, m)'
      BY <2>1, <3>2 DEF Placed, SwapsAt, Searching, OnPrev, OnCur, OnNext, AtGoal
    <3> QED BY <3>1, <3>3, <3>4 DEF IsList
  <2> QED BY <2>1, <2>2 DEF ListInv
<1>11. CASE stop \/ Join
  <2>1. /\ UNCHANGED <<heap, next, pc, storage>>
        /\ mpc' \notin {"malloc_node", "destroy"}
    BY <1>11 DEF stop, Join
  <2> QED BY <1>7, <2>1 DEF ListInv
<1> QED BY <1>3, <1>4, <1>5, <1>6, <1>8, <1>9, <1>10, <1>11 DEF MainStep

-----------------------------------------------------------------------------
(* A searcher goes on along the list                                       *)

\* Who stands where he stood has his place.
LEMMA PlaceKept ==
    ASSUME NEW at, NEW m, Placed(at, m), NEW q \in Threads, Untouched(q)
    PROVE  /\ q \in Searchers /\ pc'[q] \in Searching =>
                 \E k \in 0 .. m : SearchesAt(q, at, m, k)'
           /\ q \in Swappers => SwapsAt(q, at)'
<1>1. ASSUME q \in Searchers, pc'[q] \in Searching
      PROVE  \E k \in 0 .. m : SearchesAt(q, at, m, k)'
  <2>1. PICK k \in 0 .. m : SearchesAt(q, at, m, k)
    BY <1>1 DEF Placed, Untouched
  <2>2. SearchesAt(q, at, m, k)'
    BY <1>1, <2>1 DEF SearchesAt, Untouched
  <2> QED BY <2>2
<1>2. ASSUME q \in Swappers PROVE SwapsAt(q, at)'
  BY <1>2 DEF Placed, SwapsAt, Untouched
<1> QED BY <1>1, <1>2

\* The pointer a searcher reads is not one of those half a swap has changed.
LEMMA SearcherReads ==
    ASSUME IInv, NEW s \in Searchers, pc[s] = "read", NEW at, NEW m, IsList(at, m),
           NEW k \in 0 .. m, cur[s] = at[k]
    PROVE  next[cur[s]] = at[k + 1]
<1>1. ASSUME NEW w \in Swapping PROVE cur[s] # prev[w] /\ cur[s] # cur[w]
  <2>1. w \in Swappers /\ w \notin Searchers /\ w # s /\ pc[w] \in {"swap_left", "swap_right"}
    BY StorageConstantsOK DEF Swapping
  <2>2. prev[w] \in Holding(w) /\ cur[w] \in Holding(w) /\ cur[s] \in Holding(s)
    BY <2>1 DEF Holding
  <2> QED BY <2>1, <2>2 DEF IInv, LockInv, Held, Threads
<1> QED BY <1>1 DEF IsList, Linked

LEMMA SearcherPlace ==
    ASSUME IInv, NEW s \in Searchers, SearcherStep(s), NEW at, NEW m, IsList(at, m),
           pc'[s] \in Searching
    PROVE  \E k \in 0 .. m : SearchesAt(s, at, m, k)'
<1>1. /\ TypeOK /\ LocalInv /\ storage # NULL /\ first = FIRST /\ s \in Threads
  BY DEF IInv, PhaseInv, SearcherStep, Threads
<1>2. /\ m \in Nat /\ at[0] = FIRST /\ at[m + 1] = NULL /\ \A k \in 1 .. m : at[k] \in Nodes
      /\ NULL \notin Nodes
  BY StorageConstantsOK DEF IsList, IsOrder
<1>3. pc[s] \in Searching => \E k \in 0 .. m : SearchesAt(s, at, m, k)
  BY DEF IsList, Placed
<1>4. CASE SearchLockFirst(s)
  <2>1. cur'[s] = FIRST /\ visited'[s] = {} /\ pc'[s] = "read"
    BY <1>1, <1>4 DEF SearchLockFirst, Goto, LocalInv, TypeOK, searchVars
  <2>2. {at[j] : j \in 1 .. 0} = {} /\ 0 \in 0 .. m
    BY <1>2
  <2>3. SearchesAt(s, at, m, 0)'
    BY <1>2, <2>1, <2>2 DEF SearchesAt
  <2> QED BY <2>2, <2>3
<1>5. CASE SearchRead(s)
  <2>1. pc[s] = "read" /\ UNCHANGED <<cur, visited>> /\ nxt'[s] = next[cur[s]]
        /\ pc'[s] = IF next[cur[s]] = NULL THEN "unlock_last" ELSE "lock_next"
    BY <1>1, <1>5 DEF SearchRead, Goto, TypeOK, searchVars
  <2>2. PICK k \in 0 .. m : SearchesAt(s, at, m, k)
    BY <1>3, <2>1 DEF Searching
  <2>3. next[cur[s]] = at[k + 1]
    BY <2>1, <2>2, SearcherReads DEF SearchesAt
  <2>4. (at[k + 1] = NULL) <=> (k = m)
    <3>1. k # m => k + 1 \in 1 .. m
      BY <1>2
    <3> QED BY <1>2, <3>1
  <2>5. k # m => k < m
    BY <1>2
  <2>6. SearchesAt(s, at, m, k)'
    BY <2>1, <2>2, <2>3, <2>4, <2>5 DEF SearchesAt
  <2> QED BY <2>6
<1>6. CASE SearchLockNext(s)
  <2>1. /\ pc[s] = "lock_next" /\ UNCHANGED <<cur, nxt>> /\ pc'[s] = "pass"
        /\ visited'[s] = visited[s] \cup {nxt[s]}
    BY <1>1, <1>6 DEF SearchLockNext, Goto, TypeOK
  <2>2. PICK k \in 0 .. m : SearchesAt(s, at, m, k)
    BY <1>3, <2>1 DEF Searching
  <2>3. {at[j] : j \in 1 .. k} \cup {at[k + 1]} = {at[j] : j \in 1 .. k + 1}
    <3>1. \A j \in 1 .. k + 1 : j \in 1 .. k \/ j = k + 1
      BY <1>2
    <3>2. 1 .. k \subseteq 1 .. k + 1 /\ k + 1 \in 1 .. k + 1
      BY <1>2
    <3> QED BY <3>1, <3>2
  <2>4. SearchesAt(s, at, m, k)'
    BY <2>1, <2>2, <2>3 DEF SearchesAt
  <2> QED BY <2>4
<1>7. CASE SearchPass(s)
  <2>1. /\ pc[s] = "pass" /\ UNCHANGED visited /\ cur'[s] = nxt[s] /\ pc'[s] = "read"
    BY <1>1, <1>7 DEF SearchPass, Goto, TypeOK
  <2>2. PICK k \in 0 .. m : SearchesAt(s, at, m, k)
    BY <1>3, <2>1 DEF Searching
  <2>3. k + 1 \in 0 .. m
    BY <1>2, <2>1, <2>2 DEF SearchesAt
  <2>4. SearchesAt(s, at, m, k + 1)'
    BY <2>1, <2>2 DEF SearchesAt
  <2> QED BY <2>3, <2>4
<1>8. CASE SearchStart(s) \/ UnlockLast(s)
  <2>1. pc'[s] \in {"lock_first", "done", "start"}
    BY <1>1, <1>8 DEF SearchStart, Move, UnlockLast, Goto, TypeOK
  <2> QED BY <2>1 DEF Searching
<1> QED BY <1>4, <1>5, <1>6, <1>7, <1>8 DEF SearcherStep

LEMMA SearcherKeeps ==
    ASSUME IInv, NEW s \in Searchers, SearcherStep(s), NEW at, NEW m, IsList(at, m)
    PROVE  IsList(at, m)'
<1>1. \A q \in Threads \ {s} : Untouched(q)
  BY OthersUntouched DEF Threads
<1>2. next' = next /\ heap' = heap
  BY DEF SearcherStep, SearchStart, Move, SearchLockFirst, SearchRead, SearchLockNext,
      SearchPass, UnlockLast, listVars, mainVars
<1>3. /\ s \notin Swappers /\ s \in Threads
      /\ \A w \in Swappers : w \in Threads \ {s} /\ Untouched(w)
  BY <1>1, StorageConstantsOK DEF Threads
<1>4. Swapping' = Swapping
  BY <1>3 DEF Swapping, Untouched
<1>5. Linked(at, m)'
  <2>1. \A w \in Swapping : w \in Swappers /\ UNCHANGED <<pc[w], prev[w], cur[w], nxt[w]>>
    BY <1>3 DEF Swapping, Untouched
  <2> QED BY <1>2, <1>4, <2>1 DEF IsList, Linked
<1>6. Placed(at, m)'
  <2>1. \A q \in Searchers : pc'[q] \in Searching => \E k \in 0 .. m : SearchesAt(q, at, m, k)'
    <3>1. SUFFICES ASSUME NEW q \in Searchers, pc'[q] \in Searching
                   PROVE  \E k \in 0 .. m : SearchesAt(q, at, m, k)'
      OBVIOUS
    <3>2. CASE q = s
      BY <3>1, <3>2, SearcherPlace
    <3>3. CASE q # s
      <4>1. q \in Threads /\ Untouched(q)
        BY <1>1, <3>3 DEF Threads
      <4> QED BY <3>1, <4>1, PlaceKept DEF IsList
    <3> QED BY <3>2, <3>3
  <2>2. \A w \in Swappers : SwapsAt(w, at)'
    BY <1>3, PlaceKept DEF IsList
  <2> QED BY <2>1, <2>2 DEF Placed
<1> QED BY <1>2, <1>5, <1>6 DEF IsList, IsOrder, Made

-----------------------------------------------------------------------------
(* A swapper goes on along the list and exchanges two nodes of it          *)

\* What a swapper has locked nobody else has.
LEMMA SwapperAlone ==
    ASSUME IInv, NEW w \in Swappers, NEW q \in Threads, q # w
    PROVE  Holding(w) \cap Holding(q) = {}
  BY StorageConstantsOK DEF IInv, LockInv, Held, Threads

LEMMA SwappersHold ==
    ASSUME NEW w \in Swappers
    PROVE  /\ pc[w] \in OnPrev \ {"lock_prev"} => prev[w] \in Holding(w)
           /\ pc[w] \in OnCur \ {"lock_cur"} => cur[w] \in Holding(w)
           /\ pc[w] \in OnNext \ {"lock_next"} => nxt[w] \in Holding(w)
<1>1. w \notin Searchers
  BY StorageConstantsOK
<1> QED BY <1>1 DEF OnPrev, OnCur, OnNext, Holding

\* The pointers a swapper reads are not those of another one's half swap.
LEMMA SwapperReads ==
    ASSUME IInv, NEW w \in Swappers, NEW at, NEW m, IsList(at, m),
           NEW k \in 0 .. m, at[k] \in Holding(w),
           w \in Swapping => at[k] # prev[w] /\ at[k] # cur[w]
    PROVE  next[at[k]] = at[k + 1]
<1>1. ASSUME NEW v \in Swapping PROVE at[k] # prev[v] /\ at[k] # cur[v]
  <2>1. CASE v = w
    BY <2>1
  <2>2. CASE v # w
    <3>1. v \in Swappers /\ v \in Threads /\ pc[v] \in {"swap_left", "swap_right"}
      BY DEF Swapping, Threads
    <3>2. prev[v] \in Holding(v) /\ cur[v] \in Holding(v)
      BY <3>1, SwappersHold DEF OnPrev, OnCur
    <3> QED BY <2>2, <3>1, <3>2, SwapperAlone
  <2> QED BY <2>1, <2>2
<1> QED BY <1>1 DEF IsList, Linked

\* Where a swapper stands after a step that writes to no node.
LEMMA SwapperPlace ==
    ASSUME IInv, NEW w \in Swappers, SwapperStep(w), NEW at, NEW m, IsList(at, m)
    PROVE  SwapsAt(w, at)' \/ SwapPrev(w) \/ SwapLeft(w) \/ SwapRight(w)
<1>1. /\ TypeOK /\ LocalInv /\ storage # NULL /\ first = FIRST /\ w \in Threads
      /\ SwapsAt(w, at)
  BY DEF IInv, PhaseInv, SwapperStep, Threads, IsList, Placed
<1>2. /\ m \in Nat /\ at[0] = FIRST /\ at[m + 1] = NULL /\ \A k \in 1 .. m : at[k] \in Nodes
  BY DEF IsList, IsOrder
<1>3. /\ pc[w] \in OnPrev => i[w] \in Nat /\ i[w] + 2 <= m
      /\ left_index[w] \in Nat /\ i[w] \in Nat /\ i[w] <= left_index[w]
  <2>1. i[w] \in 0 .. left_index[w] /\ left_index[w] \in Nat
    BY <1>1 DEF TypeOK, LocalInv
  <2> QED BY <1>1, <2>1, SwapperStands
<1>4. ASSUME pc'[w] \notin OnPrev PROVE SwapsAt(w, at)'
  BY <1>4 DEF SwapsAt, OnCur, OnNext, AtGoal, OnPrev
<1> USE DEF OnPrev, OnCur, OnNext, AtGoal, swapVars, listVars
<1>5. CASE SwapStart(w)
  <2>1. pc'[w] = "lock_prev" /\ prev'[w] = FIRST /\ i'[w] = 0
    BY <1>1, <1>5 DEF SwapStart, Goto, TypeOK, LocalInv
  <2> QED BY <1>2, <2>1 DEF SwapsAt
<1>6. CASE SwapEnd(w)
  BY <1>1, <1>4, <1>6 DEF SwapEnd, Move, Goto, TypeOK
<1>7. CASE SwapLockPrev(w)
  <2>1. /\ pc[w] = "lock_prev" /\ pc'[w] = "read_cur"
        /\ UNCHANGED <<prev, cur, nxt, left_index, i>>
    BY <1>1, <1>7 DEF SwapLockPrev, Goto, TypeOK
  <2> QED BY <1>1, <2>1 DEF SwapsAt
<1>8. CASE SwapReadCur(w)
  <2>1. /\ pc[w] = "read_cur" /\ pc'[w] \in {"unlock_prev", "lock_cur"}
        /\ UNCHANGED <<prev, nxt, left_index, i>> /\ cur'[w] = next[prev[w]]
    BY <1>1, <1>8 DEF SwapReadCur, Goto, TypeOK
  <2>2. i[w] \in 0 .. m /\ prev[w] = at[i[w]]
    BY <1>1, <1>2, <1>3, <2>1 DEF SwapsAt
  <2>3. next[at[i[w]]] = at[i[w] + 1]
    <3>1. at[i[w]] \in Holding(w) /\ w \notin Swapping
      BY <2>1, <2>2, SwappersHold DEF Swapping
    <3> QED BY <2>2, <3>1, SwapperReads
  <2> QED BY <1>1, <2>1, <2>2, <2>3 DEF SwapsAt
<1>9. CASE SwapLockCur(w)
  <2>1. /\ pc[w] = "lock_cur" /\ pc'[w] = "step"
        /\ UNCHANGED <<prev, cur, nxt, left_index, i>>
    BY <1>1, <1>9 DEF SwapLockCur, Goto, TypeOK
  <2> QED BY <1>1, <2>1 DEF SwapsAt
<1>10. CASE SwapStep(w)
  <2>1. /\ pc[w] = "step" /\ pc'[w] \in {"unlock_cur", "lock_next"}
        /\ UNCHANGED <<prev, cur, left_index, i>> /\ nxt'[w] = next[cur[w]]
    BY <1>1, <1>10 DEF SwapStep, Goto, TypeOK
  <2>2. i[w] + 1 \in 0 .. m /\ cur[w] = at[i[w] + 1] /\ (i[w] + 1) + 1 = i[w] + 2
    BY <1>1, <1>2, <1>3, <2>1 DEF SwapsAt
  <2>3. next[at[i[w] + 1]] = at[i[w] + 2]
    <3>1. at[i[w] + 1] \in Holding(w) /\ w \notin Swapping
      BY <2>1, <2>2, SwappersHold DEF Swapping
    <3>2. next[at[i[w] + 1]] = at[(i[w] + 1) + 1]
      BY <2>2, <3>1, SwapperReads
    <3> QED BY <2>2, <3>2
  <2> QED BY <1>1, <2>1, <2>2, <2>3 DEF SwapsAt
<1>11. CASE SwapLockNext(w)
  <2>1. /\ pc[w] = "lock_next" /\ UNCHANGED <<prev, cur, nxt, left_index, i>>
        /\ pc'[w] = IF i[w] < left_index[w] THEN "drop_prev" ELSE "compare"
    BY <1>1, <1>11 DEF SwapLockNext, Goto, TypeOK
  <2>2. ~ (i[w] < left_index[w]) => i[w] = left_index[w]
    BY <1>3
  <2> QED BY <1>1, <2>1, <2>2 DEF SwapsAt
<1>12. CASE DropPrev(w)
  <2>1. /\ pc[w] = "drop_prev" /\ pc'[w] = "step" /\ i'[w] = i[w] + 1
        /\ prev'[w] = cur[w] /\ cur'[w] = nxt[w]
    BY <1>1, <1>12 DEF DropPrev, Goto, TypeOK, LocalInv
  <2>2. (i[w] + 1) + 1 = i[w] + 2
    BY <1>3
  <2> QED BY <1>1, <2>1, <2>2 DEF SwapsAt
<1>13. CASE Compare(w)
  <2>1. /\ pc[w] = "compare" /\ UNCHANGED <<prev, cur, nxt, left_index, i>>
        /\ pc'[w] = IF swap_cmp(w, Length[cur[w]], Length[nxt[w]])
                    THEN "swap_prev" ELSE "unlock_next"
    BY <1>1, <1>13 DEF Compare, Move, Goto, TypeOK
  <2>2. swap_cmp(w, Length[cur[w]], Length[nxt[w]])' = swap_cmp(w, Length[cur[w]], Length[nxt[w]])
    BY <2>1 DEF swap_cmp
  <2> QED BY <1>1, <2>1, <2>2 DEF SwapsAt
<1>14. CASE \/ SwapUnlock(w, "unlock_next", nxt[w], "unlock_cur")
            \/ SwapUnlock(w, "unlock_cur", cur[w], "unlock_prev") \/ UnlockPrev(w)
  BY <1>1, <1>4, <1>14 DEF SwapUnlock, UnlockPrev, Goto, TypeOK
<1> QED BY <1>5, <1>6, <1>7, <1>8, <1>9, <1>10, <1>11, <1>12, <1>13, <1>14 DEF SwapperStep

\* The links between those nodes that no half swap has changed stay as they are;
\* the first two writes of a swap only add to the half swaps.
LEMMA SwapperLinks ==
    ASSUME IInv, NEW w \in Swappers, SwapperStep(w), ~ SwapRight(w),
           NEW at, NEW m, IsList(at, m)
    PROVE  Linked(at, m)'
<1>1. /\ TypeOK /\ storage # NULL /\ w \in Threads /\ w \notin Searchers
      /\ \A q \in Threads \ {w} : Untouched(q)
  BY OthersUntouched, StorageConstantsOK DEF IInv, SwapperStep, Threads
<1>2. \A v \in Swapping \ {w} : /\ v \in Swappers /\ UNCHANGED <<pc[v], prev[v], cur[v], nxt[v]>>
                                /\ v \in Swapping'
  BY <1>1 DEF Swapping, Untouched, Threads
<1>3. \A v \in Swapping' \ {w} : v \in Swapping
  BY <1>1 DEF Swapping, Untouched, Threads
<1>4. CASE ~ SwapPrev(w) /\ ~ SwapLeft(w)
  <2>1. next' = next /\ w \notin Swapping /\ w \notin Swapping'
    BY <1>1, <1>4 DEF SwapperStep, SwapStart, SwapEnd, Move, SwapLockPrev, SwapReadCur,
        SwapLockCur, SwapStep, SwapLockNext, DropPrev, Compare, SwapPrev, SwapLeft,
        SwapRight, SwapUnlock, UnlockPrev, listVars, Swapping, Goto, TypeOK
  <2>2. Swapping' = Swapping
    BY <1>2, <1>3, <2>1
  <2> QED BY <1>2, <2>1, <2>2 DEF IsList, Linked
<1>5. CASE SwapPrev(w) \/ SwapLeft(w)
  <2>1. /\ pc[w] \in {"swap_prev", "swap_left"} /\ w \in Swapping'
        /\ UNCHANGED <<prev, cur, nxt>>
        /\ next \in [Nodes \cup {FIRST} -> Nodes \cup {NULL}]
    BY <1>1, <1>5 DEF SwapPrev, SwapLeft, Swapping, Goto, TypeOK, swapVars
  <2>2. /\ m \in Nat /\ i[w] \in Nat /\ i[w] + 2 <= m
        /\ prev[w] = at[i[w]] /\ prev[w] \in Nodes \cup {FIRST}
        /\ cur[w] = at[i[w] + 1] /\ cur[w] \in Nodes /\ cur[w] # prev[w]
        /\ nxt[w] = at[i[w] + 2] /\ nxt[w] \in Nodes
        /\ nxt[w] # prev[w] /\ nxt[w] # cur[w]
    <3>1. m \in Nat /\ pc[w] \in OnNext /\ pc[w] \in OnCur /\ pc[w] \in OnPrev
      BY <2>1 DEF IsList, IsOrder, OnNext, OnCur, OnPrev
    <3> QED BY <1>1, <3>1, SwapperStands
  <2>3. {prev[w], cur[w], nxt[w]} \subseteq Holding(w)
    BY <2>1, SwappersHold DEF OnNext, OnCur, OnPrev
  <2>4. \A v \in Swapping \ {w} : {prev[v], cur[v], nxt[v]} \cap {prev[w], cur[w], nxt[w]} = {}
    <3>1. SUFFICES ASSUME NEW v \in Swapping \ {w}
                   PROVE  {prev[v], cur[v], nxt[v]} \cap {prev[w], cur[w], nxt[w]} = {}
      OBVIOUS
    <3>2. v \in Swappers /\ v \in Threads /\ pc[v] \in {"swap_left", "swap_right"}
      BY DEF Swapping, Threads
    <3>3. {prev[v], cur[v], nxt[v]} \subseteq Holding(v)
      BY <3>2, SwappersHold DEF OnNext, OnCur, OnPrev
    <3> QED BY <2>3, <3>2, <3>3, SwapperAlone
  <2>5. \A l \in Nodes \cup {FIRST} : l \notin {prev[w], cur[w]} => next'[l] = next[l]
    BY <1>5, <2>1, <2>2 DEF SwapPrev, SwapLeft
  <2>6. ASSUME NEW k \in 0 .. m, \A v \in Swapping' : at[k] # prev'[v] /\ at[k] # cur'[v]
        PROVE  next'[at[k]] = at[k + 1]
    <3>1. \A v \in Swapping : at[k] # prev[v] /\ at[k] # cur[v]
      BY <1>2, <2>1, <2>6
    <3>2. next[at[k]] = at[k + 1]
      BY <3>1 DEF IsList, Linked
    <3>3. at[k] \in Nodes \cup {FIRST} /\ at[k] \notin {prev[w], cur[w]}
      <4>1. k = 0 \/ k \in 1 .. m
        BY <2>2
      <4> QED BY <2>1, <2>6, <4>1 DEF IsList, IsOrder
    <3> QED BY <2>5, <3>2, <3>3
  <2>7. ASSUME NEW v \in Swapping'
        PROVE  /\ next'[prev'[v]] = nxt'[v]
               /\ pc'[v] = "swap_left"  => next'[cur'[v]] = nxt'[v]
               /\ pc'[v] = "swap_right" => next'[cur'[v]] = next'[nxt'[v]]
    <3>1. CASE v # w
      <4>1. v \in Swapping /\ v \in Swappers /\ pc'[v] = pc[v]
        BY <1>2, <1>3, <2>7, <3>1
      <4>2. {prev[v], cur[v], nxt[v]} \cap {prev[w], cur[w], nxt[w]} = {}
        BY <2>4, <3>1, <4>1
      <4>3. pc[v] \in {"swap_left", "swap_right"}
        BY <4>1 DEF Swapping
      <4>4. prev[v] \in Nodes \cup {FIRST} /\ cur[v] \in Nodes /\ nxt[v] \in Nodes
        BY <1>1, <4>1, <4>3, SwapperStands DEF OnNext, OnCur, OnPrev
      <4>5. next'[prev[v]] = next[prev[v]] /\ next'[cur[v]] = next[cur[v]]
            /\ next'[nxt[v]] = next[nxt[v]]
        BY <2>5, <4>2, <4>4
      <4> QED BY <2>1, <4>1, <4>5 DEF IsList, Linked
    <3>2. CASE v = w /\ SwapPrev(w)
      <4>1. /\ next' = [next EXCEPT ![prev[w]] = nxt[w]] /\ pc'[w] = "swap_left"
            /\ w \notin Swapping
        BY <1>1, <3>2 DEF SwapPrev, Goto, TypeOK, Swapping
      <4>2. i[w] + 1 \in 0 .. m /\ (i[w] + 1) + 1 = i[w] + 2
        BY <2>2
      <4>3. next[at[i[w] + 1]] = at[(i[w] + 1) + 1]
        BY <2>2, <2>3, <4>1, <4>2, SwapperReads
      <4> QED BY <2>1, <2>2, <3>2, <4>1, <4>2, <4>3
    <3>3. CASE v = w /\ SwapLeft(w)
      <4>1. /\ next' = [next EXCEPT ![cur[w]] = next[nxt[w]]] /\ pc'[w] = "swap_right"
            /\ w \in Swapping
        BY <1>1, <3>3 DEF SwapLeft, Goto, TypeOK, Swapping
      <4>2. next[prev[w]] = nxt[w]
        BY <4>1 DEF IsList, Linked
      <4> QED BY <2>1, <2>2, <3>3, <4>1, <4>2
    <3> QED BY <1>5, <3>1, <3>2, <3>3
  <2> QED BY <2>6, <2>7 DEF Linked
<1> QED BY <1>4, <1>5

LEMMA SwapperKeeps ==
    ASSUME IInv, NEW w \in Swappers, SwapperStep(w), ~ SwapRight(w),
           NEW at, NEW m, IsList(at, m)
    PROVE  IsList(at, m)'
<1>1. /\ w \notin Searchers /\ w \in Threads /\ TypeOK /\ storage # NULL
      /\ \A q \in Threads \ {w} : Untouched(q)
  BY OthersUntouched, StorageConstantsOK DEF Threads, IInv, SwapperStep
<1>2. heap' = heap
  BY DEF SwapperStep, mainVars
<1>3. Linked(at, m)'
  BY SwapperLinks
<1>4. SwapsAt(w, at)'
  <2>1. CASE SwapPrev(w) \/ SwapLeft(w)
    <3>1. /\ pc[w] \in {"swap_prev", "swap_left"} /\ pc'[w] \in {"swap_left", "swap_right"}
          /\ UNCHANGED <<prev, cur, nxt, left_index, i>>
      BY <1>1, <2>1 DEF SwapPrev, SwapLeft, Goto, TypeOK, swapVars
    <3>2. swap_cmp(w, Length[cur[w]], Length[nxt[w]])' =
             swap_cmp(w, Length[cur[w]], Length[nxt[w]])
      BY <3>1 DEF swap_cmp
    <3>3. SwapsAt(w, at)
      BY DEF IsList, Placed
    <3> QED BY <3>1, <3>2, <3>3 DEF SwapsAt, OnPrev, OnCur, OnNext, AtGoal
  <2> QED BY <2>1, SwapperPlace
<1>5. Placed(at, m)'
  <2>1. \A q \in Searchers : pc'[q] \in Searching => \E k \in 0 .. m : SearchesAt(q, at, m, k)'
    BY <1>1, PlaceKept DEF IsList, Threads
  <2>2. \A v \in Swappers : SwapsAt(v, at)'
    BY <1>1, <1>4, PlaceKept DEF IsList, Threads
  <2> QED BY <2>1, <2>2 DEF Placed
<1> QED BY <1>2, <1>3, <1>5 DEF IsList, IsOrder, Made

\* The order after the nodes behind place j have changed places.
Exchanged(at, j) == [at EXCEPT ![j + 1] = at[j + 2], ![j + 2] = at[j + 1]]

\* That order, place by place.
Differs(ex, at, m, j) ==
    /\ ex[j + 1] = at[j + 2] /\ ex[j + 2] = at[j + 1]
    /\ \A k \in 0 .. m + 1 : k # j + 1 /\ k # j + 2 => ex[k] = at[k]

\* The nodes of an order.
Along(at, m) == {at[k] : k \in 1 .. m}

LEMMA ExchangedIs ==
    ASSUME NEW at, NEW m \in Nat, IsOrder(at, m), NEW j \in Nat, j + 2 <= m
    PROVE  /\ Differs(Exchanged(at, j), at, m, j)
           /\ DOMAIN Exchanged(at, j) = 0 .. m + 1
<1>1. m \in Nat /\ j + 1 \in 0 .. m + 1 /\ j + 2 \in 0 .. m + 1 /\ j + 1 # j + 2
  BY DEF IsOrder
<1>2. at \in [0 .. m + 1 -> Nodes \cup {FIRST, NULL}]
  BY DEF IsOrder
<1> QED BY <1>1, <1>2 DEF Exchanged, Differs

LEMMA ExchangedOrder ==
    ASSUME NEW at, NEW m \in Nat, IsOrder(at, m), NEW j \in Nat, j + 2 <= m
    PROVE  /\ IsOrder(Exchanged(at, j), m)
           /\ Along(Exchanged(at, j), m) = Along(at, m)
<1> DEFINE ex == Exchanged(at, j)
<1>0. Differs(ex, at, m, j)
  BY ExchangedIs
<1>1. /\ ex[j + 1] = at[j + 2] /\ ex[j + 2] = at[j + 1]
      /\ \A k \in 0 .. m + 1 : k # j + 1 /\ k # j + 2 => ex[k] = at[k]
  BY <1>0 DEF Differs
<1>2. ex \in [0 .. m + 1 -> Nodes \cup {FIRST, NULL}]
  <2>1. at \in [0 .. m + 1 -> Nodes \cup {FIRST, NULL}] /\ j + 1 \in 0 .. m + 1
        /\ j + 2 \in 0 .. m + 1
    BY DEF IsOrder
  <2> QED BY <2>1 DEF Exchanged
<1> HIDE DEF ex
<1>3. /\ m \in Nat /\ at[0] = FIRST /\ at[m + 1] = NULL /\ \A k \in 1 .. m : at[k] \in Nodes
      /\ \A k, l \in 0 .. m : at[k] = at[l] => k = l
  BY DEF IsOrder
<1>4. /\ j + 1 \in 1 .. m /\ j + 2 \in 1 .. m /\ j + 1 \in 0 .. m /\ j + 2 \in 0 .. m
      /\ 0 \in 0 .. m + 1 /\ m + 1 \in 0 .. m + 1 /\ 1 .. m \subseteq 0 .. m + 1
      /\ 0 .. m \subseteq 0 .. m + 1 /\ 0 # j + 1 /\ 0 # j + 2 /\ m + 1 # j + 1 /\ m + 1 # j + 2
      /\ 1 .. m \subseteq 0 .. m /\ j + 1 # j + 2
  BY <1>3
<1>5. ex[0] = FIRST /\ ex[m + 1] = NULL
  BY <1>1, <1>3, <1>4
<1>6. \A k \in 1 .. m : ex[k] \in Nodes
  BY <1>1, <1>3, <1>4
<1>7. \A k, l \in 0 .. m : ex[k] = ex[l] => k = l
  <2>1. \A k \in 0 .. m : ex[k] = IF k = j + 1 THEN at[j + 2] ELSE IF k = j + 2 THEN at[j + 1]
                                  ELSE at[k]
    BY <1>1, <1>4
  <2> QED BY <1>3, <1>4, <2>1
<1>8. IsOrder(ex, m)
  BY <1>2, <1>3, <1>5, <1>6, <1>7 DEF IsOrder
<1>9. Along(ex, m) = Along(at, m)
  <2>1. \A k \in 1 .. m : k # j + 1 /\ k # j + 2 => ex[k] = at[k]
    BY <1>1, <1>4
  <2>2. \A k \in 1 .. m : ex[k] \in {at[l] : l \in 1 .. m}
    BY <1>1, <1>4, <2>1
  <2>3. \A k \in 1 .. m : at[k] \in {ex[l] : l \in 1 .. m}
    BY <1>1, <1>4, <2>1
  <2> QED BY <2>2, <2>3 DEF Along
<1> QED BY <1>8, <1>9 DEF ex

\* Where a swapper is between the second and the third write of a swap.
LEMMA AtTheSwap ==
    ASSUME IInv, NEW w \in Swappers, storage # NULL, pc[w] = "swap_right",
           NEW at, NEW m, IsList(at, m)
    PROVE  /\ m \in Nat /\ i[w] \in Nat /\ i[w] + 2 <= m
           /\ prev[w] = at[i[w]] /\ cur[w] = at[i[w] + 1] /\ nxt[w] = at[i[w] + 2]
           /\ {prev[w], cur[w], nxt[w]} \subseteq Holding(w)
           /\ {prev[w], cur[w], nxt[w]} \subseteq Nodes \cup {FIRST}
           /\ nxt[w] \notin {prev[w], cur[w]} /\ prev[w] # cur[w]
<1>1. m \in Nat /\ pc[w] \in OnNext /\ pc[w] \in OnCur /\ pc[w] \in OnPrev
  BY DEF IsList, IsOrder, OnNext, OnCur, OnPrev
<1>2. {prev[w], cur[w], nxt[w]} \subseteq Holding(w)
  BY <1>1, SwappersHold
<1> QED BY <1>1, <1>2, SwapperStands

\* A place whose node another thread holds is not one of the three.
LEMMA ElsewhereHeld ==
    ASSUME IInv, NEW w \in Swappers, storage # NULL, pc[w] = "swap_right",
           NEW at, NEW m, IsList(at, m), NEW q \in Threads, q # w,
           NEW k, at[k] \in Holding(q)
    PROVE  k # i[w] /\ k # i[w] + 1 /\ k # i[w] + 2
<1>1. Holding(w) \cap Holding(q) = {}
  BY SwapperAlone
<1> QED BY <1>1, AtTheSwap

\* The others do not notice: they stand at the same places of the new order.
LEMMA SearchersUnmoved ==
    ASSUME IInv, NEW w \in Swappers, storage # NULL, pc[w] = "swap_right",
           NEW at, NEW m, IsList(at, m), NEW s \in Searchers, pc[s] \in Searching
    PROVE  \E k \in 0 .. m : SearchesAt(s, Exchanged(at, i[w]), m, k)
<1>1. PICK k \in 0 .. m : SearchesAt(s, at, m, k)
  BY DEF IsList, Placed
<1>2. PICK j \in Nat : j = i[w] /\ j + 2 <= m /\ m \in Nat
  BY AtTheSwap
<1> DEFINE ex == Exchanged(at, j)
<1>0. IsOrder(at, m) /\ Differs(ex, at, m, j)
  BY <1>2, ExchangedIs DEF IsList
<1> HIDE DEF ex
<1>3. /\ ex[j + 1] = at[j + 2] /\ ex[j + 2] = at[j + 1]
      /\ \A l \in 0 .. m + 1 : l # j + 1 /\ l # j + 2 => ex[l] = at[l]
  BY <1>0 DEF Differs
<1>4. s \in Threads /\ s # w /\ cur[s] \in Holding(s)
  BY StorageConstantsOK DEF Threads, Searching, Holding
<1>5. k # j /\ k # j + 1 /\ k # j + 2
  BY <1>1, <1>2, <1>4, ElsewhereHeld DEF SearchesAt
<1>6. pc[s] = "pass" => k + 1 # j /\ k + 1 # j + 1 /\ k + 1 # j + 2
  <2>1. pc[s] = "pass" => at[k + 1] \in Holding(s)
    BY <1>1 DEF SearchesAt, Holding
  <2> QED BY <1>2, <1>4, <2>1, ElsewhereHeld
<1>7. ASSUME NEW n \in 0 .. m + 1, n # j, n # j + 1, n # j + 2
      PROVE  {at[l] : l \in 1 .. n} = {ex[l] : l \in 1 .. n}
  <2>1. \A l \in 1 .. n : l \in 0 .. m + 1 /\ (l # j + 1 /\ l # j + 2 => ex[l] = at[l])
    BY <1>2, <1>3
  <2>2. CASE n < j
    <3>1. \A l \in 1 .. n : l # j + 1 /\ l # j + 2
      BY <1>2, <2>2
    <3> QED BY <2>1, <3>1
  <2>3. CASE n > j + 2
    <3>1. j + 1 \in 1 .. n /\ j + 2 \in 1 .. n
      BY <1>2, <2>3
    <3>2. \A l \in 1 .. n : at[l] \in {ex[h] : h \in 1 .. n}
      BY <1>3, <2>1, <3>1
    <3>3. \A l \in 1 .. n : ex[l] \in {at[h] : h \in 1 .. n}
      BY <1>3, <2>1, <3>1
    <3> QED BY <3>2, <3>3
  <2>4. n < j \/ n > j + 2
    BY <1>2, <1>7
  <2> QED BY <2>2, <2>3, <2>4
<1>8. cur[s] = ex[k]
  <2>1. k \in 0 .. m + 1
    BY <1>2
  <2> QED BY <1>1, <1>3, <1>5, <2>1 DEF SearchesAt
<1>9. visited[s] = {ex[l] : l \in 1 .. IF pc[s] = "pass" THEN k + 1 ELSE k}
  <2>1. CASE pc[s] = "pass"
    <3>1. k + 1 \in 0 .. m + 1
      BY <1>2
    <3>2. {at[l] : l \in 1 .. k + 1} = {ex[l] : l \in 1 .. k + 1}
      BY <1>6, <1>7, <2>1, <3>1
    <3> QED BY <1>1, <2>1, <3>2 DEF SearchesAt
  <2>2. CASE pc[s] # "pass"
    <3>1. k \in 0 .. m + 1
      BY <1>2
    <3>2. {at[l] : l \in 1 .. k} = {ex[l] : l \in 1 .. k}
      BY <1>5, <1>7, <3>1
    <3> QED BY <1>1, <2>2, <3>2 DEF SearchesAt
  <2> QED BY <2>1, <2>2
<1>10. pc[s] \in {"lock_next", "pass"} => k < m /\ nxt[s] = ex[k + 1]
  <2>1. k + 1 \in 0 .. m + 1 /\ k + 1 # j + 1 /\ k + 1 # j + 2
    BY <1>2, <1>5
  <2> QED BY <1>1, <1>3, <2>1 DEF SearchesAt
<1>11. SearchesAt(s, ex, m, k)
  BY <1>1, <1>8, <1>9, <1>10 DEF SearchesAt
<1> QED BY <1>2, <1>11 DEF ex

LEMMA SwappersUnmoved ==
    ASSUME IInv, NEW w \in Swappers, storage # NULL, pc[w] = "swap_right",
           NEW at, NEW m, IsList(at, m), NEW v \in Swappers, v # w
    PROVE  SwapsAt(v, Exchanged(at, i[w]))
<1>1. SwapsAt(v, at) /\ IsOrder(at, m)
  BY DEF IsList, Placed
<1>2. PICK j \in Nat : j = i[w] /\ j + 2 <= m /\ m \in Nat
  BY AtTheSwap
<1> DEFINE ex == Exchanged(at, j)
<1>0. Differs(ex, at, m, j)
  BY <1>1, <1>2, ExchangedIs
<1> HIDE DEF ex
<1>3. \A l \in 0 .. m + 1 : l # j + 1 /\ l # j + 2 => ex[l] = at[l]
  BY <1>0 DEF Differs
<1>4. pc[v] \in OnPrev => i[v] \in Nat /\ i[v] + 2 <= m
  BY SwapperStands
<1>5. v \in Threads
  BY DEF Threads
<1>6. pc[v] \in OnPrev \ {"lock_prev"} => i[v] # j /\ i[v] # j + 1 /\ i[v] # j + 2
  <2>1. pc[v] \in OnPrev \ {"lock_prev"} => at[i[v]] \in Holding(v)
    BY <1>1, SwappersHold DEF SwapsAt
  <2> QED BY <1>2, <1>5, <2>1, ElsewhereHeld
<1>7. pc[v] \in OnCur \ {"lock_cur"} => i[v] + 1 # j /\ i[v] + 1 # j + 1 /\ i[v] + 1 # j + 2
  <2>1. pc[v] \in OnCur \ {"lock_cur"} => at[i[v] + 1] \in Holding(v)
    BY <1>1, SwappersHold DEF SwapsAt
  <2> QED BY <1>2, <1>5, <2>1, ElsewhereHeld
<1>8. /\ OnCur \subseteq OnPrev \ {"lock_prev"}
      /\ OnNext \subseteq OnCur \ {"lock_cur"}
  BY DEF OnPrev, OnCur, OnNext
<1>9. pc[v] \in OnPrev => ex[i[v]] = at[i[v]]
  <2>1. pc[v] \in OnPrev => i[v] \in 0 .. m + 1 /\ i[v] # j + 1 /\ i[v] # j + 2
    BY <1>1, <1>2, <1>4, <1>6 DEF SwapsAt
  <2> QED BY <1>3, <2>1
<1>10. pc[v] \in OnCur => ex[i[v] + 1] = at[i[v] + 1]
  <2>1. pc[v] \in OnCur => i[v] + 1 \in 0 .. m + 1 /\ i[v] + 1 # j + 1 /\ i[v] + 1 # j + 2
    BY <1>2, <1>4, <1>6, <1>8
  <2> QED BY <1>3, <2>1
<1>11. pc[v] \in OnNext => ex[i[v] + 2] = at[i[v] + 2]
  <2>1. pc[v] \in OnNext => i[v] + 2 \in 0 .. m + 1 /\ i[v] + 2 # j + 1 /\ i[v] + 2 # j + 2
    BY <1>2, <1>4, <1>6, <1>7, <1>8
  <2> QED BY <1>3, <2>1
<1>12. SwapsAt(v, ex)
  BY <1>1, <1>9, <1>10, <1>11 DEF SwapsAt
<1> QED BY <1>2, <1>12 DEF ex

\* The third write completes the exchange.
LEMMA SwapRightList ==
    ASSUME IInv, NEW w \in Swappers, SwapperStep(w), SwapRight(w),
           NEW at, NEW m, IsList(at, m)
    PROVE  \E j \in Nat : j = i[w] /\ j + 2 <= m /\ IsList(Exchanged(at, j), m)'
<1>1. /\ TypeOK /\ storage # NULL /\ w \in Threads /\ w \notin Searchers
      /\ \A q \in Threads \ {w} : Untouched(q)
  BY OthersUntouched, StorageConstantsOK DEF IInv, SwapperStep, Threads
<1>2. /\ pc[w] = "swap_right" /\ pc'[w] = "unlock_next"
      /\ next' = [next EXCEPT ![nxt[w]] = cur[w]]
      /\ UNCHANGED <<heap, prev, cur, nxt, left_index, i, visited>>
      /\ next \in [Nodes \cup {FIRST} -> Nodes \cup {NULL}]
  BY <1>1 DEF SwapperStep, SwapRight, Goto, TypeOK, swapVars, searchVars, mainVars
<1>3. /\ m \in Nat /\ i[w] \in Nat /\ i[w] + 2 <= m
      /\ prev[w] = at[i[w]] /\ cur[w] = at[i[w] + 1] /\ nxt[w] = at[i[w] + 2]
      /\ {prev[w], cur[w], nxt[w]} \subseteq Holding(w)
      /\ {prev[w], cur[w], nxt[w]} \subseteq Nodes \cup {FIRST}
      /\ nxt[w] \notin {prev[w], cur[w]} /\ prev[w] # cur[w]
  BY <1>1, <1>2, AtTheSwap
<1>4. PICK j \in Nat : j = i[w] /\ j + 2 <= m /\ m \in Nat
  BY <1>3
<1> DEFINE ex == Exchanged(at, j)
<1>5. /\ ex[j + 1] = at[j + 2] /\ ex[j + 2] = at[j + 1]
      /\ \A l \in 0 .. m + 1 : l # j + 1 /\ l # j + 2 => ex[l] = at[l]
  <2>1. Differs(ex, at, m, j)
    BY <1>4, ExchangedIs DEF IsList
  <2> QED BY <2>1 DEF Differs
<1>6. IsOrder(ex, m) /\ Along(ex, m) = Along(at, m)
  BY <1>4, ExchangedOrder DEF IsList
<1>7. ex = Exchanged(at, i[w])
  BY <1>4
<1>8. \A s \in Searchers : pc[s] \in Searching => \E k \in 0 .. m : SearchesAt(s, ex, m, k)
  BY <1>1, <1>2, <1>7, SearchersUnmoved
<1>9. \A v \in Swappers \ {w} : SwapsAt(v, ex)
  BY <1>1, <1>2, <1>7, SwappersUnmoved
<1> HIDE DEF ex
<1>10. Placed(ex, m)'
  <2>1. \A s \in Searchers : pc'[s] \in Searching => \E k \in 0 .. m : SearchesAt(s, ex, m, k)'
    <3>1. SUFFICES ASSUME NEW s \in Searchers, pc'[s] \in Searching
                   PROVE  \E k \in 0 .. m : SearchesAt(s, ex, m, k)'
      OBVIOUS
    <3>2. pc'[s] = pc[s]
      BY <1>1 DEF Untouched, Threads
    <3>3. PICK k \in 0 .. m : SearchesAt(s, ex, m, k)
      BY <1>8, <3>1, <3>2
    <3>4. SearchesAt(s, ex, m, k)'
      BY <1>2, <3>2, <3>3 DEF SearchesAt
    <3> QED BY <3>4
  <2>2. \A v \in Swappers : SwapsAt(v, ex)'
    <3>1. SwapsAt(w, ex)'
      BY <1>2 DEF SwapsAt, OnPrev, OnCur, OnNext, AtGoal
    <3>2. \A v \in Swappers \ {w} : pc'[v] = pc[v]
      BY <1>1 DEF Untouched, Threads
    <3> QED BY <1>2, <1>9, <3>1, <3>2 DEF SwapsAt
  <2> QED BY <2>1, <2>2 DEF Placed
<1>11. /\ Swapping' = Swapping \ {w} /\ w \in Swapping
       /\ \A v \in Swapping' : v \in Swappers /\ v \in Threads \ {w} /\ pc'[v] = pc[v]
  BY <1>1, <1>2 DEF Swapping, Untouched, Threads
<1>12. \A v \in Swapping' : {prev[v], cur[v], nxt[v]} \cap {prev[w], cur[w], nxt[w]} = {}
  <2>1. SUFFICES ASSUME NEW v \in Swapping'
                 PROVE  {prev[v], cur[v], nxt[v]} \cap {prev[w], cur[w], nxt[w]} = {}
    OBVIOUS
  <2>2. v \in Swappers /\ v \in Threads \ {w} /\ pc[v] \in {"swap_left", "swap_right"}
    BY <1>11 DEF Swapping
  <2>3. {prev[v], cur[v], nxt[v]} \subseteq Holding(v)
    BY <2>2, SwappersHold DEF OnNext, OnCur, OnPrev
  <2> QED BY <1>3, <2>2, <2>3, SwapperAlone
<1>13. /\ next[prev[w]] = nxt[w] /\ next[cur[w]] = next[nxt[w]]
       /\ \A k \in 0 .. m :
             (\A v \in Swapping : at[k] # prev[v] /\ at[k] # cur[v]) => next[at[k]] = at[k + 1]
  BY <1>2, <1>11 DEF IsList, Linked
<1>14. next[at[j + 2]] = at[(j + 2) + 1]
  <2>1. j + 2 \in 0 .. m /\ at[j + 2] = nxt[w]
    BY <1>3, <1>4
  <2>2. \A v \in Swapping : at[j + 2] # prev[v] /\ at[j + 2] # cur[v]
    BY <1>3, <1>11, <1>12, <2>1
  <2> QED BY <1>13, <2>1, <2>2
<1>15. ASSUME NEW k \in 0 .. m, \A v \in Swapping' : ex[k] # prev[v] /\ ex[k] # cur[v]
       PROVE  next'[ex[k]] = ex[k + 1]
  <2>1. CASE k = j
    <3>1. ex[k] = prev[w] /\ ex[k + 1] = nxt[w]
      BY <1>3, <1>4, <1>5, <2>1
    <3> QED BY <1>2, <1>3, <1>13, <3>1
  <2>2. CASE k = j + 1
    <3>1. ex[k] = nxt[w] /\ ex[k + 1] = cur[w]
      <4>1. k + 1 = j + 2
        BY <2>2
      <4> QED BY <1>3, <1>4, <1>5, <2>2, <4>1
    <3> QED BY <1>2, <1>3, <3>1
  <2>3. CASE k = j + 2
    <3>1. ex[k] = cur[w] /\ ex[k + 1] = at[(j + 2) + 1]
      <4>1. (j + 2) + 1 \in 0 .. m + 1 /\ (j + 2) + 1 # j + 1 /\ (j + 2) + 1 # j + 2
        BY <1>4, <2>3
      <4> QED BY <1>3, <1>4, <1>5, <2>3, <4>1
    <3>2. next[cur[w]] = at[(j + 2) + 1]
      BY <1>3, <1>4, <1>13, <1>14
    <3> QED BY <1>2, <1>3, <3>1, <3>2
  <2>4. CASE k # j /\ k # j + 1 /\ k # j + 2
    <3>1. /\ k \in 0 .. m + 1 /\ k + 1 \in 0 .. m + 1 /\ k + 1 # j + 1 /\ k + 1 # j + 2
          /\ j \in 0 .. m /\ j + 1 \in 0 .. m /\ j + 2 \in 0 .. m
      BY <1>4, <2>4
    <3>2. ex[k] = at[k] /\ ex[k + 1] = at[k + 1]
      BY <1>5, <2>4, <3>1
    <3>3. at[k] # prev[w] /\ at[k] # cur[w] /\ at[k] # nxt[w]
      <4>1. \A h, l \in 0 .. m : at[h] = at[l] => h = l
        BY DEF IsList, IsOrder
      <4> QED BY <1>3, <1>4, <2>4, <3>1, <4>1
    <3>4. \A v \in Swapping : at[k] # prev[v] /\ at[k] # cur[v]
      BY <1>11, <1>15, <3>2, <3>3
    <3>5. next[at[k]] = at[k + 1]
      BY <1>13, <3>4
    <3> QED BY <1>2, <3>2, <3>3, <3>5
  <2> QED BY <2>1, <2>2, <2>3, <2>4
<1>16. ASSUME NEW v \in Swapping'
       PROVE  /\ next'[prev[v]] = nxt[v]
              /\ pc'[v] = "swap_left"  => next'[cur[v]] = nxt[v]
              /\ pc'[v] = "swap_right" => next'[cur[v]] = next'[nxt[v]]
  <2>1. v \in Swapping /\ v \in Swappers /\ pc'[v] = pc[v]
    BY <1>11
  <2>2. pc[v] \in {"swap_left", "swap_right"}
    BY <2>1 DEF Swapping
  <2>3. prev[v] # nxt[w] /\ cur[v] # nxt[w] /\ nxt[v] # nxt[w]
    BY <1>12
  <2>4. /\ next'[prev[v]] = next[prev[v]] /\ next'[cur[v]] = next[cur[v]]
        /\ next'[nxt[v]] = next[nxt[v]]
    BY <1>2, <2>3
  <2> QED BY <2>1, <2>4 DEF IsList, Linked
<1>17. Linked(ex, m)'
  BY <1>2, <1>15, <1>16 DEF Linked
<1>18. IsOrder(ex, m)' /\ Made' = {ex[k] : k \in 1 .. m}
  <2>1. Made = Along(at, m)
    BY DEF IsList, Along
  <2>2. Made' = Along(ex, m)
    BY <1>2, <1>6, <2>1 DEF Made
  <2> QED BY <1>6, <2>2 DEF IsOrder, Along
<1>19. IsList(ex, m)'
  BY <1>10, <1>17, <1>18 DEF IsList
<1> QED BY <1>4, <1>19 DEF ex

LEMMA ListNext == IInv /\ [Next]_vars => ListInv'
<1> SUFFICES ASSUME IInv, [Next]_vars PROVE ListInv'
  OBVIOUS
<1>1. ASSUME NEW p \in Threads,
             (p \in Searchers /\ SearcherStep(p)) \/ (p \in Swappers /\ SwapperStep(p))
      PROVE  ListInv'
  <2>1. /\ storage # NULL /\ UNCHANGED <<mpc, storage>>
        /\ mpc \notin InitPCs
    <3>1. storage # NULL /\ UNCHANGED <<mpc, storage>>
      BY <1>1, ThreadFrame DEF mainVars
    <3> QED BY <3>1 DEF IInv, PhaseInv
  <2>2. PICK at, m : IsList(at, m)
    BY <2>1 DEF IInv, ListInv
  <2>3. \E at2, m2 : IsList(at2, m2)'
    <3>1. CASE p \in Searchers /\ SearcherStep(p)
      BY <2>2, <3>1, SearcherKeeps
    <3>2. CASE p \in Swappers /\ SwapperStep(p) /\ ~ SwapRight(p)
      BY <2>2, <3>2, SwapperKeeps
    <3>3. CASE p \in Swappers /\ SwapperStep(p) /\ SwapRight(p)
      <4>1. PICK j \in Nat : IsList(Exchanged(at, j), m)'
        BY <2>2, <3>3, SwapRightList
      <4> QED BY <4>1
    <3> QED BY <1>1, <3>1, <3>2, <3>3
  <2> QED BY <2>1, <2>3 DEF ListInv, InitPCs
<1>2. ASSUME UNCHANGED <<mpc, storage, first, heap, pc, listVars>> PROVE ListInv'
  <2> USE <1>2 DEF listVars, swapVars, searchVars
  <2>1. ASSUME NEW at, NEW m, IsList(at, m) PROVE IsList(at, m)'
    BY <2>1, ListKept
  <2>2. ASSUME NEW at, NEW m, NEW k, IsRest(at, m, k) PROVE IsRest(at, m, k)'
    BY <2>2 DEF IsRest, IsOrder, Linked, Swapping
  <2> QED BY <2>1, <2>2 DEF IInv, ListInv
<1>3. ASSUME NEW p \in Threads, Crash(p) PROVE ListInv'
  BY <1>2, <1>3 DEF Crash
<1>4. CASE Ended \/ UNCHANGED vars
  BY <1>2, <1>4 DEF Ended, vars, mainVars
<1> QED BY <1>1, <1>3, <1>4, MainLists DEF Next, Threads

-----------------------------------------------------------------------------
(* The order in which a searcher has met the nodes                         *)

GoesOn(longer, path, k, n) == longer[k + 1] = n /\ \A j \in 1 .. k : longer[j] = path[j]

LEMMA PathGrows ==
    ASSUME NEW k, NEW S, NEW path, NEW n,
           k \in Nat, path \in Bijection(1 .. k, S), n \notin S
    PROVE  \E longer \in Bijection(1 .. k + 1, S \cup {n}) : GoesOn(longer, path, k, n)
<1> DEFINE long == [j \in 1 .. k + 1 |-> IF j <= k THEN path[j] ELSE n]
<1>1. /\ \A j \in 1 .. k : long[j] = path[j]
      /\ long[k + 1] = n
  OBVIOUS
<1>2. /\ path \in [1 .. k -> S] /\ \A y \in S : \E j \in 1 .. k : path[j] = y
      /\ \A j, l \in 1 .. k : path[j] = path[l] => j = l
  BY DEF Bijection, Injection, Surjection, IsInjective
<1>3. /\ \A j \in 1 .. k + 1 : j \in 1 .. k \/ j = k + 1
      /\ 1 .. k \subseteq 1 .. k + 1 /\ k + 1 \in 1 .. k + 1
  OBVIOUS
<1>4. long \in [1 .. k + 1 -> S \cup {n}]
  <2>1. DOMAIN long = 1 .. k + 1 /\ long = [j \in 1 .. k + 1 |-> long[j]]
    OBVIOUS
  <2>2. \A j \in 1 .. k + 1 : long[j] \in S \cup {n}
    BY <1>1, <1>2, <1>3
  <2> QED BY <2>1, <2>2
<1> HIDE DEF long
<1>5. \A j, l \in 1 .. k + 1 : long[j] = long[l] => j = l
  BY <1>1, <1>2, <1>3
<1>6. \A y \in S \cup {n} : \E j \in 1 .. k + 1 : long[j] = y
  BY <1>1, <1>2, <1>3
<1>7. long \in Bijection(1 .. k + 1, S \cup {n})
  BY <1>4, <1>5, <1>6 DEF Bijection, Injection, Surjection, IsInjective
<1> QED BY <1>1, <1>7 DEF GoesOn

\* The pairs of a path, and one node more.
Pairs(s, path, k) ==
    {j \in 1 .. k - 1 : search_cmp(s, Length[path[j]], Length[path[j + 1]])}

LEMMA PairsGrow ==
    ASSUME NEW s, NEW k \in Nat, NEW path, NEW longer, NEW n,
           \A j \in 1 .. k : longer[j] = path[j], longer[k + 1] = n
    PROVE  /\ IsFiniteSet(Pairs(s, path, k))
           /\ Cardinality(Pairs(s, longer, k + 1)) =
                 IF k > 0 /\ search_cmp(s, Length[path[k]], Length[n])
                 THEN Cardinality(Pairs(s, path, k)) + 1 ELSE Cardinality(Pairs(s, path, k))
<1>1. \A j \in 1 .. k - 1 : j \in 1 .. k /\ j + 1 \in 1 .. k
  OBVIOUS
<1>2. IsFiniteSet(1 .. k - 1) /\ Pairs(s, path, k) \subseteq 1 .. k - 1
  BY FS_Interval DEF Pairs
<1>3. IsFiniteSet(Pairs(s, path, k))
  BY <1>2, FS_Subset
<1>4. k \notin Pairs(s, path, k)
  BY DEF Pairs
<1>5. \A j \in 1 .. k - 1 : longer[j] = path[j] /\ longer[j + 1] = path[j + 1]
  BY <1>1
<1>6. \A j : j \in Pairs(s, longer, k + 1) <=>
             \/ j \in Pairs(s, path, k)
             \/ k > 0 /\ j = k /\ search_cmp(s, Length[path[k]], Length[n])
  <2>1. \A j : j \in 1 .. (k + 1) - 1 <=> j \in 1 .. k - 1 \/ (k > 0 /\ j = k)
    OBVIOUS
  <2>2. k > 0 => longer[k] = path[k]
    OBVIOUS
  <2> QED BY <1>5, <2>1, <2>2 DEF Pairs
<1>7. CASE k > 0 /\ search_cmp(s, Length[path[k]], Length[n])
  <2>1. Pairs(s, longer, k + 1) = Pairs(s, path, k) \cup {k}
    BY <1>6, <1>7
  <2>2. Cardinality(Pairs(s, path, k) \cup {k}) = Cardinality(Pairs(s, path, k)) + 1
    BY <1>3, <1>4, FS_AddElement
  <2> QED BY <1>3, <1>7, <2>1, <2>2
<1>8. CASE ~ (k > 0 /\ search_cmp(s, Length[path[k]], Length[n]))
  <2>1. Pairs(s, longer, k + 1) = Pairs(s, path, k)
    BY <1>6, <1>8
  <2> QED BY <1>3, <1>8, <2>1
<1> QED BY <1>7, <1>8

LEMMA SearcherPath ==
    ASSUME IInv, NEW s \in Searchers, SearcherStep(s), pc'[s] \in Searching
    PROVE  \E path, k : IsPath(s, path, k)'
<1>1. /\ TypeOK /\ LocalInv /\ storage # NULL /\ first = FIRST /\ s \in Threads
  BY DEF IInv, PhaseInv, SearcherStep, Threads
<1>2. pc[s] \in Searching => \E path, k : IsPath(s, path, k)
  BY DEF IInv, PathInv
<1>3. CASE SearchLockFirst(s)
  <2>1. cur'[s] = FIRST /\ visited'[s] = {} /\ cycle_pairs'[s] = 0 /\ pc'[s] = "read"
    BY <1>1, <1>3 DEF SearchLockFirst, Goto, LocalInv, TypeOK, searchVars
  <2> DEFINE path == [j \in 1 .. 0 |-> j]
  <2>2. path \in Bijection(1 .. 0, {})
    BY DEF Bijection, Injection, Surjection, IsInjective
  <2>3. Passed(s)' = {}
    BY <2>1 DEF Passed
  <2>4. {j \in 1 .. 0 - 1 : search_cmp(s, Length[path[j]], Length[path[j + 1]])} = {}
    OBVIOUS
  <2>5. Cardinality({}) = 0
    BY FS_EmptySet
  <2> HIDE DEF path
  <2>6. IsPath(s, path, 0)'
    BY <2>1, <2>2, <2>3, <2>4, <2>5 DEF IsPath, search_cmp
  <2> QED BY <2>6
<1>4. CASE SearchRead(s)
  <2>1. pc[s] = "read" /\ UNCHANGED <<cur, visited, cycle_pairs>>
        /\ pc'[s] \in {"unlock_last", "lock_next"}
    BY <1>1, <1>4 DEF SearchRead, Goto, TypeOK, searchVars
  <2>2. PICK path, k : IsPath(s, path, k)
    BY <1>2, <2>1 DEF Searching
  <2>3. Passed(s)' = Passed(s)
    BY <2>1 DEF Passed
  <2>4. IsPath(s, path, k)'
    BY <2>1, <2>2, <2>3 DEF IsPath, search_cmp
  <2> QED BY <2>4
<1>5. CASE SearchLockNext(s)
  <2>1. /\ pc[s] = "lock_next" /\ UNCHANGED <<cur, nxt, cycle_pairs>> /\ pc'[s] = "pass"
        /\ visited'[s] = visited[s] \cup {nxt[s]}
    BY <1>1, <1>5 DEF SearchLockNext, Goto, TypeOK
  <2>2. PICK path, k : IsPath(s, path, k)
    BY <1>2, <2>1 DEF Searching
  <2>3. nxt[s] \notin visited[s]
    <3>1. PICK at, m : IsList(at, m)
      BY <1>1 DEF IInv, ListInv
    <3>2. PICK h \in 0 .. m : SearchesAt(s, at, m, h)
      BY <2>1, <3>1 DEF IsList, Placed, Searching
    <3>3. /\ visited[s] = {at[j] : j \in 1 .. h} /\ nxt[s] = at[h + 1] /\ h < m
      BY <2>1, <3>2 DEF SearchesAt
    <3>4. m \in Nat /\ \A j, l \in 0 .. m : at[j] = at[l] => j = l
      BY <3>1 DEF IsList, IsOrder
    <3>5. h + 1 \in 0 .. m /\ \A j \in 1 .. h : j \in 0 .. m /\ j # h + 1
      BY <3>3, <3>4
    <3> QED BY <3>3, <3>4, <3>5
  <2>4. Passed(s)' = Passed(s)
    BY <2>1, <2>3 DEF Passed
  <2>5. IsPath(s, path, k)'
    BY <2>1, <2>2, <2>4 DEF IsPath, search_cmp
  <2> QED BY <2>5
<1>6. CASE SearchPass(s)
  <2>1. /\ pc[s] = "pass" /\ UNCHANGED visited /\ cur'[s] = nxt[s] /\ pc'[s] = "read"
        /\ visited[s] \subseteq Nodes /\ cycle_pairs[s] \in Nat
        /\ cycle_pairs'[s] = IF cur[s] # FIRST /\ search_cmp(s, Length[cur[s]], Length[nxt[s]])
                             THEN cycle_pairs[s] + 1 ELSE cycle_pairs[s]
    BY <1>1, <1>6 DEF SearchPass, Goto, TypeOK
  <2>2. PICK path, k : IsPath(s, path, k)
    BY <1>2, <2>1 DEF Searching
  <2>3. nxt[s] \in visited[s]
    <3>1. PICK at, m : IsList(at, m)
      BY <1>1 DEF IInv, ListInv
    <3>2. PICK h \in 0 .. m : SearchesAt(s, at, m, h)
      BY <2>1, <3>1 DEF IsList, Placed, Searching
    <3>3. /\ visited[s] = {at[j] : j \in 1 .. h + 1} /\ nxt[s] = at[h + 1]
          /\ h + 1 \in 1 .. h + 1
      BY <2>1, <3>2 DEF SearchesAt
    <3> QED BY <3>3
  <2>4. /\ Passed(s) = visited[s] \ {nxt[s]} /\ Passed(s)' = visited[s]
    BY <2>1 DEF Passed
  <2>5. /\ k \in Nat /\ path \in Bijection(1 .. k, Passed(s))
        /\ cycle_pairs[s] = Cardinality(Pairs(s, path, k))
        /\ IF k = 0 THEN cur[s] = FIRST ELSE cur[s] = path[k]
    BY <2>2 DEF IsPath, Pairs
  <2>6. PICK n : n = nxt[s]
    OBVIOUS
  <2>7. PICK S : S = Passed(s)
    OBVIOUS
  <2>8. PICK longer \in Bijection(1 .. k + 1, S \cup {n}) :
           GoesOn(longer, path, k, n)
    <3>1. n \notin S /\ path \in Bijection(1 .. k, S) /\ k \in Nat
      BY <2>4, <2>5, <2>6, <2>7
    <3> QED BY <3>1, PathGrows
  <2>9. S \cup {n} = Passed(s)'
    BY <2>3, <2>4, <2>6, <2>7
  <2>10. cur[s] # FIRST <=> k > 0
    <3>1. ASSUME k > 0 PROVE cur[s] # FIRST
      <4>1. path[k] \in visited[s]
        BY <2>4, <2>5, <3>1 DEF Bijection, Injection
      <4> QED BY <2>1, <2>5, <3>1, <4>1, StorageConstantsOK
    <3> QED BY <2>5, <3>1
  <2>11. k > 0 => cur[s] = path[k]
    BY <2>5
  <2>12. cycle_pairs'[s] = Cardinality(Pairs(s, longer, k + 1))
    <3>1. Cardinality(Pairs(s, longer, k + 1)) =
              IF k > 0 /\ search_cmp(s, Length[path[k]], Length[n])
              THEN Cardinality(Pairs(s, path, k)) + 1 ELSE Cardinality(Pairs(s, path, k))
      BY <2>5, <2>8, PairsGrow DEF GoesOn
    <3> QED BY <2>1, <2>5, <2>6, <2>10, <2>11, <3>1
  <2>13. IsPath(s, longer, k + 1)'
    <3>1. k + 1 \in Nat /\ k + 1 # 0
      BY <2>5
    <3>2. cur'[s] = longer[k + 1]
      BY <2>1, <2>6, <2>8 DEF GoesOn
    <3>3. longer \in Bijection(1 .. k + 1, Passed(s)')
      BY <2>8, <2>9
    <3> QED BY <2>12, <3>1, <3>2, <3>3 DEF IsPath, Pairs, search_cmp
  <2> QED BY <2>13
<1>7. CASE SearchStart(s) \/ UnlockLast(s)
  <2>1. pc'[s] \in {"lock_first", "done", "start"}
    BY <1>1, <1>7 DEF SearchStart, Move, UnlockLast, Goto, TypeOK
  <2> QED BY <2>1 DEF Searching
<1> QED BY <1>3, <1>4, <1>5, <1>6, <1>7 DEF SearcherStep

LEMMA PathNext == IInv /\ [Next]_vars => PathInv'
<1> SUFFICES ASSUME IInv, [Next]_vars, NEW s \in Searchers, pc'[s] \in Searching
             PROVE  \E path, k : IsPath(s, path, k)'
  BY DEF PathInv
<1>1. s \in Threads
  BY DEF Threads
<1>2. ASSUME UNCHANGED <<pc[s], cur[s], nxt[s], visited[s], cycle_pairs[s]>>
      PROVE  \E path, k : IsPath(s, path, k)'
  <2>1. PICK path, k : IsPath(s, path, k)
    BY <1>2 DEF IInv, PathInv
  <2>2. IsPath(s, path, k)'
    BY <1>2, <2>1 DEF IsPath, Passed, search_cmp
  <2> QED BY <2>2
<1>3. ASSUME NEW p \in Threads,
             (p \in Searchers /\ SearcherStep(p)) \/ (p \in Swappers /\ SwapperStep(p))
      PROVE  \E path, k : IsPath(s, path, k)'
  <2>1. CASE p = s
    <3>1. s \notin Swappers
      BY StorageConstantsOK
    <3> QED BY <1>3, <2>1, <3>1, SearcherPath
  <2>2. CASE p # s
    BY <1>1, <1>2, <1>3, <2>2, OthersUntouched DEF Untouched
  <2> QED BY <2>1, <2>2
<1>4. CASE MainStep
  <2>1. UNCHANGED <<visited, cycle_pairs, cur, nxt>>
    BY <1>4 DEF MainStep, searchVars
  <2>2. pc' = pc \/ CreateThreads
    BY <1>4 DEF MainStep, RefuseSize, MallocStorage, MallocFirst,
       MallocNode, MallocNodeFails, InitReturns, storage_destroy, stop, Join
  <2>3. ~ CreateThreads
    BY <1>1 DEF CreateThreads, Searching
  <2> QED BY <1>2, <2>1, <2>2, <2>3
<1>5. ASSUME NEW p \in Threads, Crash(p) PROVE \E path, k : IsPath(s, path, k)'
  BY <1>2, <1>5 DEF Crash, listVars, searchVars
<1>6. CASE Ended \/ UNCHANGED vars
  BY <1>2, <1>6 DEF Ended, vars, listVars, searchVars
<1> QED BY <1>3, <1>4, <1>5, <1>6 DEF Next, Threads

LEMMA Inductive == IInv /\ [Next]_vars => IInv'
  BY TypeNext, PhaseNext, LocalNext, LockNext, ListNext, PathNext DEF IInv

LEMMA Always == Safe => []IInv
  BY IInit, Inductive, PTL DEF Safe

-----------------------------------------------------------------------------
(* The theorems                                                            *)

\* The type invariant (2.3/src/main.c, search_pairs, swap_pairs).
THEOREM TypeCorrect == Safe => []TypeOK
<1>1. IInv => TypeOK
  BY DEF IInv
<1> QED BY Always, <1>1, PTL

\* storage_init hands over a whole list of the size asked for, or nothing.
THEOREM WholeOrNothing == Safe => []StorageWhole
<1>1. IInv => StorageWhole
  BY DEF IInv, PhaseInv, StorageWhole
<1> QED BY Always, <1>1, PTL

\* Undoing the half swaps gives the order back.
LEMMA SettledIs ==
    ASSUME IInv, storage # NULL, NEW at, NEW m, IsList(at, m), NEW k \in 0 .. m
    PROVE  Settled[at[k]] = at[k + 1]
<1>1. /\ m \in Nat /\ at[k] \in Nodes \cup {FIRST}
      /\ \A j, l \in 0 .. m : at[j] = at[l] => j = l
  <2>1. k = 0 \/ k \in 1 .. m
    OBVIOUS
  <2> QED BY <2>1 DEF IsList, IsOrder
<1>2. \A w \in Swapping : /\ i[w] \in 0 .. m /\ i[w] + 1 \in 0 .. m
                          /\ prev[w] = at[i[w]] /\ cur[w] = at[i[w] + 1]
                          /\ nxt[w] = at[(i[w] + 1) + 1]
  <2>1. SUFFICES ASSUME NEW w \in Swapping
                 PROVE  /\ i[w] \in 0 .. m /\ i[w] + 1 \in 0 .. m
                        /\ prev[w] = at[i[w]] /\ cur[w] = at[i[w] + 1]
                        /\ nxt[w] = at[(i[w] + 1) + 1]
    OBVIOUS
  <2>2. w \in Swappers /\ pc[w] \in OnNext /\ pc[w] \in OnCur /\ pc[w] \in OnPrev
    BY DEF Swapping, OnNext, OnCur, OnPrev
  <2>3. i[w] \in Nat /\ i[w] + 2 <= m /\ prev[w] = at[i[w]] /\ cur[w] = at[i[w] + 1]
        /\ nxt[w] = at[i[w] + 2]
    BY <2>2, SwapperStands
  <2>4. (i[w] + 1) + 1 = i[w] + 2 /\ i[w] \in 0 .. m /\ i[w] + 1 \in 0 .. m
    BY <1>1, <2>3
  <2> QED BY <2>3, <2>4
<1>3. CASE \E w \in Swapping : at[k] = prev[w]
  <2>1. PICK w \in Swapping : w = CHOOSE v \in Swapping : at[k] = prev[v]
    BY <1>3
  <2>2. at[k] = prev[w]
    BY <1>3, <2>1
  <2>3. Settled[at[k]] = cur[w]
    BY <1>1, <1>3, <2>1 DEF Settled
  <2> QED BY <1>1, <1>2, <2>2, <2>3
<1>4. CASE ~ (\E w \in Swapping : at[k] = prev[w]) /\ \E w \in Swapping : at[k] = cur[w]
  <2>1. PICK w \in Swapping : w = CHOOSE v \in Swapping : at[k] = cur[v]
    BY <1>4
  <2>2. at[k] = cur[w]
    BY <1>4, <2>1
  <2>3. Settled[at[k]] = nxt[w]
    BY <1>1, <1>4, <2>1 DEF Settled
  <2> QED BY <1>1, <1>2, <2>2, <2>3
<1>5. CASE ~ (\E w \in Swapping : at[k] = prev[w]) /\ ~ \E w \in Swapping : at[k] = cur[w]
  <2>1. Settled[at[k]] = next[at[k]]
    BY <1>1, <1>5 DEF Settled
  <2>2. next[at[k]] = at[k + 1]
    BY <1>5 DEF IsList, Linked
  <2> QED BY <2>1, <2>2
<1> QED BY <1>3, <1>4, <1>5

\* Walking along the settled list one meets the nodes in their order.
LEMMA WalkIs ==
    ASSUME IInv, storage # NULL, NEW at, NEW m, IsList(at, m)
    PROVE  Walk = at
<1>1. /\ m = size /\ m \in Nat /\ at \in [0 .. m + 1 -> Nodes \cup {FIRST, NULL}]
      /\ at[0] = FIRST /\ at[m + 1] = NULL /\ \A k \in 1 .. m : at[k] \in Nodes
  BY ListSize DEF IsList, IsOrder
<1>2. \A k \in 0 .. m : at[k] # NULL /\ Settled[at[k]] = at[k + 1]
  <2>1. \A k \in 0 .. m : k = 0 \/ k \in 1 .. m
    BY <1>1
  <2>2. \A k \in 0 .. m : at[k] # NULL
    BY <1>1, <2>1, StorageConstantsOK
  <2>3. \A k \in 0 .. m : Settled[at[k]] = at[k + 1]
    BY SettledIs
  <2> QED BY <2>2, <2>3
<1> DEFINE step(f) == [k \in 0 .. size + 1 |->
              IF k = 0 THEN FIRST
              ELSE LET n == f[k-1] IN IF n = NULL THEN NULL ELSE Settled[n]]
<1>3. at = step(at)
  <2>1. \A k \in 0 .. m + 1 : step(at)[k] = at[k]
    <3>1. \A k \in 0 .. m + 1 : k = 0 \/ (k - 1 \in 0 .. m /\ (k - 1) + 1 = k)
      BY <1>1
    <3> QED BY <1>1, <1>2, <3>1
  <2> QED BY <1>1, <2>1
<1>4. Walk = CHOOSE f : f = step(f)
  BY DEF Walk
<1>5. PICK f : f = Walk /\ f = step(f)
  BY <1>3, <1>4
<1>6. f = [k \in 0 .. m + 1 |-> f[k]]
  BY <1>1, <1>5
<1>7. f[0] = FIRST /\ \A k \in 0 .. m : f[k + 1] = IF f[k] = NULL THEN NULL ELSE Settled[f[k]]
  <2>1. \A k \in 0 .. m + 1 : f[k] = IF k = 0 THEN FIRST ELSE IF f[k-1] = NULL THEN NULL
                                                             ELSE Settled[f[k-1]]
    BY <1>1, <1>5
  <2>2. \A k \in 0 .. m : k + 1 \in 0 .. m + 1 /\ k + 1 # 0 /\ (k + 1) - 1 = k
    BY <1>1
  <2>3. 0 \in 0 .. m + 1
    BY <1>1
  <2> HIDE DEF step
  <2>4. f[0] = FIRST
    BY <2>1, <2>3
  <2>5. ASSUME NEW k \in 0 .. m
        PROVE  f[k + 1] = IF f[k] = NULL THEN NULL ELSE Settled[f[k]]
    BY <2>1, <2>2
  <2> QED BY <2>4, <2>5
<1> HIDE DEF step
<1> DEFINE T == {k \in Nat : k <= m + 1 => f[k] = at[k]}
<1>8. 0 \in T
  BY <1>1, <1>7
<1>9. ASSUME NEW k \in T PROVE k + 1 \in T
  <2>1. ASSUME k + 1 <= m + 1 PROVE f[k + 1] = at[k + 1]
    <3>1. k \in 0 .. m /\ f[k] = at[k]
      BY <1>1, <2>1
    <3> QED BY <1>2, <1>7, <3>1
  <2> QED BY <2>1
<1> HIDE DEF T
<1>10. T = Nat
  BY <1>8, <1>9, SetInduction DEF T
<1>11. \A k \in 0 .. m + 1 : f[k] = at[k]
  BY <1>1, <1>10 DEF T
<1> QED BY <1>1, <1>5, <1>6, <1>11

\* No swap loses a node, doubles one or closes a cycle (swap_nodes).
THEOREM NodesStay == Safe => []NoNodeLost
<1>1. IInv => NoNodeLost
  <2> SUFFICES ASSUME IInv, storage # NULL
               PROVE  /\ {Walk[k] : k \in 1 .. size} = Made
                      /\ Walk[size + 1] = NULL
    BY DEF NoNodeLost
  <2>1. PICK at, m : IsList(at, m)
    BY DEF IInv, ListInv
  <2>2. Walk = at /\ m = size
    BY <2>1, WalkIs, ListSize
  <2> QED BY <2>1, <2>2 DEF IsList, IsOrder
<1> QED BY Always, <1>1, PTL

\* A traversal meets every node once, whatever the swappers do meanwhile
\* (search_pairs, swap_pairs).
THEOREM EveryNodeMet == Safe => []TraversalComplete
<1>1. IInv => TraversalComplete
  <2> SUFFICES ASSUME IInv, NEW s \in Searchers
               PROVE  /\ pc[s] = "read" =>
                            \E k \in 0 .. size : /\ Walk[k] = cur[s]
                                                 /\ visited[s] = {Walk[j] : j \in 1 .. k}
                      /\ pc[s] = "unlock_last" => visited[s] = Made
    BY DEF TraversalComplete
  <2>1. SUFFICES ASSUME pc[s] \in {"read", "unlock_last"}
                 PROVE  \E k \in 0 .. size : /\ Walk[k] = cur[s]
                                             /\ visited[s] = {Walk[j] : j \in 1 .. k}
                                             /\ pc[s] = "unlock_last" => visited[s] = Made
    OBVIOUS
  <2>2. storage # NULL
    BY <2>1 DEF IInv, PhaseInv, Threads
  <2>3. PICK at, m : IsList(at, m)
    BY <2>2 DEF IInv, ListInv
  <2>4. Walk = at /\ m = size
    BY <2>2, <2>3, WalkIs, ListSize
  <2>5. PICK k \in 0 .. m : SearchesAt(s, at, m, k)
    BY <2>1, <2>3 DEF IsList, Placed, Searching
  <2> QED BY <2>1, <2>3, <2>4, <2>5 DEF SearchesAt, IsList
<1> QED BY Always, <1>1, PTL

\* The pairs a traversal counts are those of one order of the nodes
\* (search_pairs, cmp_asc, cmp_desc, cmp_equal).
THEOREM OneOrderCounted == Safe => []PairsOfOneOrder
<1>1. IInv => PairsOfOneOrder
  <2> SUFFICES ASSUME IInv, NEW s \in Searchers, pc[s] = "unlock_last"
               PROVE  \E o \in Bijection(1 .. size, Made) :
                         cycle_pairs[s] =
                             Cardinality({k \in 1 .. size - 1 :
                                             search_cmp(s, Length[o[k]], Length[o[k + 1]])})
    BY DEF PairsOfOneOrder
  <2>1. storage # NULL
    BY DEF IInv, PhaseInv, Threads
  <2>2. PICK at, m : IsList(at, m)
    BY <2>1 DEF IInv, ListInv
  <2>3. visited[s] = Made
    <3>1. PICK h \in 0 .. m : SearchesAt(s, at, m, h)
      BY <2>2 DEF IsList, Placed, Searching
    <3> QED BY <2>2, <3>1 DEF SearchesAt, IsList
  <2>4. PICK path, k : IsPath(s, path, k)
    BY DEF IInv, PathInv, Searching
  <2>5. k \in Nat /\ path \in Bijection(1 .. k, Made)
    BY <2>3, <2>4 DEF IsPath, Passed
  <2>6. k = size
    <3>1. IsFiniteSet(1 .. k) /\ Cardinality(1 .. k) = k
      BY <2>5, FS_Interval
    <3>2. ExistsBijection(1 .. k, Made)
      BY <2>5 DEF ExistsBijection
    <3>3. Cardinality(Made) = Cardinality(1 .. k)
      BY <3>1, <3>2, FS_Bijection
    <3>4. Cardinality(Made) = size
      BY <2>1 DEF IInv, PhaseInv
    <3> QED BY <3>1, <3>3, <3>4
  <2> QED BY <2>4, <2>5, <2>6 DEF IsPath
<1> QED BY Always, <1>1, PTL

\* A swapper exchanges the nodes that are at its index when it gets there
\* (swap_pairs).
THEOREM IndexIsThere == Safe => []SwapsAtItsIndex
<1>1. IInv => SwapsAtItsIndex
  <2> SUFFICES ASSUME IInv, NEW w \in Swappers, pc[w] \in {"compare", "swap_prev"}
               PROVE  /\ Walk[left_index[w]] = prev[w]
                      /\ Walk[left_index[w] + 1] = cur[w]
                      /\ Walk[left_index[w] + 2] = nxt[w]
    BY DEF SwapsAtItsIndex
  <2>1. storage # NULL
    BY DEF IInv, PhaseInv, Threads
  <2>2. PICK at, m : IsList(at, m)
    BY <2>1 DEF IInv, ListInv
  <2>3. Walk = at
    BY <2>1, <2>2, WalkIs
  <2>4. SwapsAt(w, at)
    BY <2>2 DEF IsList, Placed
  <2> QED BY <2>3, <2>4 DEF SwapsAt, OnPrev, OnCur, OnNext, AtGoal
<1> QED BY Always, <1>1, PTL

\* What the list's order says of the walk along it, now and after a step.
WalkAlong == \A at, m : storage # NULL /\ IsList(at, m) => Walk = at /\ m = size

LEMMA WalksAlong == IInv => WalkAlong
  BY WalkIs, ListSize DEF WalkAlong

LEMMA WalksAlongAfter == IInv' => WalkAlong'
  BY WalksAlong, PTL

LEMMA ShownIs ==
    ASSUME WalkAlong, storage # NULL, NEW at, NEW m, IsList(at, m)
    PROVE  Shown = [k \in 1 .. m |-> at[k]]
  BY DEF WalkAlong, Shown

LEMMA ShownAfter ==
    ASSUME WalkAlong', storage' # NULL, NEW at, NEW m, IsList(at, m)'
    PROVE  Shown' = [k \in 1 .. m |-> at[k]]
  BY DEF WalkAlong, Shown

LEMMA BuildMaps ==
    ASSUME IInv, IInv', InitReturns, MainStep
    PROVE  Exchanges!Build
<1>1. Shown = <<>> /\ storage' # NULL
  BY StorageConstantsOK DEF InitReturns, IInv, PhaseInv, InitPCs, Shown
<1>2. PICK at, m : IsList(at, m)'
  BY <1>1 DEF IInv, ListInv
<1>3. IsOrder(at, m) /\ Made' = {at[k] : k \in 1 .. m}
  BY <1>2 DEF IsList, IsOrder
<1>4. Shown' = [k \in 1 .. m |-> at[k]]
  BY <1>1, <1>2, WalksAlongAfter, ShownAfter
<1>5. Shown' \in Bijection(1 .. m, Made') /\ Cardinality(Made') = m
  BY <1>3, <1>4, OrderSize
<1>6. Made' \subseteq Nodes
  BY DEF IInv, TypeOK, Made
<1>7. PICK some \in SUBSET Nodes : some = Made'
  BY <1>6
<1>8. Shown' \in Bijection(1 .. Cardinality(some), some)
  BY <1>5, <1>7
\* ExchangeList has these notions from the same library.
<1>9. Exchanges!Cardinality(some) = Cardinality(some)
  BY DEF Exchanges!Cardinality, Cardinality
<1>10. \A S, T : Exchanges!Bijection(S, T) = Bijection(S, T)
  BY DEF Exchanges!Bijection, Bijection, Exchanges!Injection, Injection, Exchanges!Surjection,
         Surjection, Exchanges!IsInjective, IsInjective
<1>11. Shown' \in Exchanges!Bijection(1 .. Exchanges!Cardinality(some), some)
  BY <1>8, <1>9, <1>10
<1> QED BY <1>1, <1>11 DEF Exchanges!Build

LEMMA ExchangeMaps ==
    ASSUME IInv, IInv', NEW w \in Swappers, SwapperStep(w), SwapRight(w)
    PROVE  \E k \in 1 .. Len(Shown) - 1, o \in {Order[v] : v \in Swappers} :
              Exchanges!Exchange(k, o)
<1>1. storage # NULL /\ storage' = storage /\ pc[w] = "swap_right"
  BY DEF SwapperStep, SwapRight, mainVars
<1>2. PICK at, m : IsList(at, m)
  BY <1>1 DEF IInv, ListInv
<1>3. PICK j \in Nat : j = i[w] /\ j + 2 <= m /\ IsList(Exchanged(at, j), m)'
  BY <1>2, SwapRightList
<1>4. IsOrder(at, m) /\ m \in Nat
  BY <1>2 DEF IsList, IsOrder
<1>5. Shown = [k \in 1 .. m |-> at[k]]
  BY <1>1, <1>2, WalksAlong, ShownIs
<1>6. Shown' = [k \in 1 .. m |-> Exchanged(at, j)[k]]
  BY <1>1, <1>3, WalksAlongAfter, ShownAfter
<1>7. /\ Exchanged(at, j)[j + 1] = at[j + 2] /\ Exchanged(at, j)[j + 2] = at[j + 1]
      /\ \A k \in 0 .. m + 1 : k # j + 1 /\ k # j + 2 => Exchanged(at, j)[k] = at[k]
  <2>1. Differs(Exchanged(at, j), at, m, j)
    BY <1>3, <1>4, ExchangedIs
  <2> QED BY <2>1 DEF Differs
<1>8. j + 1 \in 1 .. m /\ j + 2 \in 1 .. m /\ (j + 1) + 1 = j + 2 /\ j + 1 # j + 2
      /\ 1 .. m \subseteq 0 .. m + 1
  BY <1>3, <1>4
<1>9. Shown' = [Shown EXCEPT ![j + 1] = Shown[(j + 1) + 1], ![(j + 1) + 1] = Shown[j + 1]]
  <2>1. Shown[j + 1] = at[j + 1] /\ Shown[j + 2] = at[j + 2]
    BY <1>5, <1>8
  <2>2. PICK ex : ex = Exchanged(at, j)
    OBVIOUS
  <2>3. \A k \in 1 .. m : ex[k] = IF k = j + 1 THEN at[j + 2] ELSE IF k = j + 2 THEN at[j + 1]
                                  ELSE at[k]
    BY <1>7, <1>8, <2>2
  <2>4. Shown' = [k \in 1 .. m |-> ex[k]]
    BY <1>6, <2>2
  <2> QED BY <1>5, <1>8, <2>1, <2>3, <2>4
<1>10. j + 1 \in 1 .. Len(Shown) - 1
  <2>1. Shown \in [1 .. m -> Nodes]
    BY <1>4, <1>5 DEF IsOrder
  <2>2. Len(Shown) = m
    BY <1>4, <2>1
  <2> QED BY <1>3, <1>4, <2>2
<1>11. Exchanges!Unordered(Order[w], Length[Shown[j + 1]], Length[Shown[(j + 1) + 1]])
  <2>1. swap_cmp(w, Length[cur[w]], Length[nxt[w]])
    BY <1>1, <1>2 DEF IsList, Placed, SwapsAt, AtGoal
  <2>2. cur[w] = at[j + 1] /\ nxt[w] = at[j + 2]
    BY <1>1, <1>2, <1>3, AtTheSwap
  <2>3. Shown[j + 1] = cur[w] /\ Shown[(j + 1) + 1] = nxt[w]
    BY <1>5, <1>8, <2>2
  <2> QED BY <2>1, <2>3, StorageConstantsOK DEF swap_cmp, Exchanges!Unordered
<1>12. Exchanges!Exchange(j + 1, Order[w])
  BY <1>9, <1>11 DEF Exchanges!Exchange
<1> QED BY <1>10, <1>12

LEMMA StepMaps == IInv /\ IInv' /\ [Next]_vars => [Exchanges!Next]_Shown
<1> SUFFICES ASSUME IInv, IInv', [Next]_vars PROVE [Exchanges!Next]_Shown
  OBVIOUS
<1>1. ASSUME storage' = storage,
             storage # NULL => \A at, m : IsList(at, m) => IsList(at, m)'
      PROVE  Shown' = Shown
  <2>1. CASE storage = NULL
    BY <1>1, <2>1 DEF Shown
  <2>2. CASE storage # NULL
    <3>1. PICK at, m : IsList(at, m)
      BY <2>2 DEF IInv, ListInv
    <3>2. Shown = [k \in 1 .. m |-> at[k]]
      BY <2>2, <3>1, WalksAlong, ShownIs
    <3>3. IsList(at, m)' /\ storage' # NULL
      BY <1>1, <2>2, <3>1
    <3>4. Shown' = [k \in 1 .. m |-> at[k]]
      BY <3>3, WalksAlongAfter, ShownAfter
    <3> QED BY <3>2, <3>4
  <2> QED BY <2>1, <2>2
<1>2. ASSUME UNCHANGED <<storage, heap, next, prev, cur, nxt, left_index, i, visited, pc>>
      PROVE  Shown' = Shown
  BY <1>1, <1>2, ListKept
<1>3. CASE MainStep
  <2>1. UNCHANGED <<prev, cur, nxt, left_index, i, visited>>
    BY <1>3 DEF MainStep, swapVars, searchVars
  <2>2. CASE InitReturns
    BY <1>3, <2>2, BuildMaps DEF Exchanges!Next
  <2>3. CASE storage' = storage /\ storage = NULL
    BY <1>1, <2>3
  <2>4. CASE storage # NULL /\ CreateThreads
    <3>1. /\ UNCHANGED <<storage, size, heap, next>>
          /\ \A w \in Swappers : pc[w] = "none" /\ pc'[w] = "start"
      BY <1>3, <2>4 DEF MainStep, CreateThreads, buildVars, IInv, PhaseInv, Threads
    <3>2. Swapping = {} /\ Swapping' = {}
      BY <3>1 DEF Swapping
    <3>3. Settled' = Settled
      BY <3>1, <3>2 DEF Settled
    <3>4. Walk' = Walk
      BY <3>1, <3>3 DEF Walk
    <3> QED BY <3>1, <3>4 DEF Shown
  <2>5. CASE storage # NULL /\ ~ CreateThreads
    <3>1. stop \/ Join
      BY <1>3, <2>5 DEF MainStep, RefuseSize, MallocStorage, MallocFirst, MallocNode,
         MallocNodeFails, InitReturns, storage_destroy, IInv, PhaseInv, InitPCs
    <3> QED BY <1>2, <2>1, <3>1 DEF stop, Join, buildVars
  <2>6. storage = NULL => storage' = storage \/ InitReturns
    BY <1>3 DEF MainStep, RefuseSize, MallocStorage, MallocFirst, MallocNode,
       MallocNodeFails, storage_destroy, CreateThreads, stop, Join, buildVars
  <2> QED BY <2>2, <2>3, <2>4, <2>5, <2>6
<1>4. ASSUME NEW s \in Searchers, SearcherStep(s) PROVE Shown' = Shown
  BY <1>1, <1>4, SearcherKeeps DEF SearcherStep, mainVars
<1>5. ASSUME NEW w \in Swappers, SwapperStep(w) PROVE [Exchanges!Next]_Shown
  <2>1. CASE SwapRight(w)
    BY <1>5, <2>1, ExchangeMaps DEF Exchanges!Next
  <2>2. CASE ~ SwapRight(w)
    BY <1>1, <1>5, <2>2, SwapperKeeps DEF SwapperStep, mainVars
  <2> QED BY <2>1, <2>2
<1>6. ASSUME NEW p \in Threads, Crash(p) PROVE Shown' = Shown
  BY <1>2, <1>6 DEF Crash, listVars, swapVars, searchVars
<1>7. CASE Ended \/ UNCHANGED vars
  BY <1>2, <1>7 DEF Ended, vars, mainVars, listVars, swapVars, searchVars
<1> QED BY <1>3, <1>4, <1>5, <1>6, <1>7 DEF Next

\* To its users the storage is a list whose neighbours change places in one step,
\* and only in the direction some swapper pursues (storage_init, swap_nodes).
THEOREM Implementation == Safe => ImplementsExchanges
<1>1. Init => Exchanges!Init
  BY DEF Init, Exchanges!Init, Shown
<1> QED BY Always, <1>1, StepMaps, PTL DEF Safe, ImplementsExchanges, Exchanges!Spec

=============================================================================
