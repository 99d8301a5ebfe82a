----------------------------- MODULE ExchangeList -----------------------------
(***************************************************************************)
(* What the storage promises its users: a list, built once, in which       *)
(* neighbours change places in one step, and only when a swapper's order   *)
(* asks for it.                                                            *)
(***************************************************************************)
EXTENDS Naturals, Sequences, FiniteSets, Functions

CONSTANTS Nodes, Length, Orders

VARIABLE list   \* the nodes in their order

\* Neighbours of lengths l and r are in the wrong order.
Unordered(o, l, r) == \/ o = "asc" /\ l > r
                      \/ o = "desc" /\ l < r
                      \/ o = "not_equal" /\ l # r

Init == list = <<>>

\* Some of the nodes, in any order.
Build == /\ list = <<>>
         /\ \E some \in SUBSET Nodes : list' \in Bijection(1 .. Cardinality(some), some)

Exchange(i, o) ==
    /\ Unordered(o, Length[list[i]], Length[list[i+1]])
    /\ list' = [list EXCEPT ![i] = list[i+1], ![i+1] = list[i]]

Next == Build \/ \E i \in 1 .. Len(list) - 1, o \in Orders : Exchange(i, o)

Spec == Init /\ [][Next]_list

=============================================================================
