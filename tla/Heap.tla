-------------------------------- MODULE Heap -------------------------------
(***************************************************************************)
(* What an allocator of pages promises: runs of pages that are in memory   *)
(* and not shared, each its client's until the client frees it.            *)
(***************************************************************************)
EXTENDS Integers

CONSTANT NumPages

VARIABLE live       \* pages of the allocation that starts at a page, 0 for none

Pages == 0 .. NumPages - 1
Extent(p) == p .. p + live[p] - 1

Init == live = [p \in Pages |-> 0]

Allocate(s, n) ==
    /\ s + n =< NumPages
    /\ \A p \in Pages : Extent(p) \cap (s .. s + n - 1) = {}
    /\ live' = [live EXCEPT ![s] = n]

Release(p) == live[p] > 0 /\ live' = [live EXCEPT ![p] = 0]

Next == \E p \in Pages : Release(p) \/ \E n \in 1 .. NumPages : Allocate(p, n)

Spec == Init /\ [][Next]_live
=============================================================================
