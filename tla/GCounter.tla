------------------------------- MODULE GCounter -------------------------------
(***************************************************************************)
(* internal/crdt: a grow-only counter, here a function from node ids to    *)
(* counts, zero where the map has no entry. Snapshot and FromSnapshot copy *)
(* it, and so do toInt64Map and toIntMap of the registry: the counts they  *)
(* convert are far below 2^63.                                             *)
(***************************************************************************)
EXTENDS Naturals, FiniteSets, FiniteSetsExt

CONSTANT Nodes

Counter == [Nodes -> Nat]

NewGCounter == [n \in Nodes |-> 0]

(* Plausible bugs, used by no specification: an assignment for an          *)
(* addition, and merges that keep only what other has, that add, and that  *)
(* skip nodes not seen before.                                             *)
SetComponent(c, node, delta) == [c EXCEPT ![node] = delta]
KeepOther(c, other) == [n \in {x \in Nodes : other[x] > 0} |-> other[n]]
AddUp(c, other) == [n \in Nodes |-> c[n] + other[n]]
MergeSeen(c, other) == [n \in Nodes |-> IF c[n] > 0 /\ other[n] > c[n] THEN other[n] ELSE c[n]]

Increment(c, node, delta) == [c EXCEPT ![node] = @ + delta]
Merge(c, other) == [n \in Nodes |-> IF other[n] > c[n] THEN other[n] ELSE c[n]]
Value(c) == MapThenSumSet(LAMBDA n : c[n], Nodes)

Below(c, d) == \A n \in Nodes : c[n] <= d[n]
=============================================================================
