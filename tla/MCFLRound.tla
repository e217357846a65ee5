------------------------------ MODULE MCFLRound ------------------------------
(***************************************************************************)
(* Workers and faults of the runs of FLRound.                              *)
(***************************************************************************)
EXTENDS FLRoundRefinement

CONSTANTS w1, w2

TwoWorkers == <<w1, w2>>

Bounds(errors, lates, timeouts, loads) ==
  [error |-> errors, late |-> lates, timeout |-> timeouts, load |-> loads]

Node(bounds) == [p \in {"cluster-node"} |-> bounds]

Errors     == Node(Bounds(3, 0, 0, 0))
OneLate    == Node(Bounds(0, 1, 0, 0))
OneTimeout == Node(Bounds(0, 0, 1, 0))

Deliveries ==
  [p \in {"cluster-node", "fl-demo"} |->
     IF p = "fl-demo" THEN Bounds(0, 0, 1, 2) ELSE Bounds(1, 2, 0, 0)]
=============================================================================
