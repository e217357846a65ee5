---------------------------- MODULE MCClusterNode ----------------------------
(***************************************************************************)
(* Who joins through whom in the run of ClusterNode: the second node        *)
(* through the first, and the third, if there is one, through the second.  *)
(***************************************************************************)
EXTENDS ClusterNode

CONSTANTS a, b

ThroughFirst == [n \in Nodes |-> IF n = a THEN {} ELSE {a}]
=============================================================================
