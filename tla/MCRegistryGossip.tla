-------------------------- MODULE MCRegistryGossip --------------------------
(***************************************************************************)
(* Homes of the nodes in the run of RegistryGossip.                        *)
(***************************************************************************)
EXTENDS RegistryGossip, TLC

CONSTANTS a, b, r, s

OneEach == (a :> r) @@ (b :> s)
=============================================================================
