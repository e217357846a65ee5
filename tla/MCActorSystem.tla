---------------------------- MODULE MCActorSystem ----------------------------
(***************************************************************************)
(* Acquaintance relations for the runs of ActorSystem.                     *)
(***************************************************************************)
EXTENDS ActorSystem

CONSTANTS a, b, d

Nobody == {}
Everybody == {a, b} \X {a, b}

\* a tells b; b and d tell each other.
Beside == {<<a, b>>, <<b, d>>, <<d, b>>}
=============================================================================
