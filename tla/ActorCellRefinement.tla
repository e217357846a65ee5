------------------------- MODULE ActorCellRefinement -------------------------
(***************************************************************************)
(* ActorCell implements ActorContract: the mapping from channel, loop and  *)
(* calls to the queue, fates and life the contract speaks of.              *)
(***************************************************************************)
EXTENDS ActorCell, SequencesExt

UpToSignal(s) ==
  SubSeq(s, 1, SelectInSeq(Append(s, StopSignal), LAMBDA x : x = StopSignal) - 1)

\* What the loop will still hand to a handler: the channel up to the signal.
Ahead == IF loop = "exited" THEN <<>> ELSE UpToSignal(ch)

Fate(m) ==
  CASE m \in handled         -> "handled"
    [] tell[m] = "rejected"  -> "rejected"
    [] Contains(Ahead, m)    -> "queued"
    [] tell[m] \in {"idle", "checked"} -> "untold"
    [] OTHER                 -> "lost"

Contract == INSTANCE ActorContract WITH
  queue <- Ahead,
  fate  <- [m \in Msgs |-> Fate(m)],
  life  <- IF loop = "exited" THEN "stopped" ELSE IF closed THEN "closing" ELSE "open"

(* Every behaviour of an actor's mailbox, loop and stop() is one the       *)
(* contract allows: accepted messages are handled once each, in order,     *)
(* before the actor is stopped, and in the end all of them but those lost  *)
(* to a concurrent stop.                                                   *)
ImplementsContract == Contract!Spec
=============================================================================
