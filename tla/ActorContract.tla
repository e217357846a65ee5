---------------------------- MODULE ActorContract ----------------------------
(***************************************************************************)
(* What an actor of pkg/actor promises those who Tell it, whatever goes on *)
(* in its mailbox channel: accepted messages are handled once each, in the *)
(* order they were accepted; none is refused while nobody is stopping the  *)
(* actor; and what was accepted before the stopping is handled before the  *)
(* actor is stopped. Only while it is being stopped may an accepted        *)
(* message be lost.                                                        *)
(***************************************************************************)
EXTENDS Sequences

CONSTANT Msgs

VARIABLES queue,   \* accepted and waiting, oldest first
          fate,    \* what became of each message
          life     \* "open", "closing" or "stopped"

vars == <<queue, fate, life>>

Init ==
  /\ queue = <<>>
  /\ fate = [m \in Msgs |-> "untold"]
  /\ life = "open"

Settle(m, outcome) == fate[m] = "untold" /\ fate' = [fate EXCEPT ![m] = outcome]

Accept(m) ==
  /\ life # "stopped"
  /\ Settle(m, "queued")
  /\ queue' = Append(queue, m)
  /\ UNCHANGED life

Reject(m) ==
  /\ life # "open"
  /\ Settle(m, "rejected")
  /\ UNCHANGED <<queue, life>>

\* Tell succeeds, and the message is never handled.
Lose(m) ==
  /\ life # "open"
  /\ Settle(m, "lost")
  /\ UNCHANGED <<queue, life>>

Handle ==
  /\ queue # <<>>
  /\ fate' = [fate EXCEPT ![Head(queue)] = "handled"]
  /\ queue' = Tail(queue)
  /\ UNCHANGED life

Close ==
  /\ life = "open"
  /\ life' = "closing"
  /\ UNCHANGED <<queue, fate>>

Finish ==
  /\ life = "closing"
  /\ queue = <<>>
  /\ life' = "stopped"
  /\ UNCHANGED <<queue, fate>>

Next ==
  \/ \E m \in Msgs : Accept(m) \/ Reject(m) \/ Lose(m)
  \/ Handle \/ Close \/ Finish

SafetySpec == Init /\ [][Next]_vars
Spec == SafetySpec /\ WF_vars(Handle) /\ WF_vars(Finish)
=============================================================================
