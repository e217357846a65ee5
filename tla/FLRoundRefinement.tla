-------------------------- MODULE FLRoundRefinement --------------------------
(***************************************************************************)
(* FLRound implements RoundContract: where the messages of a round are, in *)
(* mailboxes, outboxes and the aggregator's maps, says how far the round   *)
(* and each worker's part in it have come.                                 *)
(***************************************************************************)
EXTENDS FLRound

Has(s, S) == \E i \in 1..Len(s) : s[i] \in S

-----------------------------------------------------------------------------
(* The places of a worker's work for a round.                              *)

UpdatesOf(r, w) == {m \in UpdateMessage : m.round = r /\ m.worker = w}
Answers(r, w) == [to : {Aggregator}, msg : UpdatesOf(r, w)]

Ordered(r, w)   == Has(outbox[Coordinator], {Envelope(w, Train(r))})
Requested(r, w) == Has(mailbox[w], {Train(r)})
Answered(r, w)  == Has(outbox[w], Answers(r, w))
Arrived(r, w)   == Has(mailbox[Aggregator], UpdatesOf(r, w))
Collected(r, w) == Has(updates[r], UpdatesOf(r, w))

Part(r, w) ==
  IF r > roundID \/ Ordered(r, w) \/ Requested(r, w) THEN "due"
  ELSE IF Answered(r, w) \/ Arrived(r, w) \/ Collected(r, w) THEN "done" ELSE "gone"

-----------------------------------------------------------------------------
(* The places of the round itself: its trigger, and then its model.        *)

ModelsOf(r) == {m \in ModelMessage : m.round = r}
ModelPosts(r) == [to : {Coordinator}, msg : ModelsOf(r)]
TriggerPosts(r) == {Envelope(Aggregator, Trigger(r))}

Asked(r)     == Has(outbox[Coordinator], TriggerPosts(r))
Triggered(r) == Has(mailbox[Aggregator], {Trigger(r)})
Awaited(r)   == expected[r] # None
Made(r)      == Has(outbox[Aggregator], ModelPosts(r))
Returned(r)  == Has(mailbox[Coordinator], ModelsOf(r))
Reporting(r) == reporting # None /\ reporting \in ModelsOf(r)
Reported(r)  == Has(results, ModelsOf(r))

Modelled(r) == Made(r) \/ Returned(r) \/ Reporting(r) \/ Reported(r)

Status(r) ==
  IF r > roundID THEN "ahead"
  ELSE IF Reported(r) THEN "reported"
  ELSE IF Modelled(r) THEN "modelled"
  ELSE IF Asked(r) \/ Triggered(r) \/ Awaited(r) THEN "running" ELSE "over"

\* What the program learns from a model: how many updates it sums, and whose.
ResultOf(m) ==
  [round |-> m.round, workers |-> {m.updates[j].worker : j \in DOMAIN m.updates},
   updates |-> Len(m.updates), runs |-> {m.updates[j].data : j \in DOMAIN m.updates}]

-----------------------------------------------------------------------------
Statuses == [r \in Rounds |-> Status(r)]
Parts    == [r \in Rounds |-> [w \in WorkerSet |-> Part(r, w)]]
Reports  == [k \in DOMAIN results |-> ResultOf(results[k])]

Contract == INSTANCE RoundContract WITH
  Worker  <- WorkerSet,
  Last    <- Starts,
  life    <- driver,
  asked   <- started,
  status  <- Statuses,
  part    <- Parts,
  results <- Reports

(* Every behaviour of coordinator, workers, aggregator and the program is  *)
(* one the contract allows: no worker counts twice, no model is made twice *)
(* or without a worker, what was lost stays lost, and a run that has read  *)
(* all its results leaves nothing to the next.                             *)
ImplementsRound == Contract!Spec
=============================================================================
