------------------------------- MODULE FLRound -------------------------------
(***************************************************************************)
(* A federated-learning round (internal/fl): the coordinator, worker and   *)
(* aggregator actors, sendWithRetry between them, and the program that     *)
(* runs them: fl-demo, where all share a process that shuts them down at   *)
(* the end, or cluster-node, where every actor has a process and only the  *)
(* coordinator's ends, perhaps to be run again.                            *)
(*                                                                         *)
(* A Tell is one step for its caller, which waits for it: an error need    *)
(* not mean that the message is lost, only that nobody knows. An update    *)
(* stands for the counts it carries, a model for the updates it sums.      *)
(***************************************************************************)
EXTENDS Naturals, Sequences, FiniteSets

CONSTANTS Coordinator, Aggregator,  \* their actor ids
          Workers,     \* CoordinatorActor.Workers, a sequence of actor ids
          Programs,    \* programs considered, of "cluster-node" and "fl-demo"
          Attempts,    \* attempts of sendWithRetry (10 in the code)
          ResultsCap,  \* capacity of the Results channel (1 in both programs)
          Starts,      \* StartTraining messages of a run (1 in both programs)
          MaxFaults,   \* bound: per program, faults of each kind in a behaviour
          MaxRuns,     \* bound: runs of the coordinator's cluster-node
          None

WorkerSet == {Workers[i] : i \in DOMAIN Workers}
Actors == {Coordinator, Aggregator} \cup WorkerSet
Rounds == 1..Starts
FaultKinds == {"error", "late", "timeout", "load"}

ASSUME RoundAssumption ==
  /\ Workers \in Seq(WorkerSet) /\ Workers # <<>>
  /\ \A i, j \in DOMAIN Workers : Workers[i] = Workers[j] => i = j
  /\ Coordinator \notin {Aggregator} \cup WorkerSet
  /\ Aggregator \notin WorkerSet
  /\ Attempts \in Nat \ {0} /\ ResultsCap \in Nat \ {0} /\ Starts \in Nat \ {0}
  /\ Programs \subseteq {"cluster-node", "fl-demo"}
  /\ MaxFaults \in [Programs -> [FaultKinds -> Nat]] /\ MaxRuns \in Nat \ {0}
  /\ "fl-demo" \in Programs => MaxFaults["fl-demo"]["error"] = 0 /\ MaxFaults["fl-demo"]["late"] = 0

VARIABLES
  \* the actors, and the messages between them
  mailbox,    \* per actor, the messages it has accepted
  closed,     \* actors that refuse messages: stopped, or their process is down
  late,       \* messages whose Tell failed and that will be delivered all the same
  outbox,     \* per actor, what its running handler has yet to send
  tries,      \* per actor, failed attempts to send the first of these
  roundID,    \* CoordinatorActor.roundID
  reporting,  \* the result evaluate() is putting into Results, or None
  updates,    \* AggregatorActor.updates, <<>> where the map has no entry
  expected,   \* AggregatorActor.expected, None where it has none
  \* the program
  program,    \* which one it is
  driver,     \* "down", "waiting", "closing"
  started,    \* StartTraining messages sent in this run
  results,    \* the Results channel
  read,       \* results read in this run
  run,        \* how often the program was run; its partitions are on disk
  faults      \* faults of each kind so far

actorVars == <<mailbox, closed, late, outbox, tries, roundID, reporting, updates, expected>>
driverVars == <<program, driver, started, results, read, run>>
vars == <<actorVars, driverVars, faults>>

Start         == [type |-> "StartTraining"]
Trigger(r)    == [type |-> "AggregateTrigger", round |-> r, expected |-> Len(Workers)]
Train(r)      == [type |-> "TrainRequest", round |-> r]
Update(r, w)  == [type |-> "LocalModelUpdate", round |-> r, worker |-> w, data |-> run]
Model(r, ups) == [type |-> "AggregatedModel", round |-> r, updates |-> ups]

\* All actors in one process, or each in its own.
Local == program = "fl-demo"

Init ==
  /\ program \in Programs
  /\ mailbox = [a \in Actors |-> <<>>]
  /\ closed = IF Local THEN Actors ELSE {Coordinator}
  /\ late = {}
  /\ outbox = [a \in Actors |-> <<>>]
  /\ tries = [a \in Actors |-> 0]
  /\ roundID = 0
  /\ reporting = None
  /\ updates = [r \in Rounds |-> <<>>]
  /\ expected = [r \in Rounds |-> None]
  /\ driver = "down"
  /\ started = 0
  /\ results = <<>>
  /\ read = 0
  /\ run = 0
  /\ faults = [kind \in FaultKinds |-> 0]

Fault(kind) ==
  /\ faults[kind] < MaxFaults[program][kind]
  /\ faults' = [faults EXCEPT ![kind] = @ + 1]

Busy(a) == outbox[a] # <<>> \/ (a = Coordinator /\ reporting # None)
Quiet(a) == ~Busy(a) /\ mailbox[a] = <<>>

\* The actor's loop hands it the next message, of the given type.
Receives(a, type) ==
  /\ ~Busy(a)
  /\ mailbox[a] # <<>>
  /\ Head(mailbox[a]).type = type
  /\ mailbox' = [mailbox EXCEPT ![a] = Tail(@)]

Sends(a, envelopes) == outbox' = [outbox EXCEPT ![a] = envelopes]
Envelope(to, msg) == [to |-> to, msg |-> msg]

-----------------------------------------------------------------------------
(* Plausible bugs in the code below. No action uses them: each shows that  *)
(* a property would notice it.                                             *)

\* maybeAggregate one update short.
AlmostAll(n, ups) == n # None /\ Len(ups) + 1 >= n

\* maybeAggregate without delete(a.updates, roundID).
CollectKeeping(r, n, ups) ==
  /\ updates' = [updates EXCEPT ![r] = ups]
  /\ IF n # None /\ Len(ups) >= n
     THEN /\ expected' = [expected EXCEPT ![r] = None]
          /\ Sends(Aggregator, <<Envelope(Coordinator, Model(r, ups))>>)
     ELSE /\ expected' = [expected EXCEPT ![r] = n]
          /\ UNCHANGED outbox

\* maybeAggregate without delete(a.expected, roundID).
CollectExpecting(r, n, ups) ==
  /\ expected' = [expected EXCEPT ![r] = n]
  /\ IF n # None /\ Len(ups) >= n
     THEN /\ updates' = [updates EXCEPT ![r] = <<>>]
          /\ Sends(Aggregator, <<Envelope(Coordinator, Model(r, ups))>>)
     ELSE /\ updates' = [updates EXCEPT ![r] = ups]
          /\ UNCHANGED outbox

\* AggregateTrigger only noted, not acted upon.
NoteTrigger ==
  LET m == Head(mailbox[Aggregator]) IN
  /\ Receives(Aggregator, "AggregateTrigger")
  /\ expected' = [expected EXCEPT ![m.round] = m.expected]
  /\ UNCHANGED <<closed, late, outbox, tries, roundID, reporting, updates, driverVars, faults>>

\* The program waits for its result alone.
NeverTimeOut == FALSE /\ UNCHANGED vars

\* One attempt too many, and an unbuffered Results channel.
FailOnceMore(a) ==
  IF tries[a] < Attempts
  THEN tries' = [tries EXCEPT ![a] = @ + 1] /\ UNCHANGED outbox
  ELSE tries' = [tries EXCEPT ![a] = 0] /\ Sends(a, Tail(outbox[a]))

ReportUnbuffered ==
  /\ reporting # None
  /\ driver = "waiting" /\ results = <<>>
  /\ results' = Append(results, reporting)
  /\ reporting' = None
  /\ UNCHANGED <<mailbox, closed, late, outbox, tries, roundID, updates, expected,
                 program, driver, started, read, run, faults>>

-----------------------------------------------------------------------------
(* sendWithRetry, on the first message of the outbox. Its error is logged  *)
(* and the handler goes on.                                                *)

Done(a) == tries' = [tries EXCEPT ![a] = 0] /\ Sends(a, Tail(outbox[a]))

Fail(a) ==
  IF tries[a] + 1 < Attempts
  THEN tries' = [tries EXCEPT ![a] = @ + 1] /\ UNCHANGED outbox
  ELSE Done(a)

SendOk(a) ==
  /\ outbox[a] # <<>>
  /\ LET e == Head(outbox[a]) IN
       /\ e.to \notin closed
       /\ mailbox' = [mailbox EXCEPT ![e.to] = Append(@, e.msg)]
  /\ Done(a)
  /\ UNCHANGED <<closed, late, roundID, reporting, updates, expected, driverVars, faults>>

\* No such process, no such actor in it, or its mailbox is closed.
SendRefused(a) ==
  /\ outbox[a] # <<>>
  /\ Head(outbox[a]).to \in closed
  /\ Fail(a)
  /\ UNCHANGED <<mailbox, closed, late, roundID, reporting, updates, expected,
                 driverVars, faults>>

\* The peer cannot be reached, or has not spawned the actor yet.
SendError(a) ==
  /\ Fault("error")
  /\ outbox[a] # <<>>
  /\ Fail(a)
  /\ UNCHANGED <<mailbox, closed, late, roundID, reporting, updates, expected, driverVars>>

\* The deadline expires, or the connection breaks, after the peer has the message.
SendLate(a) ==
  /\ Fault("late")
  /\ outbox[a] # <<>>
  /\ LET e == Head(outbox[a]) IN
       /\ e.to \notin closed
       /\ late' = late \cup {[n |-> faults["late"], to |-> e.to, msg |-> e.msg]}
  /\ Fail(a)
  /\ UNCHANGED <<mailbox, closed, roundID, reporting, updates, expected, driverVars>>

LateArrives ==
  \E e \in late :
    /\ late' = late \ {e}
    /\ mailbox' = [mailbox EXCEPT ![e.to] = Append(@, e.msg)]
    /\ UNCHANGED <<closed, outbox, tries, roundID, reporting, updates, expected,
                   driverVars, faults>>

-----------------------------------------------------------------------------
(* CoordinatorActor. Both programs pass one path for every worker, so the  *)
(* length check of startRound never fails.                                 *)

StartRound ==
  LET r == roundID + 1 IN
  /\ Receives(Coordinator, "StartTraining")
  /\ roundID' = r
  /\ Sends(Coordinator, <<Envelope(Aggregator, Trigger(r))>>
                        \o [i \in DOMAIN Workers |-> Envelope(Workers[i], Train(r))])
  /\ UNCHANGED <<closed, late, tries, reporting, updates, expected, driverVars, faults>>

Evaluate ==
  /\ Receives(Coordinator, "AggregatedModel")
  /\ reporting' = Head(mailbox[Coordinator])
  /\ UNCHANGED <<closed, late, outbox, tries, roundID, updates, expected, driverVars, faults>>

\* c.Results <- RoundResult{...} waits for room.
Report ==
  /\ reporting # None
  /\ Len(results) < ResultsCap
  /\ results' = Append(results, reporting)
  /\ reporting' = None
  /\ UNCHANGED <<mailbox, closed, late, outbox, tries, roundID, updates, expected,
                 program, driver, started, read, run, faults>>

-----------------------------------------------------------------------------
(* WorkerActor.                                                            *)

WorkerTrains(w) ==
  /\ Receives(w, "TrainRequest")
  /\ Sends(w, <<Envelope(Aggregator, Update(Head(mailbox[w]).round, w))>>)
  /\ UNCHANGED <<closed, late, tries, roundID, reporting, updates, expected,
                 driverVars, faults>>

\* dataset.Load fails: the handler logs it and sends nothing.
WorkerCannotLoad(w) ==
  /\ Fault("load")
  /\ Receives(w, "TrainRequest")
  /\ UNCHANGED <<closed, late, outbox, tries, roundID, reporting, updates, expected,
                 driverVars>>

-----------------------------------------------------------------------------
(* AggregatorActor. Both messages end in maybeAggregate.                   *)

Complete(n, ups) == n # None /\ Len(ups) >= n

\* maybeAggregate(r), when n updates are expected and ups have come.
Collect(r, n, ups) ==
  IF Complete(n, ups)
  THEN /\ updates' = [updates EXCEPT ![r] = <<>>]
       /\ expected' = [expected EXCEPT ![r] = None]
       /\ Sends(Aggregator, <<Envelope(Coordinator, Model(r, ups))>>)
  ELSE /\ updates' = [updates EXCEPT ![r] = ups]
       /\ expected' = [expected EXCEPT ![r] = n]
       /\ UNCHANGED outbox

HandleTrigger ==
  LET m == Head(mailbox[Aggregator]) IN
  /\ Receives(Aggregator, "AggregateTrigger")
  /\ Collect(m.round, m.expected, updates[m.round])
  /\ UNCHANGED <<closed, late, tries, roundID, reporting, driverVars, faults>>

HandleUpdate ==
  LET m == Head(mailbox[Aggregator]) IN
  /\ Receives(Aggregator, "LocalModelUpdate")
  /\ Collect(m.round, expected[m.round], Append(updates[m.round], m))
  /\ UNCHANGED <<closed, late, tries, roundID, reporting, driverVars, faults>>

-----------------------------------------------------------------------------
(* The program that spawns the coordinator and waits for the round.        *)

\* The partitions are written and these actors are spawned.
Launch(actors) ==
  /\ driver = "down"
  /\ run' = run + 1
  /\ roundID' = 0
  /\ started' = 0
  /\ read' = 0
  /\ closed' = closed \ actors
  /\ driver' = "waiting"
  /\ UNCHANGED <<mailbox, late, outbox, tries, reporting, updates, expected, program, results, faults>>

\* runCoordinator: the other actors have processes of their own.
LaunchCoordinator == ~Local /\ run < MaxRuns /\ Launch({Coordinator})

\* runFederatedRound, once.
LaunchRound == Local /\ run = 0 /\ Launch(Actors)

TellStart ==
  /\ driver = "waiting"
  /\ started < Starts
  /\ started' = started + 1
  /\ mailbox' = [mailbox EXCEPT ![Coordinator] = Append(@, Start)]
  /\ UNCHANGED <<closed, late, outbox, tries, roundID, reporting, updates, expected,
                 program, driver, results, read, run, faults>>

\* case result := <-results
ReadResult ==
  /\ driver = "waiting"
  /\ started = Starts
  /\ results # <<>>
  /\ results' = Tail(results)
  /\ read' = read + 1
  /\ driver' = IF read + 1 = Starts THEN "closing" ELSE "waiting"
  /\ UNCHANGED <<actorVars, program, started, run, faults>>

\* case <-time.After(...)
TimeOut ==
  /\ Fault("timeout")
  /\ driver = "waiting"
  /\ started = Starts
  /\ driver' = "closing"
  /\ UNCHANGED <<actorVars, program, started, results, read, run>>

\* cluster-node returns from main or dies in log.Fatal; nothing stops its actors.
ProcessExits ==
  /\ ~Local
  /\ driver = "closing"
  /\ driver' = "down"
  /\ closed' = {Coordinator}
  /\ mailbox' = [mailbox EXCEPT ![Coordinator] = <<>>]
  /\ late' = {e \in late : e.to # Coordinator}
  /\ outbox' = [outbox EXCEPT ![Coordinator] = <<>>]
  /\ tries' = [tries EXCEPT ![Coordinator] = 0]
  /\ reporting' = None
  /\ results' = <<>>
  /\ UNCHANGED <<roundID, updates, expected, program, started, read, run, faults>>

\* fl-demo's deferred Shutdown: one actor after the other refuses further
\* messages and finishes those it has.
StopActor(a) ==
  /\ Local
  /\ driver = "closing"
  /\ a \notin closed
  /\ \A b \in closed : Quiet(b)
  /\ closed' = closed \cup {a}
  /\ UNCHANGED <<mailbox, late, outbox, tries, roundID, reporting, updates, expected,
                 driverVars, faults>>

ShutdownReturns ==
  /\ Local
  /\ driver = "closing"
  /\ closed = Actors
  /\ \A b \in closed : Quiet(b)
  /\ driver' = "down"
  /\ UNCHANGED <<actorVars, program, started, results, read, run, faults>>

-----------------------------------------------------------------------------
Sending(a) == SendOk(a) \/ SendRefused(a) \/ SendError(a) \/ SendLate(a)
Coordinates == StartRound \/ Evaluate \/ Report
Works(w) == WorkerTrains(w) \/ WorkerCannotLoad(w)
Aggregates == HandleTrigger \/ HandleUpdate
Closes == ProcessExits \/ ShutdownReturns \/ \E a \in Actors : StopActor(a)

Next ==
  \/ \E a \in Actors : Sending(a)
  \/ LateArrives
  \/ Coordinates
  \/ \E w \in WorkerSet : Works(w)
  \/ Aggregates
  \/ LaunchCoordinator \/ LaunchRound \/ TellStart \/ ReadResult \/ TimeOut
  \/ Closes

(* Actors whose mailbox is not empty run, Tell and the hooks return, what  *)
(* has reached a peer is delivered there, and the program does what it can *)
(* except that nobody is obliged to run it, and faults never have to happen.*)
Fairness ==
  /\ \A a \in Actors : WF_vars(Sending(a))
  /\ WF_vars(LateArrives)
  /\ WF_vars(Coordinates)
  /\ \A w \in WorkerSet : WF_vars(Works(w))
  /\ WF_vars(Aggregates)
  /\ WF_vars(TellStart) /\ WF_vars(ReadResult) /\ WF_vars(Closes)

Spec == Init /\ [][Next]_vars
FairSpec == Spec /\ Fairness

-----------------------------------------------------------------------------
UpdateMessage == [type : {"LocalModelUpdate"}, round : Rounds, worker : WorkerSet, data : 0..MaxRuns]
ModelMessage == [type : {"AggregatedModel"}, round : Rounds, updates : Seq(UpdateMessage)]
Message ==
  [type : {"StartTraining"}] \cup UpdateMessage \cup ModelMessage
  \cup [type : {"AggregateTrigger"}, round : Rounds, expected : {Len(Workers)}]
  \cup [type : {"TrainRequest"}, round : Rounds]

ASSUME NoneAssumption == None \notin Nat \cup ModelMessage

TypeOK ==
  /\ mailbox \in [Actors -> Seq(Message)]
  /\ closed \in SUBSET Actors
  /\ late \subseteq [n : Nat, to : Actors, msg : Message]
  /\ outbox \in [Actors -> Seq([to : Actors, msg : Message])]
  /\ tries \in [Actors -> 0..(Attempts - 1)]
  /\ roundID \in 0..Starts
  /\ reporting \in ModelMessage \cup {None}
  /\ updates \in [Rounds -> Seq(UpdateMessage)]
  /\ expected \in [Rounds -> {Len(Workers), None}]
  /\ program \in Programs
  /\ driver \in {"down", "waiting", "closing"}
  /\ started \in 0..Starts
  /\ results \in Seq(ModelMessage) /\ Len(results) <= ResultsCap
  /\ read \in 0..Starts
  /\ run \in 0..MaxRuns
  /\ faults \in [FaultKinds -> Nat]
  /\ \A kind \in FaultKinds : faults[kind] <= MaxFaults[program][kind]

(* The aggregator "collects per-round LocalModelUpdate messages from every *)
(* Worker and, once all expected updates for a round have arrived,         *)
(* produces the FedAvg-aggregated global model": each reported model sums  *)
(* exactly one update of each worker.                                      *)
FromEveryWorker ==
  \A k \in DOMAIN results :
    LET ups == results[k].updates IN
    /\ Len(ups) = Len(Workers)
    /\ \A w \in WorkerSet : \E j \in DOMAIN ups : ups[j].worker = w

(* The program "runs one FL round across the real network, evaluates the   *)
(* result and exits": the result it evaluates is its own, made of updates  *)
(* trained on the partitions this run has written.                         *)
OfThisRun ==
  \A k \in DOMAIN results :
    \A j \in DOMAIN results[k].updates : results[k].updates[j].data = run

(* A round that nobody waits for too short a time completes, as long as    *)
(* every worker can load its partition and no message is lost in all the   *)
(* attempts of sendWithRetry: in whatever order trigger and updates arrive *)
(* ("safe to call in any order"), repeated or late although the sender has *)
(* given up.                                                               *)
RoundCompletes == driver = "waiting" ~> driver = "closing" \/ faults["load"] > 0

(* The program ends, also when it timed out: the demo's Shutdown never     *)
(* waits for a coordinator that waits for somebody to read a result.       *)
ProgramEnds == driver = "closing" ~> driver = "down"

(* A run of the program ends even when its round cannot complete, because  *)
(* a worker could not load its partition: given that the timer of          *)
(* time.After fires, with the time-out the select waits for besides the    *)
(* result.                                                                 *)
RunEnds == WF_vars(TimeOut) => (driver = "waiting" ~> driver = "down")
=============================================================================
