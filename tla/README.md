# Verification of the actor framework and its federated-learning demo

TLA+ modules, TLC configurations and TLAPS proofs for the Go program in `src/`:
an actor framework (`pkg/actor`), its gRPC transport (`pkg/actor/remote`), and
what is built on them: a federated naive-Bayes spam filter (`internal/fl`,
`internal/nb`, `internal/dataset`), a replicated registry (`internal/registry`,
`internal/crdt`), two ways to form a cluster (`internal/cluster`) and two
programs (`cmd/fl-demo`, `cmd/cluster-node`).

Modelled are the actor framework, the federated round with the two programs
around it, the data and the arithmetic they train on, the replicated registry,
and both ways to form a cluster. Every safety property that holds in a run is
also proved, for every size. [What is left](#what-is-left) names what could still be added.

## The system

| component | state | operations | talks to |
|---|---|---|---|
| actor cell and mailbox (`cell.go`, `mailbox.go`, `pid.go`) | the buffered channel `ch`, the channel `closed`, the `run` goroutine, the current behavior, `done` | `Tell` (two selects in `enqueue`), the loop, recovery from panics, `Become`, `stop` (close, signal, join, `OnStop`) | whoever holds its PID |
| actor system (`system.go`, `context.go`) | the map `cells`, under an RW lock | `Spawn`, `Lookup`, `Stop`, `Shutdown`, from outside or from handlers | cells |
| remote transport (`remote.go`) | gRPC connections | `Ref.Tell` with a 10 s deadline, `Server.Send`: unmarshal, look up, `Tell` | actors of other processes |
| federated-learning round (`internal/fl`) | coordinator: `roundID`, `Results`; aggregator: `updates`, `expected` | `StartTraining` → trigger and train requests → updates → model → result; `sendWithRetry` | each other through PIDs or remote refs |
| naive Bayes (`nb.go`) | none (pure) | `CountLocal`, `Aggregate`, `Predict`, `Evaluate` | called by worker, aggregator, coordinator |
| data set (`dataset.go`) | files | `Load`, `Save`, `SplitTrainTest`, `Partition` | called by the programs and the worker |
| G-Counter (`gcounter.go`) | a count per node | `Increment`, `Merge`, `Value`, snapshots | the registry actor |
| registry actor (`registry.go`) | active nodes, a G-Counter | join, leave, round complete, merge, query | other replicas, by snapshots; only tests spawn it |
| provider cluster (`provider.go`, `provider_client.go`) | provider: peers; client: its copy of them | join, leave, discover, peer list, with retries | each other, over the transport |
| gossip cluster (`p2p.go`) | peers | `OnStart` joins memberlist, whose callbacks `Tell` the actor itself; leave in `OnStop` | memberlist (external) |
| programs (`fl-demo`, `cluster-node`) | flags, the wait for one result | spawn, start, wait or time out, shut down or exit | all of the above |

Generated protobuf code, container files and data carry no logic of their own.

Where the difficulty is, component by component, and what makes it correct:

* **Cell.** Any number of goroutines tell an actor while another stops it; each
  `select` is a separate step. Correct: accepted messages are handled once, in
  the order in which they were sent; those accepted before a stop are handled
  before `OnStop`; nothing is handled later; every call returns.
* **System.** Handlers spawn, tell and stop too, and wait while they do. Correct:
  a cell has one stopper, a registered actor is alive, stopping calls return, and
  only after the exits.
* **Transport.** An error says nothing about delivery; retries duplicate.
* **Round.** Correct: a result is made from exactly one update of each worker, of
  this run, and there is one if nothing fails for too long.
* **Registry, clusters.** Replicas converge; peer lists eventually name the nodes
  that are there. Lost, repeated and reordered messages, restarts.
* **Data set, naive Bayes.** Partition keeps every row once; federated counts equal
  centralized counts. Boundaries, ties, map order.

`PROJECT.json` lists the hazards one by one, with the line at which each bites and
the properties that would notice it. Six have none: there the code does by design
what a property could only contradict, and the model contains it
([Things the code does](#things-the-code-does)).

## Modules

| module | what it is |
|---|---|
| `ActorCell` | one actor, its callers and its stopper |
| `ActorContract` | what an actor promises, without channel and goroutines |
| `ActorCellRefinement` | the mapping under which `ActorCell` implements `ActorContract` |
| `ActorCellProofs` | safety of `ActorCell`, and the safety part of that refinement, proved |
| `ActorSystem` | the registry and all goroutines of a process |
| `MCActorSystem` | who holds whose PID, for the runs |
| `ActorSystemProofs` | safety of `ActorSystem`, proved |
| `FLRound` | coordinator, workers, aggregator, retries, and the program around them |
| `RoundContract` | what a round promises the program, without messages, retries and the actors' maps |
| `FLRoundRefinement` | the mapping under which `FLRound` implements `RoundContract` |
| `FLRoundProofs` | safety of `FLRound`: one update of each worker, and of this run; and that refinement; proved |
| `MCFLRound` | worker list and fault bounds for the runs |
| `Dataset`, `NaiveBayes` | `internal/dataset` and `internal/nb` as operators |
| `FederatedTraining` | what coordinator and demo do with the data, from file to verdict |
| `MCFederatedTraining` | data files for the run |
| `FederatedTrainingProofs` | its safety, proved for any data: the federated model is the centralized one |
| `GCounter` | `internal/crdt` as operators |
| `RegistryGossip` | registry replicas that exchange snapshots |
| `MCRegistryGossip` | who reports to which replica in the run |
| `RegistryGossipProofs` | merge laws and safety of `RegistryGossip`, proved |
| `ProviderCluster` | provider and provider clients |
| `ProviderClusterProofs` | its safety, proved |
| `P2PMembership` | the gossip actor and memberlist's callbacks |
| `P2PMembershipProofs` | its safety, proved |
| `ClusterNode` | `cmd/cluster-node`'s `main`, composed with both of them by `INSTANCE` |
| `ClusterNodeProofs` | the nodes implement both, and so have what is proved of them |
| `MCClusterNode` | seeds for the run |

Each component module has a section of *plausible bugs*: variants of actions that
no specification uses. Put in the place of the action they vary, each makes TLC
find a violation of the property named for it in `PROJECT.json`, which shows that
the property depends on that piece of code.

### ActorCell

`ch`, `closed`, `loop`, `current` and `behavior` are the fields and the goroutine
of `actorCell`. `tell[m]` is the program counter of the call that sends `m`
(a message is its own call), and `stop` that of `actorCell.stop`. `enqueue` first
looks at `closed` (`TellCheck`), then selects between room in the channel
(`TellSend`) and `closed` (`TellReject`); when both are possible, Go picks either,
and so does the model. `stop` closes the mailbox (`StopClose`), sends
`stopSignal` like any other message (`StopSend`), waits for `done` (`StopJoin`) and
runs `OnStop` (`StopHook`). `Deliver`, `HandlerReturns`, `HandlerPanics` and
`ExitLoop` are the loop; `close(done)` is part of `ExitLoop`, as nothing happens
between. `handled`, `sentBefore`, `early` and `racing` are history, written and
never read by actions.

`stop` is called once here; that it is called once for any cell is what
`ActorSystem` establishes (`OneStopper`). The model has no unbuffered mailboxes:
`SpawnWithMailboxSize(a, 0)` is possible, but no code does it.

### ActorSystem

Cells are numbered as they are created; a number stands for the cell, its PID and its
goroutine. Goroutines are the clients and the cells' own. `pc` says where in a
call each is, `target` on which cell, `todo` which cells its `Stop` or `Shutdown`
still has to stop. What `Stop` and `Shutdown` do under the lock is one step (the map lookup
and the deletion); all that follows is interleaved. A handler may do whatever a client may, `Shutdown` included; it begins an
operation on any actor it *knows*, by a relation on ids (`Knows`), at most `MaxSteps`
times per message. Handlers end by returning or panicking. Messages carry nothing.
The registration in `Spawn` and the beginning of `OnStart` are one step, the end of `OnStart`
another, in which `go c.run` is reached or, after a panic in a handler's
`Spawn`, is not (`OnStartPanics`). A panic in a client's `Spawn` or in `OnStop` ends the
process or its caller and is not modelled.

### FLRound

An actor's goroutine is `mailbox[a]` and, while a handler runs, the sends it still
has to do, `outbox[a]`, with the failed attempts for the first of them in
`tries[a]`. A `Tell` is a single step for its caller with one of four outcomes: accepted
(`SendOk`); refused because the target is stopped or its process is down
(`SendRefused`); an error without delivery (`SendError`); an error although the
message is on its way to the mailbox (`SendLate`, then `LateArrives`), which is what the
deadline in `Ref.Tell` allows, as `Server.Send` goes on after it. After `Attempts`
failures, the handler drops the message and continues, as the code does.

Updates stand for the counts they carry, and a model for the updates it sums;
nothing the actors do depends on more. `data` is the run whose partitions the
worker read. The maps of the aggregator are functions of the round, with `<<>>` and
`None` where Go's map has no entry.

The program is `program` and `driver`: `LaunchCoordinator` or `LaunchRound`, `TellStart`,
`ReadResult` or `TimeOut`, and then either the exit of the coordinator's process, which
the other processes survive (`cluster-node`), or `Shutdown`, which closes and drains one actor after
the other (`fl-demo`, `Local`). In `fl-demo` no `Tell` fails on the way, so there
only loads and timeouts are faults. `StopActor` takes from `ActorSystem` that a stopped
actor finishes the messages it has and refuses others. `GracefulStop`, which may delay the exit
of a cluster node, is not modelled. Mailboxes hold 128 messages, far more than any run here
sends, so they are unbounded here; `StartTraining` always has
one path per worker, as in both programs.

`RoundContract` knows how far a round is (`status`) and each worker's part in it (`part`), and nothing of
messages. A part is *due*, then *done*, and in the end *gone*: used by the model, or lost; it
never comes back. A round is *running* until its model is made, which takes every worker's part, *modelled*
until it is reported and *reported* until the program reads the result; what is given up is *over*. A run begins
only where no round and no part is left, which is what the numbering of rounds from 1 in every run
needs. `FLRoundRefinement` reads both off the places where messages are: the part of a worker is due while its
`TrainRequest` is with the coordinator or in its mailbox, and done while its update is with it, at the aggregator or in the map
`updates`; the round is running while its trigger is on its way or in `expected`, modelled while its model is. `Result` is
what the contract says of a model: one update for each worker, all of the current run.

### Dataset, NaiveBayes, FederatedTraining

`Dataset` and `NaiveBayes` are the pure functions of the two packages. A row is a
label and the words of its text: `Tokenize` has been applied. `Class` and `Word` are the sets
labels and words are from, `Record` and `Line` what files are then made of; nothing else depends on
them, and the proofs hold for any sets. Go's maps are
functions whose domains are the keys that are present, so that a class without words is
in `wordCounts` and not in `classTotals`, as in the code. Probabilities are fractions, and the
sums of logarithms that `Predict` compares are products of fractions; what only rounding
of floating-point numbers makes or breaks is not in the model. The loops of `Aggregate` over the
updates are sums over them (`SumFunction`), as the order of their additions does not matter. `Predict` returns the
set of classes that the random order of a map lets it return, and
`Evaluate` the set of confusion matrices.

`FederatedTraining` is the sequence of both programs around a round: flags, load, split
by any permutation, baseline, partition files one after the other, an update of each
worker in any order, aggregation, evaluation, verdict. Updates and model take the shape of
`convert.go` on the way, which drops `vocabSize`; `GlobalModel` restores it as
`evaluate` does. The messages themselves, repeated or lost, are `FLRound`'s; here each update
arrives once.

### GCounter and RegistryGossip

A counter is a function from nodes to counts. Each node reports `RoundComplete`,
`NodeJoin` and `NodeLeave` to one replica, its `Home`. That this is one replica is the
rule `gcounter.go` states for whoever uses it; `Receive` does not enforce it. Snapshots (`QueryState`, then a
`MergeRequest` elsewhere) are messages in flight, delivered in any order or lost; a
`RoundComplete` may be lost, or handled and kept in flight. A repeated snapshot is a later `Gossip` of the same
counter. `done`, `lost` and `repeated` are history. No program spawns
a registry, so who sends is taken from the tests of the package.

### ProviderCluster

`requests` and `registered` are the provider's mailbox and its `peers`; `inbox`,
`dialed` (`c.provider != nil`) and `peers` the clients'. `registerAndDiscover` is `sending`, a
list of messages that `tellWithRetry` sends with `tries` failures for the first; when the
attempts are used up, the rest is not sent, as the function returns. The four outcomes of a
`Tell` are those of `FLRound`. The provider may be absent, may crash, losing
mailbox and map, and comes back empty; it drops no client. `OperatorLeaves` is a
`LeaveCluster`, which nothing in `src/` sends. `AskDiscoverNow` is a `DiscoverNow` by whoever
polls a client, as a test does. `Backlog` and `MaxPolls` bound how many messages of or to a client are under way when it is polled; what is
late does not count, so a client may be polled while an older list still comes. That a `JoinCluster`
carries a peer and a `DiscoverPeers` an address to reply to, which the provider checks, is so in all that the client sends. `Step` is all but the
beginning and the end of the clients, which `ClusterNode` decides; `Next` adds them at any time.

### P2PMembership

`OnStart` is split where memberlist runs: `SpawnP2P` or `CreateFails`, `JoinSeed`, `JoinFails`,
`NoSeeds`, `OnStartReturns`. A callback is `calling[n]`, set by memberlist's step and cleared by
`TellSelf` when the mailbox has room; until then `n`'s memberlist does nothing else, as it holds its lock while it
calls. memberlist is external: `known` are the members a node knows, and a node may learn of any member
it is linked to directly or through another, lose one that is gone, and, at most `MaxFlaps` times, lose one that is
there. Dead members do not come back under their name. `LastWord` says what a mailbox of events
amounts to: about each node, the last event counts. `Step` and `Next` are as in `ProviderCluster`.

### ClusterNode

`main` per node: the transport starts, the cluster is joined, the role runs. `JoinCluster` begins the
`Spawn` of the actor of the mode, whose `OnStart` is then steps of the instance; `JoinReturns` is the return
of `Spawn`. Role and role flags are read afterwards, so that a node may die of
them (`RoleFatal`) when it has already registered. A coordinator ends with its
round, and with it the actor that joined the cluster, without `OnStop`. What the
roles do is `FLRound`.

## Runs

`PROJECT.json` has a sentence for each. Most finish within seconds; `FLRoundCompletes`
takes about half a minute, `RegistryGossip` one, `ClusterNode` two and `ActorSystem` three.

| run | instance | shows |
|---|---|---|
| `ActorCell` | 3 calls, 2 behaviors, capacity 2 | `EarlyDelivered`, `SentOrder`, `LossOnlyByRace`, `QuietAfterJoin`; `TellReturns`, `StopReturns`, `EarlyHandled` under fairness; implements `ActorContract`, liveness included |
| `ActorSystem` | 2 clients, 2 actors that know themselves and each other, capacity 1, clients and handlers spawn, tell, stop and shut down, handlers and `OnStart` panic | `OneStopper`, `RegisteredIsOpen`, `Reaped`; `StopBlockedByCycle`, `TellReturns` under fairness |
| `FLRoundRetry` | 2 workers, 2 runs of 2 rounds, 3 errors, 3 attempts | `FromEveryWorker`, `OfThisRun`; implements `RoundContract` |
| `FLRoundCompletes` | 2 workers; `cluster-node` with 2 runs, 1 error, 2 late deliveries, 2 attempts; `fl-demo` with 1 timeout, 2 failing loads | `RoundCompletes`, `ProgramEnds`, `RunEnds` |
| `Training` | all files of up to 3 lines of 7 kinds, files of up to 5 of 2 kinds, 0 to 4 workers, every shuffle | `EveryRowOnce`, `FederatedIsCentral`, `Distributions`, `SameVerdictUnlessTied` |
| `RegistryGossip` | 2 nodes, 2 replicas, 2 rounds each, 1 report lost or repeated, 2 snapshots in flight each way | `NeverAhead`, `EachCountedOnce`, `Grows`, `Converges` |
| `ClusterNode` | 2 nodes, one a coordinator, all modes; 2 attempts, 1 fault of any kind, 1 false suspicion or failed join, capacity 2 | `ListsItself`, `PeersFollowMembership`, `RoomSuffices`, `ForgetsWithCause`, `ClientsComplete`, `GossipComplete`, `Serves` |

The other runs each refute a statement of a comment; the behaviour TLC finds is
what the code does:

| run | statement | what happens |
|---|---|---|
| `ActorCellLoss` | a message sent during `Stop` is delivered or rejected | `Tell` returns nil and the message is lost |
| `ActorSystemZombie` | `Shutdown` waits for all goroutines to exit | `OnStart` panicked in a handler's `Spawn`; the cell has no goroutine to wait for, and `Shutdown` does not return |
| `ActorSystemCycle` | the same, and `Stop` waits for the actor to exit | three actors that only tell others: two wait for room in each other's mailboxes, the third for room in one of these; `Shutdown` begins with the third, waits for its handler, and never closes the mailboxes that would free them |
| `FLRoundDuplicate` | the model is made from updates of every worker | a repeated update replaces another worker's |
| `FLRoundAgain` | a run evaluates its own round | leftovers of a run that timed out are used |

### Things the code does

What no run singles out, though the models contain it:

* A handler that stops its own actor waits for ever, and so do two that stop each other's.
  `Stop` and `Shutdown` also wait for handlers that wait for room elsewhere, and closing one mailbox frees only those who wait for
  room in that one; `ActorSystemCycle` shows how a `Shutdown` hangs on two actors it has not got to. What remains true, and is checked, is
  `StopBlockedByCycle`: a stopping call that does not return hangs on a chain of waits, for room in an open mailbox or
  for the exit of a cell, that runs into a cycle or into an actor that was never started. `TellReturns` is the same for `Tell`.
* `Stop` looks the cell up by id: the PID of an actor that is gone stops a later one with the
  same id, and a second `Stop` returns at once while the first still waits. An id is
  free as soon as `Stop` has begun, while the actor still drains its mailbox.
* `Receive` of the registry counts a round for whichever node a message names; active nodes are never merged.
* The provider lists dead nodes for ever, as nothing sends `LeaveCluster`; a client whose first dial
  fails never dials again.
* More membership events than the mailbox holds, before `OnStart` has returned, block
  memberlist, `OnStart` and `main` for good. `Serves` excepts exactly this (`Stuck`). `RoomSuffices` says how far one is from it: without
  false suspicions two slots for each other member are enough, so that the code's 128 do for 65 nodes.
* A node that dies of a wrong role flag has joined before; the provider lists it from then on.
* The address memberlist advertises is the host it binds to, and the default is `0.0.0.0:7946`: what is said of gossip
  holds for nodes that bind to an address the others can reach.
* Equally likely classes are decided by the order of a map, so the baseline and an equal federated model may
  be evaluated differently; and a baseline accuracy of zero makes the ratio NaN and the verdict FAIL.
  `SameVerdictUnlessTied` excepts both. `fl-demo` accepts `-workers=0` and
  evaluates an empty model; the properties about models are stated for at least one worker.

### Bounds

* Mailbox capacity 1 or 2: a channel of capacity 1 is full after one message, so
  every wait for room happens; 2 shows the order in the buffer. The proofs are
  for every capacity.
* Three `Tell` calls against capacity 2: the buffer fills, a caller waits,
  and one is between its selects when `stop` begins.
* Two ids and two cells: an id is used again while its first actor still drains, and an actor spawns a second while
  it is being stopped itself.
* With two actors that know themselves and each other, handlers wait for themselves, for each other, and for an actor that
  a client is stopping. A cycle that leaves out the actor that waits for it takes three (`ActorSystemCycle`).
* `MaxSteps` = 1 operation per message: each operation of a handler that waits is
  followed by others in later messages.
* `Attempts` 2 or 3 for the code's 10, and `MaxFaults`, per kind of fault, above or below it: what
  matters is whether an attempt is left. In `FLRoundCompletes` errors alone cannot exhaust the
  attempts, but late deliveries can, so a trigger may be given up and arrive after the updates. `MaxRuns` = 2: a run can only meet leftovers of earlier ones, and
  one earlier run leaves all there can be.
* `Training`: three lines of seven kinds (blank, malformed, a text without words, of one and of two
  words, both classes) and no file; five lines give training sets of four and test sets of one,
  and with up to four workers every remainder, and more workers than messages. `RatioNum / RatioDen` is the code's 4 / 5.
* `RegistryGossip`: two snapshots in flight each way overtake each other; with two rounds, an older snapshot differs
  from a newer one in a component that is not its receiver's. The proofs are for any numbers.
* `ClusterNode`: two nodes, of which the second joins through the first. A mailbox of two slots is the room that
  `RoomSuffices` asks for; one false suspicion makes three events, which overfill it. One fault is a crash, a failed dial, a failed or
  late `Tell`, or a leave, in each combination with a missing or slow provider, for which no fault is needed; two attempts are what it
  takes to have one left. `MaxPolls` = 1: a client is polled again when it has been answered, or when its answer is late, so
  that a late list meets a newer one. Three gossiping nodes exceed what TLC can enumerate in minutes.
* `Starts` is 1 in both programs; `FLRoundRetry` uses 2 to show that
  rounds of one coordinator do not mix.

`CHECK_DEADLOCK FALSE` stands where the system really stops: actors waiting in a cycle
(the runs of `ActorSystem`), a program that has run for the last time
(those of `FLRound`, and `Training`), and nodes that have nothing left to do (`ClusterNode`).

### Fairness

Goroutines that can run do (weak fairness of the loop, the stopper, the started
send); handlers, `OnStart` and `OnStop` return. Nobody is obliged to call anything: there is no
fairness for the beginning of a call, for `Become`, for `Launch` or for faults. In
`ActorSystem` the sends are strongly fair: Go queues the senders that wait on a full
channel and hands each freed slot to the first, so a sender does not starve on a
channel that is drained again and again. `ActorCell` needs only weak fairness, since its calls
are finitely many. Delivery in `FLRound` is weakly fair because `SendOk` is
possible whenever the target runs, and errors are among the bounded faults. `RunEnds` needs one thing more, that the
timer of a program that waits fires (weak fairness of `TimeOut`, in the property itself); `RoundCompletes` and `ProgramEnds` do without.

In `RegistryGossip` replicas exchange snapshots for ever, and of those from one to another infinitely many
arrive (strong fairness of `MergeArrives`, as any one may be lost): no program does this yet, it is what
the package's comments ask of its user. In `ClusterNode` a started `main` goes on when it can, and
messages under way arrive; nobody has to start a node or a provider, and
a round does not have to end. `Polling` (every client is told `DiscoverNow` again and again)
is the environment's part, taken from the tests; `ClientsComplete` holds for providers that stay up from some
time on. For memberlist, weak fairness of `Learn`, and of `Lose` for members that are gone,
is the promise of its protocol.

## Proofs

TLAPS proves the following for every value of the constants that satisfies the named assumption of the
module (positive capacities and attempts, the signal is not a message, the provider is not one of its
clients, no node is its own seed, files are made of lines, `None` is neither a number nor a model, and the like). TLC evaluates each assumption on the instances above.

* `ActorCellProofs`: `TypeOK`, `EarlyDelivered`, `SentOrder`, `LossOnlyByRace`,
  `QuietAfterJoin`. The inductive invariant `CellInv` says where a message can be: an accepted message
  has been handled, or is in the channel, or its call raced the stop (`MailboxInv`,
  `EarlyInv`, `RacingInv`); the channel holds at most one signal, and only while `stop` is at the
  matching place (`SignalInv`, `PhaseInv`); and in front of a message in the channel or
  in its handler are all those sent before it (`OrderInv`). None of the properties is
  inductive: that early messages are handled when `stop` passes the join follows only from their
  standing before the signal.
  `ActorCell` implements `SafetySpec` of `ActorContract` (`ImplementsSafety`): given `CellInv`, each
  step is a step of the contract or none. `UpToFacts` is the heart: a `Deliver` takes the first message in front of the
  signal, a `Tell` adds one at the end of these or, behind the signal, none, in which case its message is lost by the race
  the contract allows.
* `ActorSystemProofs`: `TypeOK`, `OneStopper`, `RegisteredIsOpen`, `Reaped`. `SystemInv` relates every
  goroutine's `pc` to the cell it works on (`TargetInv`, `PcInv`), says that one goroutine starts a cell
  (`StarterInv`) and one stops it, a registered one none (`StopperInv`), that only a
  closed mailbox gets the signal and only the signal ends a loop (`SignalInv`), and that
  what a call took it has stopped or will (`TookInv`). The proof goes action by action; each step first states what the
  action changes, pointwise, and then each part of the invariant.

* `RegistryGossipProofs`: `Merge` is commutative, associative, idempotent and the least upper bound of
  its arguments (`MergeLaws`), and of the replicas `TypeOK`, `NeverAhead`, `EachCountedOnce` and `Grows`, from
  `GossipAssumption` (each node has one home). The inductive invariant `GossipInv` adds to these that
  the reports in flight are about completed rounds (`ReportsInv`), without which a new
  report might be one that is in flight already and the count of `EachCountedOnce` would be off. `EachCountedOnce` alone is not
  inductive either: a merge leaves a home's own component alone only because no snapshot is ahead of it (`NeverAhead`).

* `FLRoundProofs`: `TypeOK` under all faults, from what the outboxes may hold (`OutboxInv`) and how many
  rounds were started (`StartsInv`); and `FromEveryWorker` and `OfThisRun` for any workers, rounds, runs and attempts
  and with any failing sends and loads, under two conditions. Nothing is delivered after its
  `Tell` failed (`DeliveredOnce`); and either the coordinator runs once or no run gives up waiting (`Patient`).
  Without the first `FromEveryWorker` is false (`FLRoundDuplicate`), without the second `OfThisRun` is
  (`FLRoundAgain`). The argument has three parts.
  The aggregator counts messages, so the invariant must
  show that counting them is counting workers: a worker's part in a round is in one place at a time, and there once (`OnceInv`), from
  the order of the coordinator to the aggregator's map, and a round not yet started is nowhere; updates are kept with
  their round (`KeptInv`); a model is one of all workers' updates wherever it is (`ModelsInv`); nothing is
  late (`FreshInv`). As many updates as workers, no two of the same, are then one of each.
  The round itself is in one place as well: its trigger still with the coordinator, at the aggregator or
  handled, or its model made and on its way to the program (`StepInv`); and once there is a model, all updates of the round are used up.
  So a round whose result was read is gone, and a run has read as many results as it started
  rounds: the results read and the rounds of which anything is left are at most `Starts` (`EndInv`). When the next run begins, its
  round numbers begin again at 1, but no message of the last run is left to be taken for its own, and all
  updates under way are made of its data (`DataInv`). For both, no step brings back what is over (`Settled`, `Closing`).
  Under the same two conditions `FLRound` implements `RoundContract` (`ImplementsRoundHolds`): given `RoundInv` before and after,
  each step is a step of the contract or none (`NextRefines`, from one lemma per action). Each of these
  lemmas says first which places have changed, and for every round and worker what that does to `Status` and `Part`. A message that moves
  from one place to the next of the same stage is no step; that it is not in the old place any more, and so
  does not hold the round back, is `OnceInv` and `StepInv`. That the model is made when all parts are done, and is
  the contract's `Result`, is the counting argument above; that `Launch` finds nothing left, and that the last `ReadResult` leaves every
  round over, is `EndInv`. The property is false without the conditions, as the two properties above are: `Result` and the guard of `Launch` contain them.
* `FederatedTrainingProofs`: `TypeOK`, `EveryRowOnce`, `FederatedIsCentral`, `Distributions` and `SameVerdictUnlessTied`,
  for any data files, numbers of workers, ratios, shuffles and orders of arrival. The invariant `TrainingInv` says what each stage
  leaves for the next: the split (`DataInv`), a shard of the training set per file (`DiskInv`),
  distinct workers' counts of their shards (`ReceivedInv`), and the model of the training set (`ModelInv`).
  All the rest is about the operators. `PartitionIs` finds the closed form of the offsets that `Partition`
  adds up, `FlattenPartition` that the shards put together are the rows, `SplitFacts` that shuffle and
  split keep each row, `LoadSave` that a file is read back as it was written. Counting is shown to be additive over
  a training set cut into blocks (`CountParts`): the counts of a word are numbers of *places* where it stands,
  the places of the whole are the disjoint union of those of the blocks, and so what `Aggregate` adds up, in any order, is
  their number (`AggregateIs`). The shards are such blocks, and the training set as a whole is one (`ShardBlocks`, `OneBlock`);
  both have the same closed form, `ModelOf`, which survives the conversions of the messages (`ModelArrives`) and whose
  probabilities sum to one (`ModelAddsUp`). Induction over the data (`FlattenSeq`, the offsets, sums over sets) is by least counterexample:
  `Least`, `UpTo` and `SumIs` need no operator as a parameter.
* `ProviderClusterProofs`: types, and for any number of nodes, attempts and faults `ListsItself` and
  `ForgetsWithCause`. `ListsInv` says that a discovery is never in front of its join, wherever they are: waiting to be
  sent, late or in the provider's mailbox (`AskInv`); that lists name whom they are for
  (`NamedInv`), and, when none is late, that a client's peers, the lists in its mailbox and the provider's own
  set are each contained in the next (`OrderInv`).
* `P2PMembershipProofs`: types, and `PeersFollowMembership`, from three facts about `LastWord`: of no events, of a new
  last event, and of a first one that is handled (`NoWord`, `NewWord`, `FirstWord`). The invariant adds that a node not yet spawned
  knows nothing, and the case that matters is the callback that waits for room: its event is pending too, and
  nothing is announced before it.
  `RoomSuffices` is proved for any finite set of nodes and any seeds (`RoomSufficesHolds`). `RoomInv` says that, without mistakes, a pending join is of a member that is
  known or gone for good, a pending leave of one that is neither known nor ever back, so that no event is pending twice
  (`AnnounceOnce`), and none is about the node itself; a callback that waited would make one event more than there are, by the pigeonhole principle (`RoomIsEnough`).
* `ClusterNodeProofs`: every step of `ClusterNode` is one of `ProviderCluster` and one of `P2PMembership`, or leaves
  them alone (`NodesImplementModes`), as a node spawns and ends an actor only as they allow. All safety properties of the run
  `ClusterNode` follow, for any number of nodes; `RoomSuffices` for any finite number.

Model-checked only: liveness, which is beyond the prover, and with it the liveness part of
`ActorContract` (`RoundContract` has none). The statements of the runs that expect a violation are false, and nothing is proved of them.

## What is left

One `Ref.Tell` step by step against `Server.Send`: deadline, server goroutine, blocked
mailbox. Its outcomes are in `FLRound` and `ProviderCluster`; the remote transport
is therefore *partly* modelled.

## Not modelled

* Tokenizing and the syntax of the data file, flags other than mode and role, printing and
  logging: wording and layout, on which no state depends.
* Floating-point rounding in scores and metrics, and in the product of ratio and length at which `SplitTrainTest` cuts: the model takes its exact floor. Of the metrics, accuracy is used, as in the verdict;
  precision, recall and F1 are computed from the same counts and only printed.
* `QueryState` and `QueryPeers` as calls of their own: they copy state into a channel.
* Mailboxes of capacity 0, panics in `OnError`, `OnStop` and a client's own `Spawn`: no code does the first, the others
  end the process or their caller.
* `GracefulStop` and the connections of gRPC; memberlist's protocol: external, seen through their outcomes.
* Generated protobuf and gRPC code, container files, data.
