---------------------------- MODULE RoundContract ----------------------------
(***************************************************************************)
(* What the federated-learning actors promise the program that runs them,  *)
(* without messages, retries and the actors' maps: every worker takes part *)
(* in a round once; a model is made only when all of them have, and once;  *)
(* what was lost stays lost; and a run ends, unless it gave up waiting,    *)
(* with nothing left that the next run could meet.                         *)
(***************************************************************************)
EXTENDS Naturals, Sequences, FiniteSets

CONSTANTS Worker, Last   \* the workers, and the number of rounds of a run

Round == 1..Last

VARIABLES
  run,      \* how often the program was run
  life,     \* "down", "waiting", "closing"
  asked,    \* rounds the program has asked for in this run
  status,   \* per round: "ahead", "running", "modelled", "reported", "over"
  part,     \* per round and worker: "due", "done", or "gone": used, or lost
  results   \* reported to the program and not yet read

vars == <<run, life, asked, status, part, results>>

Init ==
  /\ run = 0
  /\ life = "down"
  /\ asked = 0
  /\ status = [r \in Round |-> "ahead"]
  /\ part = [r \in Round |-> [w \in Worker |-> "due"]]
  /\ results = <<>>

\* One update of each worker, all of this run.
Result(r) ==
  [round |-> r, workers |-> Worker, updates |-> Cardinality(Worker), runs |-> {run}]

Over(r) == status[r] = "over" /\ \A w \in Worker : part[r][w] = "gone"

\* A run begins where no other has left anything.
Launch ==
  /\ life = "down"
  /\ run = 0 \/ \A r \in Round : Over(r)
  /\ results = <<>>
  /\ run' = run + 1
  /\ life' = "waiting"
  /\ asked' = 0
  /\ status' = [r \in Round |-> "ahead"]
  /\ part' = [r \in Round |-> [w \in Worker |-> "due"]]
  /\ UNCHANGED results

Ask ==
  /\ life = "waiting"
  /\ asked < Last
  /\ asked' = asked + 1
  /\ UNCHANGED <<run, life, status, part, results>>

\* Rounds begin one after the other.
Begin(r) ==
  /\ life # "down"
  /\ r <= asked
  /\ status[r] = "ahead" /\ \A s \in Round : s < r => status[s] # "ahead"
  /\ status' = [status EXCEPT ![r] = "running"]
  /\ UNCHANGED <<run, life, asked, part, results>>

Train(r, w) ==
  /\ status[r] # "ahead"
  /\ part[r][w] = "due"
  /\ part' = [part EXCEPT ![r][w] = "done"]
  /\ UNCHANGED <<run, life, asked, status, results>>

Lose(r, w) ==
  /\ status[r] # "ahead"
  /\ part[r][w] \in {"due", "done"}
  /\ part' = [part EXCEPT ![r][w] = "gone"]
  /\ UNCHANGED <<run, life, asked, status, results>>

\* The model of all parts is made, which uses them up.
Aggregate(r) ==
  /\ status[r] = "running"
  /\ \A w \in Worker : part[r][w] = "done"
  /\ status' = [status EXCEPT ![r] = "modelled"]
  /\ part' = [part EXCEPT ![r] = [w \in Worker |-> "gone"]]
  /\ UNCHANGED <<run, life, asked, results>>

Abandon(r) ==
  /\ status[r] \in {"running", "modelled"}
  /\ status' = [status EXCEPT ![r] = "over"]
  /\ UNCHANGED <<run, life, asked, part, results>>

Report(r) ==
  /\ status[r] = "modelled"
  /\ status' = [status EXCEPT ![r] = "reported"]
  /\ results' = Append(results, Result(r))
  /\ UNCHANGED <<run, life, asked, part>>

\* When the program has all it waits for, every round is over.
Read ==
  /\ life = "waiting"
  /\ results # <<>>
  /\ results' = Tail(results)
  /\ status' = [status EXCEPT ![Head(results).round] = "over"]
  /\ UNCHANGED <<run, asked, part>>
  /\ life' = life \/ (life' = "closing" /\ \A r \in Round : Over(r)')

GiveUp ==
  /\ life = "waiting"
  /\ life' = "closing"
  /\ UNCHANGED <<run, asked, status, part, results>>

\* The program shuts its actors down, or exits, and what it holds of the
\* rounds is lost.
Return ==
  /\ life = "closing"
  /\ life' = "down"
  /\ UNCHANGED <<run, asked, status, part, results>>

Exit ==
  /\ life = "closing"
  /\ life' = "down"
  /\ results' = <<>>
  /\ \E rounds \in SUBSET {r \in Round : status[r] # "ahead"},
        parts \in SUBSET {p \in Round \X Worker : status[p[1]] # "ahead"} :
       /\ {r \in Round : status[r] = "reported"} \subseteq rounds
       /\ status' = [r \in Round |-> IF r \in rounds THEN "over" ELSE status[r]]
       /\ part' = [r \in Round |-> [w \in Worker |-> IF <<r, w>> \in parts THEN "gone" ELSE part[r][w]]]
  /\ UNCHANGED <<run, asked>>

Next ==
  \/ Launch \/ Ask \/ Read \/ GiveUp \/ Return \/ Exit
  \/ \E r \in Round :
       \/ Begin(r) \/ Aggregate(r) \/ Abandon(r) \/ Report(r)
       \/ \E w \in Worker : Train(r, w) \/ Lose(r, w)

Spec == Init /\ [][Next]_vars
=============================================================================
