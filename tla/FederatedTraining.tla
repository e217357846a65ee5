-------------------------- MODULE FederatedTraining --------------------------
(***************************************************************************)
(* What cluster-node's coordinator and fl-demo do with the data: load it,  *)
(* split it, train and evaluate a centralized baseline, write a partition  *)
(* per worker, train on the partitions, aggregate, evaluate, compare. The  *)
(* messages of the round are FLRound's; here an update arrives once, in    *)
(* any order.                                                              *)
(***************************************************************************)
EXTENDS Dataset, NaiveBayes

CONSTANTS Files,       \* contents the data file may have
          Workers,     \* numbers of workers, 0 for a -workers= without entries
          RatioNum, RatioDen,   \* trainRatio, 4/5 in both programs
          None

ASSUME TrainingAssumption ==
  /\ Files \subseteq {NoFile} \cup Seq(Line)
  /\ Workers \subseteq Nat
  /\ RatioNum \in Nat /\ RatioDen \in Nat \ {0} /\ RatioNum <= RatioDen

VARIABLES
  file,      \* the data file
  n,         \* number of workers
  stage,     \* what the program does next; "fatal" when it has died
  rows,      \* records
  split,     \* SplitTrainTest's train and test
  baseline,  \* metrics of the centralized model
  disk,      \* partition files written so far
  received,  \* LocalModelUpdates, in the order of arrival
  model,     \* GlobalModel the coordinator evaluates
  metrics    \* its metrics
vars == <<file, n, stage, rows, split, baseline, disk, received, model, metrics>>

Stages == {"parse", "load", "split", "baseline", "write", "train", "evaluate", "compare", "fatal"}

Init ==
  /\ file \in Files
  /\ n \in Workers
  /\ stage = "parse"
  /\ rows = <<>>
  /\ split = None
  /\ baseline = None
  /\ disk = <<>>
  /\ received = <<>>
  /\ model = None
  /\ metrics = None

-----------------------------------------------------------------------------
(* The shape of the messages (convert.go): a map of maps is a map of       *)
(* messages, and AggregatedModel has no vocabSize.                         *)

ToPBWordCounts(m)   == [class \in DOMAIN m |-> [counts |-> m[class]]]
FromPBWordCounts(m) == [class \in DOMAIN m |-> m[class].counts]
ToPBWordProbs(m)    == [class \in DOMAIN m |-> [probs |-> m[class]]]
FromPBWordProbs(m)  == [class \in DOMAIN m |-> m[class].probs]

\* evaluate() takes the size of the vocabulary from the first class it sees.
GlobalModel(m) ==
  LET probs == FromPBWordProbs(m.globalWordProbs)
  IN  [wordProbs |-> probs, classPriors |-> m.classPriors,
       vocabSize |-> IF DOMAIN probs = {} THEN 0
                     ELSE Cardinality(DOMAIN probs[CHOOSE class \in DOMAIN probs : TRUE])]

-----------------------------------------------------------------------------
(* A plausible bug, used by no specification: a baseline trained on the    *)
(* test messages as well.                                                  *)
BaselineOnAllRows ==
  /\ stage = "baseline"
  /\ baseline' \in Evaluate(Aggregate(<<CountLocal(rows)>>), split.test)
  /\ stage' = "write"
  /\ UNCHANGED <<file, n, rows, split, disk, received, model, metrics>>

-----------------------------------------------------------------------------
Die == stage' = "fatal" /\ UNCHANGED <<file, n, rows, split, baseline, disk, received, model, metrics>>

\* cluster-node wants at least one worker.
ParseWorkers ==
  /\ stage = "parse"
  /\ IF n = 0
     THEN Die
     ELSE /\ stage' = "load"
          /\ UNCHANGED <<file, n, rows, split, baseline, disk, received, model, metrics>>

\* fl-demo takes any number.
ParseFlags ==
  /\ stage = "parse"
  /\ stage' = "load"
  /\ UNCHANGED <<file, n, rows, split, baseline, disk, received, model, metrics>>

LoadRecords ==
  /\ stage = "load"
  /\ IF Load(file) = Failed
     THEN Die
     ELSE /\ rows' = Load(file)
          /\ stage' = "split"
          /\ UNCHANGED <<file, n, split, baseline, disk, received, model, metrics>>

Split ==
  /\ stage = "split"
  /\ \E order \in Bijection(DOMAIN rows, DOMAIN rows) :
       split' = SplitTrainTest(rows, order, RatioNum, RatioDen)
  /\ stage' = "baseline"
  /\ UNCHANGED <<file, n, rows, baseline, disk, received, model, metrics>>

Baseline ==
  /\ stage = "baseline"
  /\ baseline' \in Evaluate(Aggregate(<<CountLocal(split.train)>>), split.test)
  /\ stage' = "write"
  /\ UNCHANGED <<file, n, rows, split, disk, received, model, metrics>>

\* One file after the other; the program dies if one cannot be written.
WritePartition ==
  /\ stage = "write"
  /\ IF Len(disk) < n
     THEN \/ /\ disk' = Append(disk, Save(Partition(split.train, n)[Len(disk) + 1]))
             /\ UNCHANGED <<file, n, stage, rows, split, baseline, received, model, metrics>>
          \/ Die
     ELSE /\ stage' = "train"
          /\ UNCHANGED <<file, n, rows, split, baseline, disk, received, model, metrics>>

\* WorkerActor.Receive, and the update's arrival at the aggregator.
WorkerUpdate(w) ==
  /\ stage = "train"
  /\ \A k \in DOMAIN received : received[k].worker # w
  /\ LET counts == CountLocal(Load(disk[w]))
     IN  received' = Append(received, [worker |-> w, wordCounts |-> ToPBWordCounts(counts.wordCounts),
                                       classTotals |-> counts.classTotals])
  /\ UNCHANGED <<file, n, stage, rows, split, baseline, disk, model, metrics>>

\* The aggregator's model, and the coordinator's copy of it.
AggregateUpdates ==
  /\ stage = "train"
  /\ Len(received) = n
  /\ LET global == Aggregate([k \in DOMAIN received |->
                       [wordCounts  |-> FromPBWordCounts(received[k].wordCounts),
                        classTotals |-> received[k].classTotals]])
     IN  model' = GlobalModel([globalWordProbs |-> ToPBWordProbs(global.wordProbs),
                               classPriors |-> global.classPriors])
  /\ stage' = "evaluate"
  /\ UNCHANGED <<file, n, rows, split, baseline, disk, received, metrics>>

EvaluateModel ==
  /\ stage = "evaluate"
  /\ metrics' \in Evaluate(model, split.test)
  /\ stage' = "compare"
  /\ UNCHANGED <<file, n, rows, split, baseline, disk, received, model>>

Next ==
  \/ ParseWorkers \/ ParseFlags \/ LoadRecords \/ Split \/ Baseline \/ WritePartition
  \/ \E w \in 1..n : WorkerUpdate(w)
  \/ AggregateUpdates \/ EvaluateModel

Spec == Init /\ [][Next]_vars

-----------------------------------------------------------------------------
\* federated / baseline >= 0.95; 0 / 0 is not a number, and not above anything.
Pass(federated, central) ==
  LET acc == Accuracy(federated)
      base == Accuracy(central)
  IN  IF base[1] = 0 THEN acc[1] > 0 ELSE 20 * acc[1] * base[2] >= 19 * base[1] * acc[2]

Occurs(row, s) == Cardinality({i \in DOMAIN s : s[i] = row})
Shards == [w \in DOMAIN disk |-> Load(disk[w])]

(* Whatever the sizes, the shuffle and the files: each message of the file *)
(* ends up in the training set or in the test set, and each training       *)
(* message in the file of exactly one worker, in order; the files differ   *)
(* by at most one message ("roughly-equal, contiguous shards").            *)
EveryRowOnce ==
  /\ split # None =>
       \A row \in {rows[i] : i \in DOMAIN rows} :
         Occurs(row, rows) = Occurs(row, split.train) + Occurs(row, split.test)
  /\ stage \in {"train", "evaluate", "compare"} /\ n > 0 =>
       /\ FlattenSeq(Shards) = split.train
       /\ \A v, w \in 1..n : Len(Shards[v]) <= Len(Shards[w]) + 1

(* "Parameters are additive": the model the coordinator evaluates is the   *)
(* one centralized training makes of the same messages, however they are   *)
(* partitioned, in whatever order the updates arrive, and although a       *)
(* message does not carry the size of the vocabulary.                      *)
FederatedIsCentral ==
  model # None /\ n > 0 => model = Aggregate(<<CountLocal(split.train)>>)

(* For each class, the smoothed word probabilities add up to one, and so   *)
(* do the priors: the two counts an update carries, per word and per       *)
(* class, are of the same words, in every shard and in their sum.          *)
Distributions ==
  model # None =>
    LET priors == model.classPriors IN
    /\ \A class \in DOMAIN model.wordProbs :
         LET probs == model.wordProbs[class] IN
         /\ SumFunction([word \in DOMAIN probs |-> probs[word][1]]) = priors[class][1] + model.vocabSize
         /\ \A word \in DOMAIN probs : probs[word][2] = priors[class][1] + model.vocabSize
    /\ DOMAIN priors # {} =>
         \A class \in DOMAIN priors :
           SumFunction([c \in DOMAIN priors |-> priors[c][1]]) = priors[class][2]

(* The federated metrics are the baseline's, and the verdict is PASS if    *)
(* any message is classified correctly, unless the test set has a message  *)
(* with equally likely classes: Predict decides those by the order of a    *)
(* map, for the same model differently each time.                          *)
SameVerdictUnlessTied ==
  (/\ stage = "compare" /\ n > 0
   /\ \A i \in DOMAIN split.test : Cardinality(Predict(model, split.test[i].words)) = 1)
  => /\ metrics = baseline
     /\ Accuracy(baseline)[1] > 0 => Pass(metrics, baseline)

TypeOK ==
  /\ file \in Files
  /\ n \in Workers
  /\ stage \in Stages
  /\ split # None => Len(split.train) + Len(split.test) = Len(rows)
  /\ Len(disk) <= n
  /\ Len(received) <= n
=============================================================================
