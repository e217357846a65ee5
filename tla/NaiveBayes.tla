------------------------------ MODULE NaiveBayes ------------------------------
(***************************************************************************)
(* internal/nb: counting, aggregation, prediction, evaluation. The maps of *)
(* the code are functions whose domains are the keys present; a            *)
(* probability is a fraction <<numerator, denominator>>. Predict compares  *)
(* sums of logarithms, here products of these fractions; of classes with   *)
(* the same score it returns any, as the order of a map is random.         *)
(***************************************************************************)
EXTENDS Naturals, Sequences, FiniteSets, Functions

Spam == "spam"
Ham == "ham"

At(f, x) == IF x \in DOMAIN f THEN f[x] ELSE 0     \* a map without the key

\* Rows of a label that have a word, and the positions of their words.
Labelled(rows, label) == {i \in DOMAIN rows : rows[i].label = label}
Occurrences(rows, label) ==
  UNION {{<<i, j>> : j \in DOMAIN rows[i].words} : i \in Labelled(rows, label)}
Labels(rows) == {rows[i].label : i \in DOMAIN rows}

-----------------------------------------------------------------------------
(* Plausible bugs, used by no specification: totals that count rows, and   *)
(* the vocabulary of the last update.                                      *)
TotalRows(rows) ==
  [label \in {l \in Labels(rows) : Occurrences(rows, l) # {}} |-> Cardinality(Labelled(rows, label))]

VocabularyOfLast(updates) ==
  IF updates = <<>> THEN {}
  ELSE LET u == updates[Len(updates)].wordCounts
       IN  UNION {DOMAIN u[class] : class \in DOMAIN u}

-----------------------------------------------------------------------------
WordCounts(rows) ==
  [label \in Labels(rows) |->
     LET places == Occurrences(rows, label)
     IN  [word \in {rows[p[1]].words[p[2]] : p \in places} |->
            Cardinality({p \in places : rows[p[1]].words[p[2]] = word})]]

\* A class has a total only once one of its words was counted.
ClassTotals(rows) ==
  [label \in {l \in Labels(rows) : Occurrences(rows, l) # {}} |-> Cardinality(Occurrences(rows, label))]

CountLocal(rows) == [wordCounts |-> WordCounts(rows), classTotals |-> ClassTotals(rows)]

Vocabulary(updates) ==
  UNION {UNION {DOMAIN updates[i].wordCounts[class] : class \in DOMAIN updates[i].wordCounts} :
           i \in DOMAIN updates}

TotalClasses(updates) == UNION {DOMAIN updates[i].classTotals : i \in DOMAIN updates}

CombinedTotal(updates, class) ==
  SumFunction([i \in DOMAIN updates |-> At(updates[i].classTotals, class)])

CombinedCount(updates, class, word) ==
  SumFunction([i \in {i \in DOMAIN updates : class \in DOMAIN updates[i].wordCounts} |->
                 At(updates[i].wordCounts[class], word)])

Aggregate(updates) ==
  LET vocab   == Vocabulary(updates)
      totals  == [class \in TotalClasses(updates) |-> CombinedTotal(updates, class)]
  IN  [wordProbs   |-> [class \in DOMAIN totals |->
                          [word \in vocab |-> <<CombinedCount(updates, class, word) + 1,
                                               totals[class] + Cardinality(vocab)>>]],
       classPriors |-> [class \in DOMAIN totals |-> <<totals[class], SumFunction(totals)>>],
       vocabSize   |-> Cardinality(vocab)]

\* exp of score: the prior times the probabilities of the known words of a text.
Score(model, class, words) ==
  LET probs == model.wordProbs[class]
      part(k, i) == IF words[i] \in DOMAIN probs THEN probs[words[i]][k] ELSE 1
      product[k \in 1..2, i \in 0..Len(words)] ==
        IF i = 0 THEN model.classPriors[class][k] ELSE product[k, i - 1] * part(k, i)
  IN  <<product[1, Len(words)], product[2, Len(words)]>>

AtLeast(f, g) == f[1] * g[2] >= g[1] * f[2]

\* The classes Predict may return; "" when the model has none.
Predict(model, words) ==
  LET classes == {class \in DOMAIN model.classPriors : model.classPriors[class][1] > 0}
  IN  IF classes = {} THEN {""}
      ELSE {c \in classes : \A d \in classes :
              AtLeast(Score(model, c, words), Score(model, d, words))}

\* What Evaluate may count, one outcome for every way to break the ties.
Evaluate(model, test) ==
  LET may == [i \in DOMAIN test |-> Predict(model, test[i].words)]
      actual == Labelled(test, Spam)
      outcomes == {S \in SUBSET DOMAIN test : \A i \in DOMAIN test :
                     IF i \in S THEN Spam \in may[i] ELSE may[i] # {Spam}}
  IN  {[tp |-> Cardinality(actual \cap pred), fp |-> Cardinality(pred \ actual),
        fn |-> Cardinality(actual \ pred), tn |-> Cardinality(DOMAIN test \ (actual \cup pred))] :
       pred \in outcomes}

Accuracy(m) ==
  LET total == m.tp + m.fp + m.tn + m.fn
  IN  IF total = 0 THEN <<0, 1>> ELSE <<m.tp + m.tn, total>>
=============================================================================
