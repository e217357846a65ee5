------------------------------- MODULE Dataset -------------------------------
(***************************************************************************)
(* internal/dataset. A row is a label and the words of its text (Tokenize  *)
(* is applied); a file is a sequence of lines, or NoFile; the error of     *)
(* Load is Failed. A text ends where its line ends, so that a row is never *)
(* more than one line.                                                     *)
(***************************************************************************)
EXTENDS Naturals, SequencesExt

CONSTANTS NoFile, Failed,
          Class, Word   \* the labels and the words that rows may have

Record == [label : Class, words : Seq(Word)]
Line == [kind : {"row"}, row : Record] \cup [kind : {"blank", "malformed"}]

ASSUME DatasetAssumption == NoFile \notin Seq(Line) /\ Failed \notin Seq(Record)

Row(label, words) == [label |-> label, words |-> words]
RowLine(row) == [kind |-> "row", row |-> row]
Blank == [kind |-> "blank"]
Malformed == [kind |-> "malformed"]   \* no tab in it

(* Plausible bugs, used by no specification: rows beyond n equal shards    *)
(* are dropped, and a split that loses the row at its boundary.            *)
PartitionEqually(rows, n) ==
  [i \in 1..n |-> SubSeq(rows, (i - 1) * (Len(rows) \div n) + 1, i * (Len(rows) \div n))]

SplitWithGap(rows, order, num, den) ==
  LET shuffled == [i \in DOMAIN rows |-> rows[order[i]]]
      splitAt  == (Len(rows) * num) \div den
  IN  [train |-> SubSeq(shuffled, 1, splitAt), test |-> SubSeq(shuffled, splitAt + 2, Len(rows))]

Load(file) ==
  IF file = NoFile \/ \E i \in DOMAIN file : file[i] = Malformed
  THEN Failed
  ELSE FlattenSeq([i \in DOMAIN file |-> IF file[i] = Blank THEN <<>> ELSE <<file[i].row>>])

Save(rows) == [i \in DOMAIN rows |-> RowLine(rows[i])]

\* order is the permutation rng.Shuffle makes of the seed, num / den trainRatio.
SplitTrainTest(rows, order, num, den) ==
  LET shuffled == [i \in DOMAIN rows |-> rows[order[i]]]
      splitAt  == (Len(rows) * num) \div den
  IN  [train |-> SubSeq(shuffled, 1, splitAt), test |-> SubSeq(shuffled, splitAt + 1, Len(rows))]

Partition(rows, n) ==
  LET size(i)  == Len(rows) \div n + (IF i <= Len(rows) % n THEN 1 ELSE 0)
      start[i \in 1..n] == IF i = 1 THEN 0 ELSE start[i - 1] + size(i - 1)
  IN  [i \in 1..n |-> SubSeq(rows, start[i] + 1, start[i] + size(i))]
=============================================================================
