----------------------- MODULE FederatedTrainingProofs -----------------------
(***************************************************************************)
(* Proofs about FederatedTraining, for every data file, every number of    *)
(* workers, every ratio and every order of the updates: no message is lost *)
(* or used twice, the federated model is the centralized one, its          *)
(* probabilities add up to one, and without ties the verdict is that of    *)
(* the baseline.                                                           *)
(*                                                                         *)
(* The recursions of the code - the sums of its loops, the concatenation   *)
(* of the shards, where a shard starts - are compared with closed forms:   *)
(* positions of words and their number. What holds for every length is     *)
(* shown with a least counterexample (Least).                              *)
(***************************************************************************)
EXTENDS FederatedTraining, FunctionTheorems, FiniteSetTheorems, NaturalsInduction,
        SequenceTheorems, TLAPS

-----------------------------------------------------------------------------
(* Induction, for definitions by recursion: a set of naturals that is not  *)
(* empty has a least member.                                               *)

LEMMA Least ==
  ASSUME NEW T, T \subseteq Nat, T # {}
  PROVE  \E x \in T : \A y \in T : ~(y < x)
<1> DEFINE R == {ss \in Nat \X Nat : ss[1] < ss[2]}
<1>1. IsWellFoundedOn(R, Nat)
  BY NatLessThanWellFounded DEF OpToRel
<1> HIDE DEF R
<1>2. \E x \in T : \A y \in T : <<y, x>> \notin R
  BY <1>1, WFMin
<1> QED
  BY <1>2 DEF R

\* What holds at the first place and passes from one to the next holds at all.
LEMMA UpTo ==
  ASSUME NEW last \in Nat, NEW G, 1 \in G \/ last = 0,
         \A i \in 2..last : i - 1 \in G => i \in G
  PROVE  1..last \subseteq G
<1> SUFFICES ASSUME ~(1..last \subseteq G) PROVE FALSE
  OBVIOUS
<1> DEFINE T == {i \in 1..last : i \notin G}
<1>1. PICK i \in T : \A j \in T : ~(j < i)
  <2>1. T \subseteq Nat /\ T # {}
    OBVIOUS
  <2> HIDE DEF T
  <2> QED
    BY <2>1, Least
<1>2. i # 1
  BY <1>1
<1>3. i - 1 \in 1..last /\ i - 1 < i /\ i \in 2..last
  BY <1>1, <1>2
<1>4. i - 1 \in G
  BY <1>1, <1>3
<1> QED
  BY <1>1, <1>3, <1>4

\* The sum of a function is what a function of sets yields that adds one value
\* for each member.
LEMMA SumIs ==
  ASSUME NEW g, NEW h, IsFiniteSet(DOMAIN g), h[{}] = 0,
         \A s \in SUBSET (DOMAIN g) : \A x \in s : h[s] = g[x] + h[s \ {x}]
  PROVE  SumFunction(g) = h[DOMAIN g]
<1> DEFINE D == DOMAIN g
           Eq(f) == f = [s \in SUBSET D |-> IF s = {} THEN 0
                            ELSE g[CHOOSE x \in s : TRUE] + f[s \ {CHOOSE x \in s : TRUE}]]
           k == [s \in SUBSET D |-> h[s]]
           iter == CHOOSE f : Eq(f)
<1>1. SumFunction(g) = iter[D]
  BY DEF SumFunction, SumFunctionOnSet, FoldFunctionOnSet, MapThenFoldSet
<1>2. Eq(k)
  <2>1. ASSUME NEW s \in SUBSET D, s # {}
        PROVE  h[s] = g[CHOOSE x \in s : TRUE] + k[s \ {CHOOSE x \in s : TRUE}]
    BY <2>1
  <2> QED
    BY <2>1
<1>3. Eq(iter)
  BY <1>2
<1> HIDE DEF iter
<1>4. ASSUME NEW s \in SUBSET D
      PROVE  iter[s] = IF s = {} THEN 0 ELSE g[CHOOSE x \in s : TRUE] + iter[s \ {CHOOSE x \in s : TRUE}]
  BY <1>3
<1> DEFINE Wrong == {s \in SUBSET D : iter[s] # h[s]}
           T == {Cardinality(s) : s \in Wrong}
<1>5. \A s \in Wrong : IsFiniteSet(s) /\ Cardinality(s) \in Nat
  BY FS_Subset, FS_CardinalityType
<1>6. Wrong = {}
  <2> SUFFICES ASSUME Wrong # {} PROVE FALSE
    OBVIOUS
  <2>1. PICK c \in T : \A d \in T : ~(d < c)
    <3>1. T \subseteq Nat /\ T # {}
      BY <1>5
    <3> HIDE DEF T
    <3> QED
      BY <3>1, Least
  <2>2. PICK s \in Wrong : c = Cardinality(s)
    BY <2>1
  <2>3. s # {}
    BY <1>4, <2>2
  <2> DEFINE x == CHOOSE x \in s : TRUE
  <2>4. x \in s
    BY <2>3
  <2>5. iter[s] = g[x] + iter[s \ {x}] /\ h[s] = g[x] + h[s \ {x}]
    BY <1>4, <2>2, <2>3, <2>4
  <2>6. s \ {x} \in Wrong
    BY <2>2, <2>5
  <2>7. Cardinality(s \ {x}) = Cardinality(s) - 1 /\ Cardinality(s) \in Nat
    BY <1>5, <2>2, <2>4, FS_RemoveElement
  <2>8. Cardinality(s \ {x}) \in T
    BY <2>6
  <2>9. ~(Cardinality(s \ {x}) < c)
    BY <2>1, <2>8
  <2> QED
    BY <2>2, <2>7, <2>9
<1>7. iter[D] = h[D]
  BY <1>6
<1> QED
  BY <1>1, <1>7

\* The values of a function on a finite set are finitely many.
LEMMA ImageFinite ==
  ASSUME NEW S, IsFiniteSet(S), NEW f
  PROVE  IsFiniteSet({f[x] : x \in S})
<1> DEFINE T == {f[x] : x \in S}
           g == [x \in S |-> f[x]]
<1>1. g \in [S -> T] /\ \A y \in T : \E x \in S : g[x] = y
  OBVIOUS
<1> HIDE DEF g, T
<1>2. g \in Surjection(S, T)
  BY <1>1, Fun_IsSurj
<1>3. IsFiniteSet(T)
  BY <1>2, FS_Surjection
<1> QED
  BY <1>3 DEF T

\* The sizes of disjoint sets add up to the size of their union.
LEMMA SumOfParts ==
  ASSUME NEW D, IsFiniteSet(D), NEW g, DOMAIN g = D, NEW part,
         \A x \in D : IsFiniteSet(part[x]) /\ g[x] = Cardinality(part[x]),
         \A x, y \in D : x # y => part[x] \cap part[y] = {}
  PROVE  SumFunction(g) = Cardinality(UNION {part[x] : x \in D})
<1> DEFINE Of(s) == UNION {part[x] : x \in s}
           h == [s \in SUBSET D |-> Cardinality(Of(s))]
<1>1. h[{}] = 0
  BY FS_EmptySet
<1>2. ASSUME NEW s \in SUBSET D PROVE IsFiniteSet(Of(s))
  <2>1. IsFiniteSet({part[x] : x \in s})
    <3>1. IsFiniteSet(s)
      BY FS_Subset
    <3> QED
      BY <3>1, ImageFinite
  <2> QED
    BY <2>1, FS_UNION
<1>3. ASSUME NEW s \in SUBSET D, NEW x \in s PROVE h[s] = g[x] + h[s \ {x}]
  <2>1. Of(s) = part[x] \cup Of(s \ {x}) /\ part[x] \cap Of(s \ {x}) = {}
    OBVIOUS
  <2>2. IsFiniteSet(part[x]) /\ IsFiniteSet(Of(s \ {x}))
    BY <1>2
  <2> HIDE DEF Of
  <2>3. Cardinality(Of(s)) = Cardinality(part[x]) + Cardinality(Of(s \ {x}))
    <3>1. Cardinality(part[x] \cup Of(s \ {x}))
            = Cardinality(part[x]) + Cardinality(Of(s \ {x})) - Cardinality(part[x] \cap Of(s \ {x}))
      BY <2>2, FS_Union
    <3>2. Cardinality(part[x] \cap Of(s \ {x})) = 0
      BY <2>1, FS_EmptySet
    <3>3. Cardinality(part[x]) \in Nat /\ Cardinality(Of(s \ {x})) \in Nat
      BY <2>2, FS_CardinalityType
    <3> QED
      BY <2>1, <3>1, <3>2, <3>3
  <2> QED
    BY <2>3
<1> HIDE DEF h
<1>4. SumFunction(g) = h[D]
  BY <1>1, <1>3, SumIs
<1> QED
  BY <1>4 DEF h

-----------------------------------------------------------------------------
(* FlattenSeq.                                                             *)

\* The recursion of FlattenSeq, from one sequence to the next.
LEMMA FlattenUnfold ==
  ASSUME NEW s, NEW last \in Nat \ {0}, last = Len(s)
  PROVE  \E f : /\ FlattenSeq(s) = f[last] /\ f[1] = s[1]
                /\ \A i \in 2..last : f[i] = f[i - 1] \o s[i]
<1> DEFINE Def(f, k) == [i \in 1..k |-> IF i = 1 THEN s[i] ELSE f[i - 1] \o s[i]]
           flatten == CHOOSE f : f = Def(f, last)
           G == {k \in 1..last : \E f : f = Def(f, k)}
<1>1. FlattenSeq(s) = flatten[last]
  <2>1. Len(s) # 0
    OBVIOUS
  <2> QED
    BY <2>1 DEF FlattenSeq
<1>2. 1 \in G
  <2> DEFINE f == [i \in 1..1 |-> s[1]]
  <2>1. f = Def(f, 1)
    <3>1. \A i \in 1..1 : i = 1
      OBVIOUS
    <3>2. Def(f, 1) = [i \in 1..1 |-> s[1]]
      BY <3>1, Zenon
    <3> QED
      BY <3>2
  <2> HIDE DEF f, Def
  <2>2. 1 \in 1..last
    OBVIOUS
  <2> QED
    BY <2>1, <2>2
<1>3. ASSUME NEW k \in 2..last, k - 1 \in G PROVE k \in G
  <2>1. PICK f : f = Def(f, k - 1)
    BY <1>3
  <2> DEFINE g == [i \in 1..k |-> IF i = k THEN f[k - 1] \o s[k] ELSE f[i]]
  <2>2. g = Def(g, k)
    <3>1. ASSUME NEW i \in 1..k PROVE g[i] = IF i = 1 THEN s[i] ELSE g[i - 1] \o s[i]
      <4>1. CASE i = k
        <5>1. i # 1 /\ i - 1 \in 1..k /\ i - 1 # k
          BY <4>1
        <5>2. g[i - 1] = f[i - 1]
          BY <5>1, Zenon
        <5>3. g[i] = f[i - 1] \o s[i]
          BY <4>1, Zenon
        <5> QED
          BY <5>1, <5>2, <5>3, Zenon
      <4>2. CASE i # k
        <5>1. i \in 1..(k - 1)
          BY <4>2
        <5>2. g[i] = f[i]
          BY <4>2, Zenon
        <5>3. f[i] = IF i = 1 THEN s[i] ELSE f[i - 1] \o s[i]
          BY <2>1, <5>1, Zenon
        <5>4. i # 1 => i - 1 \in 1..k /\ i - 1 # k
          BY <5>1
        <5>5. i # 1 => g[i - 1] = f[i - 1]
          BY <5>4, Zenon
        <5> QED
          BY <5>2, <5>3, <5>5, Zenon
      <4> QED
        BY <4>1, <4>2
    <3>2. g = [i \in 1..k |-> g[i]]
      BY Zenon
    <3> HIDE DEF g
    <3>3. Def(g, k) = [i \in 1..k |-> g[i]]
      BY <3>1, Zenon
    <3> QED
      BY <3>2, <3>3
  <2> HIDE DEF g, Def
  <2>3. k \in 1..last
    OBVIOUS
  <2> QED
    BY <2>2, <2>3
<1>4. last \in G
  <2> HIDE DEF G
  <2>1. last \in 1..last
    OBVIOUS
  <2> QED
    BY <1>2, <1>3, <2>1, UpTo
<1>5. flatten = Def(flatten, last)
  <2>1. \E f : f = Def(f, last)
    BY <1>4
  <2> HIDE DEF Def
  <2> QED
    BY <2>1
<1> HIDE DEF flatten
<1>6. \A i \in 1..last : flatten[i] = IF i = 1 THEN s[i] ELSE flatten[i - 1] \o s[i]
  BY <1>5, Zenon
<1>7. flatten[1] = s[1]
  <2>1. 1 \in 1..last
    OBVIOUS
  <2> QED
    BY <1>6, <2>1, Zenon
<1>8. ASSUME NEW i \in 2..last PROVE flatten[i] = flatten[i - 1] \o s[i]
  <2>1. i \in 1..last /\ i # 1
    OBVIOUS
  <2> QED
    BY <1>6, <2>1, Zenon
<1> QED
  BY <1>1, <1>7, <1>8, Zenon

\* What is built in the same way is the same.
LEMMA FlattenIs ==
  ASSUME NEW s, Len(s) \in Nat \ {0}, NEW h, h[1] = s[1],
         \A i \in 2..Len(s) : h[i] = h[i - 1] \o s[i]
  PROVE  FlattenSeq(s) = h[Len(s)]
<1>0. PICK last \in Nat \ {0} : last = Len(s)
  OBVIOUS
<1>a. \A i \in 2..last : h[i] = h[i - 1] \o s[i]
  BY <1>0
<1>1. PICK f : /\ FlattenSeq(s) = f[last] /\ f[1] = s[1]
               /\ \A i \in 2..last : f[i] = f[i - 1] \o s[i]
  BY <1>0, FlattenUnfold
<1> DEFINE G == {i \in 1..last : f[i] = h[i]}
<1>2. 1 \in G
  BY <1>1
<1>3. ASSUME NEW i \in 2..last, i - 1 \in G PROVE i \in G
  <2>1. i \in 1..last
    OBVIOUS
  <2>2. f[i] = f[i - 1] \o s[i] /\ h[i] = h[i - 1] \o s[i]
    BY <1>1, <1>a, Zenon
  <2>3. f[i - 1] = h[i - 1]
    BY <1>3, Zenon
  <2> QED
    BY <2>1, <2>2, <2>3, Zenon
<1> HIDE DEF G
<1>4. 1..last \subseteq G
  BY <1>2, <1>3, UpTo
<1> QED
  BY <1>0, <1>1, <1>4 DEF G

\* A concatenation of sequences of T is one.
LEMMA FlattenType ==
  ASSUME NEW T, NEW s \in Seq(Seq(T))
  PROVE  FlattenSeq(s) \in Seq(T)
<1>1. CASE Len(s) = 0
  <2>1. s = <<>>
    BY <1>1
  <2> QED
    BY <1>1, <2>1 DEF FlattenSeq
<1>2. CASE Len(s) # 0
  <2>1. PICK last \in Nat \ {0} : last = Len(s)
    BY <1>2
  <2>2. PICK f : /\ FlattenSeq(s) = f[last] /\ f[1] = s[1]
                 /\ \A i \in 2..last : f[i] = f[i - 1] \o s[i]
    BY <2>1, FlattenUnfold
  <2> DEFINE G == {i \in 1..last : f[i] \in Seq(T)}
  <2>3. \A i \in 1..last : s[i] \in Seq(T)
    BY <2>1
  <2>4. 1 \in G
    BY <2>2, <2>3
  <2>5. ASSUME NEW i \in 2..last, i - 1 \in G PROVE i \in G
    <3>1. i \in 1..last
      OBVIOUS
    <3>2. f[i - 1] \in Seq(T) /\ s[i] \in Seq(T)
      BY <2>3, <2>5, <3>1, Zenon
    <3>3. f[i] = f[i - 1] \o s[i]
      BY <2>2, Zenon
    <3>4. f[i] \in Seq(T)
      BY <3>2, <3>3
    <3> QED
      BY <3>1, <3>4, Zenon
  <2> HIDE DEF G
  <2>6. 1..last \subseteq G
    BY <2>4, <2>5, UpTo
  <2> QED
    BY <2>2, <2>6 DEF G
<1> QED
  BY <1>1, <1>2

-----------------------------------------------------------------------------
(* internal/dataset.                                                       *)

\* The kinds of lines differ, and only a row has a record.
LEMMA LineFacts ==
  /\ Blank \in Line /\ Malformed \in Line /\ Blank # Malformed
  /\ \A r \in Record : RowLine(r) \in Line /\ RowLine(r) # Blank /\ RowLine(r) # Malformed /\ RowLine(r).row = r
  /\ \A l \in Line \ {Blank, Malformed} : l.row \in Record
<1>1. Blank \in Line /\ Malformed \in Line /\ Blank # Malformed
  BY DEF Blank, Malformed, Line
<1>2. \A r : RowLine(r).kind = "row" /\ RowLine(r).row = r
  BY DEF RowLine
<1>3. \A r \in Record : RowLine(r) \in Line
  BY DEF RowLine, Line
<1>4. Blank.kind = "blank" /\ Malformed.kind = "malformed"
  BY DEF Blank, Malformed
<1>5. ASSUME NEW l \in Line, l \notin {Blank, Malformed} PROVE l.row \in Record
  <2>1. CASE l \in [kind : {"row"}, row : Record]
    BY <2>1
  <2>2. CASE l \in [kind : {"blank", "malformed"}]
    <3>1. l = [kind |-> "blank"] \/ l = [kind |-> "malformed"]
      BY <2>2
    <3> QED
      BY <1>5, <3>1 DEF Blank, Malformed
  <2> QED
    BY <2>1, <2>2 DEF Line
<1> QED
  BY <1>1, <1>2, <1>3, <1>4, <1>5

\* A lines that can be loaded gives records.
LEMMA LoadType ==
  ASSUME NEW lines \in {NoFile} \cup Seq(Line), Load(lines) # Failed
  PROVE  Load(lines) \in Seq(Record)
<1>1. lines # NoFile /\ ~\E i \in DOMAIN lines : lines[i] = Malformed
  BY DEF Load
<1>2. lines \in Seq(Line) /\ DOMAIN lines = 1..Len(lines) /\ Len(lines) \in Nat
  BY <1>1
<1> DEFINE parts == [i \in DOMAIN lines |-> IF lines[i] = Blank THEN <<>> ELSE <<lines[i].row>>]
<1>3. ASSUME NEW i \in 1..Len(lines) PROVE parts[i] \in Seq(Record)
  <2>1. lines[i] \in Line /\ lines[i] # Malformed
    BY <1>1, <1>2
  <2>2. CASE lines[i] = Blank
    BY <1>2, <2>2
  <2>3. CASE lines[i] # Blank
    <3>1. lines[i].row \in Record
      BY <2>1, <2>3, LineFacts
    <3>2. <<lines[i].row>> \in Seq(Record)
      BY <3>1
    <3> QED
      BY <1>2, <2>3, <3>2
  <2> QED
    BY <2>2, <2>3
<1>4. parts \in Seq(Seq(Record))
  <2>1. parts \in [1..Len(lines) -> Seq(Record)]
    BY <1>2, <1>3
  <2> HIDE DEF parts
  <2> QED
    BY <1>2, <2>1
<1> HIDE DEF parts
<1>5. FlattenSeq(parts) \in Seq(Record)
  BY <1>4, FlattenType
<1> QED
  BY <1>1, <1>5 DEF Load, parts

\* What Save writes, Load reads.
LEMMA LoadSave ==
  ASSUME NEW rs \in Seq(Record)
  PROVE  Load(Save(rs)) = rs
<1>1. /\ DOMAIN rs = 1..Len(rs) /\ Len(rs) \in Nat /\ \A i \in 1..Len(rs) : rs[i] \in Record
      /\ rs = [i \in 1..Len(rs) |-> rs[i]]
  OBVIOUS
<1> DEFINE lines == Save(rs)
           parts == [i \in DOMAIN lines |-> IF lines[i] = Blank THEN <<>> ELSE <<lines[i].row>>]
<1>2. DOMAIN lines = 1..Len(rs) /\ \A i \in 1..Len(rs) : lines[i] = RowLine(rs[i])
  BY <1>1 DEF Save
<1>3. \A i \in 1..Len(rs) : lines[i] \in Line /\ lines[i] # Malformed /\ lines[i] # Blank /\ lines[i].row = rs[i]
  BY <1>1, <1>2, LineFacts
<1>4. lines \in Seq(Line)
  <2>1. lines = [i \in 1..Len(rs) |-> RowLine(rs[i])]
    BY <1>1 DEF Save
  <2>2. lines \in [1..Len(rs) -> Line]
    BY <1>1, <2>1, LineFacts
  <2> HIDE DEF lines
  <2> QED
    BY <1>1, <2>2
<1>5. lines # NoFile
  BY <1>4, DatasetAssumption DEF DatasetAssumption
<1>6. Load(lines) = FlattenSeq(parts)
  BY <1>2, <1>3, <1>5 DEF Load
<1>7. parts = [i \in 1..Len(rs) |-> <<rs[i]>>]
  BY <1>2, <1>3
<1> HIDE DEF lines, parts
<1>8. DOMAIN parts = 1..Len(rs) /\ Len(parts) = Len(rs) /\ \A i \in 1..Len(rs) : parts[i] = <<rs[i]>>
  BY <1>1, <1>7
<1>9. CASE Len(rs) = 0
  <2>1. parts = <<>> /\ rs = <<>>
    BY <1>1, <1>7, <1>9
  <2> QED
    BY <1>6, <2>1 DEF FlattenSeq, lines
<1>10. CASE Len(rs) # 0
  <2> DEFINE h == [i \in 1..Len(rs) |-> SubSeq(rs, 1, i)]
  <2>0. PICK k \in Nat \ {0} : k = Len(rs) /\ k = Len(parts)
    BY <1>1, <1>8, <1>10
  <2>1. h[1] = parts[1]
    <3>1. 1 \in 1..Len(rs)
      BY <1>1, <1>10
    <3>2. SubSeq(rs, 1, 1) = <<rs[1]>>
      <4>1. SubSeq(rs, 1, 1) = <<rs[1]>> \o SubSeq(rs, 2, 1)
        BY <1>1, <3>1, SubSeqRecursiveFirst
      <4>2. SubSeq(rs, 2, 1) = <<>> /\ <<rs[1]>> \in Seq(Record)
        BY <1>1, <3>1, SubSeqEmpty
      <4> QED
        BY <4>1, <4>2, ConcatEmptySeq
    <3>3. h[1] = SubSeq(rs, 1, 1) /\ parts[1] = <<rs[1]>>
      BY <1>8, <3>1, Zenon
    <3> QED
      BY <3>2, <3>3
  <2>2. ASSUME NEW i \in 2..k PROVE h[i] = h[i - 1] \o parts[i]
    <3>0. i \in 1..Len(rs) /\ i - 1 \in 1..Len(rs)
      BY <2>0
    <3>1. SubSeq(rs, 1, i) = SubSeq(rs, 1, i - 1) \o <<rs[i]>>
      <4>1. 1 \in 1..Len(rs) /\ i \in 1..Len(rs)
        BY <1>1, <3>0
      <4> QED
        BY <4>1, SubSeqRecursiveSecond
    <3>2. h[i] = SubSeq(rs, 1, i) /\ h[i - 1] = SubSeq(rs, 1, i - 1)
      BY <3>0, Zenon
    <3>3. parts[i] = <<rs[i]>>
      BY <1>8, <3>0, Zenon
    <3> QED
      BY <3>1, <3>2, <3>3, Zenon
  <2>3. h[k] = rs
    <3>1. k \in 1..Len(rs)
      BY <2>0
    <3>2. h[k] = SubSeq(rs, 1, Len(rs))
      BY <2>0, <3>1, Zenon
    <3> QED
      BY <3>2, SubSeqFull
  <2> HIDE DEF h
  <2>4. \A i \in 2..k : h[i] = h[i - 1] \o parts[i]
    BY <2>2, Zenon
  <2>5. FlattenSeq(parts) = h[k]
    <3>1. k = Len(parts) /\ Len(parts) \in Nat \ {0}
      BY <2>0
    <3>2. \A i \in 2..Len(parts) : h[i] = h[i - 1] \o parts[i]
      BY <2>4, <3>1, Zenon
    <3>3. FlattenSeq(parts) = h[Len(parts)]
      BY <2>1, <3>1, <3>2, FlattenIs, Zenon
    <3> QED
      BY <3>1, <3>3, Zenon
  <2> QED
    BY <1>6, <2>3, <2>5 DEF lines
<1> QED
  BY <1>9, <1>10

-----------------------------------------------------------------------------
(* Partition: the first and the number of the messages of a shard.         *)

Size(l, ws, i)  == (l \div ws) + (IF i <= l % ws THEN 1 ELSE 0)
Start(l, ws, i) == (i - 1) * (l \div ws) + (IF i - 1 <= l % ws THEN i - 1 ELSE l % ws)

\* Division with remainder, as Go does it for numbers that are not negative.
LEMMA DivMod ==
  ASSUME NEW l \in Nat, NEW k \in Nat \ {0}
  PROVE  l \div k \in Nat /\ l % k \in 0..(k - 1) /\ l = (k * (l \div k)) + (l % k)
<1>1. l % k \in 0..(k - 1)
  OBVIOUS
<1>2. l = (k * (l \div k)) + (l % k)
  OBVIOUS
<1>3. l \div k \in Nat
  OBVIOUS
<1> QED
  BY <1>1, <1>2, <1>3

\* Multiplication, as the solvers need it.
LEMMA Times ==
  ASSUME NEW i \in Nat, NEW k \in Nat, NEW q \in Nat
  PROVE  /\ i * q \in Nat /\ (i + 1) * q = i * q + q /\ 0 * q = 0
         /\ i <= k => i * q <= k * q
  OBVIOUS

\* The shards follow each other, begin with the first message and end with the
\* last, and no shard is two messages larger than another.
LEMMA Shares ==
  ASSUME NEW l \in Nat, NEW ws \in Nat \ {0}
  PROVE  /\ \A i \in 1..ws : Size(l, ws, i) \in Nat /\ Start(l, ws, i) \in Nat
                           /\ Start(l, ws, i) + Size(l, ws, i) <= l
         /\ Start(l, ws, 1) = 0
         /\ \A i \in 2..ws : Start(l, ws, i) = Start(l, ws, i - 1) + Size(l, ws, i - 1)
         /\ Start(l, ws, ws) + Size(l, ws, ws) = l
         /\ \A i, j \in 1..ws : Size(l, ws, i) <= Size(l, ws, j) + 1
         /\ \A i, j \in 1..ws : i < j => Start(l, ws, i) + Size(l, ws, i) <= Start(l, ws, j)
<1> DEFINE q == l \div ws
           r == l % ws
<1>1. q \in Nat /\ r \in 0..(ws - 1) /\ l = ws * q + r
  BY DivMod
<1>2. \A i : Size(l, ws, i) = q + (IF i <= r THEN 1 ELSE 0)
  BY DEF Size
<1>3. \A i : Start(l, ws, i) = (i - 1) * q + (IF i - 1 <= r THEN i - 1 ELSE r)
  BY DEF Start
<1> HIDE DEF q, r
<1>4. ASSUME NEW i \in 1..ws
      PROVE  /\ (i - 1) * q \in Nat /\ i * q \in Nat /\ i * q = (i - 1) * q + q
             /\ i * q <= ws * q /\ ws * q \in Nat
  <2>1. i - 1 \in Nat /\ i \in Nat /\ (i - 1) + 1 = i /\ i <= ws
    OBVIOUS
  <2> QED
    BY <1>1, <2>1, Times
<1>5. ASSUME NEW i \in 1..ws
      PROVE  /\ Size(l, ws, i) \in Nat /\ Start(l, ws, i) \in Nat
             /\ Start(l, ws, i) + Size(l, ws, i) = i * q + (IF i <= r THEN i ELSE r)
  <2> DEFINE a == (i - 1) * q
             b == i * q
  <2>1. a \in Nat /\ b = a + q
    BY <1>4
  <2>2. Start(l, ws, i) = a + (IF i - 1 <= r THEN i - 1 ELSE r)
    BY <1>3
  <2> HIDE DEF a
  <2> SUFFICES /\ Size(l, ws, i) \in Nat /\ Start(l, ws, i) \in Nat
               /\ Start(l, ws, i) + Size(l, ws, i) = b + (IF i <= r THEN i ELSE r)
    OBVIOUS
  <2> HIDE DEF b
  <2> QED
    BY <1>1, <1>2, <2>1, <2>2
<1>6. \A i \in 1..ws : Start(l, ws, i) + Size(l, ws, i) <= l
  <2> TAKE i \in 1..ws
  <2> DEFINE b == i * q
             c == ws * q
  <2>1. b \in Nat /\ c \in Nat /\ b <= c /\ l = c + r
    BY <1>1, <1>4
  <2>2. Start(l, ws, i) + Size(l, ws, i) = b + (IF i <= r THEN i ELSE r)
    BY <1>5
  <2> HIDE DEF b, c
  <2> QED
    BY <1>1, <2>1, <2>2
<1>7. Start(l, ws, 1) = 0
  <2>1. 1 \in 1..ws /\ 1 - 1 = 0
    OBVIOUS
  <2>2. (1 - 1) * q = 0
    BY <1>1, <2>1, Times
  <2> DEFINE a == (1 - 1) * q
  <2>3. Start(l, ws, 1) = a + (IF 1 - 1 <= r THEN 1 - 1 ELSE r) /\ a = 0
    BY <1>3, <2>2
  <2> HIDE DEF a
  <2> QED
    BY <1>1, <2>3
<1>8. ASSUME NEW i \in 2..ws PROVE Start(l, ws, i) = Start(l, ws, i - 1) + Size(l, ws, i - 1)
  <2>1. i - 1 \in 1..ws /\ i \in 1..ws
    OBVIOUS
  <2>2. Start(l, ws, i - 1) + Size(l, ws, i - 1) = (i - 1) * q + (IF i - 1 <= r THEN i - 1 ELSE r)
    BY <1>5, <2>1
  <2> QED
    BY <1>3, <2>2
<1>9. Start(l, ws, ws) + Size(l, ws, ws) = l
  <2>1. ws \in 1..ws
    OBVIOUS
  <2>2. Start(l, ws, ws) + Size(l, ws, ws) = ws * q + (IF ws <= r THEN ws ELSE r)
    BY <1>5, <2>1
  <2> QED
    BY <1>1, <2>2
<1>10. \A i, j \in 1..ws : Size(l, ws, i) <= Size(l, ws, j) + 1
  BY <1>1, <1>2
<1>11. ASSUME NEW i \in 1..ws, NEW j \in 1..ws, i < j
       PROVE  Start(l, ws, i) + Size(l, ws, i) <= Start(l, ws, j)
  <2> DEFINE b == i * q
             c == (j - 1) * q
  <2>1. b \in Nat /\ c \in Nat /\ b <= c
    <3>1. i \in Nat /\ j - 1 \in Nat /\ i <= j - 1
      BY <1>11
    <3> QED
      BY <1>1, <3>1, Times
  <2>2. Start(l, ws, i) + Size(l, ws, i) = b + (IF i <= r THEN i ELSE r)
    BY <1>5
  <2>3. Start(l, ws, j) = c + (IF j - 1 <= r THEN j - 1 ELSE r)
    BY <1>3
  <2> HIDE DEF b, c
  <2> QED
    BY <1>1, <1>11, <2>1, <2>2, <2>3
<1> QED
  BY <1>5, <1>6, <1>7, <1>8, <1>9, <1>10, <1>11

Shard(T, ws, i) == SubSeq(T, Start(Len(T), ws, i) + 1, Start(Len(T), ws, i) + Size(Len(T), ws, i))

\* Partition's loop, with its running start, in closed form.
LEMMA PartitionIs ==
  ASSUME NEW T, Len(T) \in Nat, NEW ws \in Nat \ {0}
  PROVE  Partition(T, ws) = [i \in 1..ws |-> Shard(T, ws, i)]
<1> DEFINE l == Len(T)
           start == CHOOSE f : f = [i \in 1..ws |-> IF i = 1 THEN 0 ELSE f[i - 1] + Size(l, ws, i - 1)]
           closed == [i \in 1..ws |-> Start(l, ws, i)]
           G == {i \in 1..ws : start[i] = closed[i]}
<1>1. Partition(T, ws) = [i \in 1..ws |-> SubSeq(T, start[i] + 1, start[i] + Size(l, ws, i))]
  BY DEF Partition, Size
<1>2. closed = [i \in 1..ws |-> IF i = 1 THEN 0 ELSE closed[i - 1] + Size(l, ws, i - 1)]
  <2>1. ASSUME NEW i \in 1..ws
        PROVE  Start(l, ws, i) = IF i = 1 THEN 0 ELSE closed[i - 1] + Size(l, ws, i - 1)
    <3>1. CASE i = 1
      BY <3>1, Shares
    <3>2. CASE i # 1
      <4>1. i \in 2..ws /\ i - 1 \in 1..ws
        BY <3>2
      <4>2. closed[i - 1] = Start(l, ws, i - 1)
        BY <4>1, Zenon
      <4>3. Start(l, ws, i) = Start(l, ws, i - 1) + Size(l, ws, i - 1)
        BY <4>1, Shares
      <4> QED
        BY <3>2, <4>2, <4>3, Zenon
    <3> QED
      BY <3>1, <3>2
  <2> QED
    BY <2>1, Zenon
<1>3. start = [i \in 1..ws |-> IF i = 1 THEN 0 ELSE start[i - 1] + Size(l, ws, i - 1)]
  <2> HIDE DEF closed
  <2> QED
    BY <1>2
<1> HIDE DEF start
<1>4. 1 \in G
  <2>1. 1 \in 1..ws
    OBVIOUS
  <2>2. start[1] = 0
    BY <1>3, <2>1, Zenon
  <2>3. closed[1] = 0
    BY <1>2, <2>1, Zenon
  <2> QED
    BY <2>1, <2>2, <2>3, Zenon
<1>5. ASSUME NEW i \in 2..ws, i - 1 \in G PROVE i \in G
  <2>1. i \in 1..ws /\ i # 1
    OBVIOUS
  <2>2. start[i - 1] = closed[i - 1]
    BY <1>5, Zenon
  <2>3. start[i] = start[i - 1] + Size(l, ws, i - 1)
    BY <1>3, <2>1, Zenon
  <2>4. closed[i] = closed[i - 1] + Size(l, ws, i - 1)
    BY <1>2, <2>1, Zenon
  <2> QED
    BY <2>1, <2>2, <2>3, <2>4, Zenon
<1>6. 1..ws \subseteq G
  <2> HIDE DEF G
  <2> QED
    BY <1>4, <1>5, UpTo
<1>7. \A i \in 1..ws : start[i] = Start(l, ws, i)
  BY <1>6
<1> QED
  BY <1>1, <1>7, Zenon DEF Shard

\* A set and its image under an injection have the same size.
LEMMA SameSize ==
  ASSUME NEW S, NEW T, IsFiniteSet(S), NEW f, \A x \in S : f[x] \in T,
         \A x, y \in S : f[x] = f[y] => x = y, \A t \in T : \E x \in S : f[x] = t
  PROVE  IsFiniteSet(T) /\ Cardinality(T) = Cardinality(S)
<1> DEFINE g == [x \in S |-> f[x]]
<1>1. g \in [S -> T]
  OBVIOUS
<1>2. \A x \in S : g[x] = f[x]
  OBVIOUS
<1> HIDE DEF g
<1>3. (\A x, y \in S : g[x] = g[y] => x = y) /\ (\A t \in T : \E x \in S : g[x] = t)
  BY <1>2
<1>4. g \in Bijection(S, T)
  BY <1>1, <1>3, Fun_IsBij
<1>5. ExistsBijection(S, T)
  BY <1>4, Fun_ExistsBij
<1> QED
  BY <1>5, FS_Bijection

\* The z members of T after the first a.
LEMMA SubSeqFacts ==
  ASSUME NEW S, NEW T \in Seq(S), NEW a \in Nat, NEW z \in Nat, a + z <= Len(T)
  PROVE  /\ SubSeq(T, a + 1, a + z) \in Seq(S) /\ Len(SubSeq(T, a + 1, a + z)) = z
         /\ \A k \in 1..z : SubSeq(T, a + 1, a + z)[k] = T[a + k] /\ a + k \in 1..Len(T)
<1>1. Len(T) \in Nat /\ \A k \in 1..Len(T) : T[k] \in S
  OBVIOUS
<1>2. PICK lo \in Int, hi \in Int : lo = a + 1 /\ hi = a + z
  OBVIOUS
<1>3. \A k \in lo..hi : T[k] \in S
  BY <1>1, <1>2
<1>4. /\ SubSeq(T, lo, hi) \in Seq(S)
      /\ Len(SubSeq(T, lo, hi)) = IF lo <= hi THEN hi - lo + 1 ELSE 0
      /\ \A k \in 1..(hi - lo + 1) : SubSeq(T, lo, hi)[k] = T[lo + k - 1]
  BY <1>3, SubSeqProperties
<1>5. hi - lo + 1 = z /\ (IF lo <= hi THEN hi - lo + 1 ELSE 0) = z
  BY <1>2
<1>6. \A k \in 1..z : lo + k - 1 = a + k /\ a + k \in 1..Len(T)
  BY <1>1, <1>2
<1>7. SubSeq(T, lo, hi) \in Seq(S) /\ Len(SubSeq(T, lo, hi)) = z
  BY <1>4, <1>5, Zenon
<1>8. \A k \in 1..z : SubSeq(T, lo, hi)[k] = T[a + k]
  BY <1>4, <1>5, <1>6, Zenon
<1> QED
  BY <1>2, <1>6, <1>7, <1>8, Zenon

\* The messages of a shard are those of the list from its start on.
LEMMA ShardFacts ==
  ASSUME NEW T \in Seq(Record), NEW ws \in Nat \ {0}, NEW i \in 1..ws
  PROVE  /\ Shard(T, ws, i) \in Seq(Record) /\ Len(Shard(T, ws, i)) = Size(Len(T), ws, i)
         /\ \A j \in 1..Size(Len(T), ws, i) : /\ Shard(T, ws, i)[j] = T[Start(Len(T), ws, i) + j]
                                            /\ Start(Len(T), ws, i) + j \in 1..Len(T)
<1> DEFINE a == Start(Len(T), ws, i)
           z == Size(Len(T), ws, i)
<1>1. a \in Nat /\ z \in Nat /\ a + z <= Len(T)
  <2>1. Len(T) \in Nat
    OBVIOUS
  <2> QED
    BY <2>1, Shares
<1>2. Shard(T, ws, i) = SubSeq(T, a + 1, a + z)
  BY DEF Shard
<1> HIDE DEF a, z
<1>3. /\ SubSeq(T, a + 1, a + z) \in Seq(Record) /\ Len(SubSeq(T, a + 1, a + z)) = z
      /\ \A k \in 1..z : SubSeq(T, a + 1, a + z)[k] = T[a + k] /\ a + k \in 1..Len(T)
  BY <1>1, SubSeqFacts
<1> QED
  BY <1>2, <1>3, Zenon DEF a, z

\* The shards, one after the other, are the messages.
LEMMA FlattenPartition ==
  ASSUME NEW T \in Seq(Record), NEW ws \in Nat \ {0}
  PROVE  FlattenSeq(Partition(T, ws)) = T
<1> DEFINE l == Len(T)
           p == Partition(T, ws)
           h == [i \in 1..ws |-> SubSeq(T, 1, Start(l, ws, i) + Size(l, ws, i))]
<1>0. l \in Nat
  OBVIOUS
<1>1. p = [i \in 1..ws |-> Shard(T, ws, i)]
  BY <1>0, PartitionIs
<1>2. Len(p) = ws
  BY <1>1
<1>3. \A i \in 1..ws : p[i] = SubSeq(T, Start(l, ws, i) + 1, Start(l, ws, i) + Size(l, ws, i))
  BY <1>1 DEF Shard
<1>4. 1 \in 1..ws /\ ws \in 1..ws
  OBVIOUS
<1>5. h[1] = p[1]
  <2>1. Start(l, ws, 1) = 0
    BY <1>0, Shares
  <2>2. Start(l, ws, 1) + 1 = 1
    BY <2>1
  <2> QED
    BY <1>3, <1>4, <2>2, Zenon
<1>6. ASSUME NEW i \in 2..ws PROVE h[i] = h[i - 1] \o p[i]
  <2>1. i \in 1..ws /\ i - 1 \in 1..ws
    OBVIOUS
  <2>2. /\ Start(l, ws, i) = Start(l, ws, i - 1) + Size(l, ws, i - 1)
        /\ Start(l, ws, i) \in Nat /\ Size(l, ws, i) \in Nat /\ Start(l, ws, i) + Size(l, ws, i) <= l
    BY <1>0, <2>1, Shares
  <2> DEFINE a == Start(l, ws, i)
             z == Size(l, ws, i)
  <2>3. h[i] = SubSeq(T, 1, a + z) /\ h[i - 1] = SubSeq(T, 1, a) /\ p[i] = SubSeq(T, a + 1, a + z)
    BY <1>3, <2>1, <2>2, Zenon
  <2>4. SubSeq(T, 1, a) \o SubSeq(T, a + 1, a + z) = SubSeq(T, 1, a + z)
    <3>1. 1 \in 1..(Len(T) + 1) /\ a \in (1 - 1)..Len(T) /\ a + z \in a..Len(T)
      BY <1>0, <2>2
    <3> HIDE DEF a, z
    <3> QED
      BY <3>1, ConcatAdjacentSubSeq
  <2> QED
    BY <2>3, <2>4, Zenon
<1>7. h[ws] = T
  <2>1. Start(l, ws, ws) + Size(l, ws, ws) = Len(T)
    BY <1>0, Shares
  <2>2. h[ws] = SubSeq(T, 1, Len(T))
    BY <1>4, <2>1, Zenon
  <2> QED
    BY <2>2, SubSeqFull
<1> HIDE DEF h, p
<1>8. \A i \in 2..ws : h[i] = h[i - 1] \o p[i]
  BY <1>6, Zenon
<1>9. FlattenSeq(p) = h[ws]
  <2>1. ws = Len(p) /\ Len(p) \in Nat \ {0}
    BY <1>2
  <2>2. \A i \in 2..Len(p) : h[i] = h[i - 1] \o p[i]
    BY <1>8, <2>1, Zenon
  <2>3. FlattenSeq(p) = h[Len(p)]
    BY <1>5, <2>1, <2>2, FlattenIs, Zenon
  <2> QED
    BY <2>1, <2>3, Zenon
<1> QED
  BY <1>7, <1>9 DEF p

-----------------------------------------------------------------------------
(* SplitTrainTest.                                                         *)

\* The split point is a position of the list, if the ratio is at most one.
LEMMA SplitAt ==
  ASSUME NEW l \in Nat, NEW a \in Nat, NEW b \in Nat \ {0}, a <= b
  PROVE  (l * a) \div b \in 0..l
<1> DEFINE x == l * a
           q == x \div b
<1>1. x \in Nat /\ x <= b * l
  <2>1. a * l \in Nat /\ a * l <= b * l
    BY Times
  <2> QED
    BY <2>1
<1> HIDE DEF x
<1>2. q \in Nat /\ x % b \in Nat /\ x = (b * q) + (x % b)
  BY <1>1, DivMod
<1> HIDE DEF q
<1>3. q <= l
  <2> SUFFICES ASSUME l + 1 <= q PROVE FALSE
    BY <1>2
  <2>1. (l + 1) * b <= q * b /\ (l + 1) * b = l * b + b /\ l * b \in Nat
    BY <1>2, Times
  <2>2. q * b = b * q /\ l * b = b * l
    BY <1>2
  <2> DEFINE u == b * q
             v == b * l
  <2>3. u \in Nat /\ v \in Nat /\ v + b <= u /\ x <= v /\ x = u + (x % b)
    BY <1>1, <1>2, <2>1, <2>2
  <2> HIDE DEF u, v
  <2> QED
    BY <1>2, <2>3
<1> QED
  BY <1>2, <1>3 DEF q, x

\* Training and test set are records, all of them, and each as often as it is
\* in the file.
LEMMA SplitFacts ==
  ASSUME NEW rs \in Seq(Record), NEW order \in Bijection(DOMAIN rs, DOMAIN rs), NEW s,
         s = SplitTrainTest(rs, order, RatioNum, RatioDen)
  PROVE  /\ s.train \in Seq(Record) /\ s.test \in Seq(Record)
         /\ Len(s.train) + Len(s.test) = Len(rs)
         /\ \A row : Occurs(row, rs) = Occurs(row, s.train) + Occurs(row, s.test)
<1> DEFINE l == Len(rs)
           m == (l * RatioNum) \div RatioDen
           sh == [i \in DOMAIN rs |-> rs[order[i]]]
<1>1. l \in Nat /\ DOMAIN rs = 1..l /\ \A i \in 1..l : rs[i] \in Record
  OBVIOUS
<1>2. m \in 0..l
  BY <1>1, SplitAt, TrainingAssumption DEF TrainingAssumption
<1>3. /\ order \in [1..l -> 1..l] /\ \A i, j \in 1..l : order[i] = order[j] => i = j
      /\ \A i \in 1..l : \E j \in 1..l : order[j] = i
  <2>1. PICK D : D = DOMAIN rs /\ order \in Bijection(D, D)
    OBVIOUS
  <2>2. order \in [D -> D]
    BY <2>1, Fun_BijectionProperties
  <2>3. \A i, j \in D : order[i] = order[j] => i = j
    BY <2>1, Fun_BijectionProperties
  <2>4. \A i \in D : \E j \in D : order[j] = i
    BY <2>1, Fun_BijectionProperties
  <2> QED
    BY <1>1, <2>1, <2>2, <2>3, <2>4, Zenon
<1>4. /\ sh \in Seq(Record) /\ Len(sh) = l /\ \A i \in 1..l : sh[i] = rs[order[i]]
  <2>1. \A i \in 1..l : rs[order[i]] \in Record
    BY <1>1, <1>3
  <2>2. sh \in [1..l -> Record] /\ \A i \in 1..l : sh[i] = rs[order[i]]
    BY <1>1, <2>1
  <2> HIDE DEF sh
  <2> QED
    BY <1>1, <2>2
<1>5. s.train = SubSeq(sh, 1, m) /\ s.test = SubSeq(sh, m + 1, l)
  BY DEF SplitTrainTest
<1> HIDE DEF sh, m, l
<1>6. /\ s.train \in Seq(Record) /\ Len(s.train) = m
      /\ \A k \in 1..m : s.train[k] = sh[k] /\ k \in 1..l
  <2>1. 0 \in Nat /\ m \in Nat /\ 0 + m <= Len(sh) /\ 0 + 1 = 1 /\ 0 + m = m
    BY <1>1, <1>2, <1>4
  <2>2. /\ SubSeq(sh, 0 + 1, 0 + m) \in Seq(Record) /\ Len(SubSeq(sh, 0 + 1, 0 + m)) = m
        /\ \A k \in 1..m : SubSeq(sh, 0 + 1, 0 + m)[k] = sh[0 + k] /\ 0 + k \in 1..Len(sh)
    BY <1>4, <2>1, SubSeqFacts
  <2>3. \A k \in 1..m : 0 + k = k
    BY <2>1
  <2> QED
    BY <1>4, <1>5, <2>1, <2>2, <2>3, Zenon
<1>7. /\ s.test \in Seq(Record) /\ Len(s.test) = l - m
      /\ \A k \in 1..(l - m) : s.test[k] = sh[m + k] /\ m + k \in 1..l
  <2>1. m \in Nat /\ l - m \in Nat /\ m + (l - m) <= Len(sh) /\ m + (l - m) = l
    BY <1>1, <1>2, <1>4
  <2>2. PICK z \in Nat : z = l - m
    BY <2>1
  <2>3. /\ SubSeq(sh, m + 1, m + z) \in Seq(Record) /\ Len(SubSeq(sh, m + 1, m + z)) = z
        /\ \A k \in 1..z : SubSeq(sh, m + 1, m + z)[k] = sh[m + k] /\ m + k \in 1..Len(sh)
    BY <1>4, <2>1, <2>2, SubSeqFacts
  <2> QED
    BY <1>4, <1>5, <2>1, <2>2, <2>3, Zenon
<1>8. Len(s.train) + Len(s.test) = Len(rs)
  <2>1. m + (l - m) = l
    BY <1>1, <1>2
  <2>2. Len(s.train) + Len(s.test) = l
    BY <1>6, <1>7, <2>1, Zenon
  <2> QED
    BY <2>2, Zenon DEF l
<1>9. ASSUME NEW row PROVE Occurs(row, rs) = Occurs(row, s.train) + Occurs(row, s.test)
  <2> DEFINE A == {i \in 1..l : rs[i] = row}
             B == {j \in 1..m : s.train[j] = row}
             C == {j \in 1..(l - m) : s.test[j] = row}
             moved == {j \in 1..l : j > m /\ sh[j] = row}
  <2>1. IsFiniteSet(B) /\ IsFiniteSet(C)
    <3>1. IsFiniteSet(1..m) /\ IsFiniteSet(1..(l - m))
      BY <1>1, <1>2, FS_Interval
    <3>2. B \in SUBSET (1..m) /\ C \in SUBSET (1..(l - m))
      OBVIOUS
    <3> HIDE DEF B, C
    <3> QED
      BY <3>1, <3>2, FS_Subset
  <2>2. IsFiniteSet(moved) /\ Cardinality(moved) = Cardinality(C)
    <3> DEFINE f == [j \in 1..(l - m) |-> m + j]
    <3>1. \A x \in C : f[x] \in moved
      <4> TAKE x \in C
      <4>1. x \in 1..(l - m) /\ m + x > m
        BY <1>1, <1>2
      <4>2. s.test[x] = sh[m + x] /\ m + x \in 1..l /\ f[x] = m + x
        BY <1>7, <4>1
      <4> QED
        BY <4>1, <4>2
    <3>2. \A x, y \in C : f[x] = f[y] => x = y
      BY <1>1, <1>2
    <3>3. \A t \in moved : \E x \in C : f[x] = t
      <4> TAKE t \in moved
      <4>1. t - m \in 1..(l - m) /\ m + (t - m) = t
        BY <1>1, <1>2
      <4>2. s.test[t - m] = sh[t] /\ f[t - m] = t
        BY <1>7, <4>1
      <4>3. t - m \in C
        BY <4>1, <4>2
      <4> QED
        BY <4>2, <4>3
    <3> HIDE DEF f, moved, C
    <3> QED
      BY <2>1, <3>1, <3>2, <3>3, SameSize
  <2>3. B \cap moved = {}
    BY <1>1, <1>2
  <2>4. IsFiniteSet(A) /\ Cardinality(A) = Cardinality(B \cup moved)
    <3>1. \A x \in B \cup moved : x \in 1..l /\ sh[x] = row
      BY <1>1, <1>2, <1>6
    <3>2. \A x \in B \cup moved : order[x] \in A
      BY <1>3, <1>4, <3>1
    <3>3. \A x, y \in B \cup moved : order[x] = order[y] => x = y
      BY <1>3, <3>1
    <3>4. \A t \in A : \E x \in B \cup moved : order[x] = t
      <4> TAKE t \in A
      <4>1. PICK j \in 1..l : order[j] = t
        BY <1>3
      <4>2. sh[j] = row
        BY <1>4, <4>1
      <4>3. j > m \/ (j \in 1..m /\ s.train[j] = row)
        BY <1>1, <1>2, <1>6, <4>2
      <4> QED
        BY <4>1, <4>2, <4>3
    <3>5. IsFiniteSet(B \cup moved)
      BY <2>1, <2>2, FS_Union
    <3> HIDE DEF A, B, moved
    <3> QED
      BY <3>2, <3>3, <3>4, <3>5, SameSize
  <2>5. Cardinality(A) = Cardinality(B) + Cardinality(C)
    <3> HIDE DEF A, B, C, moved
    <3>1. Cardinality(B \cup moved) = Cardinality(B) + Cardinality(moved) - Cardinality(B \cap moved)
      BY <2>1, <2>2, FS_Union
    <3>2. Cardinality(B \cap moved) = 0 /\ Cardinality(B) \in Nat /\ Cardinality(moved) \in Nat
      BY <2>1, <2>2, <2>3, FS_EmptySet, FS_CardinalityType
    <3> QED
      BY <2>2, <2>4, <3>1, <3>2
  <2>6. DOMAIN rs = 1..l /\ DOMAIN s.train = 1..m /\ DOMAIN s.test = 1..(l - m)
    <3>1. DOMAIN s.train = 1..Len(s.train) /\ DOMAIN s.test = 1..Len(s.test)
      BY <1>6, <1>7, LenProperties
    <3> QED
      BY <1>1, <1>6, <1>7, <3>1, Zenon
  <2> QED
    BY <2>5, <2>6, Zenon DEF Occurs
<1> QED
  BY <1>6, <1>7, <1>8, <1>9, Zenon

-----------------------------------------------------------------------------
(* internal/nb: what the counts of messages are, by the places of words.   *)

WordAt(rs, p) == rs[p[1]].words[p[2]]
Places(rs, class, words) == {p \in Occurrences(rs, class) : WordAt(rs, p) \in words}

\* A place: a message of the class, and a word of it.
LEMMA PlaceIs ==
  ASSUME NEW rs, NEW class, NEW p
  PROVE  p \in Occurrences(rs, class)
           <=> \E i \in DOMAIN rs : rs[i].label = class /\ \E j \in DOMAIN rs[i].words : p = <<i, j>>
<1>1. p \in Occurrences(rs, class)
        <=> \E i \in Labelled(rs, class) : p \in {<<i, j>> : j \in DOMAIN rs[i].words}
  BY DEF Occurrences
<1>2. \A i : p \in {<<i, j>> : j \in DOMAIN rs[i].words} <=> \E j \in DOMAIN rs[i].words : p = <<i, j>>
  OBVIOUS
<1>3. \A i : i \in Labelled(rs, class) <=> i \in DOMAIN rs /\ rs[i].label = class
  BY DEF Labelled
<1> QED
  BY <1>1, <1>2, <1>3, Zenon

\* The message and the word of a place.
LEMMA PlaceFacts ==
  ASSUME NEW rs \in Seq(Record), NEW class, NEW p \in Occurrences(rs, class)
  PROVE  /\ p[1] \in 1..Len(rs) /\ rs[p[1]] \in Record /\ rs[p[1]].label = class
         /\ p[2] \in DOMAIN rs[p[1]].words /\ p = <<p[1], p[2]>> /\ WordAt(rs, p) \in Word
<1>1. PICK i \in DOMAIN rs : rs[i].label = class /\ \E j \in DOMAIN rs[i].words : p = <<i, j>>
  BY PlaceIs
<1>2. PICK j \in DOMAIN rs[i].words : p = <<i, j>>
  BY <1>1
<1>3. p[1] = i /\ p[2] = j
  BY <1>2
<1>4. DOMAIN rs = 1..Len(rs) /\ rs[i] \in Record
  OBVIOUS
<1>5. rs[i].words \in Seq(Word)
  BY <1>4 DEF Record
<1>6. rs[i].words[j] \in Word
  BY <1>5
<1> QED
  BY <1>1, <1>2, <1>3, <1>4, <1>6, Zenon DEF WordAt

\* The places are finitely many.
LEMMA PlacesFinite ==
  ASSUME NEW rs \in Seq(Record), NEW class, NEW words
  PROVE  IsFiniteSet(Occurrences(rs, class)) /\ IsFiniteSet(Places(rs, class, words))
<1> DEFINE L == Labelled(rs, class)
           f == [i \in L |-> {<<i, j>> : j \in DOMAIN rs[i].words}]
           F == {f[i] : i \in L}
<1>1. L \in SUBSET (1..Len(rs)) /\ IsFiniteSet(1..Len(rs))
  BY FS_Interval DEF Labelled
<1>2. IsFiniteSet(L)
  BY <1>1, FS_Subset
<1>3. ASSUME NEW i \in L PROVE IsFiniteSet(f[i])
  <2>1. rs[i] \in Record
    BY <1>1
  <2>2. rs[i].words \in Seq(Word)
    BY <2>1 DEF Record
  <2>3. DOMAIN rs[i].words = 1..Len(rs[i].words) /\ Len(rs[i].words) \in Int /\ 1 \in Int
    BY <2>2
  <2>4. IsFiniteSet(DOMAIN rs[i].words)
    <3>1. IsFiniteSet(1..Len(rs[i].words))
      BY <2>3, FS_Interval
    <3> QED
      BY <2>3, <3>1, Zenon
  <2> DEFINE g == [j \in DOMAIN rs[i].words |-> <<i, j>>]
  <2>5. f[i] = {g[j] : j \in DOMAIN rs[i].words}
    BY Zenon
  <2> HIDE DEF f, g
  <2> QED
    BY <2>4, <2>5, ImageFinite
<1>4. Occurrences(rs, class) = UNION F
  BY Zenon DEF Occurrences
<1> HIDE DEF f, L
<1>5. IsFiniteSet(F)
  BY <1>2, ImageFinite
<1>6. IsFiniteSet(UNION F)
  <2>1. \A S \in F : IsFiniteSet(S)
    BY <1>3
  <2> HIDE DEF F
  <2> QED
    BY <1>5, <2>1, FS_UNION
<1>7. Places(rs, class, words) \in SUBSET Occurrences(rs, class)
  BY DEF Places
<1> HIDE DEF F
<1> QED
  BY <1>4, <1>6, <1>7, FS_Subset

\* The counts of a set of words are those of one word and of the others.
LEMMA PlacesSplit ==
  ASSUME NEW rs \in Seq(Record), NEW class, NEW words, NEW word \in words
  PROVE  Cardinality(Places(rs, class, words))
           = Cardinality(Places(rs, class, {word})) + Cardinality(Places(rs, class, words \ {word}))
<1> DEFINE a == Places(rs, class, {word})
           b == Places(rs, class, words \ {word})
<1>1. Places(rs, class, words) = a \cup b /\ a \cap b = {}
  BY DEF Places
<1>2. IsFiniteSet(a) /\ IsFiniteSet(b)
  BY PlacesFinite
<1> HIDE DEF a, b
<1>3. Cardinality(a \cup b) = Cardinality(a) + Cardinality(b) - Cardinality(a \cap b)
  BY <1>2, FS_Union
<1>4. Cardinality(a \cap b) = 0 /\ Cardinality(a) \in Nat /\ Cardinality(b) \in Nat
  BY <1>1, <1>2, FS_EmptySet, FS_CardinalityType
<1>5. Cardinality(a \cup b) = Cardinality(a) + Cardinality(b)
  BY <1>3, <1>4
<1> QED
  BY <1>1, <1>5, Zenon DEF a, b

-----------------------------------------------------------------------------
(* The messages of R[k], for k in D, are those of T from o[k] on, and each *)
(* message of T is one of them.                                            *)
Blocks(T, D, R, o) ==
  /\ T \in Seq(Record) /\ IsFiniteSet(D)
  /\ \A k \in D : /\ R[k] \in Seq(Record) /\ o[k] \in Nat
                  /\ \A i \in 1..Len(R[k]) : o[k] + i \in 1..Len(T) /\ R[k][i] = T[o[k] + i]
  /\ \A k, m \in D : \A i \in 1..Len(R[k]), j \in 1..Len(R[m]) : o[k] + i = o[m] + j => k = m
  /\ \A x \in 1..Len(T) : \E k \in D : \E i \in 1..Len(R[k]) : x = o[k] + i

\* A place in a block is a place in the list.
LEMMA PlaceInBlock ==
  ASSUME NEW T, NEW D, NEW R, NEW o, Blocks(T, D, R, o), NEW class, NEW k \in D,
         NEW p \in Occurrences(R[k], class)
  PROVE  /\ <<o[k] + p[1], p[2]>> \in Occurrences(T, class)
         /\ WordAt(T, <<o[k] + p[1], p[2]>>) = WordAt(R[k], p)
<1>1. /\ T \in Seq(Record) /\ R[k] \in Seq(Record) /\ o[k] \in Nat
      /\ \A i \in 1..Len(R[k]) : o[k] + i \in 1..Len(T) /\ R[k][i] = T[o[k] + i]
  BY Zenon DEF Blocks
<1>2. p[1] \in 1..Len(R[k]) /\ R[k][p[1]].label = class /\ p[2] \in DOMAIN R[k][p[1]].words
  BY <1>1, PlaceFacts
<1>3. o[k] + p[1] \in DOMAIN T /\ R[k][p[1]] = T[o[k] + p[1]]
  <2>1. DOMAIN T = 1..Len(T)
    BY <1>1, LenProperties
  <2> QED
    BY <1>1, <1>2, <2>1, Zenon
<1>4. <<o[k] + p[1], p[2]>> \in Occurrences(T, class)
  BY <1>2, <1>3, PlaceIs, Zenon
<1> DEFINE q == <<o[k] + p[1], p[2]>>
<1>5. q[1] = o[k] + p[1] /\ q[2] = p[2]
  OBVIOUS
<1> HIDE DEF q
<1>6. WordAt(T, q) = WordAt(R[k], p)
  BY <1>3, <1>5, Zenon DEF WordAt
<1> QED
  BY <1>4, <1>6 DEF q

\* A place in the list is a place in one of the blocks.
LEMMA PlaceFromBlock ==
  ASSUME NEW T, NEW D, NEW R, NEW o, Blocks(T, D, R, o), NEW class, NEW p \in Occurrences(T, class)
  PROVE  \E k \in D : \E q \in Occurrences(R[k], class) : p = <<o[k] + q[1], q[2]>>
<1>1. T \in Seq(Record) /\ \A x \in 1..Len(T) : \E k \in D : \E i \in 1..Len(R[k]) : x = o[k] + i
  BY Zenon DEF Blocks
<1>2. /\ p[1] \in 1..Len(T) /\ T[p[1]].label = class /\ p[2] \in DOMAIN T[p[1]].words
      /\ p = <<p[1], p[2]>>
  BY <1>1, PlaceFacts
<1>3. PICK k \in D : \E i \in 1..Len(R[k]) : p[1] = o[k] + i
  BY <1>1, <1>2, Zenon
<1>4. PICK i \in 1..Len(R[k]) : p[1] = o[k] + i
  BY <1>3
<1>5. R[k] \in Seq(Record) /\ R[k][i] = T[p[1]]
  <2>1. R[k] \in Seq(Record) /\ R[k][i] = T[o[k] + i]
    BY <1>4, Zenon DEF Blocks
  <2> QED
    BY <1>4, <2>1, Zenon
<1>6. DOMAIN R[k] = 1..Len(R[k])
  BY <1>5, LenProperties
<1>7. <<i, p[2]>> \in Occurrences(R[k], class)
  BY <1>2, <1>5, <1>6, PlaceIs, Zenon
<1> DEFINE q == <<i, p[2]>>
<1>8. q[1] = i /\ q[2] = p[2]
  OBVIOUS
<1>9. p = <<o[k] + q[1], q[2]>>
  BY <1>2, <1>4, <1>8, Zenon
<1> QED
  BY <1>7, <1>9, Zenon

\* What the blocks have of a set of words adds up to what the list has of it.
CountOf(g, E, D, R, class, words) ==
  /\ E \subseteq D /\ DOMAIN g = E
  /\ \A k \in E : g[k] = Cardinality(Places(R[k], class, words))
  /\ \A k \in D \ E : Places(R[k], class, words) = {}

LEMMA CountParts ==
  ASSUME NEW T, NEW D, NEW R, NEW o, Blocks(T, D, R, o), NEW class, NEW words,
         NEW E, NEW g, CountOf(g, E, D, R, class, words)
  PROVE  SumFunction(g) = Cardinality(Places(T, class, words))
<1>0. /\ E \subseteq D /\ DOMAIN g = E
      /\ \A k \in E : g[k] = Cardinality(Places(R[k], class, words))
      /\ \A k \in D \ E : Places(R[k], class, words) = {}
  BY Zenon DEF CountOf
<1> DEFINE P(k) == Places(R[k], class, words)
           part == [k \in D |-> {<<o[k] + p[1], p[2]>> : p \in P(k)}]
<1>1. IsFiniteSet(D) /\ IsFiniteSet(E)
  <2>1. IsFiniteSet(D)
    BY Zenon DEF Blocks
  <2> QED
    BY <1>0, <2>1, FS_Subset
<1>2. ASSUME NEW k \in D
      PROVE  IsFiniteSet(part[k]) /\ Cardinality(part[k]) = Cardinality(P(k))
  <2> DEFINE f == [p \in P(k) |-> <<o[k] + p[1], p[2]>>]
             S == P(k)
             Q == part[k]
  <2>1. R[k] \in Seq(Record) /\ o[k] \in Nat
    BY Zenon DEF Blocks
  <2>2. IsFiniteSet(S)
    BY <2>1, PlacesFinite
  <2>3. Q = {<<o[k] + p[1], p[2]>> : p \in S}
    OBVIOUS
  <2>4. \A p \in S : f[p] = <<o[k] + p[1], p[2]>> /\ f[p] \in Q
    BY <2>3
  <2>5. ASSUME NEW p \in S PROVE p[1] \in Nat /\ p = <<p[1], p[2]>>
    <3>1. p \in Occurrences(R[k], class)
      BY DEF Places
    <3> QED
      BY <2>1, <3>1, PlaceFacts
  <2> HIDE DEF f
  <2>6. ASSUME NEW p \in S, NEW q \in S, f[p] = f[q] PROVE p = q
    <3>1. <<o[k] + p[1], p[2]>> = <<o[k] + q[1], q[2]>>
      BY <2>4, <2>6
    <3>2. o[k] + p[1] = o[k] + q[1] /\ p[2] = q[2]
      BY <3>1
    <3>3. p[1] \in Nat /\ q[1] \in Nat
      BY <2>5
    <3>4. p[1] = q[1]
      BY <2>1, <3>2, <3>3
    <3> QED
      BY <2>5, <3>2, <3>4, Zenon
  <2>7. \A t \in Q : \E p \in S : f[p] = t
    BY <2>3, <2>4
  <2> HIDE DEF S, Q
  <2>8. IsFiniteSet(Q) /\ Cardinality(Q) = Cardinality(S)
    <3>1. \A p \in S : f[p] \in Q
      BY <2>4, Zenon
    <3> QED
      BY <2>2, <2>6, <2>7, <3>1, SameSize
  <2> QED
    BY <2>8, Zenon DEF S, Q
<1>3. ASSUME NEW k \in D, NEW m \in D, k # m PROVE part[k] \cap part[m] = {}
  <2> SUFFICES ASSUME NEW x \in part[k], x \in part[m] PROVE FALSE
    OBVIOUS
  <2>1. PICK p \in P(k) : x = <<o[k] + p[1], p[2]>>
    OBVIOUS
  <2>2. PICK q \in P(m) : x = <<o[m] + q[1], q[2]>>
    OBVIOUS
  <2>3. o[k] + p[1] = o[m] + q[1]
    BY <2>1, <2>2
  <2>4. p[1] \in 1..Len(R[k]) /\ q[1] \in 1..Len(R[m])
    <3>1. R[k] \in Seq(Record) /\ R[m] \in Seq(Record)
      BY Zenon DEF Blocks
    <3>2. p \in Occurrences(R[k], class) /\ q \in Occurrences(R[m], class)
      BY DEF Places
    <3> QED
      BY <3>1, <3>2, PlaceFacts
  <2> QED
    BY <1>3, <2>3, <2>4, Zenon DEF Blocks
<1>4. Places(T, class, words) = UNION {part[k] : k \in E}
  <2>1. ASSUME NEW x \in Places(T, class, words) PROVE \E k \in E : x \in part[k]
    <3>1. x \in Occurrences(T, class) /\ WordAt(T, x) \in words
      BY DEF Places
    <3>2. PICK k \in D : \E q \in Occurrences(R[k], class) : x = <<o[k] + q[1], q[2]>>
      BY <3>1, PlaceFromBlock
    <3>3. PICK q \in Occurrences(R[k], class) : x = <<o[k] + q[1], q[2]>>
      BY <3>2
    <3>4. WordAt(R[k], q) \in words
      <4>1. WordAt(T, <<o[k] + q[1], q[2]>>) = WordAt(R[k], q)
        BY PlaceInBlock
      <4> QED
        BY <3>1, <3>3, <4>1, Zenon
    <3>5. q \in P(k)
      BY <3>4 DEF Places
    <3>6. k \in E
      BY <1>0, <3>5
    <3> QED
      BY <3>3, <3>5, <3>6
  <2>2. ASSUME NEW k \in D, NEW x \in part[k] PROVE x \in Places(T, class, words)
    <3>1. PICK q \in P(k) : x = <<o[k] + q[1], q[2]>>
      OBVIOUS
    <3>2. q \in Occurrences(R[k], class) /\ WordAt(R[k], q) \in words
      BY DEF Places
    <3>3. x \in Occurrences(T, class) /\ WordAt(T, x) = WordAt(R[k], q)
      BY <3>1, <3>2, PlaceInBlock
    <3> QED
      BY <3>2, <3>3 DEF Places
  <2> HIDE DEF part
  <2> QED
    BY <1>0, <2>1, <2>2
<1>5. \A k \in E : IsFiniteSet(part[k]) /\ g[k] = Cardinality(part[k])
  <2> HIDE DEF part
  <2> QED
    BY <1>0, <1>2
<1>6. \A k, m \in E : k # m => part[k] \cap part[m] = {}
  BY <1>0, <1>3
<1> HIDE DEF part
<1>7. SumFunction(g) = Cardinality(UNION {part[k] : k \in E})
  BY <1>0, <1>1, <1>5, <1>6, SumOfParts
<1> QED
  BY <1>4, <1>7, Zenon

-----------------------------------------------------------------------------
(* The model of a list of messages, in closed form.                        *)

TextWords(T) == UNION {{WordAt(T, p) : p \in Occurrences(T, class)} : class \in Labels(T)}
Classes(T) == {class \in Labels(T) : Occurrences(T, class) # {}}
Total(T, class) == Cardinality(Occurrences(T, class))
Count(T, class, word) == Cardinality(Places(T, class, {word}))

ModelOf(T) ==
  [wordProbs   |-> [class \in Classes(T) |->
                      [word \in TextWords(T) |-> <<Count(T, class, word) + 1,
                                                  Total(T, class) + Cardinality(TextWords(T))>>]],
   classPriors |-> [class \in Classes(T) |->
                      <<Total(T, class), SumFunction([c \in Classes(T) |-> Total(T, c)])>>],
   vocabSize   |-> Cardinality(TextWords(T))]

\* CountLocal's maps: which keys they have, and with which counts.
LEMMA CountLocalIs ==
  ASSUME NEW rs, NEW u, u = CountLocal(rs)
  PROVE  /\ DOMAIN u.wordCounts = Labels(rs)
         /\ \A class \in Labels(rs) :
              /\ DOMAIN u.wordCounts[class] = {WordAt(rs, p) : p \in Occurrences(rs, class)}
              /\ \A word \in DOMAIN u.wordCounts[class] : u.wordCounts[class][word] = Count(rs, class, word)
         /\ DOMAIN u.classTotals = Classes(rs)
         /\ \A class \in Classes(rs) : u.classTotals[class] = Total(rs, class)
<1>1. u.wordCounts = WordCounts(rs) /\ u.classTotals = ClassTotals(rs)
  BY DEF CountLocal
<1>2. DOMAIN WordCounts(rs) = Labels(rs)
  BY DEF WordCounts
<1>3. ASSUME NEW class \in Labels(rs)
      PROVE  WordCounts(rs)[class] = [word \in {WordAt(rs, p) : p \in Occurrences(rs, class)} |->
                                        Count(rs, class, word)]
  <2>1. \A word : {p \in Occurrences(rs, class) : rs[p[1]].words[p[2]] = word} = Places(rs, class, {word})
    BY DEF Places, WordAt
  <2> QED
    BY <2>1, Zenon DEF WordCounts, WordAt, Count
<1>4. ClassTotals(rs) = [class \in Classes(rs) |-> Total(rs, class)]
  BY Zenon DEF ClassTotals, Classes, Total
<1>5. ASSUME NEW class \in Labels(rs)
      PROVE  /\ DOMAIN u.wordCounts[class] = {WordAt(rs, p) : p \in Occurrences(rs, class)}
             /\ \A word \in DOMAIN u.wordCounts[class] : u.wordCounts[class][word] = Count(rs, class, word)
  <2> DEFINE W == {WordAt(rs, p) : p \in Occurrences(rs, class)}
  <2>1. u.wordCounts[class] = [word \in W |-> Count(rs, class, word)]
    BY <1>1, <1>3, Zenon
  <2> HIDE DEF W
  <2>2. DOMAIN u.wordCounts[class] = W /\ \A word \in W : u.wordCounts[class][word] = Count(rs, class, word)
    BY <2>1, Zenon
  <2> QED
    BY <2>2, Zenon DEF W
<1>6. DOMAIN u.classTotals = Classes(rs) /\ \A class \in Classes(rs) : u.classTotals[class] = Total(rs, class)
  BY <1>1, <1>4, Zenon
<1>7. DOMAIN u.wordCounts = Labels(rs)
  BY <1>1, <1>2, Zenon
<1> QED
  BY <1>5, <1>6, <1>7, Zenon

\* A class with a word is a label.
LEMMA ClassIs ==
  ASSUME NEW rs \in Seq(Record), NEW class
  PROVE  /\ class \in Classes(rs) <=> Occurrences(rs, class) # {}
         /\ class \notin Labels(rs) => Occurrences(rs, class) = {}
<1>1. ASSUME NEW p \in Occurrences(rs, class) PROVE class \in Labels(rs)
  <2>1. p[1] \in 1..Len(rs) /\ rs[p[1]].label = class /\ DOMAIN rs = 1..Len(rs)
    BY PlaceFacts, LenProperties
  <2> QED
    BY <2>1, Zenon DEF Labels
<1> QED
  BY <1>1 DEF Classes

\* The vocabulary: the words at some place.
LEMMA TextWordIs ==
  ASSUME NEW rs \in Seq(Record), NEW word
  PROVE  word \in TextWords(rs) <=> \E class : \E p \in Occurrences(rs, class) : word = WordAt(rs, p)
<1>1. ASSUME NEW class, NEW p \in Occurrences(rs, class) PROVE class \in Labels(rs)
  BY <1>1, ClassIs
<1> QED
  BY <1>1 DEF TextWords

\* Every place has a word of the vocabulary.
LEMMA AllPlaces ==
  ASSUME NEW rs \in Seq(Record), NEW class
  PROVE  Places(rs, class, Word) = Occurrences(rs, class) /\ Places(rs, class, TextWords(rs)) = Occurrences(rs, class)
<1>1. \A p \in Occurrences(rs, class) : WordAt(rs, p) \in Word
  BY PlaceFacts
<1>2. \A p \in Occurrences(rs, class) : WordAt(rs, p) \in TextWords(rs)
  BY TextWordIs
<1> QED
  BY <1>1, <1>2 DEF Places

\* Aggregating the counts of the blocks gives the model of the list.
LEMMA AggregateIs ==
  ASSUME NEW T, NEW D, NEW R, NEW o, Blocks(T, D, R, o), NEW us, DOMAIN us = D,
         \A k \in D : us[k] = CountLocal(R[k])
  PROVE  Aggregate(us) = ModelOf(T)
<1>0. T \in Seq(Record) /\ \A k \in D : R[k] \in Seq(Record)
  BY Zenon DEF Blocks
<1>1. ASSUME NEW k \in D
      PROVE  /\ DOMAIN us[k].wordCounts = Labels(R[k])
             /\ \A class \in Labels(R[k]) :
                  /\ DOMAIN us[k].wordCounts[class] = {WordAt(R[k], p) : p \in Occurrences(R[k], class)}
                  /\ \A word \in DOMAIN us[k].wordCounts[class] :
                       us[k].wordCounts[class][word] = Count(R[k], class, word)
             /\ DOMAIN us[k].classTotals = Classes(R[k])
             /\ \A class \in Classes(R[k]) : us[k].classTotals[class] = Total(R[k], class)
  BY CountLocalIs
<1>2. TotalClasses(us) = Classes(T)
  <2>1. ASSUME NEW x \in Classes(T) PROVE \E k \in D : x \in DOMAIN us[k].classTotals
    <3>1. PICK p : p \in Occurrences(T, x)
      BY <1>0, ClassIs
    <3>2. PICK k \in D : \E q \in Occurrences(R[k], x) : p = <<o[k] + q[1], q[2]>>
      BY <3>1, PlaceFromBlock
    <3>3. x \in Classes(R[k])
      BY <1>0, <3>2, ClassIs
    <3> QED
      BY <1>1, <3>3
  <2>2. ASSUME NEW k \in D, NEW x \in DOMAIN us[k].classTotals PROVE x \in Classes(T)
    <3>1. PICK p : p \in Occurrences(R[k], x)
      <4>1. x \in Classes(R[k])
        BY <1>1
      <4> QED
        BY <1>0, <4>1, ClassIs
    <3>2. Occurrences(T, x) # {}
      BY <3>1, PlaceInBlock
    <3> QED
      BY <1>0, <3>2, ClassIs
  <2> QED
    BY <2>1, <2>2 DEF TotalClasses
<1>3. Vocabulary(us) = TextWords(T)
  <2>1. ASSUME NEW x \in TextWords(T)
        PROVE  \E k \in D : \E class \in DOMAIN us[k].wordCounts : x \in DOMAIN us[k].wordCounts[class]
    <3>1. PICK class : \E p \in Occurrences(T, class) : x = WordAt(T, p)
      BY <1>0, TextWordIs
    <3>2. PICK p \in Occurrences(T, class) : x = WordAt(T, p)
      BY <3>1
    <3>3. PICK k \in D : \E q \in Occurrences(R[k], class) : p = <<o[k] + q[1], q[2]>>
      BY PlaceFromBlock
    <3>4. PICK q \in Occurrences(R[k], class) : p = <<o[k] + q[1], q[2]>>
      BY <3>3
    <3>5. x = WordAt(R[k], q)
      BY <3>2, <3>4, PlaceInBlock
    <3>6. class \in Labels(R[k])
      BY <1>0, ClassIs
    <3>7. x \in {WordAt(R[k], r) : r \in Occurrences(R[k], class)}
      BY <3>5
    <3>8. class \in DOMAIN us[k].wordCounts
      BY <1>1, <3>6, Zenon
    <3>9. x \in DOMAIN us[k].wordCounts[class]
      BY <1>1, <3>7, <3>8, Zenon
    <3> QED
      BY <3>8, <3>9, Zenon
  <2>2. ASSUME NEW k \in D, NEW class \in DOMAIN us[k].wordCounts, NEW x \in DOMAIN us[k].wordCounts[class]
        PROVE  x \in TextWords(T)
    <3>1. x \in {WordAt(R[k], r) : r \in Occurrences(R[k], class)}
      BY <1>1
    <3>2. PICK q \in Occurrences(R[k], class) : x = WordAt(R[k], q)
      BY <3>1
    <3>3. /\ <<o[k] + q[1], q[2]>> \in Occurrences(T, class)
          /\ WordAt(T, <<o[k] + q[1], q[2]>>) = WordAt(R[k], q)
      BY PlaceInBlock
    <3> QED
      BY <1>0, <3>2, <3>3, TextWordIs, Zenon
  <2> QED
    BY <2>1, <2>2 DEF Vocabulary
<1>4. ASSUME NEW class PROVE CombinedTotal(us, class) = Total(T, class)
  <2> DEFINE g == [k \in D |-> At(us[k].classTotals, class)]
  <2>1. ASSUME NEW k \in D PROVE g[k] = Cardinality(Places(R[k], class, Word))
    <3>1. Places(R[k], class, Word) = Occurrences(R[k], class)
      BY <1>0, AllPlaces
    <3>2. CASE class \in Classes(R[k])
      <4>1. g[k] = us[k].classTotals[class]
        BY <1>1, <3>2 DEF At
      <4>2. us[k].classTotals[class] = Total(R[k], class)
        BY <1>1, <3>2, Zenon
      <4> QED
        BY <3>1, <4>1, <4>2, Zenon DEF Total
    <3>3. CASE class \notin Classes(R[k])
      <4>1. g[k] = 0
        BY <1>1, <3>3 DEF At
      <4>2. Occurrences(R[k], class) = {}
        BY <1>0, <3>3, ClassIs
      <4> QED
        BY <3>1, <4>1, <4>2, FS_EmptySet
    <3> QED
      BY <3>2, <3>3
  <2>2. DOMAIN g = D /\ D \in SUBSET D
    OBVIOUS
  <2> HIDE DEF g
  <2>3. \A k \in D : g[k] = Cardinality(Places(R[k], class, Word))
    BY <2>1, Zenon
  <2>4. SumFunction(g) = Cardinality(Places(T, class, Word))
    <3>1. CountOf(g, D, D, R, class, Word)
      BY <2>2, <2>3 DEF CountOf
    <3> QED
      BY <3>1, CountParts
  <2> QED
    BY <1>0, <2>4, AllPlaces DEF CombinedTotal, Total, g
<1>5. ASSUME NEW class, NEW word PROVE CombinedCount(us, class, word) = Count(T, class, word)
  <2> DEFINE E == {k \in D : class \in DOMAIN us[k].wordCounts}
             g == [k \in E |-> At(us[k].wordCounts[class], word)]
  <2>1. ASSUME NEW k \in E PROVE g[k] = Cardinality(Places(R[k], class, {word}))
    <3>0. k \in D /\ class \in Labels(R[k])
      BY <1>1
    <3> DEFINE W == {WordAt(R[k], p) : p \in Occurrences(R[k], class)}
    <3>1. DOMAIN us[k].wordCounts[class] = W
      BY <1>1, <3>0, Zenon
    <3>2. CASE word \in W
      <4>1. g[k] = us[k].wordCounts[class][word]
        BY <3>1, <3>2, Zenon DEF At
      <4>2. us[k].wordCounts[class][word] = Count(R[k], class, word)
        BY <1>1, <3>0, <3>1, <3>2, Zenon
      <4> QED
        BY <4>1, <4>2, Zenon DEF Count
    <3>3. CASE word \notin W
      <4>1. g[k] = 0
        BY <3>1, <3>3, Zenon DEF At
      <4>2. Places(R[k], class, {word}) = {}
        BY <3>3 DEF Places
      <4> QED
        BY <4>1, <4>2, FS_EmptySet
    <3> QED
      BY <3>2, <3>3
  <2>2. DOMAIN g = E /\ E \in SUBSET D
    OBVIOUS
  <2>3. ASSUME NEW k \in D \ E PROVE Places(R[k], class, {word}) = {}
    <3>1. class \notin Labels(R[k])
      BY <1>1
    <3>2. Occurrences(R[k], class) = {}
      BY <1>0, <3>1, ClassIs
    <3> QED
      BY <3>2 DEF Places
  <2>4. CombinedCount(us, class, word) = SumFunction(g)
    BY Zenon DEF CombinedCount
  <2> HIDE DEF g, E
  <2>5. SumFunction(g) = Cardinality(Places(T, class, {word}))
    <3>1. CountOf(g, E, D, R, class, {word})
      BY <2>1, <2>2, <2>3 DEF CountOf
    <3> QED
      BY <3>1, CountParts
  <2> QED
    BY <2>4, <2>5, Zenon DEF Count
<1>6. [class \in TotalClasses(us) |-> CombinedTotal(us, class)] = [class \in Classes(T) |-> Total(T, class)]
  BY <1>2, <1>4, Zenon
<1> DEFINE totals == [class \in Classes(T) |-> Total(T, class)]
           vocab == TextWords(T)
<1>7. Aggregate(us) = [wordProbs   |-> [class \in DOMAIN totals |->
                          [word \in vocab |-> <<CombinedCount(us, class, word) + 1,
                                               totals[class] + Cardinality(vocab)>>]],
       classPriors |-> [class \in DOMAIN totals |-> <<totals[class], SumFunction(totals)>>],
       vocabSize   |-> Cardinality(vocab)]
  BY <1>3, <1>6, Zenon DEF Aggregate
<1>8. DOMAIN totals = Classes(T) /\ \A class \in Classes(T) : totals[class] = Total(T, class)
  BY Zenon
<1>9. [class \in DOMAIN totals |->
          [word \in vocab |-> <<CombinedCount(us, class, word) + 1, totals[class] + Cardinality(vocab)>>]]
       = [class \in Classes(T) |->
           [word \in vocab |-> <<Count(T, class, word) + 1, Total(T, class) + Cardinality(vocab)>>]]
  <2>1. ASSUME NEW class \in Classes(T)
        PROVE  [word \in vocab |-> <<CombinedCount(us, class, word) + 1, totals[class] + Cardinality(vocab)>>]
                = [word \in vocab |-> <<Count(T, class, word) + 1, Total(T, class) + Cardinality(vocab)>>]
    BY <1>5, <1>8, Zenon
  <2> HIDE DEF totals, vocab
  <2> QED
    BY <1>8, <2>1, Zenon
<1>10. [class \in DOMAIN totals |-> <<totals[class], SumFunction(totals)>>]
        = [class \in Classes(T) |-> <<Total(T, class), SumFunction(totals)>>]
  <2> HIDE DEF totals
  <2> QED
    BY <1>8, Zenon
<1> QED
  BY <1>7, <1>9, <1>10, Zenon DEF ModelOf

\* Each message is in a shard.
LEMMA ShardOf ==
  ASSUME NEW l \in Nat, NEW ws \in Nat \ {0}, NEW x \in 1..l
  PROVE  \E i \in 1..ws : x - Start(l, ws, i) \in 1..Size(l, ws, i)
<1> DEFINE E == {i \in 1..ws : x <= Start(l, ws, i) + Size(l, ws, i)}
<1>1. E \subseteq Nat /\ ws \in E
  <2>1. ws \in 1..ws /\ x <= l
    OBVIOUS
  <2>2. Start(l, ws, ws) + Size(l, ws, ws) = l
    BY Shares
  <2>3. x <= Start(l, ws, ws) + Size(l, ws, ws)
    BY <2>1, <2>2, Zenon
  <2> QED
    BY <2>1, <2>3
<1>2. PICK i \in E : \A j \in E : ~(j < i)
  <2> HIDE DEF E
  <2>1. E # {}
    BY <1>1
  <2> QED
    BY <1>1, <2>1, Least
<1>3. i \in 1..ws /\ x <= Start(l, ws, i) + Size(l, ws, i)
  BY <1>2
<1>4. Start(l, ws, i) \in Nat /\ Size(l, ws, i) \in Nat
  BY <1>3, Shares
<1>5. Start(l, ws, i) < x
  <2>1. CASE i = 1
    <3>1. Start(l, ws, i) = 0
      BY <2>1, Shares
    <3> QED
      BY <3>1
  <2>2. CASE i # 1
    <3>1. i \in 2..ws /\ i - 1 \in 1..ws /\ i - 1 < i
      BY <1>3, <2>2
    <3>2. i - 1 \notin E
      BY <1>2, <3>1
    <3>3. Start(l, ws, i) = Start(l, ws, i - 1) + Size(l, ws, i - 1)
      BY <3>1, Shares
    <3>4. ~(x <= Start(l, ws, i - 1) + Size(l, ws, i - 1))
      BY <3>1, <3>2
    <3>5. ~(x <= Start(l, ws, i))
      BY <3>3, <3>4, Zenon
    <3> QED
      BY <1>4, <3>5
  <2> QED
    BY <2>1, <2>2
<1>6. x - Start(l, ws, i) \in 1..Size(l, ws, i)
  BY <1>3, <1>4, <1>5
<1> QED
  BY <1>3, <1>6

\* In whatever order the workers of w answer, their shards are the messages.
LEMMA ShardBlocks ==
  ASSUME NEW T \in Seq(Record), NEW ws \in Nat \ {0}, NEW w, NEW D, IsFiniteSet(D),
         w \in Bijection(D, 1..ws), NEW R, NEW o,
         \A k \in D : R[k] = Shard(T, ws, w[k]) /\ o[k] = Start(Len(T), ws, w[k])
  PROVE  Blocks(T, D, R, o)
<1> DEFINE l == Len(T)
<1>0. l \in Nat
  OBVIOUS
<1>1. PICK N : N = 1..ws /\ w \in Bijection(D, N)
  OBVIOUS
<1>2. w \in [D -> N]
  BY <1>1, Fun_BijectionProperties
<1>3. \A a, b \in D : w[a] = w[b] => a = b
  BY <1>1, Fun_BijectionProperties
<1>4. \A i \in N : \E k \in D : w[k] = i
  <2>1. w \in Surjection(D, N)
    BY <1>1, Fun_BijectionProperties
  <2> QED
    BY <2>1 DEF Surjection
<1>5. \A k \in D : w[k] \in 1..ws
  BY <1>1, <1>2
<1>6. ASSUME NEW k \in D
      PROVE  /\ R[k] \in Seq(Record) /\ o[k] \in Nat /\ Len(R[k]) = Size(l, ws, w[k])
             /\ \A i \in 1..Len(R[k]) : o[k] + i \in 1..l /\ R[k][i] = T[o[k] + i]
  <2>1. PICK v \in 1..ws : v = w[k]
    BY <1>5
  <2>2. R[k] = Shard(T, ws, v) /\ o[k] = Start(l, ws, v)
    BY <2>1
  <2>3. /\ Shard(T, ws, v) \in Seq(Record) /\ Len(Shard(T, ws, v)) = Size(l, ws, v)
        /\ \A j \in 1..Size(l, ws, v) : Shard(T, ws, v)[j] = T[Start(l, ws, v) + j] /\ Start(l, ws, v) + j \in 1..l
    BY ShardFacts
  <2>4. Start(l, ws, v) \in Nat
    BY <1>0, Shares
  <2> QED
    BY <2>1, <2>2, <2>3, <2>4, Zenon
<1>7. ASSUME NEW k \in D, NEW m \in D, NEW i \in 1..Len(R[k]), NEW j \in 1..Len(R[m]), o[k] + i = o[m] + j
      PROVE  k = m
  <2>1. PICK u \in 1..ws, v \in 1..ws : u = w[k] /\ v = w[m]
    BY <1>5
  <2>2. i \in 1..Size(l, ws, u) /\ j \in 1..Size(l, ws, v) /\ Start(l, ws, u) + i = Start(l, ws, v) + j
    BY <1>6, <1>7, <2>1
  <2>3. /\ Start(l, ws, u) \in Nat /\ Start(l, ws, v) \in Nat /\ Size(l, ws, u) \in Nat /\ Size(l, ws, v) \in Nat
        /\ u < v => Start(l, ws, u) + Size(l, ws, u) <= Start(l, ws, v)
        /\ v < u => Start(l, ws, v) + Size(l, ws, v) <= Start(l, ws, u)
    BY <1>0, Shares
  <2>4. u = v
    BY <2>2, <2>3
  <2> QED
    BY <1>3, <2>1, <2>4
<1>8. ASSUME NEW x \in 1..l PROVE \E k \in D : \E i \in 1..Len(R[k]) : x = o[k] + i
  <2>1. PICK v \in 1..ws : x - Start(l, ws, v) \in 1..Size(l, ws, v)
    BY <1>0, ShardOf
  <2>2. PICK k \in D : w[k] = v
    BY <1>1, <1>4
  <2>3. Start(l, ws, v) \in Nat
    BY <1>0, Shares
  <2>4. x = Start(l, ws, v) + (x - Start(l, ws, v))
    BY <2>3
  <2>5. o[k] = Start(l, ws, v) /\ Len(R[k]) = Size(l, ws, v)
    BY <1>6, <2>2
  <2> QED
    BY <2>1, <2>4, <2>5, Zenon
<1>9. \A k \in D : /\ R[k] \in Seq(Record) /\ o[k] \in Nat
                   /\ \A i \in 1..Len(R[k]) : o[k] + i \in 1..Len(T) /\ R[k][i] = T[o[k] + i]
  BY <1>6, Zenon
<1>10. \A k, m \in D : \A i \in 1..Len(R[k]), j \in 1..Len(R[m]) : o[k] + i = o[m] + j => k = m
  BY <1>7, Zenon
<1>11. \A x \in 1..Len(T) : \E k \in D : \E i \in 1..Len(R[k]) : x = o[k] + i
  BY <1>8, Zenon
<1> QED
  BY <1>9, <1>10, <1>11, Zenon DEF Blocks

\* Centralized training: the counts of all messages as the only update.
LEMMA OneBlock ==
  ASSUME NEW T \in Seq(Record)
  PROVE  Aggregate(<<CountLocal(T)>>) = ModelOf(T)
<1> DEFINE us == <<CountLocal(T)>>
           D == 1..1
           R == [k \in D |-> T]
           o == [k \in D |-> 0]
<1>1. DOMAIN us = D /\ \A k \in D : us[k] = CountLocal(R[k])
  <2>1. DOMAIN us = D /\ us[1] = CountLocal(T)
    OBVIOUS
  <2>2. \A k \in D : k = 1 /\ R[k] = T
    OBVIOUS
  <2> QED
    BY <2>1, <2>2, Zenon
<1>2. Blocks(T, D, R, o)
  <2>1. IsFiniteSet(D)
    <3>1. 1 \in Int
      OBVIOUS
    <3> QED
      BY <3>1, FS_Interval
  <2>2. \A k \in D : R[k] = T /\ o[k] = 0 /\ k = 1
    OBVIOUS
  <2>3. \A i \in 1..Len(T) : 0 + i = i
    OBVIOUS
  <2>4. 1 \in D
    OBVIOUS
  <2> HIDE DEF D, R, o
  <2>5. \A k \in D : /\ R[k] \in Seq(Record) /\ o[k] \in Nat
                     /\ \A i \in 1..Len(R[k]) : o[k] + i \in 1..Len(T) /\ R[k][i] = T[o[k] + i]
    BY <2>2, <2>3
  <2>6. \A k, m \in D : \A i \in 1..Len(R[k]), j \in 1..Len(R[m]) : o[k] + i = o[m] + j => k = m
    BY <2>2, Zenon
  <2>7. \A x \in 1..Len(T) : \E k \in D : \E i \in 1..Len(R[k]) : x = o[k] + i
    BY <2>2, <2>3, <2>4, Zenon
  <2> QED
    BY <2>1, <2>5, <2>6, <2>7, Zenon DEF Blocks
<1> HIDE DEF us, D, R, o
<1>3. Aggregate(us) = ModelOf(T)
  BY <1>1, <1>2, AggregateIs
<1> QED
  BY <1>3 DEF us

-----------------------------------------------------------------------------
(* The messages of the round.                                              *)

\* The counts survive the conversion to a message and back.
LEMMA CountsArrive ==
  ASSUME NEW rs
  PROVE  FromPBWordCounts(ToPBWordCounts(CountLocal(rs).wordCounts)) = CountLocal(rs).wordCounts
<1> DEFINE m == CountLocal(rs).wordCounts
<1>1. m = [class \in DOMAIN m |-> m[class]]
  BY Zenon DEF CountLocal, WordCounts
<1> HIDE DEF m
<1>2. FromPBWordCounts(ToPBWordCounts(m)) = [class \in DOMAIN m |-> m[class]]
  BY DEF FromPBWordCounts, ToPBWordCounts
<1> QED
  BY <1>1, <1>2 DEF m

Sent(m) == GlobalModel([globalWordProbs |-> ToPBWordProbs(m.wordProbs), classPriors |-> m.classPriors])

\* The coordinator's copy of the aggregator's model.
LEMMA ModelArrives ==
  ASSUME NEW T \in Seq(Record)
  PROVE  Sent(ModelOf(T)) = ModelOf(T)
<1> DEFINE m == ModelOf(T)
           p == m.wordProbs
<1>1. p = [class \in Classes(T) |->
             [word \in TextWords(T) |-> <<Count(T, class, word) + 1, Total(T, class) + Cardinality(TextWords(T))>>]]
  BY DEF ModelOf
<1>2. DOMAIN p = Classes(T) /\ \A class \in Classes(T) : DOMAIN p[class] = TextWords(T)
  <2> HIDE DEF p
  <2> QED
    BY <1>1, Zenon
<1>3. FromPBWordProbs(ToPBWordProbs(p)) = p
  <2>1. p = [class \in DOMAIN p |-> p[class]]
    BY <1>1
  <2> HIDE DEF p
  <2>2. FromPBWordProbs(ToPBWordProbs(p)) = [class \in DOMAIN p |-> p[class]]
    BY DEF FromPBWordProbs, ToPBWordProbs
  <2> QED
    BY <2>1, <2>2
<1>4. m.vocabSize = IF DOMAIN p = {} THEN 0
                    ELSE Cardinality(DOMAIN p[CHOOSE class \in DOMAIN p : TRUE])
  <2>1. m.vocabSize = Cardinality(TextWords(T))
    BY DEF ModelOf
  <2>2. CASE DOMAIN p = {}
    <3>1. TextWords(T) = {}
      BY <1>2, <2>2, ClassIs, TextWordIs
    <3> QED
      BY <2>1, <2>2, <3>1, FS_EmptySet
  <2>3. CASE DOMAIN p # {}
    BY <1>2, <2>1, <2>3
  <2> QED
    BY <2>2, <2>3
<1>5. m = [wordProbs |-> p, classPriors |-> m.classPriors, vocabSize |-> m.vocabSize]
  BY DEF ModelOf
<1> HIDE DEF p
<1>6. Sent(m) = [wordProbs |-> p, classPriors |-> m.classPriors,
                 vocabSize |-> IF DOMAIN p = {} THEN 0
                               ELSE Cardinality(DOMAIN p[CHOOSE class \in DOMAIN p : TRUE])]
  <2>1. Sent(m) = GlobalModel([globalWordProbs |-> ToPBWordProbs(p), classPriors |-> m.classPriors])
    BY DEF Sent, p
  <2> HIDE DEF m
  <2> QED
    BY <1>3, <2>1, Zenon DEF GlobalModel
<1> HIDE DEF m
<1>7. Sent(m) = m
  BY <1>4, <1>5, <1>6, Zenon
<1> QED
  BY <1>7 DEF m

\* Without an update the model has no class.
LEMMA EmptyModel ==
  /\ DOMAIN Sent(Aggregate(<<>>)).wordProbs = {}
  /\ DOMAIN Sent(Aggregate(<<>>)).classPriors = {}
<1> DEFINE m == Aggregate(<<>>)
<1>1. TotalClasses(<<>>) = {}
  BY DEF TotalClasses
<1>2. DOMAIN m.wordProbs = {} /\ DOMAIN m.classPriors = {}
  BY <1>1 DEF Aggregate
<1> HIDE DEF m
<1>3. DOMAIN Sent(m).wordProbs = {} /\ DOMAIN Sent(m).classPriors = {}
  BY <1>2 DEF Sent, GlobalModel, FromPBWordProbs, ToPBWordProbs
<1> QED
  BY <1>3 DEF m

\* Labels, classes and vocabulary are finite.
LEMMA TextWordsFinite ==
  ASSUME NEW T \in Seq(Record)
  PROVE  IsFiniteSet(Labels(T)) /\ IsFiniteSet(Classes(T)) /\ IsFiniteSet(TextWords(T))
<1>1. IsFiniteSet(Labels(T))
  <2> DEFINE f == [i \in DOMAIN T |-> T[i].label]
  <2>1. IsFiniteSet(DOMAIN T)
    <3>1. DOMAIN T = 1..Len(T) /\ Len(T) \in Int /\ 1 \in Int
      BY LenProperties
    <3>2. IsFiniteSet(1..Len(T))
      BY <3>1, FS_Interval
    <3> QED
      BY <3>1, <3>2, Zenon
  <2>2. Labels(T) = {f[i] : i \in DOMAIN T}
    BY Zenon DEF Labels
  <2> HIDE DEF f
  <2> QED
    BY <2>1, <2>2, ImageFinite
<1>2. IsFiniteSet(Classes(T))
  <2>1. Classes(T) \in SUBSET Labels(T)
    BY DEF Classes
  <2> QED
    BY <1>1, <2>1, FS_Subset
<1> DEFINE F == [class \in Labels(T) |-> {WordAt(T, p) : p \in Occurrences(T, class)}]
           S == {F[class] : class \in Labels(T)}
<1>3. TextWords(T) = UNION S
  BY Zenon DEF TextWords
<1>4. ASSUME NEW class \in Labels(T) PROVE IsFiniteSet(F[class])
  <2> DEFINE f == [p \in Occurrences(T, class) |-> WordAt(T, p)]
  <2>1. F[class] = {f[p] : p \in Occurrences(T, class)}
    BY Zenon
  <2>2. IsFiniteSet(Occurrences(T, class))
    BY PlacesFinite
  <2> HIDE DEF f, F
  <2> QED
    BY <2>1, <2>2, ImageFinite
<1> HIDE DEF F
<1>5. IsFiniteSet(S) /\ \A x \in S : IsFiniteSet(x)
  BY <1>1, <1>4, ImageFinite
<1> HIDE DEF S
<1>6. IsFiniteSet(TextWords(T))
  BY <1>3, <1>5, FS_UNION
<1> QED
  BY <1>1, <1>2, <1>6

\* The body of Distributions.
AddUp(m) ==
  LET priors == m.classPriors IN
    /\ \A class \in DOMAIN m.wordProbs :
         LET probs == m.wordProbs[class] IN
         /\ SumFunction([word \in DOMAIN probs |-> probs[word][1]]) = priors[class][1] + m.vocabSize
         /\ \A word \in DOMAIN probs : probs[word][2] = priors[class][1] + m.vocabSize
    /\ DOMAIN priors # {} =>
         \A class \in DOMAIN priors :
           SumFunction([c \in DOMAIN priors |-> priors[c][1]]) = priors[class][2]

\* Word probabilities and priors of a model add up to one.
LEMMA ModelAddsUp ==
  ASSUME NEW T \in Seq(Record)
  PROVE  AddUp(ModelOf(T))
<1> DEFINE m == ModelOf(T)
           V == TextWords(T)
           p == m.wordProbs
           priors == m.classPriors
           sum == SumFunction([c \in Classes(T) |-> Total(T, c)])
<1>1. DOMAIN p = Classes(T) /\ DOMAIN priors = Classes(T) /\ m.vocabSize = Cardinality(V)
  BY DEF ModelOf
<1>2. ASSUME NEW class \in Classes(T)
      PROVE  /\ p[class] = [word \in V |-> <<Count(T, class, word) + 1, Total(T, class) + Cardinality(V)>>]
             /\ priors[class][1] = Total(T, class) /\ priors[class][2] = sum
  <2>1. p[class] = [word \in V |-> <<Count(T, class, word) + 1, Total(T, class) + Cardinality(V)>>]
    BY DEF ModelOf
  <2>2. priors[class] = <<Total(T, class), sum>>
    BY Zenon DEF ModelOf
  <2> HIDE DEF priors, sum
  <2>3. priors[class][1] = Total(T, class) /\ priors[class][2] = sum
    BY <2>2
  <2> QED
    BY <2>1, <2>3, Zenon
<1>3. IsFiniteSet(V)
  BY TextWordsFinite
<1> HIDE DEF m, V, p, priors
<1>4. ASSUME NEW class \in Classes(T)
      PROVE  SumFunction([word \in V |-> Count(T, class, word) + 1]) = Total(T, class) + Cardinality(V)
  <2> DEFINE g == [word \in V |-> Count(T, class, word) + 1]
             h == [s \in SUBSET V |-> Cardinality(Places(T, class, s)) + Cardinality(s)]
  <2>1. h[{}] = 0
    <3>1. Places(T, class, {}) = {}
      BY DEF Places
    <3>2. h[{}] = Cardinality({}) + Cardinality({})
      BY <3>1, Zenon
    <3> QED
      BY <3>2, FS_EmptySet
  <2>2. ASSUME NEW s \in SUBSET V, NEW x \in s PROVE h[s] = g[x] + h[s \ {x}]
    <3> DEFINE a == Cardinality(Places(T, class, {x}))
               b == Cardinality(Places(T, class, s \ {x}))
               c == Cardinality(s \ {x})
    <3>1. Cardinality(Places(T, class, s)) = a + b
      BY PlacesSplit
    <3>2. IsFiniteSet(s) /\ IsFiniteSet(s \ {x})
      <4>1. IsFiniteSet(s)
        BY <1>3, FS_Subset
      <4> QED
        BY <4>1, FS_RemoveElement
    <3>3. Cardinality(s) = c + 1
      <4>1. Cardinality(s \ {x}) = Cardinality(s) - 1 /\ Cardinality(s) \in Nat
        BY <3>2, FS_RemoveElement, FS_CardinalityType
      <4> QED
        BY <4>1
    <3>4. a \in Nat /\ b \in Nat /\ c \in Nat
      <4>1. IsFiniteSet(Places(T, class, {x})) /\ IsFiniteSet(Places(T, class, s \ {x}))
        BY PlacesFinite
      <4> QED
        BY <3>2, <4>1, FS_CardinalityType
    <3>5. g[x] = a + 1
      BY Zenon DEF Count
    <3>6. h[s] = Cardinality(Places(T, class, s)) + Cardinality(s)
      BY Zenon
    <3>7. s \ {x} \in SUBSET V
      OBVIOUS
    <3>8. h[s \ {x}] = b + c
      BY <3>7, Zenon
    <3> HIDE DEF a, b, c, g, h
    <3> QED
      BY <3>1, <3>3, <3>4, <3>5, <3>6, <3>8
  <2>3. DOMAIN g = V
    OBVIOUS
  <2>4. h[V] = Total(T, class) + Cardinality(V)
    <3>1. Places(T, class, V) = Occurrences(T, class)
      BY AllPlaces DEF V
    <3>2. V \in SUBSET V
      OBVIOUS
    <3> QED
      BY <3>1, <3>2, Zenon DEF Total
  <2> HIDE DEF g, h
  <2>5. SumFunction(g) = h[DOMAIN g]
    <3>1. \A s \in SUBSET V : \A x \in s : h[s] = g[x] + h[s \ {x}]
      BY <2>2, Zenon
    <3> QED
      BY <1>3, <2>1, <2>3, <3>1, SumIs
  <2> QED
    BY <2>3, <2>4, <2>5 DEF g
<1>5. ASSUME NEW class \in Classes(T)
      PROVE  /\ SumFunction([word \in DOMAIN p[class] |-> p[class][word][1]]) = priors[class][1] + m.vocabSize
             /\ \A word \in DOMAIN p[class] : p[class][word][2] = priors[class][1] + m.vocabSize
  <2> DEFINE q == p[class]
  <2>1. q = [word \in V |-> <<Count(T, class, word) + 1, Total(T, class) + Cardinality(V)>>]
    BY <1>2
  <2> HIDE DEF q
  <2>2. DOMAIN q = V
    BY <2>1
  <2>3. ASSUME NEW word \in V
        PROVE  q[word][1] = Count(T, class, word) + 1 /\ q[word][2] = Total(T, class) + Cardinality(V)
    <3>1. q[word] = <<Count(T, class, word) + 1, Total(T, class) + Cardinality(V)>>
      BY <2>1, Zenon
    <3> QED
      BY <3>1
  <2>4. [word \in DOMAIN q |-> q[word][1]] = [word \in V |-> Count(T, class, word) + 1]
    BY <2>2, <2>3, Zenon
  <2>5. SumFunction([word \in DOMAIN q |-> q[word][1]]) = Total(T, class) + Cardinality(V)
    BY <1>4, <2>4, Zenon
  <2>6. priors[class][1] + m.vocabSize = Total(T, class) + Cardinality(V)
    BY <1>1, <1>2, Zenon
  <2> QED
    BY <2>2, <2>3, <2>5, <2>6, Zenon DEF q
<1>6. [c \in DOMAIN priors |-> priors[c][1]] = [c \in Classes(T) |-> Total(T, c)]
  BY <1>1, <1>2, Zenon
<1>7. \A class \in DOMAIN priors : SumFunction([c \in DOMAIN priors |-> priors[c][1]]) = priors[class][2]
  BY <1>1, <1>2, <1>6, Zenon
<1>8. \A class \in DOMAIN p :
        /\ SumFunction([word \in DOMAIN p[class] |-> p[class][word][1]]) = priors[class][1] + m.vocabSize
        /\ \A word \in DOMAIN p[class] : p[class][word][2] = priors[class][1] + m.vocabSize
  BY <1>1, <1>5, Zenon
<1> QED
  BY <1>7, <1>8, Zenon DEF AddUp, m, p, priors

-----------------------------------------------------------------------------
(* Evaluate.                                                               *)

\* Without a tie there is one way to count.
LEMMA EvaluateOnce ==
  ASSUME NEW m, NEW test \in Seq(Record), IsFiniteSet(DOMAIN m.classPriors),
         \A i \in DOMAIN test : Cardinality(Predict(m, test[i].words)) = 1,
         NEW e \in Evaluate(m, test), NEW f \in Evaluate(m, test)
  PROVE  e = f
<1> DEFINE D == DOMAIN test
           may == [i \in D |-> Predict(m, test[i].words)]
           actual == Labelled(test, Spam)
           outcomes == {S \in SUBSET D : \A i \in D :
                          IF i \in S THEN Spam \in may[i] ELSE may[i] # {Spam}}
           M(pred) == [tp |-> Cardinality(actual \cap pred), fp |-> Cardinality(pred \ actual),
                       fn |-> Cardinality(actual \ pred), tn |-> Cardinality(D \ (actual \cup pred))]
<1>1. Evaluate(m, test) = {M(pred) : pred \in outcomes}
  BY Zenon DEF Evaluate
<1>2. PICK a \in outcomes : e = M(a)
  BY <1>1, Zenon
<1>3. PICK b \in outcomes : f = M(b)
  BY <1>1, Zenon
<1>4. ASSUME NEW i \in D PROVE \E c : may[i] = {c}
  <2> DEFINE classes == {class \in DOMAIN m.classPriors : m.classPriors[class][1] > 0}
             S == Predict(m, test[i].words)
  <2>1. IsFiniteSet(S)
    <3>1. IsFiniteSet(classes)
      <4>1. classes \in SUBSET DOMAIN m.classPriors
        OBVIOUS
      <4> HIDE DEF classes
      <4> QED
        BY <4>1, FS_Subset
    <3>2. CASE classes = {}
      <4>1. PICK none : none = ""
        OBVIOUS
      <4>2. S = {none}
        BY <3>2, <4>1, Zenon DEF Predict
      <4>3. IsFiniteSet({none})
        BY FS_Singleton
      <4> HIDE DEF S
      <4> QED
        BY <4>2, <4>3
    <3>3. CASE classes # {}
      <4>1. S = {c \in classes : \A d \in classes :
                   AtLeast(Score(m, c, test[i].words), Score(m, d, test[i].words))}
        BY <3>3, Zenon DEF Predict
      <4>2. S \in SUBSET classes
        BY <4>1
      <4> HIDE DEF S, classes
      <4> QED
        BY <3>1, <4>2, FS_Subset
    <3> QED
      BY <3>2, <3>3
  <2>2. Cardinality(S) = 1
    OBVIOUS
  <2> HIDE DEF S
  <2>3. \E c : S = {c}
    BY <2>1, <2>2, FS_Singleton
  <2>4. may[i] = S
    BY DEF S
  <2> QED
    BY <2>3, <2>4, Zenon
<1>5. \A i \in D : i \in a <=> i \in b
  <2> TAKE i \in D
  <2>1. PICK c : may[i] = {c}
    BY <1>4
  <2>2. /\ IF i \in a THEN Spam \in may[i] ELSE may[i] # {Spam}
        /\ IF i \in b THEN Spam \in may[i] ELSE may[i] # {Spam}
    OBVIOUS
  <2> HIDE DEF may, outcomes
  <2> QED
    BY <2>1, <2>2
<1>6. a \in SUBSET D /\ b \in SUBSET D
  OBVIOUS
<1>7. a = b
  BY <1>5, <1>6
<1> QED
  BY <1>2, <1>3, <1>7, Zenon

\* The same metrics pass the comparison, if any message was classified correctly.
LEMMA SamePasses ==
  ASSUME NEW m, NEW test \in Seq(Record), NEW e \in Evaluate(m, test), Accuracy(e)[1] > 0
  PROVE  Pass(e, e)
<1> DEFINE D == DOMAIN test
           actual == Labelled(test, Spam)
<1>1. PICK pred \in SUBSET D :
          e = [tp |-> Cardinality(actual \cap pred), fp |-> Cardinality(pred \ actual),
               fn |-> Cardinality(actual \ pred), tn |-> Cardinality(D \ (actual \cup pred))]
  BY DEF Evaluate
<1>2. IsFiniteSet(D)
  <2>1. D = 1..Len(test) /\ Len(test) \in Int /\ 1 \in Int
    BY LenProperties
  <2>2. IsFiniteSet(1..Len(test))
    BY <2>1, FS_Interval
  <2> QED
    BY <2>1, <2>2, Zenon
<1>3. /\ actual \cap pred \in SUBSET D /\ pred \ actual \in SUBSET D
      /\ actual \ pred \in SUBSET D /\ D \ (actual \cup pred) \in SUBSET D
  BY DEF Labelled
<1>4. e.tp \in Nat /\ e.fp \in Nat /\ e.fn \in Nat /\ e.tn \in Nat
  <2> HIDE DEF D, actual
  <2>1. \A S \in SUBSET D : Cardinality(S) \in Nat
    BY <1>2, FS_Subset, FS_CardinalityType
  <2> QED
    BY <1>1, <1>3, <2>1
<1> DEFINE acc == Accuracy(e)
<1>5. acc[1] \in Nat /\ acc[2] \in Nat
  BY <1>4 DEF Accuracy
<1>6. acc[1] # 0
  BY <1>5
<1> HIDE DEF acc
<1>7. 20 * acc[1] * acc[2] >= 19 * acc[1] * acc[2]
  <2>1. PICK x \in Nat, y \in Nat : x = acc[1] /\ y = acc[2]
    BY <1>5
  <2>2. 20 * x * y >= 19 * x * y
    <3>1. (20 * x) \in Nat /\ (19 * x) \in Nat /\ 19 * x <= 20 * x
      OBVIOUS
    <3>2. (19 * x) * y <= (20 * x) * y
      BY <3>1, Times
    <3> QED
      BY <3>1, <3>2
  <2> QED
    BY <2>1, <2>2
<1> QED
  BY <1>6, <1>7 DEF Pass, acc

-----------------------------------------------------------------------------
(* The invariant, stage by stage.                                          *)

Splits == \E order \in Bijection(DOMAIN rows, DOMAIN rows) :
            split = SplitTrainTest(rows, order, RatioNum, RatioDen)
Done   == {"baseline", "write", "train", "evaluate", "compare"}   \* split
Update(w) ==
  LET counts == CountLocal(Shard(split.train, n, w))
  IN  [worker |-> w, wordCounts |-> ToPBWordCounts(counts.wordCounts), classTotals |-> counts.classTotals]

DataInv ==
  /\ file \in Files /\ n \in Workers /\ stage \in Stages
  /\ rows \in Seq(Record)
  /\ split = None \/ Splits
  /\ stage \in {"parse", "load", "split"} => split = None
  /\ stage \in Done => Splits

DiskInv ==
  /\ disk \in Seq(Seq(Line)) /\ Len(disk) <= n
  /\ \A w \in 1..Len(disk) : disk[w] = Save(Shard(split.train, n, w))
  /\ stage \in {"parse", "load", "split", "baseline"} => disk = <<>>
  /\ stage \in {"train", "evaluate", "compare"} => Len(disk) = n

ReceivedInv ==
  IF stage \in {"train", "evaluate", "compare"}
  THEN /\ received \in Seq({Update(w) : w \in 1..n})
       /\ \A j, k \in DOMAIN received : received[j].worker = received[k].worker => j = k
  ELSE received = <<>>

ModelInv ==
  /\ stage \in Done \ {"baseline"} => baseline \in Evaluate(ModelOf(split.train), split.test)
  /\ stage \notin {"evaluate", "compare"} => model = None
  /\ stage \in {"evaluate", "compare"} =>
       IF n = 0 THEN DOMAIN model.wordProbs = {} /\ DOMAIN model.classPriors = {}
       ELSE model = ModelOf(split.train)
  /\ stage = "compare" => metrics \in Evaluate(model, split.test)

TrainingInv == DataInv /\ DiskInv /\ ReceivedInv /\ ModelInv

\* The number of workers is a natural number.
LEMMA WorkersNat == n \in Workers => n \in Nat
BY TrainingAssumption DEF TrainingAssumption

\* What SplitFacts says, in a state after Split.
LEMMA SplitType ==
  ASSUME rows \in Seq(Record), Splits
  PROVE  /\ split.train \in Seq(Record) /\ split.test \in Seq(Record)
         /\ Len(split.train) + Len(split.test) = Len(rows)
         /\ \A row : Occurs(row, rows) = Occurs(row, split.train) + Occurs(row, split.test)
BY SplitFacts DEF Splits

\* The invariant holds when the program starts.
LEMMA InitHolds == Init => TrainingInv
<1> SUFFICES ASSUME Init PROVE TrainingInv
  OBVIOUS
<1> USE DEF Init
<1>1. DataInv
  BY DEF DataInv, Stages, Done
<1>2. DiskInv
  <2>1. n \in Nat /\ <<>> \in Seq(Seq(Line)) /\ Len(<<>>) = 0
    BY WorkersNat
  <2> QED
    BY <2>1 DEF DiskInv
<1>3. ReceivedInv
  BY DEF ReceivedInv
<1>4. ModelInv
  BY DEF ModelInv, Done
<1> QED
  BY <1>1, <1>2, <1>3, <1>4 DEF TrainingInv

\* What the steps after Split leave alone.
LEMMA SameData ==
  ASSUME UNCHANGED <<file, n, rows, split>>
  PROVE  (Splits <=> Splits') /\ \A w : Update(w) = Update(w)'
BY DEF Splits, Update

\* DataInv is kept by the steps that leave file and split alone.
LEMMA DataStays ==
  ASSUME DataInv, UNCHANGED <<file, n, rows, split>>, stage' \in Stages,
         stage' \in {"parse", "load", "split"} => stage \in {"parse", "load", "split"},
         stage' \in Done => stage \in Done
  PROVE  DataInv'
<1>1. Splits <=> Splits'
  BY SameData
<1> QED
  BY <1>1 DEF DataInv, Done

\* DiskInv is kept by the steps that write no partition.
LEMMA DiskStays ==
  ASSUME DiskInv, UNCHANGED <<n, split, disk>>,
         stage' \in {"parse", "load", "split", "baseline"} => stage \in {"parse", "load", "split", "baseline"},
         stage' \in {"train", "evaluate", "compare"} => stage \in {"train", "evaluate", "compare"}
  PROVE  DiskInv'
BY DEF DiskInv

\* ReceivedInv is kept by the steps that receive nothing.
LEMMA ReceivedStays ==
  ASSUME ReceivedInv, UNCHANGED <<file, n, rows, split, received>>,
         stage' \in {"train", "evaluate", "compare"} <=> stage \in {"train", "evaluate", "compare"}
  PROVE  ReceivedInv'
<1>1. \A w : Update(w) = Update(w)'
  BY SameData
<1> QED
  BY <1>1, Zenon DEF ReceivedInv

\* Each error path that ends the program.
LEMMA DieHolds ==
  ASSUME TrainingInv, Die, stage \in {"parse", "load", "write"}
  PROVE  TrainingInv'
<1> USE DEF Die, TrainingInv
<1>1. DataInv'
  BY DataStays DEF Stages, Done
<1>2. DiskInv'
  BY DiskStays
<1>3. ReceivedInv'
  BY DEF ReceivedInv
<1>4. ModelInv'
  BY DEF ModelInv, Done
<1> QED
  BY <1>1, <1>2, <1>3, <1>4

\* ParseWorkers and ParseFlags.
LEMMA ParseHolds ==
  ASSUME TrainingInv, ParseWorkers \/ ParseFlags
  PROVE  TrainingInv'
<1>1. CASE Die /\ stage = "parse"
  BY <1>1, DieHolds
<1>2. CASE /\ stage = "parse" /\ stage' = "load"
           /\ UNCHANGED <<file, n, rows, split, baseline, disk, received, model, metrics>>
  <2> USE <1>2 DEF TrainingInv
  <2>1. DataInv'
    BY DataStays DEF Stages, Done
  <2>2. DiskInv'
    BY DiskStays
  <2>3. ReceivedInv'
    BY DEF ReceivedInv
  <2>4. ModelInv'
    BY DEF ModelInv, Done
  <2> QED
    BY <2>1, <2>2, <2>3, <2>4
<1> QED
  BY <1>1, <1>2 DEF ParseWorkers, ParseFlags

\* Load gives records, or the program ends.
LEMMA LoadHolds ==
  ASSUME TrainingInv, LoadRecords
  PROVE  TrainingInv'
<1>1. CASE Load(file) = Failed
  BY <1>1, DieHolds DEF LoadRecords
<1>2. CASE Load(file) # Failed
  <2> USE DEF TrainingInv
  <2>0. /\ stage = "load" /\ stage' = "split" /\ rows' = Load(file)
        /\ UNCHANGED <<file, n, split, baseline, disk, received, model, metrics>>
    BY <1>2 DEF LoadRecords
  <2>1. DataInv'
    <3>1. file \in {NoFile} \cup Seq(Line)
      BY TrainingAssumption DEF DataInv, TrainingAssumption
    <3>2. rows' \in Seq(Record)
      BY <1>2, <2>0, <3>1, LoadType
    <3> QED
      BY <2>0, <3>2 DEF DataInv, Stages, Done
  <2>2. DiskInv'
    BY <2>0, DiskStays
  <2>3. ReceivedInv'
    BY <2>0 DEF ReceivedInv
  <2>4. ModelInv'
    BY <2>0 DEF ModelInv, Done
  <2> QED
    BY <2>1, <2>2, <2>3, <2>4
<1> QED
  BY <1>1, <1>2

\* Split.
LEMMA SplitHolds ==
  ASSUME TrainingInv, Split
  PROVE  TrainingInv'
<1> USE DEF TrainingInv
<1>0. /\ stage = "split" /\ stage' = "baseline"
      /\ UNCHANGED <<file, n, rows, baseline, disk, received, model, metrics>>
  BY DEF Split
<1>1. DataInv'
  <2>1. Splits'
    BY <1>0 DEF Split, Splits
  <2> QED
    BY <1>0, <2>1 DEF DataInv, Stages, Done
<1>2. DiskInv'
  <2>1. disk = <<>> /\ Len(disk) <= n /\ disk \in Seq(Seq(Line))
    BY <1>0 DEF DiskInv
  <2>2. disk' = <<>> /\ n' = n /\ Len(disk') = 0
    BY <1>0, <2>1
  <2>3. \A w \in 1..Len(disk') : FALSE
    BY <2>2
  <2> QED
    BY <1>0, <2>1, <2>2, <2>3 DEF DiskInv
<1>3. ReceivedInv'
  BY <1>0 DEF ReceivedInv
<1>4. ModelInv'
  BY <1>0 DEF ModelInv, Done
<1> QED
  BY <1>1, <1>2, <1>3, <1>4

\* The baseline is that of the closed form.
LEMMA BaselineHolds ==
  ASSUME TrainingInv, Baseline
  PROVE  TrainingInv'
<1> USE DEF TrainingInv
<1>0. /\ stage = "baseline" /\ stage' = "write"
      /\ UNCHANGED <<file, n, rows, split, disk, received, model, metrics>>
      /\ baseline' \in Evaluate(Aggregate(<<CountLocal(split.train)>>), split.test)
  BY DEF Baseline
<1>1. DataInv'
  BY <1>0, DataStays DEF Stages, Done
<1>2. DiskInv'
  BY <1>0, DiskStays
<1>3. ReceivedInv'
  BY <1>0 DEF ReceivedInv
<1>4. ModelInv'
  <2>1. split.train \in Seq(Record)
    BY <1>0, SplitType DEF DataInv, Done
  <2>2. baseline' \in Evaluate(ModelOf(split.train), split.test)
    BY <1>0, <2>1, OneBlock, Zenon
  <2> QED
    BY <1>0, <2>2 DEF ModelInv, Done
<1> QED
  BY <1>1, <1>2, <1>3, <1>4

\* Save writes lines.
LEMMA SaveType ==
  ASSUME NEW rs \in Seq(Record)
  PROVE  Save(rs) \in Seq(Line)
<1>1. DOMAIN rs = 1..Len(rs) /\ Len(rs) \in Nat /\ \A i \in 1..Len(rs) : RowLine(rs[i]) \in Line
  BY LineFacts
<1>2. Save(rs) \in [1..Len(rs) -> Line]
  BY <1>1 DEF Save
<1> QED
  BY <1>1, <1>2

\* The files written are the first shards, in order.
LEMMA WriteHolds ==
  ASSUME TrainingInv, WritePartition
  PROVE  TrainingInv'
<1> USE DEF TrainingInv
<1>0. stage = "write" /\ n \in Nat /\ split.train \in Seq(Record)
  BY WorkersNat, SplitType DEF WritePartition, DataInv, Done
<1>1. CASE Die
  BY <1>0, <1>1, DieHolds
<1>2. CASE /\ ~(Len(disk) < n) /\ stage' = "train"
           /\ UNCHANGED <<file, n, rows, split, baseline, disk, received, model, metrics>>
  <2>1. DataInv'
    BY <1>0, <1>2, DataStays DEF Stages, Done
  <2>2. DiskInv'
    <3>1. Len(disk) = n
      BY <1>0, <1>2 DEF DiskInv
    <3> QED
      BY <1>0, <1>2, <3>1 DEF DiskInv
  <2>3. ReceivedInv'
    <3>1. received' = <<>>
      BY <1>0, <1>2 DEF ReceivedInv
    <3>2. <<>> \in Seq({Update(w)' : w \in 1..n'}) /\ DOMAIN <<>> = {}
      OBVIOUS
    <3> QED
      BY <3>1, <3>2 DEF ReceivedInv
  <2>4. ModelInv'
    BY <1>0, <1>2 DEF ModelInv, Done
  <2> QED
    BY <2>1, <2>2, <2>3, <2>4
<1>3. CASE /\ Len(disk) < n
           /\ disk' = Append(disk, Save(Partition(split.train, n)[Len(disk) + 1]))
           /\ UNCHANGED <<file, n, stage, rows, split, baseline, received, model, metrics>>
  <2>1. DataInv'
    BY <1>0, <1>3, DataStays DEF DataInv
  <2>2. DiskInv'
    <3> DEFINE k == Len(disk) + 1
               x == Save(Partition(split.train, n)[k])
    <3>1. disk \in Seq(Seq(Line)) /\ Len(disk) \in Nat
      BY DEF DiskInv
    <3>2. k \in 1..n /\ n \in Nat \ {0} /\ Len(split.train) \in Nat
      BY <1>0, <1>3, <3>1
    <3> HIDE DEF k
    <3>3. Partition(split.train, n)[k] = Shard(split.train, n, k)
      <4>1. Partition(split.train, n) = [i \in 1..n |-> Shard(split.train, n, i)]
        BY <1>0, <3>2, PartitionIs
      <4> QED
        BY <3>2, <4>1, Zenon
    <3>4. x = Save(Shard(split.train, n, k)) /\ x \in Seq(Line)
      <4>1. Shard(split.train, n, k) \in Seq(Record)
        BY <1>0, <3>2, ShardFacts
      <4> QED
        BY <3>3, <4>1, SaveType
    <3> HIDE DEF x
    <3>5. disk' = Append(disk, x)
      BY <1>3 DEF k, x
    <3>6. /\ disk' \in Seq(Seq(Line)) /\ Len(disk') = k
          /\ \A i \in 1..Len(disk) : disk'[i] = disk[i]
          /\ disk'[k] = x
      BY <3>1, <3>4, <3>5, AppendProperties DEF k
    <3>7. ASSUME NEW w \in 1..Len(disk') PROVE disk'[w] = Save(Shard(split.train, n, w))
      <4>1. CASE w = k
        BY <3>4, <3>6, <4>1
      <4>2. CASE w # k
        <5>1. w \in 1..Len(disk)
          BY <3>1, <3>6, <4>2 DEF k
        <5> QED
          BY <3>6, <5>1 DEF DiskInv
      <4> QED
        BY <4>1, <4>2
    <3>8. Len(disk') <= n
      BY <3>2, <3>6
    <3> QED
      BY <1>0, <1>3, <3>6, <3>7, <3>8 DEF DiskInv
  <2>3. ReceivedInv'
    BY <1>3, ReceivedStays
  <2>4. ModelInv'
    BY <1>0, <1>3 DEF ModelInv, Done
  <2> QED
    BY <2>1, <2>2, <2>3, <2>4
<1> QED
  BY <1>1, <1>2, <1>3 DEF WritePartition

\* A worker reads its shard back, and sends the shard's counts.
LEMMA UpdateHolds ==
  ASSUME TrainingInv, NEW w \in 1..n, WorkerUpdate(w)
  PROVE  TrainingInv'
<1> USE DEF TrainingInv
<1>0. /\ stage = "train" /\ stage' = "train" /\ \A k \in DOMAIN received : received[k].worker # w
      /\ UNCHANGED <<file, n, stage, rows, split, baseline, disk, model, metrics>>
      /\ n \in Nat /\ split.train \in Seq(Record)
  BY WorkersNat, SplitType DEF WorkerUpdate, DataInv, Done
<1>1. DataInv'
  BY <1>0, DataStays DEF DataInv
<1>2. DiskInv'
  BY <1>0, DiskStays
<1>3. ReceivedInv'
  <2> DEFINE U == {Update(v) : v \in 1..n}
  <2>1. received' = Append(received, Update(w))
    <3>1. disk[w] = Save(Shard(split.train, n, w))
      BY <1>0 DEF DiskInv
    <3>2. Shard(split.train, n, w) \in Seq(Record)
      <4>1. n \in Nat \ {0}
        BY <1>0
      <4> QED
        BY <1>0, <4>1, ShardFacts
    <3>3. Load(disk[w]) = Shard(split.train, n, w)
      BY <3>1, <3>2, LoadSave
    <3> QED
      BY <3>3 DEF WorkerUpdate, Update
  <2>2. received \in Seq(U) /\ \A j, k \in DOMAIN received : received[j].worker = received[k].worker => j = k
    BY <1>0, Zenon DEF ReceivedInv
  <2>3. Update(w) \in U /\ Update(w).worker = w
    BY DEF Update
  <2> HIDE DEF U
  <2> DEFINE x == Update(w)
             r == received'
             k == Len(received) + 1
  <2> HIDE DEF x
  <2>4. x \in U /\ x.worker = w /\ r = Append(received, x)
    BY <2>1, <2>3 DEF x
  <2>5. Len(received) \in Nat /\ DOMAIN received = 1..Len(received)
    BY <2>2
  <2>6. /\ r \in Seq(U) /\ Len(r) = k
        /\ \A i \in 1..Len(received) : r[i] = received[i]
        /\ r[k] = x
    BY <2>2, <2>4, AppendProperties
  <2>7. DOMAIN r = 1..k
    BY <2>6, LenProperties
  <2> HIDE DEF r
  <2>8. ASSUME NEW i \in DOMAIN r, NEW j \in DOMAIN r, r[i].worker = r[j].worker PROVE i = j
    <3>1. i \in 1..Len(received) \/ i = k
      BY <2>5, <2>7
    <3>2. j \in 1..Len(received) \/ j = k
      BY <2>5, <2>7
    <3>3. \A a \in 1..Len(received) : r[a] = received[a] /\ received[a].worker # w
      BY <1>0, <2>5, <2>6
    <3>4. r[k].worker = w
      BY <2>4, <2>6
    <3> HIDE DEF k
    <3> QED
      BY <2>2, <2>5, <2>8, <3>1, <3>2, <3>3, <3>4
  <2>9. {Update(v)' : v \in 1..n'} = U
    BY <1>0, SameData, Zenon DEF U
  <2> QED
    BY <1>0, <2>6, <2>8, <2>9, Zenon DEF ReceivedInv, r
<1>4. ModelInv'
  BY <1>0 DEF ModelInv, Done
<1> QED
  BY <1>1, <1>2, <1>3, <1>4

\* EvaluateModel.
LEMMA EvaluateHolds ==
  ASSUME TrainingInv, EvaluateModel
  PROVE  TrainingInv'
<1> USE DEF TrainingInv
<1>0. /\ stage = "evaluate" /\ stage' = "compare" /\ metrics' \in Evaluate(model, split.test)
      /\ UNCHANGED <<file, n, rows, split, baseline, disk, received, model>>
  BY DEF EvaluateModel
<1>1. DataInv'
  BY <1>0, DataStays DEF Stages, Done
<1>2. DiskInv'
  BY <1>0, DiskStays
<1>3. ReceivedInv'
  BY <1>0, ReceivedStays
<1>4. ModelInv'
  BY <1>0 DEF ModelInv, Done
<1> QED
  BY <1>1, <1>2, <1>3, <1>4

\* The workers of n updates are the n workers, each once.
LEMMA AllWorkers ==
  ASSUME DataInv, ReceivedInv, stage = "train", Len(received) = n
  PROVE  /\ DOMAIN received = 1..n /\ IsFiniteSet(1..n) /\ n \in Nat
         /\ [k \in 1..n |-> received[k].worker] \in Bijection(1..n, 1..n)
         /\ \A k \in 1..n : received[k] = Update(received[k].worker)
<1> DEFINE U == {Update(v) : v \in 1..n}
<1>1. n \in Nat
  BY WorkersNat DEF DataInv
<1>2. received \in Seq(U) /\ \A j, k \in DOMAIN received : received[j].worker = received[k].worker => j = k
  BY Zenon DEF ReceivedInv
<1> HIDE DEF U
<1>3. DOMAIN received = 1..n /\ \A k \in 1..n : received[k] \in U
  BY <1>2
<1>4. \A u \in U : u.worker \in 1..n /\ u = Update(u.worker)
  <2>1. \A v : Update(v).worker = v
    BY DEF Update
  <2> QED
    BY <2>1 DEF U
<1> DEFINE N == 1..n
           w == [k \in N |-> received[k].worker]
<1>5. w \in [N -> N] /\ \A k \in N : w[k] = received[k].worker
  BY <1>3, <1>4
<1> HIDE DEF w
<1>6. \A a, b \in N : w[a] = w[b] => a = b
  BY <1>2, <1>3, <1>5
<1>7. IsFiniteSet(N)
  BY <1>1, FS_Interval
<1> HIDE DEF N
<1>8. w \in Injection(N, N)
  BY <1>5, <1>6, Fun_IsInj
<1>9. w \in Surjection(N, N)
  BY <1>7, <1>8, FS_Injection
<1>10. w \in Bijection(N, N)
  BY <1>8, <1>9 DEF Bijection
<1> QED
  BY <1>1, <1>3, <1>4, <1>7, <1>10, Zenon DEF N, w

\* With an update of each worker, Aggregate makes the model of the training set.
LEMMA AggregateHolds ==
  ASSUME TrainingInv, AggregateUpdates
  PROVE  TrainingInv'
<1> USE DEF TrainingInv
<1> DEFINE us == [k \in DOMAIN received |->
                    [wordCounts  |-> FromPBWordCounts(received[k].wordCounts),
                     classTotals |-> received[k].classTotals]]
<1>0. /\ stage = "train" /\ stage' = "evaluate" /\ Len(received) = n
      /\ model' = Sent(Aggregate(us))
      /\ UNCHANGED <<file, n, rows, split, baseline, disk, received, metrics>>
  BY Zenon DEF AggregateUpdates, Sent
<1>00. n \in Nat /\ split.train \in Seq(Record)
  BY <1>0, WorkersNat, SplitType DEF DataInv, Done
<1>1. DataInv'
  BY <1>0, DataStays DEF Stages, Done
<1>2. DiskInv'
  BY <1>0, DiskStays
<1>3. ReceivedInv'
  BY <1>0, ReceivedStays
<1>4. CASE n = 0
  <2>1. DOMAIN received = {}
    <3>1. DOMAIN received = 1..n
      BY <1>0, AllWorkers
    <3> QED
      BY <1>4, <3>1
  <2>2. us = <<>>
    BY <2>1
  <2> HIDE DEF us
  <2>3. DOMAIN model'.wordProbs = {} /\ DOMAIN model'.classPriors = {}
    BY <1>0, <2>2, EmptyModel, Zenon
  <2>4. ModelInv'
    BY <1>0, <1>4, <2>3 DEF ModelInv, Done
  <2> QED
    BY <1>1, <1>2, <1>3, <2>4
<1>5. CASE n # 0
  <2> DEFINE T == split.train
             D == 1..n
             w == [k \in D |-> received[k].worker]
             R == [k \in D |-> Shard(T, n, w[k])]
             o == [k \in D |-> Start(Len(T), n, w[k])]
  <2>1. /\ DOMAIN received = D /\ IsFiniteSet(D) /\ w \in Bijection(D, 1..n)
        /\ \A k \in D : received[k] = Update(received[k].worker)
    BY <1>0, AllWorkers, Zenon
  <2>2. DOMAIN us = D
    BY <2>1
  <2>3. ASSUME NEW k \in D PROVE us[k] = CountLocal(R[k])
    <3> DEFINE c == CountLocal(Shard(T, n, w[k]))
    <3>1. received[k].wordCounts = ToPBWordCounts(c.wordCounts) /\ received[k].classTotals = c.classTotals
      BY <2>1 DEF Update
    <3>2. FromPBWordCounts(received[k].wordCounts) = c.wordCounts
      BY <3>1, CountsArrive, Zenon
    <3>3. us[k] = [wordCounts |-> c.wordCounts, classTotals |-> c.classTotals]
      BY <2>1, <3>1, <3>2, Zenon
    <3>4. c = [wordCounts |-> c.wordCounts, classTotals |-> c.classTotals]
      BY DEF CountLocal
    <3>5. R[k] = Shard(T, n, w[k])
      OBVIOUS
    <3> QED
      BY <3>3, <3>4, <3>5, Zenon
  <2>4. \A k \in D : us[k] = CountLocal(R[k])
    BY <2>3, Zenon
  <2>5. \A k \in D : R[k] = Shard(T, n, w[k]) /\ o[k] = Start(Len(T), n, w[k])
    BY Zenon
  <2> HIDE DEF us, R, o, w, D
  <2>6. Blocks(T, D, R, o)
    <3>1. n \in Nat \ {0}
      BY <1>00, <1>5
    <3> QED
      BY <1>00, <2>1, <2>5, <3>1, ShardBlocks
  <2>7. Aggregate(us) = ModelOf(T)
    BY <2>2, <2>4, <2>6, AggregateIs
  <2>8. model' = ModelOf(split.train)
    BY <1>00, <1>0, <2>7, ModelArrives, Zenon
  <2>9. ModelInv'
    BY <1>0, <1>5, <2>8 DEF ModelInv, Done
  <2> QED
    BY <1>1, <1>2, <1>3, <2>9
<1> QED
  BY <1>4, <1>5

\* The invariant holds when nothing changes.
LEMMA StutterHolds ==
  ASSUME TrainingInv, UNCHANGED vars
  PROVE  TrainingInv'
<1> USE DEF TrainingInv, vars
<1>1. DataInv'
  BY DataStays DEF DataInv
<1>2. DiskInv'
  BY DiskStays
<1>3. ReceivedInv'
  BY ReceivedStays
<1>4. ModelInv'
  BY DEF ModelInv
<1> QED
  BY <1>1, <1>2, <1>3, <1>4

\* TrainingInv, the inductive invariant: what each stage of the program leaves
\* for the next.
THEOREM Invariant == Spec => []TrainingInv
<1>1. Init => TrainingInv
  BY InitHolds
<1>2. TrainingInv /\ [Next]_vars => TrainingInv'
  <2> SUFFICES ASSUME TrainingInv, [Next]_vars PROVE TrainingInv'
    OBVIOUS
  <2>1. CASE ParseWorkers \/ ParseFlags
    BY <2>1, ParseHolds
  <2>2. CASE LoadRecords
    BY <2>2, LoadHolds
  <2>3. CASE Split
    BY <2>3, SplitHolds
  <2>4. CASE Baseline
    BY <2>4, BaselineHolds
  <2>5. CASE WritePartition
    BY <2>5, WriteHolds
  <2>6. CASE \E w \in 1..n : WorkerUpdate(w)
    BY <2>6, UpdateHolds
  <2>7. CASE AggregateUpdates
    BY <2>7, AggregateHolds
  <2>8. CASE EvaluateModel
    BY <2>8, EvaluateHolds
  <2>9. CASE UNCHANGED vars
    BY <2>9, StutterHolds
  <2> QED
    BY <2>1, <2>2, <2>3, <2>4, <2>5, <2>6, <2>7, <2>8, <2>9 DEF Next
<1> QED
  BY <1>1, <1>2, PTL DEF Spec

-----------------------------------------------------------------------------
\* The type invariant: as many files and updates as workers at most, and a
\* training and a test set that have all messages between them (SplitTrainTest).
THEOREM TypeCorrect == Spec => []TypeOK
<1>1. TrainingInv => TypeOK
  <2> SUFFICES ASSUME TrainingInv PROVE TypeOK
    OBVIOUS
  <2> USE DEF TrainingInv
  <2>1. n \in Nat
    BY WorkersNat DEF DataInv
  <2>2. Len(received) <= n
    <3>1. CASE stage \in {"train", "evaluate", "compare"}
      <4> DEFINE U == {Update(v) : v \in 1..n}
      <4>1. received \in Seq(U) /\ \A j, k \in DOMAIN received : received[j].worker = received[k].worker => j = k
        BY <3>1, Zenon DEF ReceivedInv
      <4>2. \A u \in U : u.worker \in 1..n
        BY DEF Update
      <4> HIDE DEF U
      <4>3. Len(received) \in Nat /\ DOMAIN received = 1..Len(received) /\ \A k \in 1..Len(received) : received[k] \in U
        BY <4>1
      <4> DEFINE w == [k \in 1..Len(received) |-> received[k].worker]
      <4>4. w \in [1..Len(received) -> 1..n]
        BY <4>2, <4>3
      <4>5. \A j, k \in 1..Len(received) : w[j] = w[k] => j = k
        BY <4>1, <4>3
      <4> HIDE DEF w
      <4>6. w \in Injection(1..Len(received), 1..n)
        BY <4>4, <4>5, Fun_IsInj
      <4>7. ExistsInjection(1..Len(received), 1..n)
        BY <4>6, Fun_ExistsInj
      <4> QED
        BY <2>1, <4>3, <4>7, Fun_NatInjLeq
    <3>2. CASE stage \notin {"train", "evaluate", "compare"}
      <4>1. received = <<>>
        BY <3>2 DEF ReceivedInv
      <4>2. Len(received) = 0
        BY <4>1
      <4> QED
        BY <2>1, <4>2
    <3> QED
      BY <3>1, <3>2
  <2>3. split # None => Len(split.train) + Len(split.test) = Len(rows)
    BY SplitType DEF DataInv
  <2> QED
    BY <2>2, <2>3 DEF TypeOK, DataInv, DiskInv
<1> QED
  BY <1>1, Invariant, PTL

\* Each message is used once: in the training set or in the test set, and each
\* training message in the file of one worker, read back as it was written
\* (SplitTrainTest, Partition, Save, Load).
THEOREM EveryRowOnceHolds == Spec => []EveryRowOnce
<1>1. TrainingInv => EveryRowOnce
  <2> SUFFICES ASSUME TrainingInv PROVE EveryRowOnce
    OBVIOUS
  <2> USE DEF TrainingInv
  <2>1. split # None => \A row : Occurs(row, rows) = Occurs(row, split.train) + Occurs(row, split.test)
    BY SplitType DEF DataInv
  <2>2. ASSUME stage \in {"train", "evaluate", "compare"}, n > 0
        PROVE  /\ FlattenSeq(Shards) = split.train
               /\ \A v, w \in 1..n : Len(Shards[v]) <= Len(Shards[w]) + 1
    <3> DEFINE T == split.train
    <3>1. n \in Nat \ {0} /\ T \in Seq(Record) /\ Len(T) \in Nat
      <4>1. n \in Nat \ {0}
        BY <2>2, WorkersNat DEF DataInv
      <4>2. T \in Seq(Record)
        BY <2>2, SplitType DEF DataInv, Done
      <4> QED
        BY <4>1, <4>2
    <3>2. DOMAIN disk = 1..n /\ \A w \in 1..n : disk[w] = Save(Shard(T, n, w))
      BY <2>2 DEF DiskInv
    <3>3. \A w \in 1..n : Load(disk[w]) = Shard(T, n, w)
      <4> HIDE DEF T
      <4> TAKE w \in 1..n
      <4>1. Shard(T, n, w) \in Seq(Record)
        BY <3>1, ShardFacts
      <4> QED
        BY <3>2, <4>1, LoadSave
    <3>4. Shards = [w \in 1..n |-> Shard(T, n, w)]
      BY <3>2, <3>3, Zenon DEF Shards
    <3>5. Shards = Partition(T, n)
      BY <3>1, <3>4, PartitionIs
    <3> HIDE DEF T
    <3>6. FlattenSeq(Shards) = T
      BY <3>1, <3>5, FlattenPartition
    <3>7. \A w \in 1..n : Len(Shards[w]) = Size(Len(T), n, w)
      BY <3>1, <3>4, ShardFacts
    <3>8. \A v, w \in 1..n : Len(Shards[v]) <= Len(Shards[w]) + 1
      <4>1. \A v, w \in 1..n : Size(Len(T), n, v) <= Size(Len(T), n, w) + 1
        BY <3>1, Shares
      <4> QED
        BY <3>7, <4>1, Zenon
    <3> QED
      BY <3>6, <3>8 DEF T
  <2> QED
    BY <2>1, <2>2 DEF EveryRowOnce
<1> QED
  BY <1>1, Invariant, PTL

\* The model the coordinator evaluates is the one centralized training makes,
\* however the messages are partitioned and whatever the order of the updates
\* ("parameters are additive", Aggregate).
THEOREM FederatedIsCentralHolds == Spec => []FederatedIsCentral
<1>1. TrainingInv => FederatedIsCentral
  <2> SUFFICES ASSUME TrainingInv, model # None, n > 0
               PROVE  model = Aggregate(<<CountLocal(split.train)>>)
    BY DEF FederatedIsCentral
  <2> USE DEF TrainingInv
  <2>1. stage \in {"evaluate", "compare"}
    BY DEF ModelInv
  <2>2. n # 0
    BY WorkersNat DEF DataInv
  <2>3. model = ModelOf(split.train)
    BY <2>1, <2>2 DEF ModelInv
  <2>4. split.train \in Seq(Record)
    BY <2>1, SplitType DEF DataInv, Done
  <2> QED
    BY <2>3, <2>4, OneBlock, Zenon
<1> QED
  BY <1>1, Invariant, PTL

\* In the model the coordinator evaluates, the smoothed probabilities of each
\* class add up to one, and so do the priors (Aggregate, GlobalModel).
THEOREM DistributionsHold == Spec => []Distributions
<1>1. TrainingInv => Distributions
  <2> SUFFICES ASSUME TrainingInv, model # None PROVE AddUp(model)
    BY Zenon DEF Distributions, AddUp
  <2> USE DEF TrainingInv
  <2>1. stage \in {"evaluate", "compare"}
    BY DEF ModelInv
  <2>2. CASE n = 0
    <3>1. DOMAIN model.wordProbs = {} /\ DOMAIN model.classPriors = {}
      BY <2>1, <2>2 DEF ModelInv
    <3> QED
      BY <3>1 DEF AddUp
  <2>3. CASE n # 0
    <3>1. model = ModelOf(split.train)
      BY <2>1, <2>3 DEF ModelInv
    <3>2. split.train \in Seq(Record)
      BY <2>1, SplitType DEF DataInv, Done
    <3> QED
      BY <3>1, <3>2, ModelAddsUp, Zenon
  <2> QED
    BY <2>2, <2>3
<1> QED
  BY <1>1, Invariant, PTL

\* The comparison of federated and baseline accuracy: the same metrics, and PASS
\* if any message is classified correctly, unless Predict meets a tie.
THEOREM SameVerdictUnlessTiedHolds == Spec => []SameVerdictUnlessTied
<1>1. TrainingInv => SameVerdictUnlessTied
  <2> SUFFICES ASSUME TrainingInv, stage = "compare", n > 0,
                      \A i \in DOMAIN split.test : Cardinality(Predict(model, split.test[i].words)) = 1
               PROVE  metrics = baseline /\ (Accuracy(baseline)[1] > 0 => Pass(metrics, baseline))
    BY Zenon DEF SameVerdictUnlessTied
  <2> USE DEF TrainingInv
  <2>1. split.train \in Seq(Record) /\ split.test \in Seq(Record) /\ n # 0
    BY SplitType, WorkersNat DEF DataInv, Done
  <2>2. model = ModelOf(split.train) /\ metrics \in Evaluate(model, split.test)
    BY <2>1 DEF ModelInv
  <2>3. baseline \in Evaluate(model, split.test)
    BY <2>2 DEF ModelInv, Done
  <2>4. IsFiniteSet(DOMAIN model.classPriors)
    <3>1. DOMAIN model.classPriors = Classes(split.train)
      BY <2>2 DEF ModelOf
    <3> QED
      BY <2>1, <3>1, TextWordsFinite
  <2>5. metrics = baseline
    BY <2>1, <2>2, <2>3, <2>4, EvaluateOnce
  <2>6. Accuracy(baseline)[1] > 0 => Pass(baseline, baseline)
    BY <2>1, <2>3, SamePasses
  <2> QED
    BY <2>5, <2>6, Zenon
<1> QED
  BY <1>1, Invariant, PTL
=============================================================================
