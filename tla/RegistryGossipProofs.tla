------------------------ MODULE RegistryGossipProofs ------------------------
(***************************************************************************)
(* The merge laws of the G-Counter, and the safety of replicas that gossip,*)
(* for any nodes, registries and bounds.                                   *)
(***************************************************************************)
EXTENDS RegistryGossip, FiniteSetTheorems, TLAPS

\* Messages in flight are about rounds that were completed.
ReportsInv == \A n \in Nodes : reports[n] \subseteq 1..done[n]

GossipInv == TypeOK /\ NeverAhead /\ ReportsInv /\ EachCountedOnce

-----------------------------------------------------------------------------
\* GCounter.Merge: merging is a join. It yields a counter, in either order
\* and however grouped the same, above both, and repeating it adds nothing.
THEOREM MergeLaws ==
  ASSUME NEW c \in Counter, NEW d \in Counter, NEW e \in Counter
  PROVE  /\ Merge(c, d) \in Counter
         /\ Merge(c, d) = Merge(d, c)
         /\ Merge(Merge(c, d), e) = Merge(c, Merge(d, e))
         /\ Merge(c, c) = c
         /\ Below(c, Merge(c, d)) /\ Below(d, Merge(c, d))
         /\ Below(c, e) /\ Below(d, e) => Below(Merge(c, d), e)
<1> USE DEF Counter
<1>1. Merge(c, d) \in Counter /\ Merge(d, c) \in Counter /\ Merge(d, e) \in Counter
  BY SMT DEF Merge
<1>2. Merge(c, d) = Merge(d, c)
  BY SMT DEF Merge
<1>3. Merge(Merge(c, d), e) = Merge(c, Merge(d, e))
  BY SMT DEF Merge
<1>4. Merge(c, c) = c
  BY SMT DEF Merge
<1>5. /\ Below(c, Merge(c, d)) /\ Below(d, Merge(c, d))
      /\ Below(c, e) /\ Below(d, e) => Below(Merge(c, d), e)
  BY SMT DEF Merge, Below
<1> QED
  BY <1>1, <1>2, <1>3, <1>4, <1>5

-----------------------------------------------------------------------------
\* RoundComplete: the node's own component, at its home, is one higher.
LEMMA CountEffect ==
  ASSUME TypeOK, NEW n \in Nodes, CountRound(n)
  PROVE  /\ counter' \in [Registries -> Counter]
         /\ \A r \in Registries : \A x \in Nodes :
              counter'[r][x] = IF r = Home[n] /\ x = n THEN counter[r][x] + 1 ELSE counter[r][x]
<1>1. Home[n] \in Registries
  BY GossipAssumption DEF GossipAssumption
<1> QED
  BY <1>1, SMT DEF CountRound, Increment, TypeOK, Counter

\* MergeRequest: the components of one replica are raised to the snapshot's.
LEMMA MergeEffect ==
  ASSUME TypeOK, NEW m \in merges, HandleMerge(m)
  PROVE  /\ m.to \in Registries /\ m.counter \in Counter
         /\ counter' \in [Registries -> Counter]
         /\ \A r \in Registries : \A x \in Nodes :
              counter'[r][x] = IF r = m.to /\ m.counter[x] > counter[r][x]
                               THEN m.counter[x] ELSE counter[r][x]
<1>1. m.to \in Registries /\ m.counter \in Counter
  BY DEF TypeOK, MergeRequest
<1>2. counter' = [counter EXCEPT ![m.to] = Merge(counter[m.to], m.counter)]
  BY DEF HandleMerge
<1>3. counter[m.to] \in Counter
  BY <1>1 DEF TypeOK
<1>4. Merge(counter[m.to], m.counter) \in Counter
  BY <1>1, <1>3, MergeLaws
<1>5. counter' \in [Registries -> Counter]
  BY <1>2, <1>4 DEF TypeOK
<1>6. ASSUME NEW r \in Registries, NEW x \in Nodes
      PROVE  counter'[r][x] = IF r = m.to /\ m.counter[x] > counter[r][x]
                              THEN m.counter[x] ELSE counter[r][x]
  BY <1>1, <1>2, SMT DEF Merge, TypeOK, Counter
<1> QED
  BY <1>1, <1>5, <1>6

\* The counters a step leaves alone, and those it raises.
LEMMA StepCases ==
  ASSUME TypeOK, [Next]_vars
  PROVE  \/ counter' = counter
         \/ \E n \in Nodes : CountRound(n)
         \/ \E m \in merges : HandleMerge(m)
BY DEF Next, vars, CompleteRound, Announce, Gossip, HandleJoin, HandleLeave, HandleRoundComplete,
       RepeatRoundComplete, LoseRoundComplete, LoseMerge, MergeArrives

\* RegistryActor.Receive: no component of a replica's counter ever decreases.
LEMMA StepGrows ==
  ASSUME TypeOK, [Next]_vars
  PROVE  /\ counter' \in [Registries -> Counter]
         /\ \A r \in Registries : \A x \in Nodes :
              /\ counter[r][x] \in Nat /\ counter'[r][x] \in Nat
              /\ counter[r][x] <= counter'[r][x]
<1>1. \A r \in Registries : \A x \in Nodes : counter[r][x] \in Nat
  BY DEF TypeOK, Counter
<1>2. CASE counter' = counter
  BY <1>1, <1>2, SMT DEF TypeOK
<1>3. ASSUME NEW n \in Nodes, CountRound(n)
      PROVE  /\ counter' \in [Registries -> Counter]
             /\ \A r \in Registries : \A x \in Nodes :
                  counter'[r][x] \in Nat /\ counter[r][x] <= counter'[r][x]
  <2>1. /\ counter' \in [Registries -> Counter]
        /\ \A r \in Registries : \A x \in Nodes :
             counter'[r][x] = IF r = Home[n] /\ x = n THEN counter[r][x] + 1 ELSE counter[r][x]
    BY <1>3, CountEffect
  <2> QED
    BY <1>1, <2>1, SMT
<1>4. ASSUME NEW m \in merges, HandleMerge(m)
      PROVE  /\ counter' \in [Registries -> Counter]
             /\ \A r \in Registries : \A x \in Nodes :
                  counter'[r][x] \in Nat /\ counter[r][x] <= counter'[r][x]
  <2>1. /\ m.counter \in Counter
        /\ counter' \in [Registries -> Counter]
        /\ \A r \in Registries : \A x \in Nodes :
             counter'[r][x] = IF r = m.to /\ m.counter[x] > counter[r][x]
                              THEN m.counter[x] ELSE counter[r][x]
    BY <1>4, MergeEffect
  <2>2. \A x \in Nodes : m.counter[x] \in Nat
    BY <2>1 DEF Counter
  <2> QED
    BY <1>1, <2>1, <2>2, SMT
<1> QED
  BY <1>1, <1>2, <1>3, <1>4, StepCases

-----------------------------------------------------------------------------
\* An empty registry has its type, and nothing is counted.
LEMMA InitHolds == Init => GossipInv
<1> SUFFICES ASSUME Init PROVE GossipInv
  OBVIOUS
<1>0. Home \in [Nodes -> Registries] /\ MaxRounds \in Nat
  BY GossipAssumption DEF GossipAssumption
<1>1. TypeOK
  BY <1>0, SMT DEF Init, TypeOK, NewGCounter, Counter
<1>2. NeverAhead
  BY <1>0, SMT DEF Init, NeverAhead, NewGCounter
<1>3. ReportsInv
  BY DEF Init, ReportsInv
<1>4. EachCountedOnce
  BY <1>0, FS_EmptySet, SMT DEF Init, EachCountedOnce, NewGCounter
<1> QED
  BY <1>1, <1>2, <1>3, <1>4 DEF GossipInv

\* What TypeOK says of everything but the counters.
OtherTypes ==
  /\ active \in [Registries -> SUBSET Nodes]
  /\ reports \in [Nodes -> SUBSET (Nat \ {0})]
  /\ news \subseteq [type : {"NodeJoin", "NodeLeave"}, node : Movers]
  /\ merges \subseteq MergeRequest
  /\ done \in [Nodes -> 0..MaxRounds]
  /\ lost \in Counter
  /\ repeated \in Counter

\* Every step keeps the types.
LEMMA TypeStep == GossipInv /\ [Next]_vars => TypeOK'
<1> SUFFICES ASSUME GossipInv, [Next]_vars PROVE TypeOK'
  OBVIOUS
<1>0. TypeOK /\ ReportsInv /\ MaxRounds \in Nat /\ Home \in [Nodes -> Registries] /\ Movers \subseteq Nodes
  BY GossipAssumption DEF GossipInv, GossipAssumption
<1>1. (counter \in [Registries -> Counter])'
  BY <1>0, StepGrows
<1>2. OtherTypes'
  <2>0. OtherTypes
    BY <1>0 DEF TypeOK, OtherTypes
  <2>1. ASSUME NEW n \in Nodes, CompleteRound(n) PROVE OtherTypes'
    BY <1>0, <2>0, <2>1, SMT DEF CompleteRound, OtherTypes
  <2>2. ASSUME NEW n \in Nodes, HandleRoundComplete(n) PROVE OtherTypes'
    BY <2>0, <2>2, SMT DEF HandleRoundComplete, CountRound, OtherTypes
  <2>3. ASSUME NEW n \in Nodes, RepeatRoundComplete(n) PROVE OtherTypes'
    BY <2>0, <2>3, SMT DEF RepeatRoundComplete, CountRound, Counter, OtherTypes
  <2>4. ASSUME NEW n \in Nodes, LoseRoundComplete(n) PROVE OtherTypes'
    BY <2>0, <2>4, SMT DEF LoseRoundComplete, Counter, OtherTypes
  <2>5. ASSUME NEW n \in Movers, Announce(n) PROVE OtherTypes'
    BY <2>0, <2>5, SMT DEF Announce, OtherTypes
  <2>6. ASSUME NEW n \in Movers, HandleJoin(n) \/ HandleLeave(n) PROVE OtherTypes'
    BY <1>0, <2>0, <2>6, SMT DEF HandleJoin, HandleLeave, OtherTypes
  <2>7. ASSUME NEW r \in Registries, NEW s \in Registries, Gossip(r, s) PROVE OtherTypes'
    BY <1>0, <2>0, <2>7, SMT DEF Gossip, MergeRequest, OtherTypes, TypeOK
  <2>8. ASSUME NEW m \in merges, HandleMerge(m) PROVE OtherTypes'
    BY <2>0, <2>8, SMT DEF HandleMerge, OtherTypes
  <2>9. CASE LoseMerge
    BY <2>0, <2>9, SMT DEF LoseMerge, OtherTypes
  <2>10. CASE UNCHANGED vars
    BY <2>0, <2>10, SMT DEF vars, OtherTypes
  <2> QED
    BY <2>1, <2>2, <2>3, <2>4, <2>5, <2>6, <2>7, <2>8, <2>9, <2>10 DEF Next, MergeArrives
<1> QED
  BY <1>1, <1>2 DEF TypeOK, OtherTypes

\* A MergeRequest in flight was there before, or is a replica's present answer.
LEMMA SnapshotStep ==
  ASSUME [Next]_vars, NEW m \in merges'
  PROVE  m \in merges \/ \E r \in Registries : m.counter = counter[r]
<1>1. ASSUME NEW r \in Registries, NEW s \in Registries, Gossip(r, s)
      PROVE  m \in merges \/ m.counter = counter[r]
  BY <1>1 DEF Gossip
<1>2. ASSUME NEW r \in Registries, NEW s \in Registries, MergeArrives(r, s)
      PROVE  m \in merges
  BY <1>2 DEF MergeArrives, HandleMerge
<1>3. CASE LoseMerge
  BY <1>3 DEF LoseMerge
<1>4. CASE UNCHANGED merges
  BY <1>4
<1> QED
  BY <1>1, <1>2, <1>3, <1>4
  DEF Next, vars, CompleteRound, Announce, HandleJoin, HandleLeave, HandleRoundComplete,
      RepeatRoundComplete, CountRound, LoseRoundComplete

\* RoundComplete counts at the home alone, a merge or a snapshot copies what is
\* not ahead of it.
LEMMA AheadStep == GossipInv /\ [Next]_vars => NeverAhead'
<1> SUFFICES ASSUME GossipInv, [Next]_vars,
                    NEW n \in Nodes
             PROVE  /\ \A r \in Registries : counter'[r][n] <= counter'[Home[n]][n]
                    /\ \A m \in merges' : m.counter[n] <= counter'[Home[n]][n]
  BY DEF NeverAhead
<1>0. /\ TypeOK
      /\ Home[n] \in Registries
      /\ \A r \in Registries : counter[r][n] <= counter[Home[n]][n]
      /\ \A m \in merges : m.counter[n] <= counter[Home[n]][n]
  BY GossipAssumption DEF GossipInv, GossipAssumption, NeverAhead
<1>1. \A r \in Registries : /\ counter[r][n] \in Nat /\ counter'[r][n] \in Nat
                            /\ counter[r][n] <= counter'[r][n]
  BY <1>0, StepGrows
<1>2. \A m \in merges : m.counter[n] \in Nat
  BY <1>0 DEF TypeOK, MergeRequest, Counter
<1>3. \A r \in Registries : counter'[r][n] <= counter'[Home[n]][n]
  <2>1. CASE counter' = counter
    BY <1>0, <2>1
  <2>2. ASSUME NEW x \in Nodes, CountRound(x)
        PROVE  \A r \in Registries : counter'[r][n] <= counter'[Home[n]][n]
    <3>1. \A r \in Registries :
            counter'[r][n] = IF r = Home[x] /\ n = x THEN counter[r][n] + 1 ELSE counter[r][n]
      BY <1>0, <2>2, CountEffect
    <3> QED
      BY <1>0, <1>1, <3>1, SMT
  <2>3. ASSUME NEW m \in merges, HandleMerge(m)
        PROVE  \A r \in Registries : counter'[r][n] <= counter'[Home[n]][n]
    <3>1. \A r \in Registries :
            counter'[r][n] = IF r = m.to /\ m.counter[n] > counter[r][n]
                             THEN m.counter[n] ELSE counter[r][n]
      BY <1>0, <2>3, MergeEffect
    <3> QED
      BY <1>0, <1>1, <1>2, <3>1, SMT
  <2> QED
    BY <1>0, <2>1, <2>2, <2>3, StepCases
<1>4. ASSUME NEW m \in merges'
      PROVE  \/ m \in merges
             \/ \E r \in Registries : m.counter = counter[r]
  BY SnapshotStep
<1>5. ASSUME NEW m \in merges'
      PROVE  m.counter[n] <= counter'[Home[n]][n]
  <2>1. CASE m \in merges
    BY <1>0, <1>1, <1>2, <2>1, SMT
  <2>2. ASSUME NEW r \in Registries, m.counter = counter[r]
        PROVE  m.counter[n] <= counter'[Home[n]][n]
    BY <1>0, <1>1, <2>2, SMT
  <2> QED
    BY <1>4, <2>1, <2>2
<1> QED
  BY <1>3, <1>5

\* Rounds are numbered in turn, so a report in flight is of a round completed.
LEMMA ReportsStep == GossipInv /\ [Next]_vars => ReportsInv'
<1> SUFFICES ASSUME GossipInv, [Next]_vars, NEW x \in Nodes
             PROVE  reports'[x] \subseteq 1..done'[x]
  BY DEF ReportsInv
<1>0. /\ reports \in [Nodes -> SUBSET (Nat \ {0})]
      /\ done \in [Nodes -> 0..MaxRounds] /\ MaxRounds \in Nat
      /\ reports[x] \subseteq 1..done[x]
  BY GossipAssumption DEF GossipInv, TypeOK, ReportsInv, GossipAssumption
<1>1. ASSUME NEW n \in Nodes, CompleteRound(n)
      PROVE  reports'[x] \subseteq 1..done'[x]
  BY <1>0, <1>1, SMT DEF CompleteRound
<1>2. ASSUME NEW n \in Nodes, HandleRoundComplete(n) \/ LoseRoundComplete(n)
      PROVE  reports'[x] \subseteq 1..done'[x]
  BY <1>0, <1>2, SMT DEF HandleRoundComplete, CountRound, LoseRoundComplete
<1>3. CASE UNCHANGED <<reports, done>>
  BY <1>0, <1>3
<1>4. ASSUME NEW r \in Registries, NEW s \in Registries, MergeArrives(r, s)
      PROVE  UNCHANGED <<reports, done>>
  BY <1>4 DEF MergeArrives, HandleMerge
<1> QED
  BY <1>1, <1>2, <1>3, <1>4
  DEF Next, vars, Announce, Gossip, HandleJoin, HandleLeave, RepeatRoundComplete, CountRound, LoseMerge

\* A merge leaves a home's count of its own nodes alone.
LEMMA HomeKept ==
  ASSUME GossipInv, NEW m \in merges, HandleMerge(m), NEW x \in Nodes
  PROVE  counter'[Home[x]][x] = counter[Home[x]][x]
<1>0. TypeOK /\ Home[x] \in Registries /\ m.counter[x] <= counter[Home[x]][x]
  BY GossipAssumption DEF GossipInv, NeverAhead, GossipAssumption
<1>1. m.counter \in Counter /\ counter[Home[x]] \in Counter
  BY <1>0, MergeEffect DEF TypeOK
<1>2. counter'[Home[x]][x] = IF Home[x] = m.to /\ m.counter[x] > counter[Home[x]][x]
                             THEN m.counter[x] ELSE counter[Home[x]][x]
  BY <1>0, MergeEffect
<1> QED
  BY <1>0, <1>1, <1>2, SMT DEF Counter

\* Each round counted moves from the reports in flight to the home's counter.
LEMMA CountedStep == GossipInv /\ [Next]_vars => EachCountedOnce'
<1> SUFFICES ASSUME GossipInv, [Next]_vars, NEW x \in Nodes
             PROVE  counter'[Home[x]][x] + Cardinality(reports'[x]) + lost'[x] = done'[x] + repeated'[x]
  BY DEF EachCountedOnce
<1> DEFINE Kept == UNCHANGED <<reports, done, lost, repeated>> /\ counter'[Home[x]][x] = counter[Home[x]][x]
<1>0. /\ TypeOK
      /\ reports \in [Nodes -> SUBSET (Nat \ {0})] /\ done \in [Nodes -> 0..MaxRounds]
      /\ lost \in [Nodes -> Nat] /\ repeated \in [Nodes -> Nat]
      /\ reports[x] \subseteq 1..done[x] /\ MaxRounds \in Nat
      /\ Home[x] \in Registries /\ counter[Home[x]][x] \in Nat
      /\ counter[Home[x]][x] + Cardinality(reports[x]) + lost[x] = done[x] + repeated[x]
  BY GossipAssumption DEF GossipInv, TypeOK, ReportsInv, EachCountedOnce, GossipAssumption, Counter
<1>1. IsFiniteSet(reports[x]) /\ Cardinality(reports[x]) \in Nat
  <2>1. done[x] \in Int
    BY <1>0, SMT
  <2>2. IsFiniteSet(1..done[x])
    BY <2>1, FS_Interval
  <2> QED
    BY <1>0, <2>2, FS_Subset, FS_CardinalityType
<1>2. ASSUME NEW n \in Nodes, CountRound(n)
      PROVE  counter'[Home[x]][x] = IF n = x THEN counter[Home[x]][x] + 1 ELSE counter[Home[x]][x]
  BY <1>0, <1>2, CountEffect
<1>3. ASSUME NEW n \in Nodes, CompleteRound(n)
      PROVE  counter'[Home[x]][x] + Cardinality(reports'[x]) + lost'[x] = done'[x] + repeated'[x]
  <2>1. done[x] + 1 \notin reports[x]
    BY <1>0, SMT
  <2>2. Cardinality(reports[x] \cup {done[x] + 1}) = Cardinality(reports[x]) + 1
    BY <1>1, <2>1, FS_AddElement
  <2>3. reports'[x] = (IF n = x THEN reports[x] \cup {done[x] + 1} ELSE reports[x])
    BY <1>0, <1>3 DEF CompleteRound
  <2>4. done'[x] = (IF n = x THEN done[x] + 1 ELSE done[x]) /\ UNCHANGED <<counter, lost, repeated>>
    BY <1>0, <1>3 DEF CompleteRound
  <2>5. CASE n = x
    BY <1>0, <1>1, <2>2, <2>3, <2>4, <2>5, SMT
  <2>6. CASE n # x
    BY <1>0, <2>3, <2>4, <2>6
  <2> QED
    BY <2>5, <2>6
<1>4. ASSUME NEW n \in Nodes, NEW k \in reports[n], reports' = [reports EXCEPT ![n] = reports[n] \ {k}]
      PROVE  /\ n = x => Cardinality(reports'[x]) = Cardinality(reports[x]) - 1
             /\ n # x => reports'[x] = reports[x]
  <2>1. n = x => reports'[x] = reports[x] \ {k} /\ k \in reports[x]
    BY <1>0, <1>4
  <2>2. k \in reports[x] => Cardinality(reports[x] \ {k}) = Cardinality(reports[x]) - 1
    BY <1>1, FS_RemoveElement
  <2> QED
    BY <1>0, <1>4, <2>1, <2>2
<1>5. ASSUME NEW n \in Nodes, HandleRoundComplete(n)
      PROVE  counter'[Home[x]][x] + Cardinality(reports'[x]) + lost'[x] = done'[x] + repeated'[x]
  <2>1. PICK k \in reports[n] : CountRound(n) /\ reports' = [reports EXCEPT ![n] = reports[n] \ {k}]
                                /\ UNCHANGED <<done, lost, repeated>>
    BY <1>5 DEF HandleRoundComplete, CountRound
  <2>2. counter'[Home[x]][x] = IF n = x THEN counter[Home[x]][x] + 1 ELSE counter[Home[x]][x]
    BY <1>2, <2>1
  <2>3. /\ n = x => Cardinality(reports'[x]) = Cardinality(reports[x]) - 1
        /\ n # x => reports'[x] = reports[x]
    BY <1>4, <2>1
  <2>4. CASE n = x
    BY <1>0, <1>1, <2>1, <2>2, <2>3, <2>4, SMT
  <2>5. CASE n # x
    BY <1>0, <2>1, <2>2, <2>3, <2>5
  <2> QED
    BY <2>4, <2>5
<1>6. ASSUME NEW n \in Nodes, RepeatRoundComplete(n)
      PROVE  counter'[Home[x]][x] + Cardinality(reports'[x]) + lost'[x] = done'[x] + repeated'[x]
  <2>1. /\ CountRound(n) /\ UNCHANGED <<reports, done, lost>>
        /\ repeated'[x] = IF n = x THEN repeated[x] + 1 ELSE repeated[x]
    BY <1>0, <1>6 DEF RepeatRoundComplete, CountRound
  <2>2. counter'[Home[x]][x] = IF n = x THEN counter[Home[x]][x] + 1 ELSE counter[Home[x]][x]
    BY <1>2, <2>1
  <2> QED
    BY <1>0, <1>1, <2>1, <2>2, SMT
<1>7. ASSUME NEW n \in Nodes, LoseRoundComplete(n)
      PROVE  counter'[Home[x]][x] + Cardinality(reports'[x]) + lost'[x] = done'[x] + repeated'[x]
  <2>1. PICK k \in reports[n] : reports' = [reports EXCEPT ![n] = reports[n] \ {k}]
    BY <1>7 DEF LoseRoundComplete
  <2>2. /\ UNCHANGED <<counter, done, repeated>>
        /\ lost'[x] = IF n = x THEN lost[x] + 1 ELSE lost[x]
    BY <1>0, <1>7 DEF LoseRoundComplete
  <2>3. /\ n = x => Cardinality(reports'[x]) = Cardinality(reports[x]) - 1
        /\ n # x => reports'[x] = reports[x]
    BY <1>4, <2>1
  <2>4. CASE n = x
    BY <1>0, <1>1, <2>2, <2>3, <2>4, SMT
  <2>5. CASE n # x
    BY <1>0, <2>2, <2>3, <2>5
  <2> QED
    BY <2>4, <2>5
<1>8. ASSUME NEW r \in Registries, NEW s \in Registries, MergeArrives(r, s)
      PROVE  Kept
  <2>1. PICK m \in merges : HandleMerge(m)
    BY <1>8 DEF MergeArrives
  <2>2. counter'[Home[x]][x] = counter[Home[x]][x]
    BY <2>1, HomeKept
  <2> QED
    BY <2>1, <2>2 DEF HandleMerge
<1>9. CASE UNCHANGED <<counter, reports, done, lost, repeated>>
  BY <1>0, <1>9
<1>10. Kept => counter'[Home[x]][x] + Cardinality(reports'[x]) + lost'[x] = done'[x] + repeated'[x]
  BY <1>0
<1>11. \/ \E n \in Nodes : CompleteRound(n) \/ HandleRoundComplete(n) \/ RepeatRoundComplete(n)
                           \/ LoseRoundComplete(n)
       \/ \E r, s \in Registries : MergeArrives(r, s)
       \/ UNCHANGED <<counter, reports, done, lost, repeated>>
  BY Zenon DEF Next, vars, Announce, Gossip, HandleJoin, HandleLeave, LoseMerge
<1> HIDE DEF Kept
<1> QED
  BY <1>0, <1>3, <1>5, <1>6, <1>7, <1>8, <1>9, <1>10, <1>11

-----------------------------------------------------------------------------
\* All of it holds from the empty registry on.
LEMMA GossipInvHolds == Spec => []GossipInv
<1>1. GossipInv /\ [Next]_vars => GossipInv'
  BY TypeStep, AheadStep, ReportsStep, CountedStep DEF GossipInv
<1> QED
  BY InitHolds, <1>1, PTL DEF Spec

\* Type correctness of the registries and their messages.
THEOREM TypeCorrect == Spec => []TypeOK
<1>1. GossipInv => TypeOK
  BY DEF GossipInv
<1> QED
  BY GossipInvHolds, <1>1, PTL

\* MergeRequest: no replica gets ahead of a node's home.
THEOREM NeverAheadHolds == Spec => []NeverAhead
<1>1. GossipInv => NeverAhead
  BY DEF GossipInv
<1> QED
  BY GossipInvHolds, <1>1, PTL

\* RoundComplete: the home counts each report once, merges do not disturb it.
THEOREM EachCountedOnceHolds == Spec => []EachCountedOnce
<1>1. GossipInv => EachCountedOnce
  BY DEF GossipInv
<1> QED
  BY GossipInvHolds, <1>1, PTL

\* RegistryActor.Receive never takes a count back.
THEOREM GrowsHolds == Spec => Grows
<1>1. GossipInv /\ [Next]_vars => [\A r \in Registries : Below(counter[r], counter'[r])]_vars
  BY StepGrows DEF GossipInv, Below
<1> QED
  BY GossipInvHolds, <1>1, PTL DEF Spec, Grows
=============================================================================
