------------------------- MODULE P2PMembershipProofs -------------------------
(***************************************************************************)
(* What an actor of the gossip can rely on, for any number of nodes, seeds,*)
(* slots of the mailbox and mistakes of memberlist: types, that its peers  *)
(* follow the members memberlist knows, and how much room is enough for it *)
(* to start and stop, whoever comes and goes meanwhile.                    *)
(***************************************************************************)
EXTENDS P2PMembership, FiniteSetTheorems, TLAPS

-----------------------------------------------------------------------------
(* Types.                                                                  *)

\* The two events about a node are events, and differ.
LEMMA Events ==
  ASSUME MembershipAssumption, NEW m \in Nodes
  PROVE  /\ Joined(m) \in Event /\ Left(m) \in Event
         /\ Joined(m).type = "peerJoined" /\ Left(m).type = "peerLeft"
         /\ Joined(m).node = m /\ Left(m).node = m
         /\ Joined(m) # None /\ Left(m) # None
         /\ \A k \in Nodes : Joined(m) = Joined(k) => m = k
         /\ \A k \in Nodes : Left(m) # Joined(k)
<1>1. /\ Joined(m) \in Event /\ Left(m) \in Event
      /\ Joined(m).type = "peerJoined" /\ Left(m).type = "peerLeft"
      /\ Joined(m).node = m /\ Left(m).node = m
  BY DEF Joined, Left, Event
<1>2. \A k \in Nodes : Joined(k).type = "peerJoined" /\ Joined(k).node = k
  BY DEF Joined
<1>3. None \notin Event
  BY DEF MembershipAssumption
<1> QED
  BY <1>1, <1>2, <1>3

\* An event is one of the two about its node.
LEMMA EventForms ==
  ASSUME NEW e \in Event
  PROVE  e.node \in Nodes /\ (e = Joined(e.node) <=> e.type = "peerJoined")
BY DEF Event, Joined

\* A notification is an event or none at all.
LEMMA NotifyTypes ==
  ASSUME TypeOK, NEW n \in Nodes, NEW e \in Event, Notify(n, e)
  PROVE  calling' \in [Nodes -> Event \cup {None}]
<1>1. calling \in [Nodes -> Event \cup {None}]
  BY DEF TypeOK
<1> QED
  BY <1>1 DEF Notify

\* Every step keeps the types.
LEMMA TypeNext ==
  ASSUME MembershipAssumption, TypeOK, [Next]_vars
  PROVE  TypeOK'
<1>1. /\ actor \in [Nodes -> {"unspawned", "starting", "joined", "running", "closing", "stopped", "dead"}]
      /\ listed \subseteq Nodes /\ tries \in [Nodes -> 0..(Attempts - 1)]
      /\ inbox \in [Nodes -> Seq(Event)] /\ \A n \in Nodes : Len(inbox[n]) <= MailboxSize
      /\ calling \in [Nodes -> Event \cup {None}]
      /\ peers \in [Nodes -> SUBSET Nodes] /\ known \in [Nodes -> SUBSET Nodes]
      /\ links \subseteq Nodes \X Nodes /\ flaps \in 0..MaxFlaps
      /\ MailboxSize \in Nat \ {0} /\ Attempts \in Nat \ {0} /\ MaxFlaps \in Nat
      /\ Seeds \in [Nodes -> SUBSET Nodes]
  BY DEF TypeOK, MembershipAssumption
<1>2. \A m \in Nodes : Joined(m) \in Event /\ Left(m) \in Event
  BY Events
<1>3. CASE UNCHANGED vars
  BY <1>3 DEF vars, TypeOK
<1>4. ASSUME NEW n \in Nodes, SpawnP2P(n) \/ CreateFails(n) \/ NoSeeds(n) \/ OnStartReturns(n) \/ Stop(n) \/ OnStop(n)
      PROVE  TypeOK'
  <2>1. actor' \in [Nodes -> {"unspawned", "starting", "joined", "running", "closing", "stopped", "dead"}]
    BY <1>1, <1>4 DEF SpawnP2P, CreateFails, NoSeeds, OnStartReturns, Stop, OnStop
  <2>2. listed' \subseteq Nodes
    BY <1>1, <1>4 DEF SpawnP2P, CreateFails, NoSeeds, OnStartReturns, Stop, OnStop
  <2>3. calling' \in [Nodes -> Event \cup {None}]
    <3>1. UNCHANGED calling \/ Notify(n, Joined(n)) \/ Notify(n, Left(n))
      BY <1>4 DEF SpawnP2P, CreateFails, NoSeeds, OnStartReturns, Stop, OnStop
    <3> QED
      BY <1>1, <1>2, <3>1, NotifyTypes
  <2>4. UNCHANGED <<tries, inbox, peers, known, links, flaps>>
    BY <1>4 DEF SpawnP2P, CreateFails, NoSeeds, OnStartReturns, Stop, OnStop
  <2> QED
    BY <1>1, <2>1, <2>2, <2>3, <2>4 DEF TypeOK
<1>5. ASSUME NEW n \in Nodes, NEW s \in Nodes, JoinSeed(n, s)
      PROVE  TypeOK'
  <2>1. /\ actor' = [actor EXCEPT ![n] = "joined"] /\ links' = links \cup {<<n, s>>, <<s, n>>}
        /\ UNCHANGED <<listed, tries, inbox, peers, flaps>>
    BY <1>5 DEF JoinSeed
  <2>2. calling' \in [Nodes -> Event \cup {None}]
    BY <1>1, <1>2, <1>5, NotifyTypes DEF JoinSeed
  <2>3. known' \in [Nodes -> SUBSET Nodes]
    <3>1. known' = known \/ known' = [known EXCEPT ![n] = known[n] \cup {s}]
      BY <1>5 DEF JoinSeed
    <3>2. known[n] \cup {s} \in SUBSET Nodes
      BY <1>1
    <3> QED
      BY <1>1, <3>1, <3>2, Zenon
  <2>4. links' \subseteq Nodes \X Nodes
    BY <1>1, <2>1
  <2>5. actor' \in [Nodes -> {"unspawned", "starting", "joined", "running", "closing", "stopped", "dead"}]
    BY <1>1, <2>1
  <2> QED
    BY <1>1, <2>1, <2>2, <2>3, <2>4, <2>5 DEF TypeOK
<1>6. ASSUME NEW n \in Nodes, JoinFails(n)
      PROVE  TypeOK'
  <2>1. flaps' \in 0..MaxFlaps
    BY <1>1, <1>6 DEF JoinFails, Flap
  <2>2. \/ tries[n] + 1 < Attempts /\ tries' = [tries EXCEPT ![n] = tries[n] + 1] /\ UNCHANGED actor
        \/ tries' = [tries EXCEPT ![n] = 0] /\ actor' = [actor EXCEPT ![n] = "joined"]
    BY <1>6 DEF JoinFails
  <2>3. tries' \in [Nodes -> 0..(Attempts - 1)]
    <3>1. 0 \in 0..(Attempts - 1) /\ (tries[n] + 1 < Attempts => tries[n] + 1 \in 0..(Attempts - 1))
      BY <1>1
    <3> QED
      BY <1>1, <2>2, <3>1, Zenon
  <2>4. actor' \in [Nodes -> {"unspawned", "starting", "joined", "running", "closing", "stopped", "dead"}]
    BY <1>1, <2>2
  <2> QED
    BY <1>1, <1>6, <2>1, <2>3, <2>4 DEF JoinFails, TypeOK
<1>7. ASSUME NEW n \in Nodes, TellSelf(n)
      PROVE  TypeOK'
  <2>1. calling' = [calling EXCEPT ![n] = None] /\ UNCHANGED <<actor, listed, tries, peers, known, links, flaps>>
    BY <1>7 DEF TellSelf
  <2>2. inbox' \in [Nodes -> Seq(Event)] /\ \A k \in Nodes : Len(inbox'[k]) <= MailboxSize
    <3>1. CASE UNCHANGED inbox
      BY <1>1, <3>1
    <3>2. CASE Len(inbox[n]) < MailboxSize /\ inbox' = [inbox EXCEPT ![n] = Append(inbox[n], calling[n])]
      <4>1. calling[n] \in Event
        BY <1>1, <1>7 DEF TellSelf
      <4>2. Append(inbox[n], calling[n]) \in Seq(Event) /\ Len(Append(inbox[n], calling[n])) <= MailboxSize
        BY <1>1, <3>2, <4>1
      <4> QED
        BY <1>1, <3>2, <4>2, Zenon
    <3> QED
      BY <1>7, <3>1, <3>2 DEF TellSelf
  <2> QED
    BY <1>1, <2>1, <2>2 DEF TypeOK
<1>8. ASSUME NEW n \in Nodes, HandleEvent(n)
      PROVE  TypeOK'
  <2>1. inbox[n] # <<>> /\ inbox' = [inbox EXCEPT ![n] = Tail(inbox[n])]
        /\ peers' = [peers EXCEPT ![n] = Apply(peers[n], Head(inbox[n]))]
        /\ UNCHANGED <<actor, listed, tries, calling, known, links, flaps>>
    BY <1>8 DEF HandleEvent
  <2>2. Tail(inbox[n]) \in Seq(Event) /\ Len(Tail(inbox[n])) <= MailboxSize /\ Head(inbox[n]) \in Event
    BY <1>1, <2>1
  <2>3. Apply(peers[n], Head(inbox[n])) \in SUBSET Nodes
    BY <1>1, <2>2, EventForms DEF Apply
  <2>4. inbox' \in [Nodes -> Seq(Event)] /\ \A k \in Nodes : Len(inbox'[k]) <= MailboxSize
    BY <1>1, <2>1, <2>2, Zenon
  <2>5. peers' \in [Nodes -> SUBSET Nodes]
    BY <1>1, <2>1, <2>3, Zenon
  <2> QED
    BY <1>1, <2>1, <2>4, <2>5 DEF TypeOK
<1>9. ASSUME NEW n \in Nodes, Die(n)
      PROVE  TypeOK'
  <2>1. <<>> \in Seq(Event) /\ Len(<<>>) <= MailboxSize
    BY <1>1
  <2>2. inbox' \in [Nodes -> Seq(Event)] /\ \A k \in Nodes : Len(inbox'[k]) <= MailboxSize
    BY <1>1, <1>9, <2>1, Zenon DEF Die
  <2>3. /\ tries' \in [Nodes -> 0..(Attempts - 1)] /\ listed' \subseteq Nodes
        /\ actor' \in [Nodes -> {"unspawned", "starting", "joined", "running", "closing", "stopped", "dead"}]
    BY <1>1, <1>9 DEF Die
  <2>4. /\ calling' \in [Nodes -> Event \cup {None}] /\ peers' \in [Nodes -> SUBSET Nodes]
        /\ known' \in [Nodes -> SUBSET Nodes]
    BY <1>1, <1>9 DEF Die
  <2> QED
    BY <1>1, <1>9, <2>2, <2>3, <2>4 DEF Die, TypeOK
<1>10. ASSUME NEW n \in Nodes, NEW m \in Nodes, Learn(n, m) \/ Lose(n, m) \/ Update(n, m)
       PROVE  TypeOK'
  <2>1. calling' \in [Nodes -> Event \cup {None}]
    BY <1>2, <1>10, NotifyTypes DEF Learn, Lose, Update
  <2>2. known' \in [Nodes -> SUBSET Nodes]
    <3>1. \/ known' = known
          \/ known' = [known EXCEPT ![n] = known[n] \cup {m}]
          \/ known' = [known EXCEPT ![n] = known[n] \ {m}]
      BY <1>10 DEF Learn, Lose, Update
    <3>2. known[n] \cup {m} \in SUBSET Nodes /\ known[n] \ {m} \in SUBSET Nodes
      BY <1>1
    <3> QED
      BY <1>1, <3>1, <3>2, Zenon
  <2>3. flaps' \in 0..MaxFlaps
    BY <1>1, <1>10 DEF Learn, Lose, Update, Flap
  <2> QED
    BY <1>1, <1>10, <2>1, <2>2, <2>3 DEF Learn, Lose, Update, TypeOK
<1> QED
  BY <1>3, <1>4, <1>5, <1>6, <1>7, <1>8, <1>9, <1>10 DEF Next, Step, Starts, Stops

\* Nobody is spawned.
LEMMA TypeInit ==
  ASSUME MembershipAssumption, Init
  PROVE  TypeOK
<1>1. <<>> \in Seq(Event) /\ Len(<<>>) = 0 /\ Attempts - 1 \in Nat /\ MailboxSize \in Nat /\ MaxFlaps \in Nat
  BY DEF MembershipAssumption
<1>2. inbox \in [Nodes -> Seq(Event)] /\ \A n \in Nodes : inbox[n] = <<>>
  BY <1>1, Zenon DEF Init
<1>3. \A n \in Nodes : Len(inbox[n]) <= MailboxSize
  BY <1>1, <1>2
<1>4. /\ actor \in [Nodes -> {"unspawned", "starting", "joined", "running", "closing", "stopped", "dead"}]
      /\ tries \in [Nodes -> 0..(Attempts - 1)] /\ calling \in [Nodes -> Event \cup {None}]
      /\ peers \in [Nodes -> SUBSET Nodes] /\ known \in [Nodes -> SUBSET Nodes]
  BY <1>1 DEF Init
<1> QED
  BY <1>1, <1>2, <1>3, <1>4 DEF Init, TypeOK

\* A mailbox never holds more than it has slots, and every event is about a
\* node of the cluster.
THEOREM TypeCorrect == MembershipAssumption => (Spec => []TypeOK)
<1> SUFFICES ASSUME MembershipAssumption PROVE Spec => []TypeOK
  OBVIOUS
<1>1. Init => TypeOK
  BY TypeInit
<1>2. TypeOK /\ [Next]_vars => TypeOK'
  BY TypeNext
<1> QED
  BY <1>1, <1>2, PTL DEF Spec

-----------------------------------------------------------------------------
(* Peers follow the members. What memberlist announces next is the last    *)
(* word about its node, and handling the first event changes nothing in    *)
(* what all of them amount to.                                             *)

\* Without events nothing changes.
LEMMA NoWord ==
  ASSUME NEW set \in SUBSET Nodes
  PROVE  LastWord(set, <<>>) = set
BY DEF LastWord

\* A new event has the last word about its node, and none about the others.
LEMMA NewWord ==
  ASSUME MembershipAssumption, NEW set \in SUBSET Nodes, NEW q \in Seq(Event), NEW e \in Event
  PROVE  LastWord(set, Append(q, e)) = Apply(LastWord(set, q), e)
<1> DEFINE p == Append(q, e)
<1>1. /\ Len(q) \in Nat /\ DOMAIN q = 1..Len(q) /\ DOMAIN p = 1..(Len(q) + 1)
      /\ p[Len(q) + 1] = e /\ \A i \in DOMAIN q : p[i] = q[i]
  OBVIOUS
<1>2. e.node \in Nodes /\ (e = Joined(e.node) <=> e.type = "peerJoined")
  BY EventForms
<1>3. \A m \in Nodes : Joined(m).node = m
  BY Events
<1> HIDE DEF p
<1>4. ASSUME NEW m \in Nodes
      PROVE  m \in LastWord(set, p) <=> m \in Apply(LastWord(set, q), e)
  <2>1. CASE m = e.node
    <3>1. p[Len(q) + 1].node = m /\ Len(q) + 1 \in DOMAIN p
      BY <1>1, <2>1
    <3>2. ASSUME NEW i \in DOMAIN p, p[i] = Joined(m), \A j \in DOMAIN p : i < j => p[j].node # m
          PROVE  e = Joined(m)
      <4>1. ~(i < Len(q) + 1)
        BY <3>1, <3>2
      <4>2. i = Len(q) + 1
        BY <1>1, <3>2, <4>1
      <4> QED
        BY <1>1, <3>2, <4>2
    <3>3. \A j \in DOMAIN p : ~(Len(q) + 1 < j)
      BY <1>1
    <3>4. m \in LastWord(set, p) <=> e = Joined(m)
      <4>1. ASSUME m \in LastWord(set, p) PROVE e = Joined(m)
        BY <3>1, <3>2, <4>1 DEF LastWord
      <4>2. ASSUME e = Joined(m) PROVE m \in LastWord(set, p)
        BY <1>1, <3>1, <3>3, <4>2 DEF LastWord
      <4> QED
        BY <4>1, <4>2
    <3>5. m \in Apply(LastWord(set, q), e) <=> e.type = "peerJoined"
      BY <2>1 DEF Apply
    <3> QED
      BY <1>2, <2>1, <3>4, <3>5
  <2>2. CASE m # e.node
    <3>1. m \in Apply(LastWord(set, q), e) <=> m \in LastWord(set, q)
      BY <2>2 DEF Apply
    <3>2. p[Len(q) + 1].node # m /\ p[Len(q) + 1] # Joined(m)
      BY <1>1, <1>3, <2>2
    <3>3. (\A i \in DOMAIN p : p[i].node # m) <=> (\A i \in DOMAIN q : q[i].node # m)
      BY <1>1, <3>2
    <3>4. ASSUME NEW i \in DOMAIN q, q[i] = Joined(m), \A j \in DOMAIN q : i < j => q[j].node # m
          PROVE  i \in DOMAIN p /\ p[i] = Joined(m) /\ \A j \in DOMAIN p : i < j => p[j].node # m
      BY <1>1, <3>2, <3>4
    <3>5. ASSUME NEW i \in DOMAIN p, p[i] = Joined(m), \A j \in DOMAIN p : i < j => p[j].node # m
          PROVE  i \in DOMAIN q /\ q[i] = Joined(m) /\ \A j \in DOMAIN q : i < j => q[j].node # m
      <4>1. i \in DOMAIN q
        BY <1>1, <3>2, <3>5
      <4> QED
        BY <1>1, <3>5, <4>1
    <3>6. m \in LastWord(set, p) <=> m \in LastWord(set, q)
      BY <3>3, <3>4, <3>5 DEF LastWord
    <3> QED
      BY <3>1, <3>6
  <2> QED
    BY <2>1, <2>2
<1>5. LastWord(set, p) \subseteq Nodes /\ Apply(LastWord(set, q), e) \subseteq Nodes
  BY <1>2 DEF LastWord, Apply
<1>6. LastWord(set, p) = Apply(LastWord(set, q), e)
  BY <1>4, <1>5
<1> QED
  BY <1>6 DEF p

\* Handling the first event changes the set, but not the last word.
LEMMA FirstWord ==
  ASSUME MembershipAssumption, NEW set \in SUBSET Nodes, NEW q \in Seq(Event), q # <<>>
  PROVE  LastWord(Apply(set, Head(q)), Tail(q)) = LastWord(set, q)
<1> DEFINE e == Head(q)
           t == Tail(q)
<1>1. /\ Len(q) \in Nat /\ DOMAIN q = 1..Len(q) /\ DOMAIN t = 1..(Len(q) - 1) /\ Len(q) >= 1
      /\ e = q[1] /\ e \in Event /\ \A i \in DOMAIN t : t[i] = q[i + 1]
  OBVIOUS
<1> HIDE DEF e, t
<1>2. e.node \in Nodes /\ (e = Joined(e.node) <=> e.type = "peerJoined")
  BY <1>1, EventForms
<1>3. \A m \in Nodes : Joined(m).node = m
  BY Events
<1>4. ASSUME NEW m \in Nodes
      PROVE  m \in LastWord(Apply(set, e), t) <=> m \in LastWord(set, q)
  <2>1. \A i \in DOMAIN t : i + 1 \in DOMAIN q /\ i \in Nat
    BY <1>1
  <2>2. \A i \in DOMAIN q : i = 1 \/ (i - 1 \in DOMAIN t /\ q[i] = t[i - 1])
    BY <1>1
  <2>3. (\A i \in DOMAIN q : q[i].node # m) <=> e.node # m /\ \A i \in DOMAIN t : t[i].node # m
    BY <1>1, <2>1, <2>2
  <2>4. ASSUME NEW i \in DOMAIN t, t[i] = Joined(m), \A j \in DOMAIN t : i < j => t[j].node # m
        PROVE  m \in LastWord(set, q)
    <3>1. i + 1 \in DOMAIN q /\ q[i + 1] = Joined(m)
      BY <1>1, <2>1, <2>4
    <3>2. ASSUME NEW j \in DOMAIN q, i + 1 < j PROVE q[j].node # m
      <4>1. j - 1 \in DOMAIN t /\ q[j] = t[j - 1] /\ i < j - 1
        BY <1>1, <2>1, <2>2, <3>2
      <4> QED
        BY <2>4, <4>1
    <3> QED
      BY <3>1, <3>2 DEF LastWord
  <2>5. ASSUME NEW i \in DOMAIN q, q[i] = Joined(m), i # 1, \A j \in DOMAIN q : i < j => q[j].node # m
        PROVE  m \in LastWord(Apply(set, e), t)
    <3>1. i - 1 \in DOMAIN t /\ t[i - 1] = Joined(m)
      BY <2>2, <2>5
    <3>2. ASSUME NEW j \in DOMAIN t, i - 1 < j PROVE t[j].node # m
      <4>1. j + 1 \in DOMAIN q /\ t[j] = q[j + 1] /\ i < j + 1
        BY <1>1, <2>1, <3>2
      <4> QED
        BY <2>5, <4>1
    <3> QED
      BY <3>1, <3>2 DEF LastWord
  <2>6. ASSUME \A i \in DOMAIN t : t[i].node # m
        PROVE  m \in LastWord(Apply(set, e), t) <=> m \in LastWord(set, q)
    <3>1. m \in LastWord(Apply(set, e), t) <=> m \in Apply(set, e)
      BY <1>3, <2>6 DEF LastWord
    <3>2. CASE e.node # m
      <4>1. \A i \in DOMAIN q : q[i].node # m
        BY <2>3, <2>6, <3>2
      <4>2. m \in LastWord(set, q) <=> m \in set
        BY <1>3, <4>1 DEF LastWord
      <4>3. m \in Apply(set, e) <=> m \in set
        BY <3>2 DEF Apply
      <4> QED
        BY <3>1, <4>2, <4>3
    <3>3. CASE e.node = m
      <4>1. 1 \in DOMAIN q /\ q[1] = e
        BY <1>1
      <4>2. \A j \in DOMAIN q : 1 < j => q[j].node # m
        BY <1>1, <2>2, <2>6
      <4>3. \A i \in DOMAIN q : q[i] = Joined(m) => i = 1
        BY <1>3, <2>2, <2>6
      <4>4. m \in LastWord(set, q) <=> e = Joined(m)
        BY <3>3, <4>1, <4>2, <4>3 DEF LastWord
      <4>5. m \in Apply(set, e) <=> e.type = "peerJoined"
        BY <3>3 DEF Apply
      <4> QED
        BY <1>2, <3>1, <3>3, <4>4, <4>5
    <3> QED
      BY <3>2, <3>3
  <2>7. ASSUME NEW k \in DOMAIN t, t[k].node = m
        PROVE  m \in LastWord(Apply(set, e), t) <=> m \in LastWord(set, q)
    <3>1. k + 1 \in DOMAIN q /\ q[k + 1].node = m /\ 1 < k + 1
      BY <1>1, <2>1, <2>7
    <3>2. ASSUME m \in LastWord(set, q) PROVE m \in LastWord(Apply(set, e), t)
      <4>1. PICK i \in DOMAIN q : q[i] = Joined(m) /\ \A j \in DOMAIN q : i < j => q[j].node # m
        BY <3>1, <3>2 DEF LastWord
      <4>2. i # 1
        BY <3>1, <4>1
      <4> QED
        BY <2>5, <4>1, <4>2
    <3>3. ASSUME m \in LastWord(Apply(set, e), t) PROVE m \in LastWord(set, q)
      <4>1. PICK i \in DOMAIN t : t[i] = Joined(m) /\ \A j \in DOMAIN t : i < j => t[j].node # m
        BY <2>7, <3>3 DEF LastWord
      <4> QED
        BY <2>4, <4>1
    <3> QED
      BY <3>2, <3>3
  <2> QED
    BY <2>6, <2>7
<1>5. LastWord(Apply(set, e), t) \subseteq Nodes /\ LastWord(set, q) \subseteq Nodes
  BY DEF LastWord
<1>6. LastWord(Apply(set, e), t) = LastWord(set, q)
  BY <1>4, <1>5
<1> QED
  BY <1>6 DEF e, t

Active == {"starting", "joined", "running"}

\* A node that has not been spawned knows of nothing.
Unborn(n) ==
  n \notin listed /\ inbox[n] = <<>> /\ calling[n] = None /\ peers[n] = {} /\ known[n] = {}

Follows(n) == known[n] = LastWord(peers[n], Pending(n))

FollowInv ==
  /\ TypeOK
  /\ \A n \in Nodes : /\ actor[n] = "unspawned" => Unborn(n)
                      /\ n \in listed /\ actor[n] \in Active => Follows(n)

\* What is pending is a sequence of events.
LEMMA PendingTypes ==
  ASSUME TypeOK, NEW n \in Nodes
  PROVE  Pending(n) \in Seq(Event) /\ peers[n] \in SUBSET Nodes /\ known[n] \in SUBSET Nodes
<1>1. /\ inbox[n] \in Seq(Event) /\ calling[n] \in Event \cup {None}
      /\ peers[n] \in SUBSET Nodes /\ known[n] \in SUBSET Nodes
  BY DEF TypeOK
<1> QED
  BY <1>1 DEF Pending

\* A step of one node leaves the others as they are.
LEMMA Elsewhere ==
  ASSUME FollowInv, TypeOK', NEW n \in Nodes,
         \A k \in Nodes : k # n =>
           /\ actor'[k] = actor[k] /\ inbox'[k] = inbox[k] /\ calling'[k] = calling[k]
           /\ peers'[k] = peers[k] /\ known'[k] = known[k] /\ (k \in listed' => k \in listed)
           /\ (k \notin listed => k \notin listed'),
         actor'[n] = "unspawned" => Unborn(n)',
         n \in listed' /\ actor'[n] \in Active => Follows(n)'
  PROVE  FollowInv'
<1>1. ASSUME NEW k \in Nodes, k # n
      PROVE  /\ Unborn(k) => Unborn(k)'
             /\ Follows(k) => Follows(k)'
  BY <1>1 DEF Unborn, Follows, Pending
<1>2. ASSUME NEW k \in Nodes
      PROVE  /\ actor'[k] = "unspawned" => Unborn(k)'
             /\ k \in listed' /\ actor'[k] \in Active => Follows(k)'
  <2>1. CASE k = n
    BY <2>1
  <2>2. CASE k # n
    <3>1. actor'[k] = actor[k] /\ (k \in listed' => k \in listed)
      BY <2>2
    <3> QED
      BY <1>1, <2>2, <3>1 DEF FollowInv
  <2> QED
    BY <2>1, <2>2
<1> QED
  BY <1>2 DEF FollowInv

\* memberlist announces what it has learned, by a callback that is waiting.
LEMMA Announce ==
  ASSUME MembershipAssumption, TypeOK, NEW n \in Nodes, NEW e \in Event,
         Follows(n), calling[n] = None, calling'[n] = e, inbox'[n] = inbox[n],
         peers'[n] = peers[n], known'[n] = Apply(known[n], e)
  PROVE  Follows(n)'
<1>1. inbox[n] \in Seq(Event) /\ peers[n] \in SUBSET Nodes /\ e # None
  BY DEF TypeOK, MembershipAssumption
<1>2. Pending(n) = inbox[n] /\ Pending(n)' = Append(inbox[n], e)
  BY <1>1 DEF Pending
<1>3. LastWord(peers[n], Append(inbox[n], e)) = Apply(LastWord(peers[n], inbox[n]), e)
  BY <1>1, NewWord
<1> QED
  BY <1>2, <1>3 DEF Follows

\* Each kind of step: of an actor's life, of its mailbox, of memberlist.
LEMMA FollowLife ==
  ASSUME MembershipAssumption, FollowInv, TypeOK', NEW n \in Nodes,
         \/ SpawnP2P(n) \/ CreateFails(n) \/ NoSeeds(n) \/ JoinFails(n) \/ OnStartReturns(n)
         \/ Stop(n) \/ OnStop(n) \/ Die(n)
  PROVE  FollowInv'
<1>1. /\ actor \in [Nodes -> {"unspawned", "starting", "joined", "running", "closing", "stopped", "dead"}]
      /\ calling \in [Nodes -> Event \cup {None}] /\ inbox \in [Nodes -> Seq(Event)]
      /\ peers \in [Nodes -> SUBSET Nodes] /\ known \in [Nodes -> SUBSET Nodes]
      /\ listed \subseteq Nodes
  BY DEF FollowInv, TypeOK
<1>2. CASE SpawnP2P(n)
  <2>1. /\ actor[n] = "unspawned" /\ actor' = [actor EXCEPT ![n] = "starting"] /\ listed' = listed \cup {n}
        /\ UNCHANGED <<inbox, calling, peers, known>>
    BY <1>2 DEF SpawnP2P, Notify
  <2>2. Unborn(n)
    BY <2>1 DEF FollowInv
  <2>3. Follows(n)'
    <3>1. peers'[n] = {} /\ known'[n] = {} /\ Pending(n)' = <<>>
      BY <2>1, <2>2 DEF Unborn, Pending
    <3> QED
      BY <3>1, NoWord DEF Follows
  <2>4. actor'[n] = "starting" /\ \A k \in Nodes : k # n => actor'[k] = actor[k]
    BY <1>1, <2>1
  <2> QED
    BY <2>1, <2>3, <2>4, Elsewhere
<1>3. CASE CreateFails(n)
  <2>1. /\ actor[n] = "unspawned" /\ actor' = [actor EXCEPT ![n] = "joined"]
        /\ UNCHANGED <<listed, inbox, calling, peers, known>>
    BY <1>3 DEF CreateFails
  <2>2. n \notin listed'
    BY <2>1 DEF FollowInv, Unborn
  <2>3. actor'[n] = "joined" /\ \A k \in Nodes : k # n => actor'[k] = actor[k]
    BY <1>1, <2>1
  <2> QED
    BY <2>1, <2>2, <2>3, Elsewhere
<1>4. CASE NoSeeds(n) \/ JoinFails(n) \/ OnStartReturns(n) \/ Stop(n)
  <2>1. /\ actor[n] \in Active /\ actor'[n] # "unspawned"
        /\ \A k \in Nodes : k # n => actor'[k] = actor[k]
    BY <1>1, <1>4 DEF NoSeeds, JoinFails, OnStartReturns, Stop, Active
  <2>2. UNCHANGED <<listed, inbox, calling, peers, known>>
    BY <1>4 DEF NoSeeds, JoinFails, OnStartReturns, Stop
  <2>3. Follows(n) => Follows(n)'
    BY <2>2 DEF Follows, Pending
  <2>4. n \in listed' => Follows(n)'
    BY <2>1, <2>2, <2>3 DEF FollowInv
  <2> QED
    BY <2>1, <2>2, <2>4, Elsewhere
<1>5. CASE OnStop(n) \/ Die(n)
  <2>1. actor'[n] # "unspawned" /\ listed' = listed \ {n}
    BY <1>1, <1>5 DEF OnStop, Die
  <2>2. \A k \in Nodes : k # n =>
          /\ actor'[k] = actor[k] /\ inbox'[k] = inbox[k] /\ calling'[k] = calling[k]
          /\ peers'[k] = peers[k] /\ known'[k] = known[k]
    BY <1>1, <1>5 DEF OnStop, Die, Notify
  <2> QED
    BY <2>1, <2>2, Elsewhere
<1> QED
  BY <1>2, <1>3, <1>4, <1>5

\* A callback puts its event into the mailbox, and the actor handles one.
LEMMA FollowMail ==
  ASSUME MembershipAssumption, FollowInv, TypeOK', NEW n \in Nodes, TellSelf(n) \/ HandleEvent(n)
  PROVE  FollowInv'
<1>1. /\ calling \in [Nodes -> Event \cup {None}] /\ inbox \in [Nodes -> Seq(Event)]
      /\ peers \in [Nodes -> SUBSET Nodes] /\ TypeOK
  BY DEF FollowInv, TypeOK
<1>2. CASE TellSelf(n)
  <2>1. /\ calling[n] # None /\ calling' = [calling EXCEPT ![n] = None]
        /\ UNCHANGED <<actor, listed, peers, known>>
        /\ \/ actor[n] \in {"closing", "stopped"} /\ UNCHANGED inbox
           \/ inbox' = [inbox EXCEPT ![n] = Append(inbox[n], calling[n])]
    BY <1>2 DEF TellSelf
  <2>2. actor'[n] \in Active => inbox'[n] = Append(inbox[n], calling[n])
    BY <1>1, <2>1 DEF Active
  <2>3. calling'[n] = None
    BY <1>1, <2>1
  <2>4. actor'[n] \in Active => Pending(n)' = Pending(n)
    BY <2>1, <2>2, <2>3 DEF Pending
  <2>5. n \in listed' /\ actor'[n] \in Active => Follows(n)'
    BY <2>1, <2>4 DEF FollowInv, Follows
  <2>6. actor'[n] # "unspawned"
    BY <2>1 DEF FollowInv, Unborn
  <2>7. \A k \in Nodes : k # n => inbox'[k] = inbox[k] /\ calling'[k] = calling[k]
    BY <1>1, <2>1
  <2> QED
    BY <2>1, <2>5, <2>6, <2>7, Elsewhere
<1>3. CASE HandleEvent(n)
  <2>1. /\ actor[n] \in {"running", "closing"} /\ inbox[n] # <<>>
        /\ inbox' = [inbox EXCEPT ![n] = Tail(inbox[n])]
        /\ peers' = [peers EXCEPT ![n] = Apply(peers[n], Head(inbox[n]))]
        /\ UNCHANGED <<actor, listed, calling, known>>
    BY <1>3 DEF HandleEvent
  <2>2. inbox'[n] = Tail(inbox[n]) /\ peers'[n] = Apply(peers[n], Head(inbox[n])) /\ calling'[n] = calling[n]
    BY <1>1, <2>1
  <2>3. /\ Pending(n) \in Seq(Event) /\ Pending(n) # <<>> /\ Head(Pending(n)) = Head(inbox[n])
        /\ Pending(n)' = Tail(Pending(n))
    <3>1. inbox[n] \in Seq(Event) /\ calling[n] \in Event \cup {None}
      BY <1>1
    <3>2. CASE calling[n] = None
      BY <2>1, <2>2, <3>1, <3>2 DEF Pending
    <3>3. CASE calling[n] # None
      <4>1. PICK c \in Event : c = calling[n]
        BY <3>1, <3>3
      <4>2. Pending(n) = Append(inbox[n], c) /\ Pending(n)' = Append(Tail(inbox[n]), c)
        BY <2>2, <3>3, <4>1 DEF Pending
      <4>3. \A s \in Seq(Event) : s # <<>> =>
              /\ Append(s, c) \in Seq(Event) /\ Append(s, c) # <<>> /\ Head(Append(s, c)) = Head(s)
              /\ Tail(Append(s, c)) = Append(Tail(s), c)
        OBVIOUS
      <4> QED
        BY <2>1, <3>1, <4>2, <4>3
    <3> QED
      BY <3>2, <3>3
  <2>4. Follows(n) => Follows(n)'
    <3>1. peers[n] \in SUBSET Nodes
      BY <1>1
    <3>2. LastWord(Apply(peers[n], Head(Pending(n))), Tail(Pending(n))) = LastWord(peers[n], Pending(n))
      BY <2>3, <3>1, FirstWord
    <3> QED
      BY <2>1, <2>2, <2>3, <3>2 DEF Follows
  <2>5. n \in listed' /\ actor'[n] \in Active => Follows(n)'
    BY <2>1, <2>4 DEF FollowInv
  <2>6. \A k \in Nodes : k # n => inbox'[k] = inbox[k] /\ peers'[k] = peers[k]
    BY <1>1, <2>1
  <2> QED
    BY <2>1, <2>5, <2>6, Elsewhere
<1> QED
  BY <1>2, <1>3

\* memberlist learns of a member, loses one or hears of it again.
LEMMA FollowGossip ==
  ASSUME MembershipAssumption, FollowInv, TypeOK', NEW n \in Nodes, NEW m \in Nodes,
         JoinSeed(n, m) \/ Learn(n, m) \/ Lose(n, m) \/ Update(n, m)
  PROVE  FollowInv'
<1>1. /\ actor \in [Nodes -> {"unspawned", "starting", "joined", "running", "closing", "stopped", "dead"}]
      /\ calling \in [Nodes -> Event \cup {None}] /\ known \in [Nodes -> SUBSET Nodes] /\ TypeOK
  BY DEF FollowInv, TypeOK
<1>2. /\ n \in listed /\ calling[n] = None
      /\ UNCHANGED <<listed, inbox, peers>>
  BY DEF JoinSeed, Learn, Lose, Update, Idle
<1>3. /\ actor[n] # "unspawned" /\ actor'[n] # "unspawned"
      /\ actor'[n] \in Active => actor[n] \in Active
      /\ \A k \in Nodes : k # n => actor'[k] = actor[k]
  <2>1. actor[n] # "unspawned"
    BY <1>2 DEF FollowInv, Unborn
  <2>2. UNCHANGED actor \/ (actor[n] = "starting" /\ actor' = [actor EXCEPT ![n] = "joined"])
    BY DEF JoinSeed, Learn, Lose, Update
  <2> QED
    BY <1>1, <2>1, <2>2 DEF Active
<1>4. \A k \in Nodes : k # n => calling'[k] = calling[k] /\ known'[k] = known[k]
  BY <1>1 DEF JoinSeed, Learn, Lose, Update, Notify
<1>5. /\ Joined(m) \in Event /\ Left(m) \in Event /\ (m # n => Joined(m) # Joined(n)) /\ Left(m) # Joined(n)
      /\ \A s : Apply(s, Joined(m)) = s \cup {m} /\ Apply(s, Left(m)) = s \ {m}
  BY Events DEF Apply
<1>6. \/ calling'[n] = calling[n] /\ known'[n] = known[n]
      \/ calling'[n] = Joined(m) /\ known'[n] = Apply(known[n], Joined(m))
      \/ calling'[n] = Left(m) /\ known'[n] = Apply(known[n], Left(m))
  <2>1. CASE JoinSeed(n, m)
    <3>1. m # n
      BY <2>1 DEF JoinSeed, MembershipAssumption
    <3>2. CASE UNCHANGED <<known, calling>>
      BY <3>2
    <3>3. CASE known' = [known EXCEPT ![n] = known[n] \cup {m}] /\ Notify(n, Joined(m))
      BY <1>1, <1>5, <3>1, <3>3 DEF Notify
    <3> QED
      BY <2>1, <3>2, <3>3 DEF JoinSeed
  <2>2. CASE Learn(n, m)
    <3>1. m # n
      BY <2>2 DEF Learn
    <3> QED
      BY <1>1, <1>5, <2>2, <3>1 DEF Learn, Notify
  <2>3. CASE Lose(n, m)
    BY <1>1, <1>5, <2>3 DEF Lose, Notify
  <2>4. CASE Update(n, m)
    <3>1. known' = known /\ known[n] = Apply(known[n], Joined(m))
      BY <1>5, <2>4 DEF Update
    <3>2. calling' = calling \/ calling' = [calling EXCEPT ![n] = Joined(m)]
      BY <2>4 DEF Update, Notify
    <3> QED
      BY <1>1, <3>1, <3>2
  <2> QED
    BY <2>1, <2>2, <2>3, <2>4
<1>7. actor'[n] \in Active => Follows(n)'
  <2> SUFFICES ASSUME actor'[n] \in Active PROVE Follows(n)'
    OBVIOUS
  <2>1. Follows(n)
    BY <1>2, <1>3 DEF FollowInv
  <2>2. CASE calling'[n] = calling[n] /\ known'[n] = known[n]
    BY <1>2, <2>1, <2>2 DEF Follows, Pending
  <2>3. ASSUME NEW e \in Event, calling'[n] = e /\ known'[n] = Apply(known[n], e)
        PROVE  Follows(n)'
    BY <1>1, <1>2, <2>1, <2>3, Announce
  <2> QED
    BY <1>5, <1>6, <2>2, <2>3
<1> QED
  BY <1>2, <1>3, <1>4, <1>7, Elsewhere

\* Every step keeps the peers following.
LEMMA FollowNext ==
  ASSUME MembershipAssumption, FollowInv, [Next]_vars
  PROVE  FollowInv'
<1>1. TypeOK'
  BY TypeNext DEF FollowInv
<1>2. CASE UNCHANGED vars
  BY <1>1, <1>2 DEF vars, FollowInv, Unborn, Follows, Pending
<1>3. CASE Next
  BY <1>1, <1>3, FollowLife, FollowMail, FollowGossip DEF Next, Step, Starts, Stops
<1> QED
  BY <1>2, <1>3

\* The actor's peers and the events it has yet to handle come to the members
\* that memberlist knows: no event is lost or overtaken.
THEOREM PeersFollow == MembershipAssumption => (Spec => []PeersFollowMembership)
<1> SUFFICES ASSUME MembershipAssumption PROVE Spec => []PeersFollowMembership
  OBVIOUS
<1>1. Init => FollowInv
  <2> SUFFICES ASSUME Init PROVE FollowInv
    OBVIOUS
  <2>1. TypeOK
    BY TypeInit
  <2>2. \A n \in Nodes : Unborn(n) /\ n \notin listed
    BY DEF Init, Unborn
  <2> QED
    BY <2>1, <2>2 DEF FollowInv
<1>2. FollowInv /\ [Next]_vars => FollowInv'
  BY FollowNext
<1>3. FollowInv => PeersFollowMembership
  BY DEF FollowInv, TypeOK, PeersFollowMembership, Follows, Active
<1> QED
  BY <1>1, <1>2, <1>3, PTL DEF Spec

-----------------------------------------------------------------------------
(* Room. Without mistakes memberlist announces every other member once and *)
(* takes it back once, when it is gone for good. So what is pending never  *)
(* holds an event twice, nor one about the node itself.                    *)

Gone(m) == actor[m] # "unspawned" /\ m \notin listed

Announced(n, e) ==
  /\ e.node # n
  /\ e.type = "peerJoined" => e.node \in known[n] \/ Gone(e.node)
  /\ e.type = "peerLeft" => e.node \notin known[n] /\ Gone(e.node)

OnceEach(n) ==
  /\ \A i, j \in DOMAIN Pending(n) : Pending(n)[i] = Pending(n)[j] => i = j
  /\ \A i \in DOMAIN Pending(n) : Announced(n, Pending(n)[i])

Members(n) == n \notin known[n] /\ \A m \in known[n] : actor[m] # "unspawned"

\* A stopped actor's mailbox is empty; its own leave has nowhere to go.
RoomInv ==
  /\ FollowInv
  /\ \A n \in Nodes : /\ Members(n)
                      /\ actor[n] = "stopped" => inbox[n] = <<>>
                      /\ flaps = 0 /\ actor[n] # "stopped" => OnceEach(n)

\* Who is spawned has been for ever, and who is gone does not come back.
LEMMA GoneForever ==
  ASSUME FollowInv, Next, NEW m \in Nodes, actor[m] # "unspawned"
  PROVE  actor'[m] # "unspawned" /\ (Gone(m) => Gone(m)')
<1>1. /\ actor \in [Nodes -> {"unspawned", "starting", "joined", "running", "closing", "stopped", "dead"}]
      /\ listed \subseteq Nodes
  BY DEF FollowInv, TypeOK
<1>2. ASSUME NEW n \in Nodes, SpawnP2P(n) \/ CreateFails(n)
      PROVE  actor'[m] = actor[m] /\ (m \in listed' => m \in listed)
  BY <1>1, <1>2 DEF SpawnP2P, CreateFails
<1>3. ASSUME NEW n \in Nodes,
             \/ Starts(n) \/ TellSelf(n) \/ Stop(n) \/ Stops(n) \/ Die(n)
             \/ \E k \in Nodes : Learn(n, k) \/ Lose(n, k) \/ Update(n, k)
      PROVE  actor'[m] # "unspawned" /\ listed' \subseteq listed
  <2>1. \/ UNCHANGED actor
        \/ \E x \in {"joined", "running", "closing", "stopped", "dead"} : actor' = [actor EXCEPT ![n] = x]
    BY <1>3 DEF Starts, NoSeeds, JoinFails, JoinSeed, OnStartReturns, TellSelf, Stop, Stops, HandleEvent, OnStop,
                Die, Learn, Lose, Update
  <2>2. listed' \subseteq listed
    BY <1>3 DEF Starts, NoSeeds, JoinFails, JoinSeed, OnStartReturns, TellSelf, Stop, Stops, HandleEvent, OnStop,
                Die, Learn, Lose, Update
  <2> QED
    BY <1>1, <2>1, <2>2
<1> QED
  BY <1>2, <1>3 DEF Next, Step, Gone

\* What was announced stays so, whatever happens to other nodes.
LEMMA StaysAnnounced ==
  ASSUME RoomInv, Next, NEW n \in Nodes, NEW e \in Event, Announced(n, e), known'[n] = known[n]
  PROVE  Announced(n, e)'
<1>1. e.node \in Nodes
  BY EventForms
<1>2. Gone(e.node) => Gone(e.node)'
  BY <1>1, GoneForever DEF RoomInv, Gone
<1> QED
  BY <1>2 DEF Announced

\* An event that memberlist announces now is not pending.
LEMMA AnnounceOnce ==
  ASSUME MembershipAssumption, RoomInv, Next, NEW n \in Nodes, NEW m \in Nodes, OnceEach(n), m # n,
         calling[n] = None, inbox'[n] = inbox[n],
         NEW e \in Event, calling'[n] = e,
         \/ e = Joined(m) /\ m \in listed \ known[n] /\ known'[n] = known[n] \cup {m}
         \/ e = Left(m) /\ m \in known[n] \ listed /\ known'[n] = known[n] \ {m}
  PROVE  OnceEach(n)'
<1>1. inbox[n] \in Seq(Event) /\ None \notin Event
  BY DEF RoomInv, FollowInv, TypeOK, MembershipAssumption
<1>2. PICK q, p : q \in Seq(Event) /\ q = inbox[n] /\ p = Append(q, e) /\ Pending(n) = q /\ Pending(n)' = p
  BY <1>1 DEF Pending
<1>3. /\ Len(q) \in Nat /\ DOMAIN q = 1..Len(q) /\ DOMAIN p = 1..(Len(q) + 1)
      /\ p[Len(q) + 1] = e /\ \A i \in DOMAIN q : p[i] = q[i] /\ q[i] \in Event
  BY <1>2
<1>4. /\ e.node = m /\ (e = Joined(m) => e.type = "peerJoined") /\ (e = Left(m) => e.type = "peerLeft")
  BY Events
<1>5. \A i \in DOMAIN q : Announced(n, q[i])
  BY <1>2 DEF OnceEach
<1>6. actor[m] # "unspawned" /\ actor'[m] # "unspawned" /\ (m \notin listed => Gone(m)')
  <2>1. actor[m] # "unspawned"
    BY DEF RoomInv, FollowInv, Unborn, Members
  <2> QED
    BY <2>1, GoneForever DEF RoomInv, Gone
<1>7. \A i \in DOMAIN q : q[i] # e
  BY <1>4, <1>5 DEF Announced, Gone
<1>8. Announced(n, e)'
  BY <1>4, <1>6 DEF Announced
<1>9. ASSUME NEW i \in DOMAIN q
      PROVE  Announced(n, q[i])'
  <2>1. q[i] \in Event /\ Announced(n, q[i]) /\ q[i].node \in Nodes
    BY <1>3, <1>5, EventForms
  <2>2. Gone(q[i].node) => Gone(q[i].node)'
    BY <2>1, GoneForever DEF RoomInv, Gone
  <2>3. CASE q[i].node # m
    BY <2>1, <2>2, <2>3 DEF Announced
  <2>4. CASE q[i].node = m
    BY <1>4, <1>6, <2>1, <2>2, <2>4 DEF Announced, Gone
  <2> QED
    BY <2>3, <2>4
<1>10. \A i, j \in DOMAIN p : p[i] = p[j] => i = j
  <2>1. \A i, j \in DOMAIN q : q[i] = q[j] => i = j
    BY <1>2 DEF OnceEach
  <2>2. \A i \in DOMAIN p : i \in DOMAIN q \/ i = Len(q) + 1
    BY <1>3
  <2> QED
    BY <1>3, <1>7, <2>1, <2>2
<1>11. \A i \in DOMAIN p : Announced(n, p[i])'
  <2>1. \A i \in DOMAIN p : i \in DOMAIN q \/ i = Len(q) + 1
    BY <1>3
  <2> QED
    BY <1>3, <1>8, <1>9, <2>1
<1> QED
  BY <1>2, <1>10, <1>11 DEF OnceEach

\* What is pending stays in order when it does not grow.
LEMMA PendingShrinks ==
  ASSUME RoomInv, Next, NEW n \in Nodes, OnceEach(n), known'[n] = known[n], NEW d \in Nat,
         DOMAIN Pending(n)' \subseteq Nat,
         \A i \in DOMAIN Pending(n)' : i + d \in DOMAIN Pending(n) /\ Pending(n)'[i] = Pending(n)[i + d]
  PROVE  OnceEach(n)'
<1>1. Pending(n) \in Seq(Event)
  BY PendingTypes DEF RoomInv, FollowInv
<1>2. PICK p \in Seq(Event) : p = Pending(n)
  BY <1>1
<1>3. PICK q : q = Pending(n)'
  OBVIOUS
<1>4. /\ DOMAIN q \subseteq Nat
      /\ \A i \in DOMAIN q : i + d \in DOMAIN p /\ q[i] = p[i + d]
  BY <1>2, <1>3
<1>5. /\ \A i, j \in DOMAIN p : p[i] = p[j] => i = j
      /\ \A i \in DOMAIN p : p[i] \in Event /\ Announced(n, p[i])
  BY <1>2 DEF OnceEach
<1>6. ASSUME NEW i \in DOMAIN q, NEW j \in DOMAIN q, q[i] = q[j]
      PROVE  i = j
  <2>1. i + d = j + d
    BY <1>4, <1>5, <1>6
  <2>2. i \in Nat /\ j \in Nat
    BY <1>4
  <2> QED
    BY <2>1, <2>2
<1>7. ASSUME NEW i \in DOMAIN q
      PROVE  Announced(n, q[i])'
  <2>1. PICK e \in Event : e = q[i] /\ Announced(n, e)
    BY <1>4, <1>5
  <2>2. Announced(n, e)'
    BY <2>1, StaysAnnounced
  <2> QED
    BY <2>1, <2>2
<1> QED
  BY <1>3, <1>6, <1>7 DEF OnceEach

\* A step of one node leaves the others as they are.
LEMMA RoomElsewhere ==
  ASSUME RoomInv, Next, NEW k \in Nodes, FollowInv', flaps' = 0 => flaps = 0,
         inbox'[k] = inbox[k], calling'[k] = calling[k], known'[k] = known[k], actor'[k] = "stopped" <=> actor[k] = "stopped"
  PROVE  /\ Members(k)'
         /\ actor'[k] = "stopped" => inbox'[k] = <<>>
         /\ flaps' = 0 /\ actor'[k] # "stopped" => OnceEach(k)'
<1>1. Pending(k)' = Pending(k) /\ Pending(k) \in Seq(Event)
  BY PendingTypes DEF Pending, RoomInv, FollowInv
<1>2. ASSUME OnceEach(k) PROVE OnceEach(k)'
  <2>1. DOMAIN Pending(k) \subseteq Nat
    BY <1>1
  <2>2. \A i \in DOMAIN Pending(k)' : i + 0 \in DOMAIN Pending(k) /\ Pending(k)'[i] = Pending(k)[i + 0]
    BY <1>1, <2>1
  <2> QED
    BY <1>1, <1>2, <2>1, <2>2, PendingShrinks
<1>3. known[k] \subseteq Nodes
  BY DEF RoomInv, FollowInv, TypeOK
<1>4. Members(k)'
  BY <1>3, GoneForever DEF RoomInv, Members
<1> QED
  BY <1>2, <1>4 DEF RoomInv

\* A step of a node, given what it makes of its own part.
LEMMA RoomAt ==
  ASSUME RoomInv, Next, FollowInv', flaps' = 0 => flaps = 0, NEW n \in Nodes,
         \A k \in Nodes : k # n =>
           inbox'[k] = inbox[k] /\ calling'[k] = calling[k] /\ known'[k] = known[k] /\ actor'[k] = actor[k],
         Members(n)',
         actor'[n] = "stopped" => inbox'[n] = <<>>,
         flaps' = 0 /\ actor'[n] # "stopped" => OnceEach(n)'
  PROVE  RoomInv'
<1>1. ASSUME NEW k \in Nodes, k # n
      PROVE  /\ Members(k)'
             /\ actor'[k] = "stopped" => inbox'[k] = <<>>
             /\ flaps' = 0 /\ actor'[k] # "stopped" => OnceEach(k)'
  BY <1>1, RoomElsewhere
<1>2. ASSUME NEW k \in Nodes
      PROVE  /\ Members(k)'
             /\ actor'[k] = "stopped" => inbox'[k] = <<>>
             /\ flaps' = 0 /\ actor'[k] # "stopped" => OnceEach(k)'
  BY <1>1
<1> QED
  BY <1>2 DEF RoomInv

\* Steps that only move the actor on: what is pending stays.
LEMMA RoomLife ==
  ASSUME RoomInv, Next, FollowInv', NEW n \in Nodes,
         SpawnP2P(n) \/ CreateFails(n) \/ NoSeeds(n) \/ JoinFails(n) \/ OnStartReturns(n) \/ Stop(n)
  PROVE  RoomInv'
<1>1. /\ actor \in [Nodes -> {"unspawned", "starting", "joined", "running", "closing", "stopped", "dead"}]
      /\ flaps \in Nat
  BY DEF RoomInv, FollowInv, TypeOK
<1>2. UNCHANGED <<inbox, calling, known>> /\ (flaps' = 0 => flaps = 0)
  BY <1>1 DEF SpawnP2P, Notify, CreateFails, NoSeeds, JoinFails, Flap, OnStartReturns, Stop
<1>3. actor[n] # "stopped" /\ actor'[n] # "stopped" /\ \A k \in Nodes : k # n => actor'[k] = actor[k]
  BY <1>1 DEF SpawnP2P, CreateFails, NoSeeds, JoinFails, OnStartReturns, Stop
<1>4. ASSUME NEW k \in Nodes
      PROVE  /\ Members(k)'
             /\ actor'[k] = "stopped" => inbox'[k] = <<>>
             /\ flaps' = 0 /\ actor'[k] # "stopped" => OnceEach(k)'
  <2>1. actor'[k] = "stopped" <=> actor[k] = "stopped"
    BY <1>3
  <2> QED
    BY <1>2, <2>1, RoomElsewhere
<1> QED
  BY <1>4 DEF RoomInv

\* The end of an actor: nothing is pending but, perhaps, its own leave.
LEMMA RoomEnd ==
  ASSUME RoomInv, Next, FollowInv', NEW n \in Nodes, OnStop(n) \/ Die(n)
  PROVE  RoomInv'
<1>1. /\ actor \in [Nodes -> {"unspawned", "starting", "joined", "running", "closing", "stopped", "dead"}]
      /\ calling \in [Nodes -> Event \cup {None}] /\ inbox \in [Nodes -> Seq(Event)]
      /\ known \in [Nodes -> SUBSET Nodes]
  BY DEF RoomInv, FollowInv, TypeOK
<1>2. UNCHANGED flaps /\ \A k \in Nodes : k # n =>
        inbox'[k] = inbox[k] /\ calling'[k] = calling[k] /\ known'[k] = known[k] /\ actor'[k] = actor[k]
  BY <1>1 DEF OnStop, Die, Notify
<1>3. CASE OnStop(n)
  <2>1. actor'[n] = "stopped" /\ inbox'[n] = <<>> /\ known'[n] = known[n]
    BY <1>1, <1>3 DEF OnStop
  <2>2. Members(n)'
    BY <1>1, <2>1, GoneForever DEF RoomInv, Members
  <2> QED
    BY <1>2, <2>1, <2>2, RoomAt
<1>4. CASE Die(n)
  <2>1. inbox'[n] = <<>> /\ known'[n] = {} /\ calling'[n] = None
    BY <1>1, <1>4 DEF Die
  <2>2. Members(n)'
    BY <2>1 DEF Members
  <2>3. OnceEach(n)'
    <3>1. Pending(n)' = <<>>
      BY <2>1 DEF Pending
    <3> QED
      BY <3>1 DEF OnceEach
  <2> QED
    BY <1>2, <2>1, <2>2, <2>3, RoomAt
<1> QED
  BY <1>3, <1>4

\* An event moves into the mailbox, or is refused, or is handled.
LEMMA RoomMail ==
  ASSUME MembershipAssumption, RoomInv, Next, FollowInv', NEW n \in Nodes, TellSelf(n) \/ HandleEvent(n)
  PROVE  RoomInv'
<1>1. /\ calling \in [Nodes -> Event \cup {None}] /\ inbox \in [Nodes -> Seq(Event)]
      /\ known[n] \subseteq Nodes /\ None \notin Event
  BY DEF RoomInv, FollowInv, TypeOK, MembershipAssumption
<1>2. UNCHANGED <<actor, known, flaps>>
  BY DEF TellSelf, HandleEvent
<1>3. \A k \in Nodes : k # n => inbox'[k] = inbox[k] /\ calling'[k] = calling[k]
  BY <1>1 DEF TellSelf, HandleEvent
<1>4. Members(n)'
  BY <1>2 DEF RoomInv, Members
<1>5. actor'[n] = "stopped" => inbox'[n] = <<>>
  BY <1>2 DEF RoomInv, TellSelf, HandleEvent
<1>6. ASSUME OnceEach(n) PROVE OnceEach(n)'
  <2>1. PICK s \in Seq(Event), c \in Event \cup {None} : s = inbox[n] /\ c = calling[n]
    BY <1>1
  <2>2. CASE TellSelf(n)
    <3>1. c \in Event /\ Pending(n) = Append(s, c) /\ calling'[n] = None
      BY <1>1, <2>1, <2>2 DEF TellSelf, Pending
    <3>2. Pending(n)' = s \/ Pending(n)' = Append(s, c)
      BY <1>1, <2>1, <2>2, <3>1 DEF TellSelf, Pending
    <3>3. /\ DOMAIN Append(s, c) = 1..(Len(s) + 1) /\ DOMAIN s = 1..Len(s) /\ Len(s) \in Nat
          /\ \A i \in DOMAIN s : s[i] = Append(s, c)[i]
      BY <3>1
    <3>4. PICK q : q = Pending(n)'
      OBVIOUS
    <3>5. /\ DOMAIN q \subseteq Nat
          /\ \A i \in DOMAIN q : i + 0 \in DOMAIN Append(s, c) /\ q[i] = Append(s, c)[i + 0]
      BY <3>2, <3>3, <3>4
    <3> QED
      BY <1>2, <1>6, <3>1, <3>4, <3>5, PendingShrinks
  <2>3. CASE HandleEvent(n)
    <3>1. s # <<>> /\ inbox'[n] = Tail(s) /\ calling'[n] = c
      BY <1>1, <2>1, <2>3 DEF HandleEvent
    <3>2. PICK p, q : p = Pending(n) /\ q = Pending(n)'
      OBVIOUS
    <3>3. \/ c = None /\ p = s /\ q = Tail(s)
          \/ c \in Event /\ p = Append(s, c) /\ q = Append(Tail(s), c)
      BY <2>1, <3>1, <3>2 DEF Pending
    <3>4. /\ DOMAIN q \subseteq Nat
          /\ \A i \in DOMAIN q : i + 1 \in DOMAIN p /\ q[i] = p[i + 1]
      <4>1. CASE c = None /\ p = s /\ q = Tail(s)
        BY <3>1, <4>1
      <4>2. CASE c \in Event /\ p = Append(s, c) /\ q = Append(Tail(s), c)
        <5>1. /\ Tail(s) \in Seq(Event) /\ Len(Tail(s)) = Len(s) - 1 /\ Len(s) \in Nat /\ Len(s) >= 1
              /\ \A i \in 1..(Len(s) - 1) : Tail(s)[i] = s[i + 1]
          BY <3>1
        <5>2. /\ DOMAIN q = 1..Len(s) /\ q[Len(s)] = c /\ \A i \in 1..(Len(s) - 1) : q[i] = Tail(s)[i]
          <6>1. \A r \in Seq(Event) : LET a == Append(r, c)
                                      IN  /\ DOMAIN a = 1..(Len(r) + 1) /\ a[Len(r) + 1] = c
                                          /\ \A i \in 1..Len(r) : a[i] = r[i]
            BY <4>2
          <6>2. PICK r \in Seq(Event) : r = Tail(s) /\ Len(r) = Len(s) - 1
            BY <5>1
          <6>3. q = Append(r, c) /\ Len(r) + 1 = Len(s)
            BY <4>2, <5>1, <6>2
          <6> QED
            BY <6>1, <6>2, <6>3
        <5>3. /\ DOMAIN p = 1..(Len(s) + 1) /\ p[Len(s) + 1] = c /\ \A i \in 1..Len(s) : p[i] = s[i]
          BY <4>2, <5>1
        <5>4. PICK l \in Nat : l = Len(s) /\ l >= 1
          BY <5>1
        <5>5. \A i \in 1..l : i \in Nat /\ i + 1 \in 1..(l + 1) /\ (i = l \/ (i \in 1..(l - 1) /\ i + 1 \in 1..l))
          BY <5>4
        <5>6. ASSUME NEW i \in 1..l PROVE i + 1 \in DOMAIN p /\ q[i] = p[i + 1]
          <6>1. CASE i = l
            BY <5>2, <5>3, <5>4, <5>5, <6>1
          <6>2. CASE i \in 1..(l - 1) /\ i + 1 \in 1..l
            BY <5>1, <5>2, <5>3, <5>4, <5>5, <6>2
          <6> QED
            BY <5>5, <6>1, <6>2
        <5> QED
          BY <5>2, <5>4, <5>5, <5>6
      <4> QED
        BY <3>3, <4>1, <4>2
    <3> QED
      BY <1>2, <1>6, <3>2, <3>4, PendingShrinks
  <2> QED
    BY <2>2, <2>3
<1> QED
  BY <1>2, <1>3, <1>4, <1>5, <1>6, RoomAt DEF RoomInv

\* memberlist learns of a member or loses one; the rest is a mistake.
LEMMA RoomGossip ==
  ASSUME MembershipAssumption, RoomInv, Next, FollowInv', NEW n \in Nodes, NEW m \in Nodes,
         JoinSeed(n, m) \/ Learn(n, m) \/ Lose(n, m) \/ Update(n, m)
  PROVE  RoomInv'
<1>1. /\ actor \in [Nodes -> {"unspawned", "starting", "joined", "running", "closing", "stopped", "dead"}]
      /\ calling \in [Nodes -> Event \cup {None}] /\ known \in [Nodes -> SUBSET Nodes]
      /\ flaps \in Nat
  BY DEF RoomInv, FollowInv, TypeOK
<1>2. n \in listed /\ calling[n] = None /\ UNCHANGED inbox /\ (flaps' = 0 => flaps = 0)
  BY <1>1 DEF JoinSeed, Learn, Lose, Update, Idle, Flap
<1>3. /\ actor'[n] = "stopped" <=> actor[n] = "stopped"
      /\ \A k \in Nodes : k # n => actor'[k] = actor[k]
  BY <1>1 DEF JoinSeed, Learn, Lose, Update
<1>4. \A k \in Nodes : k # n => calling'[k] = calling[k] /\ known'[k] = known[k]
  BY <1>1 DEF JoinSeed, Learn, Lose, Update, Notify
<1>5. Joined(m) \in Event /\ Left(m) \in Event /\ (m # n => Joined(m) # Joined(n)) /\ Left(m) # Joined(n)
  BY Events
<1>6. n \notin known[n]
  BY DEF RoomInv, Members
<1>7. \/ known'[n] = known[n] /\ (flaps' = 0 => calling'[n] = calling[n])
      \/ m # n /\ m \in listed \ known[n] /\ known'[n] = known[n] \cup {m} /\ calling'[n] = Joined(m)
      \/ m # n /\ m \in known[n] /\ (flaps' = 0 => m \notin listed) /\ known'[n] = known[n] \ {m}
         /\ calling'[n] = Left(m)
  <2>1. CASE JoinSeed(n, m)
    <3>1. m # n /\ m \in listed
      BY <2>1 DEF JoinSeed, MembershipAssumption, Idle
    <3>2. CASE UNCHANGED <<known, calling>>
      BY <3>2
    <3>3. CASE m \notin known[n] /\ known' = [known EXCEPT ![n] = known[n] \cup {m}] /\ Notify(n, Joined(m))
      BY <1>1, <1>5, <3>1, <3>3 DEF Notify
    <3> QED
      BY <2>1, <3>2, <3>3 DEF JoinSeed
  <2>2. CASE Learn(n, m)
    <3>1. m # n
      BY <2>2 DEF Learn
    <3> QED
      BY <1>1, <1>5, <2>2, <3>1 DEF Learn, Notify
  <2>3. CASE Lose(n, m)
    <3>1. m \in known[n] /\ m # n /\ (flaps' = 0 => m \notin listed)
      BY <1>1, <1>6, <2>3 DEF Lose, Flap
    <3> QED
      BY <1>1, <1>5, <2>3, <3>1 DEF Lose, Notify
  <2>4. CASE Update(n, m)
    BY <1>1, <2>4 DEF Update, Flap
  <2> QED
    BY <2>1, <2>2, <2>3, <2>4
<1>8. Members(n)'
  <2>1. m \in listed => actor[m] # "unspawned"
    BY DEF RoomInv, FollowInv, Unborn
  <2>2. \A k \in Nodes : actor[k] # "unspawned" => actor'[k] # "unspawned"
    BY GoneForever DEF RoomInv
  <2>3. known[n] \subseteq Nodes /\ Members(n)
    BY <1>1 DEF RoomInv
  <2> QED
    BY <1>7, <2>1, <2>2, <2>3 DEF Members
<1>9. ASSUME flaps' = 0, actor'[n] # "stopped" PROVE OnceEach(n)'
  <2>1. OnceEach(n)
    BY <1>2, <1>3, <1>9 DEF RoomInv
  <2>2. CASE known'[n] = known[n] /\ calling'[n] = calling[n]
    BY <1>2, <1>3, <1>9, <2>2, RoomElsewhere DEF RoomInv
  <2>3. CASE m # n /\ m \in listed \ known[n] /\ known'[n] = known[n] \cup {m} /\ calling'[n] = Joined(m)
    BY <1>2, <1>5, <2>1, <2>3, AnnounceOnce
  <2>4. CASE m # n /\ m \in known[n] \ listed /\ known'[n] = known[n] \ {m} /\ calling'[n] = Left(m)
    BY <1>2, <1>5, <2>1, <2>4, AnnounceOnce
  <2> QED
    BY <1>7, <1>9, <2>2, <2>3, <2>4
<1>10. actor'[n] = "stopped" => inbox'[n] = <<>>
  BY <1>2, <1>3 DEF RoomInv
<1> QED
  BY <1>2, <1>3, <1>4, <1>8, <1>9, <1>10, RoomAt

\* Every step keeps the events distinct.
LEMMA RoomNext ==
  ASSUME MembershipAssumption, RoomInv, [Next]_vars
  PROVE  RoomInv'
<1>1. FollowInv'
  BY FollowNext DEF RoomInv
<1>2. CASE UNCHANGED vars
  BY <1>1, <1>2 DEF vars, RoomInv, Members, OnceEach, Pending, Announced, Gone
<1>3. CASE Next
  BY <1>1, <1>3, RoomLife, RoomEnd, RoomMail, RoomGossip DEF Next, Step, Starts, Stops
<1> QED
  BY <1>2, <1>3

\* There are two events for each other node.
LEMMA EventsOfOthers ==
  ASSUME MembershipAssumption, IsFiniteSet(Nodes), NEW n \in Nodes
  PROVE  LET others == {e \in Event : e.node # n}
         IN  /\ IsFiniteSet(others)
             /\ Cardinality(others) \in Nat /\ Cardinality(Nodes) \in Nat
             /\ Cardinality(others) <= 2 * (Cardinality(Nodes) - 1)
<1> DEFINE rest == Nodes \ {n}
           joins == {Joined(m) : m \in rest}
           leaves == {Left(m) : m \in rest}
           others == {e \in Event : e.node # n}
<1>1. IsFiniteSet(rest) /\ Cardinality(rest) = Cardinality(Nodes) - 1 /\ Cardinality(Nodes) \in Nat
  BY FS_RemoveElement, FS_CardinalityType
<1>2. IsFiniteSet(joins) /\ Cardinality(joins) <= Cardinality(rest)
  <2>1. [m \in rest |-> Joined(m)] \in Surjection(rest, joins)
    BY DEF Surjection
  <2> QED
    BY <1>1, <2>1, FS_Surjection
<1>3. IsFiniteSet(leaves) /\ Cardinality(leaves) <= Cardinality(rest)
  <2>1. [m \in rest |-> Left(m)] \in Surjection(rest, leaves)
    BY DEF Surjection
  <2> QED
    BY <1>1, <2>1, FS_Surjection
<1>4. others \subseteq joins \cup leaves
  <2> SUFFICES ASSUME NEW e \in others PROVE e \in joins \cup leaves
    OBVIOUS
  <2>1. e.node \in rest /\ (e = Joined(e.node) \/ e = Left(e.node))
    BY DEF Event, Joined, Left
  <2> QED
    BY <2>1
<1> HIDE DEF rest, joins, leaves, others
<1>5. /\ IsFiniteSet(joins \cup leaves) /\ Cardinality(joins) \in Nat /\ Cardinality(leaves) \in Nat
      /\ Cardinality(joins \cup leaves) = Cardinality(joins) + Cardinality(leaves) - Cardinality(joins \cap leaves)
  BY <1>2, <1>3, FS_Union, FS_CardinalityType
<1>6. Cardinality(joins \cap leaves) \in Nat
  BY <1>2, FS_Subset, FS_CardinalityType
<1>7. IsFiniteSet(others) /\ Cardinality(others) <= Cardinality(joins \cup leaves) /\ Cardinality(others) \in Nat
  BY <1>4, <1>5, FS_Subset, FS_CardinalityType
<1>8. Cardinality(joins \cup leaves) \in Nat
  BY <1>5, FS_CardinalityType
<1>9. Cardinality(others) <= 2 * (Cardinality(Nodes) - 1)
  BY <1>1, <1>2, <1>3, <1>5, <1>6, <1>7, <1>8
<1> QED
  BY <1>1, <1>7, <1>9 DEF others

\* A callback that waits for room would make one event more than there are.
LEMMA RoomIsEnough ==
  ASSUME MembershipAssumption, IsFiniteSet(Nodes), RoomInv
  PROVE  RoomSuffices
<1> SUFFICES ASSUME flaps = 0, MailboxSize >= 2 * (Cardinality(Nodes) - 1), NEW n \in Nodes, Stuck(n)
             PROVE  FALSE
  BY DEF RoomSuffices
<1>1. PICK s, c : s = inbox[n] /\ c = calling[n] /\ s \in Seq(Event) /\ c \in Event
  BY DEF RoomInv, FollowInv, TypeOK, Stuck
<1>2. Len(s) = MailboxSize /\ MailboxSize \in Nat \ {0} /\ c # None
  BY <1>1 DEF Stuck, MembershipAssumption
<1>3. OnceEach(n)
  <2>1. actor[n] # "stopped"
    BY <1>1, <1>2 DEF RoomInv
  <2> QED
    BY <2>1 DEF RoomInv
<1>4. PICK p : p = Pending(n) /\ p = Append(s, c)
  BY <1>1, <1>2 DEF Pending
<1>5. /\ p \in [1..(MailboxSize + 1) -> Event]
      /\ \A i, j \in 1..(MailboxSize + 1) : p[i] = p[j] => i = j
      /\ \A i \in 1..(MailboxSize + 1) : p[i].node # n
  <2>1. p \in Seq(Event) /\ Len(p) = MailboxSize + 1 /\ DOMAIN p = 1..(MailboxSize + 1)
    BY <1>1, <1>2, <1>4
  <2>2. \A i \in DOMAIN p : p[i].node # n
    BY <1>3, <1>4 DEF OnceEach, Announced
  <2>3. \A i, j \in DOMAIN p : p[i] = p[j] => i = j
    BY <1>3, <1>4 DEF OnceEach
  <2> QED
    BY <2>1, <2>2, <2>3
<1> DEFINE others == {e \in Event : e.node # n}
           places == 1..(MailboxSize + 1)
<1>6. /\ IsFiniteSet(others) /\ Cardinality(others) \in Nat /\ Cardinality(Nodes) \in Nat
      /\ Cardinality(others) <= 2 * (Cardinality(Nodes) - 1)
  BY EventsOfOthers
<1>7. p \in [places -> others]
  BY <1>5
<1> HIDE DEF others
<1>8. IsFiniteSet(places) /\ Cardinality(places) = MailboxSize + 1
  <2>1. 1 \in Int /\ MailboxSize + 1 \in Int /\ ~(1 > MailboxSize + 1)
    BY <1>2
  <2>2. IsFiniteSet(places) /\ Cardinality(places) = (MailboxSize + 1) - 1 + 1
    BY <2>1, FS_Interval
  <2> QED
    BY <1>2, <2>2
<1> HIDE DEF places
<1>9. Cardinality(others) < Cardinality(places)
  BY <1>2, <1>6, <1>8
<1>10. \E x, y \in places : x # y /\ p[x] = p[y]
  BY <1>6, <1>7, <1>8, <1>9, FS_PigeonHole
<1> QED
  BY <1>5, <1>10 DEF places

\* Two places for each other member are room enough: as long as memberlist
\* suspects nobody falsely, no callback ever waits for room, however long
\* OnStart or a handler keeps the mailbox from being read.
THEOREM RoomSufficesHolds == MembershipAssumption /\ IsFiniteSet(Nodes) => (Spec => []RoomSuffices)
<1> SUFFICES ASSUME MembershipAssumption, IsFiniteSet(Nodes) PROVE Spec => []RoomSuffices
  OBVIOUS
<1>1. Init => RoomInv
  <2> SUFFICES ASSUME Init PROVE RoomInv
    OBVIOUS
  <2>1. FollowInv
    <3>1. TypeOK
      BY TypeInit
    <3> QED
      BY <3>1 DEF Init, Unborn, FollowInv
  <2>2. ASSUME NEW n \in Nodes PROVE Members(n) /\ inbox[n] = <<>> /\ OnceEach(n)
    <3>1. Pending(n) = <<>> /\ known[n] = {} /\ inbox[n] = <<>>
      BY DEF Init, Pending
    <3> QED
      BY <3>1 DEF Members, OnceEach
  <2> QED
    BY <2>1, <2>2 DEF RoomInv
<1>2. RoomInv /\ [Next]_vars => RoomInv'
  BY RoomNext
<1>3. RoomInv => RoomSuffices
  BY RoomIsEnough
<1> QED
  BY <1>1, <1>2, <1>3, PTL DEF Spec
=============================================================================
