---------------------------- MODULE FLRoundProofs ----------------------------
(***************************************************************************)
(* Safety of a federated round, for any number of workers, attempts and    *)
(* rounds: type correctness with all faults; FromEveryWorker, OfThisRun    *)
(* and the contract of the round as long as no Tell that failed is         *)
(* delivered all the same and no program that gave up waiting is run again.*)
(***************************************************************************)
EXTENDS FLRoundRefinement, FunctionTheorems, FiniteSetTheorems, SequenceTheorems, TLAPS

-----------------------------------------------------------------------------
(* Sequences: which members of a set they have, and whether only once.     *)

Single(s, S) == \A i, j \in 1..Len(s) : s[i] \in S /\ s[j] \in S => i = j

\* Taking the head away: what it was is gone if it was the only one.
LEMMA TailFacts ==
  ASSUME NEW T, NEW s \in Seq(T), s # <<>>, NEW S
  PROVE  /\ Tail(s) \in Seq(T) /\ Head(s) \in T
         /\ Has(Tail(s), S) => Has(s, S)
         /\ Head(s) \in S => Has(s, S)
         /\ Single(s, S) => Single(Tail(s), S)
         /\ Single(s, S) /\ Head(s) \in S => ~Has(Tail(s), S)
<1>1. /\ Tail(s) \in Seq(T) /\ Len(s) \in Nat /\ Len(s) >= 1
      /\ Len(Tail(s)) = Len(s) - 1
      /\ \A i \in 1..Len(Tail(s)) : Tail(s)[i] = s[i + 1]
      /\ Head(s) = s[1] /\ Head(s) \in T
  OBVIOUS
<1>2. ASSUME NEW i \in 1..Len(Tail(s)) PROVE i + 1 \in 1..Len(s) /\ i + 1 # 1
  BY <1>1
<1>3. Has(Tail(s), S) => Has(s, S)
  BY <1>1, <1>2 DEF Has
<1>4. Head(s) \in S => Has(s, S)
  BY <1>1 DEF Has
<1>5. Single(s, S) => Single(Tail(s), S)
  BY <1>1, <1>2 DEF Single
<1>6. Single(s, S) /\ Head(s) \in S => ~Has(Tail(s), S)
  BY <1>1, <1>2 DEF Single, Has
<1> QED
  BY <1>1, <1>3, <1>4, <1>5, <1>6

\* Appending what is not there yet.
LEMMA AppendFacts ==
  ASSUME NEW T, NEW s \in Seq(T), NEW x, NEW S
  PROVE  /\ x \in T => Append(s, x) \in Seq(T)
         /\ Has(Append(s, x), S) <=> Has(s, S) \/ x \in S
         /\ Single(s, S) /\ (x \in S => ~Has(s, S)) => Single(Append(s, x), S)
<1>1. /\ Len(s) \in Nat /\ Len(Append(s, x)) = Len(s) + 1
      /\ \A i \in 1..Len(s) : Append(s, x)[i] = s[i]
      /\ Append(s, x)[Len(s) + 1] = x
  OBVIOUS
<1>2. x \in T => Append(s, x) \in Seq(T)
  OBVIOUS
<1>3. Has(Append(s, x), S) <=> Has(s, S) \/ x \in S
  BY <1>1 DEF Has
<1>4. Single(s, S) /\ (x \in S => ~Has(s, S)) => Single(Append(s, x), S)
  BY <1>1 DEF Single, Has
<1> QED
  BY <1>2, <1>3, <1>4

\* Sequences of no and of one element.
LEMMA ShortFacts ==
  ASSUME NEW x, NEW S
  PROVE  /\ ~Has(<<>>, S) /\ Single(<<>>, S)
         /\ Has(<<x>>, S) <=> x \in S
         /\ Single(<<x>>, S)
BY DEF Has, Single

-----------------------------------------------------------------------------
(* The number of StartTraining messages in a mailbox.                      *)

StartsAt(s) == {i \in 1..Len(s) : s[i] = Start}
CountStarts(s) == Cardinality(StartsAt(s))

\* A mailbox holds finitely many StartTraining messages.
LEMMA CountType ==
  ASSUME NEW T, NEW s \in Seq(T)
  PROVE  IsFiniteSet(StartsAt(s)) /\ CountStarts(s) \in Nat /\ CountStarts(<<>>) = 0
<1>1. IsFiniteSet(1..Len(s))
  BY FS_Interval
<1>2. IsFiniteSet(StartsAt(s))
  BY <1>1, FS_Subset DEF StartsAt
<1>3. StartsAt(<<>>) = {}
  BY DEF StartsAt
<1> QED
  BY <1>2, <1>3, FS_CardinalityType, FS_EmptySet DEF CountStarts

\* Tell(StartTraining) adds one, any other Tell none.
LEMMA CountAppend ==
  ASSUME NEW T, NEW s \in Seq(T), NEW x
  PROVE  CountStarts(Append(s, x)) = CountStarts(s) + (IF x = Start THEN 1 ELSE 0)
<1>1. /\ Len(s) \in Nat /\ Len(Append(s, x)) = Len(s) + 1
      /\ \A i \in 1..Len(s) : Append(s, x)[i] = s[i]
      /\ Append(s, x)[Len(s) + 1] = x
  OBVIOUS
<1>2. IsFiniteSet(StartsAt(s)) /\ CountStarts(s) \in Nat
  BY CountType
<1>3. CASE x = Start
  <2>1. StartsAt(Append(s, x)) = StartsAt(s) \cup {Len(s) + 1}
    BY <1>1, <1>3 DEF StartsAt
  <2>2. Len(s) + 1 \notin StartsAt(s)
    BY <1>1 DEF StartsAt
  <2> QED
    BY <1>2, <1>3, <2>1, <2>2, FS_AddElement DEF CountStarts
<1>4. CASE x # Start
  <2>1. StartsAt(Append(s, x)) = StartsAt(s)
    BY <1>1, <1>4 DEF StartsAt
  <2> QED
    BY <1>2, <1>4, <2>1 DEF CountStarts
<1> QED
  BY <1>3, <1>4

\* Taking a message from a mailbox removes one, if it is one.
LEMMA CountTail ==
  ASSUME NEW T, NEW s \in Seq(T), s # <<>>
  PROVE  CountStarts(s) = CountStarts(Tail(s)) + (IF Head(s) = Start THEN 1 ELSE 0)
<1>1. /\ Tail(s) \in Seq(T) /\ Len(s) \in Nat /\ Len(s) >= 1
      /\ Len(Tail(s)) = Len(s) - 1
      /\ \A i \in 1..Len(Tail(s)) : Tail(s)[i] = s[i + 1]
      /\ Head(s) = s[1]
  OBVIOUS
<1> DEFINE B == StartsAt(Tail(s))
           A == StartsAt(s) \ {1}
           f == [i \in B |-> i + 1]
<1>2. IsFiniteSet(StartsAt(s)) /\ CountStarts(s) \in Nat /\ IsFiniteSet(B) /\ CountStarts(Tail(s)) \in Nat
  BY <1>1, CountType
<1>3. f \in Bijection(B, A)
  <2>1. \A i \in B : f[i] \in A
    BY <1>1 DEF StartsAt
  <2>2. \A i, j \in B : f[i] = f[j] => i = j
    BY <1>1 DEF StartsAt
  <2>3. \A k \in A : k - 1 \in B /\ f[k - 1] = k
    BY <1>1 DEF StartsAt
  <2>4. f \in [B -> A]
    BY <2>1
  <2> HIDE DEF f, A, B
  <2> QED
    BY <2>2, <2>3, <2>4, Fun_IsBij
<1>4. Cardinality(A) = Cardinality(B)
  BY <1>2, <1>3, FS_Bijection DEF ExistsBijection
<1>5. Cardinality(A) = IF 1 \in StartsAt(s) THEN CountStarts(s) - 1 ELSE CountStarts(s)
  BY <1>2, FS_RemoveElement, Zenon DEF CountStarts
<1>6. 1 \in StartsAt(s) <=> Head(s) = Start
  BY <1>1 DEF StartsAt
<1>7. Cardinality(B) = CountStarts(Tail(s))
  BY Zenon DEF CountStarts
<1> QED
  BY <1>2, <1>4, <1>5, <1>6, <1>7

-----------------------------------------------------------------------------
(* Who sends what, and how many rounds there can be.                       *)

Outgoing(a) ==
  IF a = Coordinator
  THEN {Envelope(Aggregator, Trigger(r)) : r \in Rounds}
         \cup {Envelope(w, Train(r)) : w \in WorkerSet, r \in Rounds}
  ELSE IF a = Aggregator THEN {Envelope(Coordinator, m) : m \in ModelMessage}
  ELSE {Envelope(Aggregator, m) : m \in {u \in UpdateMessage : u.worker = a}}

OutboxInv ==
  /\ \A a \in Actors : outbox[a] \in Seq(Outgoing(a))
  /\ \A e \in late : e.msg # Start

\* A round is begun by a StartTraining of the run; an ended process has none.
StartsInv ==
  /\ driver = "down" => CountStarts(mailbox[Coordinator]) = 0
  /\ driver # "down" => CountStarts(mailbox[Coordinator]) + roundID <= started
  /\ driver = "waiting" => read < Starts

BaseInv == TypeOK /\ OutboxInv /\ StartsInv

Post == [to : Actors, msg : Message]

\* What the actors send are messages, and none is a StartTraining.
LEMMA Messages ==
  /\ Start \in Message
  /\ \A r \in Rounds : Trigger(r) \in Message /\ Trigger(r) # Start
                       /\ Train(r) \in Message /\ Train(r) # Start
  /\ \A m \in UpdateMessage : m \in Message /\ m # Start
  /\ \A m \in ModelMessage : m \in Message /\ m # Start
<1>1. /\ Start \in Message
      /\ \A r \in Rounds : Trigger(r) \in Message /\ Train(r) \in Message
  BY DEF Start, Trigger, Train, Message
<1>2. UpdateMessage \subseteq Message /\ ModelMessage \subseteq Message
  BY Zenon DEF Message
<1>3. \A r \in Rounds : Trigger(r) # Start /\ Train(r) # Start
  <2>1. \A r \in Rounds : Trigger(r).type = "AggregateTrigger" /\ Train(r).type = "TrainRequest"
    BY DEF Trigger, Train
  <2> QED
    BY <2>1 DEF Start
<1>4. \A m \in UpdateMessage \cup ModelMessage : m.type # "StartTraining"
  BY DEF UpdateMessage, ModelMessage
<1>5. Start.type = "StartTraining"
  BY DEF Start
<1> QED
  BY <1>1, <1>2, <1>3, <1>4, <1>5

\* A message of a type has the fields of that type.
LEMMA MessageKinds ==
  ASSUME NEW m \in Message
  PROVE  /\ m.type = "StartTraining" <=> m = Start
         /\ m.type = "AggregateTrigger" => m.round \in Rounds /\ m.expected = Len(Workers)
         /\ m.type = "TrainRequest" => m.round \in Rounds
         /\ m.type = "LocalModelUpdate" => m \in UpdateMessage
         /\ m.type = "AggregatedModel" => m \in ModelMessage
BY DEF Message, Start, UpdateMessage, ModelMessage

\* The actors are different, and what they send has an addressee.
LEMMA Posts ==
  /\ Coordinator \in Actors /\ Aggregator \in Actors /\ WorkerSet \subseteq Actors
  /\ Coordinator # Aggregator /\ Coordinator \notin WorkerSet /\ Aggregator \notin WorkerSet
  /\ \A a \in Actors : \A e \in Outgoing(a) : e \in Post /\ e.msg # Start
<1> USE RoundAssumption DEF RoundAssumption
<1>1. /\ Coordinator \in Actors /\ Aggregator \in Actors /\ WorkerSet \subseteq Actors
      /\ Coordinator # Aggregator /\ Coordinator \notin WorkerSet /\ Aggregator \notin WorkerSet
  BY Zenon DEF Actors
<1>2. ASSUME NEW a \in Actors, NEW e \in Outgoing(a) PROVE e.to \in Actors /\ e.msg \in Message /\ e.msg # Start /\ e = Envelope(e.to, e.msg)
  <2>1. CASE a = Coordinator
    BY <1>1, <2>1, Messages DEF Outgoing, Envelope
  <2>2. CASE a = Aggregator
    BY <1>1, <2>2, Messages DEF Outgoing, Envelope
  <2>3. CASE a # Coordinator /\ a # Aggregator
    BY <1>1, <2>3, Messages DEF Outgoing, Envelope
  <2> QED
    BY <2>1, <2>2, <2>3
<1>3. ASSUME NEW a \in Actors, NEW e \in Outgoing(a) PROVE e \in Post /\ e.msg # Start
  BY <1>2, SMT DEF Envelope, Post
<1> QED
  BY <1>1, <1>3

\* The head of an outbox, and the outbox without it.
LEMMA DoneFacts ==
  ASSUME TypeOK, OutboxInv, NEW a \in Actors, outbox[a] # <<>>
  PROVE  /\ Head(outbox[a]) \in Outgoing(a) /\ Head(outbox[a]) \in Post /\ Head(outbox[a]).msg # Start
         /\ Tail(outbox[a]) \in Seq(Outgoing(a)) /\ Tail(outbox[a]) \in Seq(Post)
<1>1. outbox[a] \in Seq(Outgoing(a)) /\ outbox[a] \in Seq(Post)
  BY DEF OutboxInv, TypeOK, Post
<1>2. Head(outbox[a]) \in Outgoing(a) /\ Tail(outbox[a]) \in Seq(Outgoing(a)) /\ Tail(outbox[a]) \in Seq(Post)
  BY <1>1, TailFacts
<1> QED
  BY <1>2, Posts

\* After an attempt the first message is still there, or it is gone.
LEMMA AttemptFacts ==
  ASSUME TypeOK, OutboxInv, NEW a \in Actors, outbox[a] # <<>>, Fail(a) \/ Done(a)
  PROVE  /\ tries' \in [Actors -> 0..(Attempts - 1)]
         /\ outbox' \in [Actors -> Seq(Post)]
         /\ \A b \in Actors : outbox'[b] \in Seq(Outgoing(b))
         /\ outbox' = outbox \/ outbox' = [outbox EXCEPT ![a] = Tail(outbox[a])]
<1>1. Attempts \in Nat \ {0}
  BY RoundAssumption DEF RoundAssumption
<1>2. /\ tries \in [Actors -> 0..(Attempts - 1)] /\ outbox \in [Actors -> Seq(Post)]
      /\ \A b \in Actors : outbox[b] \in Seq(Outgoing(b))
  BY DEF TypeOK, OutboxInv, Post
<1>3. CASE UNCHANGED outbox /\ tries' = [tries EXCEPT ![a] = @ + 1] /\ tries[a] + 1 < Attempts
  BY <1>1, <1>2, <1>3, SMT
<1>4. CASE Done(a)
  <2>1. outbox' = [outbox EXCEPT ![a] = Tail(outbox[a])] /\ tries' = [tries EXCEPT ![a] = 0]
    BY <1>4 DEF Done, Sends
  <2>2. Tail(outbox[a]) \in Seq(Outgoing(a)) /\ Tail(outbox[a]) \in Seq(Post)
    BY DoneFacts
  <2>3. tries' \in [Actors -> 0..(Attempts - 1)]
    BY <1>1, <1>2, <2>1, SMT
  <2> HIDE DEF Post, Outgoing
  <2> QED
    BY <1>2, <2>1, <2>2, <2>3, Zenon
<1> QED
  BY <1>3, <1>4 DEF Fail

\* A message accepted, and a message received.
LEMMA DeliveryFacts ==
  ASSUME TypeOK, NEW b \in Actors, NEW m \in Message,
         mailbox' = [mailbox EXCEPT ![b] = Append(@, m)]
  PROVE  /\ mailbox' \in [Actors -> Seq(Message)]
         /\ CountStarts(mailbox[Coordinator]) \in Nat
         /\ m # Start => CountStarts(mailbox'[Coordinator]) = CountStarts(mailbox[Coordinator])
         /\ b = Coordinator /\ m = Start =>
              CountStarts(mailbox'[Coordinator]) = CountStarts(mailbox[Coordinator]) + 1
<1>1. mailbox \in [Actors -> Seq(Message)] /\ Coordinator \in Actors
  BY Posts DEF TypeOK
<1>2. Append(mailbox[b], m) \in Seq(Message)
  BY <1>1, AppendFacts
<1>3. mailbox' \in [Actors -> Seq(Message)]
  BY <1>1, <1>2, Zenon
<1>4. mailbox'[Coordinator] = IF b = Coordinator THEN Append(mailbox[b], m) ELSE mailbox[Coordinator]
  BY <1>1, Zenon
<1>5. /\ CountStarts(mailbox[Coordinator]) \in Nat
      /\ CountStarts(Append(mailbox[Coordinator], m)) = CountStarts(mailbox[Coordinator]) + (IF m = Start THEN 1 ELSE 0)
  BY <1>1, CountType, CountAppend, Zenon
<1> QED
  BY <1>3, <1>4, <1>5

\* What the actor's loop has taken when a handler begins.
LEMMA ReceiptFacts ==
  ASSUME TypeOK, NEW a \in Actors, NEW type, Receives(a, type)
  PROVE  /\ outbox[a] = <<>> /\ mailbox[a] # <<>>
         /\ Head(mailbox[a]) \in Message /\ Head(mailbox[a]).type = type
         /\ mailbox' \in [Actors -> Seq(Message)]
         /\ mailbox' = [mailbox EXCEPT ![a] = Tail(mailbox[a])]
         /\ CountStarts(mailbox'[Coordinator]) =
              CountStarts(mailbox[Coordinator]) - (IF a = Coordinator /\ type = "StartTraining" THEN 1 ELSE 0)
         /\ CountStarts(mailbox[Coordinator]) \in Nat /\ CountStarts(mailbox'[Coordinator]) \in Nat
<1>1. mailbox \in [Actors -> Seq(Message)] /\ Coordinator \in Actors
  BY Posts DEF TypeOK
<1>2. /\ outbox[a] = <<>> /\ mailbox[a] # <<>> /\ Head(mailbox[a]).type = type
      /\ mailbox' = [mailbox EXCEPT ![a] = Tail(mailbox[a])]
  BY DEF Receives, Busy
<1>3. Head(mailbox[a]) \in Message /\ Tail(mailbox[a]) \in Seq(Message)
  BY <1>1, <1>2, TailFacts
<1>4. mailbox' \in [Actors -> Seq(Message)]
  BY <1>1, <1>2, <1>3, Zenon
<1>5. mailbox'[Coordinator] = IF a = Coordinator THEN Tail(mailbox[a]) ELSE mailbox[Coordinator]
  BY <1>1, <1>2, Zenon
<1>6. CountStarts(mailbox[Coordinator]) \in Nat /\ CountStarts(mailbox'[Coordinator]) \in Nat
  BY <1>1, <1>4, CountType, Zenon
<1>7. a = Coordinator =>
        CountStarts(mailbox[Coordinator]) =
          CountStarts(Tail(mailbox[Coordinator])) + (IF Head(mailbox[Coordinator]) = Start THEN 1 ELSE 0)
  BY <1>1, <1>2, CountTail, Zenon
<1>8. Head(mailbox[a]) = Start <=> type = "StartTraining"
  BY <1>2, <1>3, MessageKinds
<1> QED
  BY <1>2, <1>3, <1>4, <1>5, <1>6, <1>7, <1>8

\* What a handler has to send is its outbox.
LEMMA SendsFacts ==
  ASSUME TypeOK, OutboxInv, NEW a \in Actors, NEW es \in Seq(Outgoing(a)), es \in Seq(Post), Sends(a, es)
  PROVE  outbox' \in [Actors -> Seq(Post)] /\ \A b \in Actors : outbox'[b] \in Seq(Outgoing(b))
<1>1. outbox \in [Actors -> Seq(Post)] /\ outbox' = [outbox EXCEPT ![a] = es]
  BY DEF TypeOK, Post, Sends
<1>2. \A b \in Actors : outbox[b] \in Seq(Outgoing(b))
  BY DEF OutboxInv
<1> QED
  BY <1>1, <1>2, Zenon

\* A fault stays within the bounds.
LEMMA FaultFacts ==
  ASSUME TypeOK, NEW kind \in FaultKinds, Fault(kind)
  PROVE  /\ faults' \in [FaultKinds -> Nat]
         /\ \A k \in FaultKinds : faults'[k] <= MaxFaults[program][k]
         /\ faults[kind] < MaxFaults[program][kind]
<1>1. /\ faults \in [FaultKinds -> Nat] /\ \A k \in FaultKinds : faults[k] <= MaxFaults[program][k]
      /\ MaxFaults[program] \in [FaultKinds -> Nat]
  BY RoundAssumption DEF RoundAssumption, TypeOK
<1>2. faults[kind] < MaxFaults[program][kind] /\ faults' = [faults EXCEPT ![kind] = faults[kind] + 1]
  BY DEF Fault
<1>3. faults[kind] + 1 <= MaxFaults[program][kind]
  BY <1>1, <1>2
<1>4. faults' \in [FaultKinds -> Nat]
  BY <1>1, <1>2
<1> QED
  BY <1>1, <1>2, <1>3, <1>4

-----------------------------------------------------------------------------
\* The initial states, before the program is run.
LEMMA BaseInit == Init => BaseInv
<1> SUFFICES ASSUME Init PROVE BaseInv
  OBVIOUS
<1>1. TypeOK
  BY RoundAssumption, SMT DEF RoundAssumption, Init, TypeOK, Local, Actors
<1>2. OutboxInv
  BY DEF Init, OutboxInv
<1>3. StartsInv
  <2>1. CountStarts(<<>>) = 0
    BY CountType, EmptySeq
  <2>2. mailbox[Coordinator] = <<>>
    BY Posts DEF Init
  <2> QED
    BY <2>1, <2>2 DEF Init, StartsInv
<1> QED
  BY <1>1, <1>2, <1>3 DEF BaseInv

\* The four outcomes of a Tell.
LEMMA BaseSending ==
  ASSUME BaseInv, NEW a \in Actors, Sending(a)
  PROVE  BaseInv'
<1> USE DEF BaseInv
<1>1. CASE SendOk(a)
  <2>1. outbox[a] # <<>> /\ Done(a)
    BY <1>1 DEF SendOk
  <2> DEFINE e == Head(outbox[a])
  <2>2. e.to \in Actors /\ e.msg \in Message /\ e.msg # Start
    BY <2>1, DoneFacts, SMT DEF Post
  <2>3. /\ mailbox' \in [Actors -> Seq(Message)]
        /\ CountStarts(mailbox'[Coordinator]) = CountStarts(mailbox[Coordinator])
    <3>1. mailbox' = [mailbox EXCEPT ![e.to] = Append(@, e.msg)]
      BY <1>1 DEF SendOk
    <3> HIDE DEF e
    <3> QED
      BY <2>2, <3>1, DeliveryFacts, Zenon
  <2>4. /\ tries' \in [Actors -> 0..(Attempts - 1)] /\ outbox' \in [Actors -> Seq(Post)]
        /\ \A b \in Actors : outbox'[b] \in Seq(Outgoing(b))
    BY <2>1, AttemptFacts
  <2> QED
    BY <1>1, <2>3, <2>4 DEF SendOk, driverVars, TypeOK, OutboxInv, StartsInv, Post
<1>2. CASE SendRefused(a)
  <2>1. /\ tries' \in [Actors -> 0..(Attempts - 1)] /\ outbox' \in [Actors -> Seq(Post)]
        /\ \A b \in Actors : outbox'[b] \in Seq(Outgoing(b))
    BY <1>2, AttemptFacts DEF SendRefused
  <2> QED
    BY <1>2, <2>1 DEF SendRefused, driverVars, TypeOK, OutboxInv, StartsInv, Post
<1>3. CASE SendError(a)
  <2>1. /\ tries' \in [Actors -> 0..(Attempts - 1)] /\ outbox' \in [Actors -> Seq(Post)]
        /\ \A b \in Actors : outbox'[b] \in Seq(Outgoing(b))
    BY <1>3, AttemptFacts DEF SendError
  <2>2. faults' \in [FaultKinds -> Nat] /\ \A k \in FaultKinds : faults'[k] <= MaxFaults[program][k]
    BY <1>3, FaultFacts DEF SendError, FaultKinds
  <2> QED
    BY <1>3, <2>1, <2>2 DEF SendError, driverVars, TypeOK, OutboxInv, StartsInv, Post
<1>4. CASE SendLate(a)
  <2>1. /\ tries' \in [Actors -> 0..(Attempts - 1)] /\ outbox' \in [Actors -> Seq(Post)]
        /\ \A b \in Actors : outbox'[b] \in Seq(Outgoing(b))
    BY <1>4, AttemptFacts DEF SendLate
  <2>2. faults' \in [FaultKinds -> Nat] /\ \A k \in FaultKinds : faults'[k] <= MaxFaults[program][k]
    BY <1>4, FaultFacts DEF SendLate, FaultKinds
  <2> DEFINE e == Head(outbox[a])
             l == [n |-> faults["late"], to |-> e.to, msg |-> e.msg]
  <2>3. e.to \in Actors /\ e.msg \in Message /\ e.msg # Start
    BY <1>4, DoneFacts, SMT DEF SendLate, Post
  <2>4. late' = late \cup {l}
    BY <1>4 DEF SendLate
  <2>5. l \in [n : Nat, to : Actors, msg : Message] /\ l.msg # Start
    <3>1. faults["late"] \in Nat
      BY DEF TypeOK, FaultKinds
    <3> HIDE DEF e
    <3> QED
      BY <2>3, <3>1
  <2> HIDE DEF l
  <2>6. late' \subseteq [n : Nat, to : Actors, msg : Message] /\ \A x \in late' : x.msg # Start
    BY <2>4, <2>5 DEF TypeOK, OutboxInv
  <2> QED
    BY <1>4, <2>1, <2>2, <2>6 DEF SendLate, driverVars, TypeOK, OutboxInv, StartsInv, Post
<1> QED
  BY <1>1, <1>2, <1>3, <1>4 DEF Sending

\* A message that arrives although its Tell has failed.
LEMMA BaseLate ==
  ASSUME BaseInv, LateArrives
  PROVE  BaseInv'
<1> USE DEF BaseInv
<1>1. PICK e \in late :
        /\ late' = late \ {e}
        /\ mailbox' = [mailbox EXCEPT ![e.to] = Append(@, e.msg)]
        /\ UNCHANGED <<closed, outbox, tries, roundID, reporting, updates, expected, driverVars, faults>>
  BY DEF LateArrives
<1>2. e.to \in Actors /\ e.msg \in Message /\ e.msg # Start
  BY DEF TypeOK, OutboxInv
<1>3. /\ mailbox' \in [Actors -> Seq(Message)]
      /\ CountStarts(mailbox'[Coordinator]) = CountStarts(mailbox[Coordinator])
  BY <1>1, <1>2, DeliveryFacts, Zenon
<1> QED
  BY <1>1, <1>3 DEF driverVars, TypeOK, OutboxInv, StartsInv

\* A trigger, and one request for each worker.
RoundPosts(r) ==
  <<Envelope(Aggregator, Trigger(r))>> \o [i \in DOMAIN Workers |-> Envelope(Workers[i], Train(r))]

\* The outbox that startRound leaves, entry by entry.
LEMMA RoundPostsFacts ==
  ASSUME NEW r \in Rounds
  PROVE  /\ RoundPosts(r) \in Seq(Outgoing(Coordinator)) /\ RoundPosts(r) \in Seq(Post)
         /\ Len(RoundPosts(r)) = 1 + Len(Workers)
         /\ RoundPosts(r)[1] = Envelope(Aggregator, Trigger(r))
         /\ \A i \in 2..Len(RoundPosts(r)) :
              i - 1 \in 1..Len(Workers) /\ RoundPosts(r)[i] = Envelope(Workers[i - 1], Train(r))
<1> DEFINE first == Envelope(Aggregator, Trigger(r))
           rest == [i \in 1..Len(Workers) |-> Envelope(Workers[i], Train(r))]
<1>1. Len(Workers) \in Nat /\ DOMAIN Workers = 1..Len(Workers) /\ \A i \in 1..Len(Workers) : Workers[i] \in WorkerSet
  BY RoundAssumption DEF RoundAssumption
<1>2. first \in Outgoing(Coordinator) /\ \A w \in WorkerSet : Envelope(w, Train(r)) \in Outgoing(Coordinator)
  BY SMT DEF Outgoing
<1>3. rest \in [1..Len(Workers) -> Outgoing(Coordinator)]
  BY <1>1, <1>2, Zenon
<1>4. rest \in Seq(Outgoing(Coordinator)) /\ Len(rest) = Len(Workers)
  BY <1>1, <1>3
<1>5. <<first>> \in Seq(Outgoing(Coordinator)) /\ Len(<<first>>) = 1 /\ <<first>>[1] = first
  BY <1>2
<1>6. RoundPosts(r) = <<first>> \o rest
  BY <1>1 DEF RoundPosts
<1>7. \A i \in 1..Len(Workers) : rest[i] = Envelope(Workers[i], Train(r))
  OBVIOUS
<1> HIDE DEF first, rest
<1>8. /\ RoundPosts(r) \in Seq(Outgoing(Coordinator)) /\ Len(RoundPosts(r)) = 1 + Len(Workers)
      /\ \A i \in 1..(1 + Len(Workers)) : RoundPosts(r)[i] = IF i <= 1 THEN <<first>>[i] ELSE rest[i - 1]
  BY <1>4, <1>5, <1>6, ConcatProperties
<1>9. Outgoing(Coordinator) \subseteq Post
  BY Posts
<1>10. RoundPosts(r) \in Seq(Post)
  BY <1>8, <1>9, SeqMonotonic
<1> QED
  BY <1>1, <1>5, <1>7, <1>8, <1>10 DEF first

\* startRound begins a round for one StartTraining: there are no more than Starts.
LEMMA BaseStartRound ==
  ASSUME BaseInv, StartRound
  PROVE  BaseInv' /\ roundID + 1 \in Rounds
<1> USE DEF BaseInv
<1>1. /\ Receives(Coordinator, "StartTraining") /\ roundID' = roundID + 1
      /\ Sends(Coordinator, RoundPosts(roundID + 1))
      /\ UNCHANGED <<closed, late, tries, reporting, updates, expected, driverVars, faults>>
  BY DEF StartRound, RoundPosts
<1>2. /\ mailbox' \in [Actors -> Seq(Message)]
      /\ CountStarts(mailbox'[Coordinator]) = CountStarts(mailbox[Coordinator]) - 1
      /\ CountStarts(mailbox[Coordinator]) \in Nat /\ CountStarts(mailbox'[Coordinator]) \in Nat
  BY <1>1, Posts, ReceiptFacts
<1>3. roundID + 1 \in Rounds
  BY <1>2, RoundAssumption DEF RoundAssumption, StartsInv, TypeOK, Rounds
<1>4. outbox' \in [Actors -> Seq(Post)] /\ \A b \in Actors : outbox'[b] \in Seq(Outgoing(b))
  BY <1>1, <1>3, RoundPostsFacts, Posts, SendsFacts
<1>5. StartsInv'
  BY <1>1, <1>2 DEF StartsInv, TypeOK, driverVars
<1>6. roundID' \in 0..Starts
  BY <1>1, <1>3 DEF Rounds
<1> QED
  BY <1>1, <1>2, <1>3, <1>4, <1>5, <1>6 DEF driverVars, TypeOK, OutboxInv, Post

\* evaluate takes the model.
LEMMA BaseEvaluate ==
  ASSUME BaseInv, Evaluate
  PROVE  BaseInv'
<1> USE DEF BaseInv
<1>1. /\ Receives(Coordinator, "AggregatedModel") /\ reporting' = Head(mailbox[Coordinator])
      /\ UNCHANGED <<closed, late, outbox, tries, roundID, updates, expected, driverVars, faults>>
  BY DEF Evaluate
<1>2. /\ mailbox' \in [Actors -> Seq(Message)]
      /\ CountStarts(mailbox'[Coordinator]) = CountStarts(mailbox[Coordinator])
      /\ Head(mailbox[Coordinator]) \in Message /\ Head(mailbox[Coordinator]).type = "AggregatedModel"
  BY <1>1, Posts, ReceiptFacts
<1>3. reporting' \in ModelMessage
  BY <1>1, <1>2, MessageKinds
<1> QED
  BY <1>1, <1>2, <1>3 DEF driverVars, TypeOK, OutboxInv, StartsInv

\* c.Results <- RoundResult{...}.
LEMMA BaseReport ==
  ASSUME BaseInv, Report
  PROVE  BaseInv'
<1> USE DEF BaseInv
<1>1. reporting \in ModelMessage /\ results \in Seq(ModelMessage) /\ Len(results) < ResultsCap
  BY DEF Report, TypeOK
<1>2. results' \in Seq(ModelMessage) /\ Len(results') <= ResultsCap
  BY <1>1, RoundAssumption DEF Report, RoundAssumption
<1> QED
  BY <1>2 DEF Report, TypeOK, OutboxInv, StartsInv

\* A worker answers a TrainRequest, or cannot load its partition.
LEMMA BaseWorks ==
  ASSUME BaseInv, NEW w \in WorkerSet, Works(w)
  PROVE  BaseInv'
<1> USE DEF BaseInv
<1>1. w \in Actors /\ w # Coordinator /\ w # Aggregator
  BY Posts
<1>2. Receives(w, "TrainRequest")
  BY DEF Works, WorkerTrains, WorkerCannotLoad
<1>3. /\ mailbox' \in [Actors -> Seq(Message)]
      /\ CountStarts(mailbox'[Coordinator]) = CountStarts(mailbox[Coordinator])
      /\ Head(mailbox[w]) \in Message /\ Head(mailbox[w]).type = "TrainRequest"
  BY <1>1, <1>2, ReceiptFacts
<1>4. CASE WorkerTrains(w)
  <2> DEFINE m == Update(Head(mailbox[w]).round, w)
             es == <<Envelope(Aggregator, m)>>
  <2>1. Head(mailbox[w]).round \in Rounds
    BY <1>3, MessageKinds
  <2>2. m \in UpdateMessage /\ m.worker = w
    BY <2>1 DEF Update, UpdateMessage, TypeOK
  <2>3. Envelope(Aggregator, m) \in Outgoing(w) /\ Envelope(Aggregator, m) \in Post
    <3> HIDE DEF m
    <3>1. Envelope(Aggregator, m) \in Outgoing(w)
      BY <1>1, <2>2, SMT DEF Outgoing
    <3> QED
      BY <1>1, <3>1, Posts
  <2>4. es \in Seq(Outgoing(w)) /\ es \in Seq(Post)
    BY <2>3
  <2>5. Sends(w, es)
    BY <1>4 DEF WorkerTrains
  <2>6. outbox' \in [Actors -> Seq(Post)] /\ \A b \in Actors : outbox'[b] \in Seq(Outgoing(b))
    <3> HIDE DEF es
    <3> QED
      BY <1>1, <2>4, <2>5, SendsFacts
  <2> QED
    BY <1>3, <1>4, <2>6 DEF WorkerTrains, driverVars, TypeOK, OutboxInv, StartsInv, Post
<1>5. CASE WorkerCannotLoad(w)
  <2>1. faults' \in [FaultKinds -> Nat] /\ \A k \in FaultKinds : faults'[k] <= MaxFaults[program][k]
    BY <1>5, FaultFacts DEF WorkerCannotLoad, FaultKinds
  <2> QED
    BY <1>3, <1>5, <2>1 DEF WorkerCannotLoad, driverVars, TypeOK, OutboxInv, StartsInv
<1> QED
  BY <1>4, <1>5 DEF Works

\* maybeAggregate: the round is completed or remembered.
LEMMA CollectFacts ==
  ASSUME TypeOK, OutboxInv, outbox[Aggregator] = <<>>,
         NEW r \in Rounds, NEW n \in {Len(Workers), None}, NEW ups \in Seq(UpdateMessage), Collect(r, n, ups)
  PROVE  /\ updates' \in [Rounds -> Seq(UpdateMessage)]
         /\ expected' \in [Rounds -> {Len(Workers), None}]
         /\ outbox' \in [Actors -> Seq(Post)] /\ \A b \in Actors : outbox'[b] \in Seq(Outgoing(b))
<1>1. /\ updates \in [Rounds -> Seq(UpdateMessage)] /\ expected \in [Rounds -> {Len(Workers), None}]
      /\ outbox \in [Actors -> Seq(Post)] /\ \A b \in Actors : outbox[b] \in Seq(Outgoing(b))
  BY DEF TypeOK, OutboxInv, Post
<1>2. CASE Complete(n, ups)
  <2> DEFINE m == Model(r, ups)
             es == <<Envelope(Coordinator, m)>>
  <2>1. updates' = [updates EXCEPT ![r] = <<>>] /\ expected' = [expected EXCEPT ![r] = None] /\ Sends(Aggregator, es)
    BY <1>2 DEF Collect
  <2>2. m \in ModelMessage
    BY DEF Model, ModelMessage
  <2>3. Envelope(Coordinator, m) \in Outgoing(Aggregator) /\ Envelope(Coordinator, m) \in Post
    <3> HIDE DEF m
    <3>1. Envelope(Coordinator, m) \in Outgoing(Aggregator)
      BY <2>2, Posts, SMT DEF Outgoing
    <3> QED
      BY <3>1, Posts
  <2>4. es \in Seq(Outgoing(Aggregator)) /\ es \in Seq(Post)
    BY <2>3
  <2>5. outbox' \in [Actors -> Seq(Post)] /\ \A b \in Actors : outbox'[b] \in Seq(Outgoing(b))
    <3> HIDE DEF es
    <3> QED
      BY <2>1, <2>4, Posts, SendsFacts
  <2>6. updates' \in [Rounds -> Seq(UpdateMessage)] /\ expected' \in [Rounds -> {Len(Workers), None}]
    BY <1>1, <2>1, EmptySeq
  <2> QED
    BY <2>5, <2>6
<1>3. CASE ~Complete(n, ups)
  <2>1. updates' = [updates EXCEPT ![r] = ups] /\ expected' = [expected EXCEPT ![r] = n] /\ outbox' = outbox
    BY <1>3 DEF Collect
  <2>2. updates' \in [Rounds -> Seq(UpdateMessage)] /\ expected' \in [Rounds -> {Len(Workers), None}]
    BY <1>1, <2>1, Zenon
  <2> QED
    BY <1>1, <2>1, <2>2
<1> QED
  BY <1>2, <1>3

\* Which round a message to the aggregator is collected for, and how.
LEMMA AggregatesFacts ==
  ASSUME TypeOK, OutboxInv, Aggregates
  PROVE  /\ mailbox' \in [Actors -> Seq(Message)]
         /\ mailbox' = [mailbox EXCEPT ![Aggregator] = Tail(mailbox[Aggregator])]
         /\ mailbox[Aggregator] # <<>> /\ outbox[Aggregator] = <<>>
         /\ CountStarts(mailbox'[Coordinator]) = CountStarts(mailbox[Coordinator])
         /\ UNCHANGED <<closed, late, tries, roundID, reporting, driverVars, faults>>
         /\ LET m == Head(mailbox[Aggregator]) IN
            \E n \in {Len(Workers), None}, ups \in Seq(UpdateMessage) :
              /\ m.round \in Rounds /\ Collect(m.round, n, ups)
              /\ \/ m.type = "AggregateTrigger" /\ n = Len(Workers) /\ ups = updates[m.round]
                 \/ m \in UpdateMessage /\ n = expected[m.round] /\ ups = Append(updates[m.round], m)
<1> DEFINE m == Head(mailbox[Aggregator])
<1>1. /\ UNCHANGED <<closed, late, tries, roundID, reporting, driverVars, faults>>
      /\ \/ /\ Receives(Aggregator, "AggregateTrigger")
            /\ Collect(m.round, m.expected, updates[m.round])
         \/ /\ Receives(Aggregator, "LocalModelUpdate")
            /\ Collect(m.round, expected[m.round], Append(updates[m.round], m))
  BY DEF Aggregates, HandleTrigger, HandleUpdate
<1>2. ASSUME NEW type \in {"AggregateTrigger", "LocalModelUpdate"}, Receives(Aggregator, type)
      PROVE  /\ mailbox' \in [Actors -> Seq(Message)]
             /\ mailbox' = [mailbox EXCEPT ![Aggregator] = Tail(mailbox[Aggregator])]
             /\ mailbox[Aggregator] # <<>> /\ outbox[Aggregator] = <<>>
             /\ CountStarts(mailbox'[Coordinator]) = CountStarts(mailbox[Coordinator])
             /\ m \in Message /\ m.type = type
  BY <1>2, Posts, ReceiptFacts
<1>3. updates \in [Rounds -> Seq(UpdateMessage)] /\ expected \in [Rounds -> {Len(Workers), None}]
  BY DEF TypeOK
<1>4. CASE Receives(Aggregator, "AggregateTrigger") /\ Collect(m.round, m.expected, updates[m.round])
  <2>1. m \in Message /\ m.type = "AggregateTrigger"
    BY <1>2, <1>4
  <2> HIDE DEF m
  <2>2. m.round \in Rounds /\ m.expected = Len(Workers)
    BY <2>1, MessageKinds
  <2>3. updates[m.round] \in Seq(UpdateMessage)
    BY <1>3, <2>2
  <2>4. \E n \in {Len(Workers), None}, ups \in Seq(UpdateMessage) :
          /\ m.round \in Rounds /\ Collect(m.round, n, ups)
          /\ m.type = "AggregateTrigger" /\ n = Len(Workers) /\ ups = updates[m.round]
    BY <1>4, <2>1, <2>2, <2>3, Zenon
  <2> QED
    BY <1>1, <1>2, <1>4, <2>4 DEF m
<1>5. CASE Receives(Aggregator, "LocalModelUpdate") /\ Collect(m.round, expected[m.round], Append(updates[m.round], m))
  <2>1. m \in Message /\ m.type = "LocalModelUpdate"
    BY <1>2, <1>5
  <2> HIDE DEF m
  <2>2. m \in UpdateMessage
    BY <2>1, MessageKinds
  <2>3. m.round \in Rounds
    BY <2>2 DEF UpdateMessage
  <2>4. expected[m.round] \in {Len(Workers), None} /\ Append(updates[m.round], m) \in Seq(UpdateMessage)
    BY <1>3, <2>2, <2>3
  <2>5. \E n \in {Len(Workers), None}, ups \in Seq(UpdateMessage) :
          /\ m.round \in Rounds /\ Collect(m.round, n, ups)
          /\ m \in UpdateMessage /\ n = expected[m.round] /\ ups = Append(updates[m.round], m)
    BY <1>5, <2>2, <2>3, <2>4, Zenon
  <2> QED
    BY <1>1, <1>2, <1>5, <2>5 DEF m
<1> QED
  BY <1>1, <1>4, <1>5

\* The aggregator's two handlers.
LEMMA BaseAggregates ==
  ASSUME BaseInv, Aggregates
  PROVE  BaseInv'
<1> USE DEF BaseInv
<1>1. /\ mailbox' \in [Actors -> Seq(Message)] /\ outbox[Aggregator] = <<>>
      /\ CountStarts(mailbox'[Coordinator]) = CountStarts(mailbox[Coordinator])
      /\ UNCHANGED <<closed, late, tries, roundID, reporting, driverVars, faults>>
  BY AggregatesFacts
<1>2. PICK n \in {Len(Workers), None}, ups \in Seq(UpdateMessage) :
        Head(mailbox[Aggregator]).round \in Rounds /\ Collect(Head(mailbox[Aggregator]).round, n, ups)
  BY AggregatesFacts
<1>3. /\ updates' \in [Rounds -> Seq(UpdateMessage)]
      /\ expected' \in [Rounds -> {Len(Workers), None}]
      /\ outbox' \in [Actors -> Seq(Post)] /\ \A b \in Actors : outbox'[b] \in Seq(Outgoing(b))
  BY <1>1, <1>2, CollectFacts
<1> QED
  BY <1>1, <1>3 DEF driverVars, TypeOK, OutboxInv, StartsInv, Post

\* A program is run when its last process has left no StartTraining.
LEMMA BaseLaunch ==
  ASSUME BaseInv, LaunchCoordinator \/ LaunchRound
  PROVE  BaseInv'
<1> USE DEF BaseInv
<1>1. PICK actors : Launch(actors)
  BY DEF LaunchCoordinator, LaunchRound
<1>2. run + 1 \in 0..MaxRuns /\ 0 \in 0..Starts /\ 0 < Starts
  BY RoundAssumption DEF RoundAssumption, LaunchCoordinator, LaunchRound, TypeOK
<1>3. CountStarts(mailbox[Coordinator]) = 0
  BY <1>1 DEF Launch, StartsInv
<1>4. /\ driver' = "waiting" /\ run' = run + 1 /\ roundID' = 0 /\ started' = 0 /\ read' = 0
      /\ closed' = closed \ actors
      /\ UNCHANGED <<mailbox, late, outbox, tries, reporting, updates, expected, program, results, faults>>
  BY <1>1 DEF Launch
<1>5. closed' \in SUBSET Actors
  BY <1>4 DEF TypeOK
<1>6. TypeOK'
  BY <1>2, <1>4, <1>5 DEF TypeOK
<1>7. StartsInv'
  BY <1>2, <1>3, <1>4 DEF StartsInv
<1> QED
  BY <1>4, <1>6, <1>7 DEF OutboxInv

\* The program tells the coordinator to start.
LEMMA BaseTellStart ==
  ASSUME BaseInv, TellStart
  PROVE  BaseInv'
<1> USE DEF BaseInv
<1>1. Start \in Message /\ Coordinator \in Actors
  BY Messages, Posts
<1>2. /\ mailbox' = [mailbox EXCEPT ![Coordinator] = Append(@, Start)]
      /\ started' = started + 1 /\ started < Starts /\ driver = "waiting"
      /\ UNCHANGED <<closed, late, outbox, tries, roundID, reporting, updates, expected,
                     program, driver, results, read, run, faults>>
  BY DEF TellStart
<1>3. /\ mailbox' \in [Actors -> Seq(Message)]
      /\ CountStarts(mailbox'[Coordinator]) = CountStarts(mailbox[Coordinator]) + 1
      /\ CountStarts(mailbox[Coordinator]) \in Nat
  BY <1>1, <1>2, DeliveryFacts, Zenon
<1>4. started' \in 0..Starts
  BY <1>2, RoundAssumption DEF TypeOK, RoundAssumption
<1>5. StartsInv'
  BY <1>2, <1>3 DEF StartsInv, TypeOK
<1> QED
  BY <1>2, <1>3, <1>4, <1>5 DEF TypeOK, OutboxInv

\* ReadResult and TimeOut.
LEMMA BaseWaits ==
  ASSUME BaseInv, ReadResult \/ TimeOut
  PROVE  BaseInv'
<1> USE DEF BaseInv
<1>1. CASE ReadResult
  <2>1. /\ driver = "waiting" /\ results # <<>> /\ results' = Tail(results) /\ read' = read + 1
        /\ driver' = IF read + 1 = Starts THEN "closing" ELSE "waiting"
        /\ UNCHANGED <<actorVars, program, started, run, faults>>
    BY <1>1 DEF ReadResult
  <2>2. results' \in Seq(ModelMessage) /\ Len(results') <= ResultsCap
    BY <2>1, RoundAssumption DEF TypeOK, RoundAssumption
  <2>3. read' \in 0..Starts /\ (driver' = "waiting" => read' < Starts)
    BY <2>1, RoundAssumption DEF TypeOK, StartsInv, RoundAssumption
  <2> QED
    BY <2>1, <2>2, <2>3 DEF actorVars, TypeOK, OutboxInv, StartsInv
<1>2. CASE TimeOut
  <2>1. faults' \in [FaultKinds -> Nat] /\ \A k \in FaultKinds : faults'[k] <= MaxFaults[program][k]
    BY <1>2, FaultFacts DEF TimeOut, FaultKinds
  <2> QED
    BY <1>2, <2>1 DEF TimeOut, actorVars, TypeOK, OutboxInv, StartsInv
<1> QED
  BY <1>1, <1>2

\* The end of a program: exit, or Shutdown.
LEMMA BaseCloses ==
  ASSUME BaseInv, Closes
  PROVE  BaseInv'
<1> USE DEF BaseInv
<1>1. CASE ProcessExits
  <2>1. /\ mailbox' = [mailbox EXCEPT ![Coordinator] = <<>>] /\ outbox' = [outbox EXCEPT ![Coordinator] = <<>>]
        /\ tries' = [tries EXCEPT ![Coordinator] = 0] /\ closed' = {Coordinator} /\ reporting' = None
        /\ results' = <<>> /\ driver' = "down" /\ late' \subseteq late
        /\ UNCHANGED <<roundID, updates, expected, program, started, read, run, faults>>
    BY <1>1 DEF ProcessExits
  <2>2. mailbox' \in [Actors -> Seq(Message)] /\ mailbox'[Coordinator] = <<>>
    BY <2>1, Posts, EmptySeq DEF TypeOK
  <2>3. CountStarts(mailbox'[Coordinator]) = 0
    BY <2>2, CountType, EmptySeq
  <2>4. outbox' \in [Actors -> Seq(Post)] /\ \A b \in Actors : outbox'[b] \in Seq(Outgoing(b))
    BY <2>1, EmptySeq DEF TypeOK, OutboxInv, Post
  <2>5. tries' \in [Actors -> 0..(Attempts - 1)] /\ closed' \in SUBSET Actors
        /\ results' \in Seq(ModelMessage) /\ Len(results') <= ResultsCap
    BY <2>1, Posts, EmptySeq, RoundAssumption DEF TypeOK, RoundAssumption
  <2> QED
    BY <2>1, <2>2, <2>3, <2>4, <2>5 DEF TypeOK, OutboxInv, StartsInv, Post
<1>2. CASE ShutdownReturns
  <2>1. mailbox[Coordinator] = <<>>
    BY <1>2, Posts DEF ShutdownReturns, Quiet
  <2>2. CountStarts(mailbox[Coordinator]) = 0
    BY <2>1, CountType, EmptySeq
  <2> QED
    BY <1>2, <2>2 DEF ShutdownReturns, actorVars, TypeOK, OutboxInv, StartsInv
<1>3. CASE \E a \in Actors : StopActor(a)
  BY <1>3 DEF StopActor, driverVars, TypeOK, OutboxInv, StartsInv
<1> QED
  BY <1>1, <1>2, <1>3 DEF Closes

\* Every step keeps the types.
LEMMA BaseNext ==
  ASSUME BaseInv, [Next]_vars
  PROVE  BaseInv'
<1>1. CASE UNCHANGED vars
  BY <1>1 DEF vars, actorVars, driverVars, BaseInv, TypeOK, OutboxInv, StartsInv
<1>2. CASE Coordinates
  BY <1>2, BaseStartRound, BaseEvaluate, BaseReport DEF Coordinates
<1> QED
  BY <1>1, <1>2, BaseSending, BaseLate, BaseWorks, BaseAggregates, BaseLaunch, BaseTellStart, BaseWaits,
     BaseCloses DEF Next

\* Every state of the actors, the messages between them and the program has its
\* type, whatever fails: no round beyond those that were started, no attempt
\* beyond the last, no more results than there is room for.
THEOREM TypeCorrect == Spec => []TypeOK
<1>1. BaseInv => TypeOK
  BY DEF BaseInv
<1>2. BaseInv /\ [Next]_vars => BaseInv'
  BY BaseNext
<1> QED
  BY BaseInit, <1>1, <1>2, PTL DEF Spec

-----------------------------------------------------------------------------
(* From here on nothing is delivered after its Tell has failed, and the    *)
(* program is run once or waits for its rounds to end. Then the work of a  *)
(* worker for a round is in one place at most: ordered by the coordinator, *)
(* requested, about to be answered, arrived, or collected; and what is in  *)
(* a place is there once.                                                  *)

DeliveredOnce == \A p \in Programs : MaxFaults[p]["late"] = 0
Patient == MaxRuns = 1 \/ \A p \in Programs : MaxFaults[p]["timeout"] = 0

\* What is sent to somebody, and what is in it.
LEMMA EnvelopeIn ==
  ASSUME NEW to, NEW S, NEW x
  PROVE  Envelope(to, x) \in [to : {to}, msg : S] <=> x \in S
BY DEF Envelope

SingleEach(r, w) ==
  /\ Single(outbox[Coordinator], {Envelope(w, Train(r))})
  /\ Single(mailbox[w], {Train(r)})
  /\ Single(outbox[w], Answers(r, w))
  /\ Single(mailbox[Aggregator], UpdatesOf(r, w))
  /\ Single(updates[r], UpdatesOf(r, w))

InOnePlace(r, w) ==
  /\ Ordered(r, w) => ~Requested(r, w) /\ ~Answered(r, w) /\ ~Arrived(r, w) /\ ~Collected(r, w)
  /\ Requested(r, w) => ~Answered(r, w) /\ ~Arrived(r, w) /\ ~Collected(r, w)
  /\ Answered(r, w) => ~Arrived(r, w) /\ ~Collected(r, w)
  /\ Arrived(r, w) => ~Collected(r, w)

Nowhere(r, w) ==
  ~Ordered(r, w) /\ ~Requested(r, w) /\ ~Answered(r, w) /\ ~Arrived(r, w) /\ ~Collected(r, w)

OnceAt(r, w) == SingleEach(r, w) /\ InOnePlace(r, w) /\ (r > roundID => Nowhere(r, w))

OnceInv == \A r \in Rounds, w \in WorkerSet : OnceAt(r, w)

\* Updates are made of the data of a run k, and kept with their round.
Stale(k) == {m \in UpdateMessage : m.data # k}
Foreign(r, k) == {m \in UpdateMessage : m.round # r \/ m.data # k}
DataInv ==
  /\ \A w \in WorkerSet : ~Has(outbox[w], {Envelope(Aggregator, m) : m \in Stale(run)})
  /\ ~Has(mailbox[Aggregator], Stale(run))
KeptInv == \A r \in Rounds : ~Has(updates[r], Foreign(r, run))

\* A model is made of one update of each worker, and of this run's.
FromAll(ups) ==
  Len(ups) = Len(Workers) /\ \A w \in WorkerSet : \E j \in 1..Len(ups) : ups[j].worker = w
Bad(k) == {m \in ModelMessage : ~FromAll(m.updates) \/ Has(m.updates, Stale(k))}
ModelsInv ==
  /\ ~Has(outbox[Aggregator], {Envelope(Coordinator, m) : m \in Bad(run)})
  /\ ~Has(mailbox[Coordinator], Bad(run))
  /\ reporting # None => reporting \notin Bad(run)
  /\ ~Has(results, Bad(run))

FreshInv == late = {} /\ (run = 0 => driver = "down" /\ roundID = 0)

\* The round itself is in one place at most as well: its trigger is with the
\* coordinator, at the aggregator, or handled; or its model was made and is on
\* its way to the program. By then all its updates have been used.
Begun(r) == Asked(r) \/ Triggered(r) \/ Awaited(r) \/ Modelled(r)

SingleSteps(r) ==
  /\ Single(outbox[Coordinator], TriggerPosts(r))
  /\ Single(mailbox[Aggregator], {Trigger(r)})
  /\ Single(outbox[Aggregator], ModelPosts(r))
  /\ Single(mailbox[Coordinator], ModelsOf(r))
  /\ Single(results, ModelsOf(r))

AtOneStep(r) ==
  /\ Asked(r) => ~Triggered(r) /\ ~Awaited(r) /\ ~Modelled(r)
  /\ Triggered(r) => ~Awaited(r) /\ ~Modelled(r)
  /\ Awaited(r) => ~Modelled(r)
  /\ Made(r) => ~Returned(r) /\ ~Reporting(r) /\ ~Reported(r)
  /\ Returned(r) => ~Reporting(r) /\ ~Reported(r)
  /\ Reporting(r) => ~Reported(r)

StepAt(r) ==
  /\ SingleSteps(r) /\ AtOneStep(r)
  /\ r > roundID => ~Begun(r)
  /\ Modelled(r) => \A w \in WorkerSet : Nowhere(r, w)

StepInv == \A r \in Rounds : StepAt(r)

\* The results read are of rounds of which nothing is left: when all have been
\* read, nothing of this run is left that the next run could meet.
IsOpen(r) == r > roundID \/ Begun(r) \/ \E w \in WorkerSet : ~Nowhere(r, w)
Open == {r \in Rounds : IsOpen(r)}
EndInv ==
  /\ read + Cardinality(Open) <= Starts
  /\ run # 0 /\ driver # "waiting" => read = Starts \/ MaxRuns = 1

WorkInv == OnceInv /\ KeptInv /\ ModelsInv /\ DataInv /\ FreshInv
RoundInv == BaseInv /\ WorkInv /\ StepInv /\ EndInv

\* What a step may not do: bring back a worker's part in a round, or a round.
Settled == \A r \in Rounds, w \in WorkerSet : Nowhere(r, w) => Nowhere(r, w)'
Closing == \A r \in Rounds : IsOpen(r)' => IsOpen(r)

-----------------------------------------------------------------------------
\* There are as many workers as entries of the list.
LEMMA WorkersFacts ==
  /\ Len(Workers) \in Nat /\ IsFiniteSet(WorkerSet) /\ Cardinality(WorkerSet) = Len(Workers)
<1>1. /\ Workers \in Seq(WorkerSet) /\ Len(Workers) \in Nat /\ DOMAIN Workers = 1..Len(Workers)
      /\ \A i, j \in 1..Len(Workers) : Workers[i] = Workers[j] => i = j
  BY RoundAssumption DEF RoundAssumption
<1>2. Workers \in [1..Len(Workers) -> WorkerSet]
  BY <1>1
<1>3. \A w \in WorkerSet : \E i \in 1..Len(Workers) : Workers[i] = w
  BY <1>1 DEF WorkerSet
<1>4. Workers \in Bijection(1..Len(Workers), WorkerSet)
  BY <1>1, <1>2, <1>3, Fun_IsBij
<1>5. IsFiniteSet(1..Len(Workers)) /\ Cardinality(1..Len(Workers)) = Len(Workers)
  BY <1>1, FS_Interval
<1> QED
  BY <1>1, <1>4, <1>5, FS_Bijection DEF ExistsBijection

\* As many updates as there are workers, none of them twice: one of each.
LEMMA Pigeons ==
  ASSUME NEW r \in Rounds, NEW ups \in Seq(UpdateMessage), NEW k, ~Has(ups, Foreign(r, k)),
         \A w \in WorkerSet : Single(ups, UpdatesOf(r, w)), Len(ups) >= Len(Workers)
  PROVE  FromAll(ups)
<1> DEFINE f == [i \in 1..Len(ups) |-> ups[i].worker]
<1>1. Len(ups) \in Nat /\ \A i \in 1..Len(ups) : ups[i] \in UpdateMessage
  OBVIOUS
<1>2. \A m \in UpdateMessage : m.worker \in WorkerSet
  BY DEF UpdateMessage
<1>3. \A i \in 1..Len(ups) : ups[i].worker \in WorkerSet /\ ups[i] \in UpdatesOf(r, ups[i].worker)
  BY <1>1, <1>2 DEF Has, Foreign, UpdatesOf
<1>4. \A i, j \in 1..Len(ups) : ups[i].worker = ups[j].worker => i = j
  BY <1>3 DEF Single
<1>5. f \in [1..Len(ups) -> WorkerSet]
  BY <1>3
<1>6. f \in Injection(1..Len(ups), WorkerSet)
  BY <1>4, <1>5, Fun_IsInj
<1>7. Cardinality(1..Len(ups)) = Len(ups)
  <2>1. \A n \in Nat : Cardinality(1..n) = n
    BY FS_Interval
  <2> QED
    BY <1>1, <2>1, Zenon
<1> HIDE DEF f
<1>8. /\ Len(ups) <= Len(Workers)
      /\ Len(ups) = Len(Workers) <=> f \in Surjection(1..Len(ups), WorkerSet)
  BY <1>6, <1>7, WorkersFacts, FS_Injection
<1>9. Len(ups) = Len(Workers)
  BY <1>1, <1>8, WorkersFacts
<1>10. \A w \in WorkerSet : \E j \in 1..Len(ups) : f[j] = w
  BY <1>8, <1>9, Fun_SurjectionProperties
<1> QED
  BY <1>9, <1>10 DEF f, FromAll

-----------------------------------------------------------------------------
(* A place that a step leaves as it is, or takes something from.           *)

Shrinks(s, t) == t = s \/ (s # <<>> /\ t = Tail(s)) \/ t = <<>>
Keeps(s, t, S) == (Has(t, S) => Has(s, S)) /\ (Single(s, S) => Single(t, S))

\* Such a place gets nothing new, and nothing a second time.
LEMMA ShrinksKeeps ==
  ASSUME NEW T, NEW s \in Seq(T), NEW t, Shrinks(s, t), NEW S
  PROVE  Keeps(s, t, S)
<1>1. CASE t = s
  BY <1>1 DEF Keeps
<1>2. CASE s # <<>> /\ t = Tail(s)
  BY <1>2, TailFacts DEF Keeps
<1>3. CASE t = <<>>
  BY <1>3, ShortFacts DEF Keeps
<1> QED
  BY <1>1, <1>2, <1>3 DEF Shrinks

\* A worker's round when none of its places got anything.
LEMMA OnceKept ==
  ASSUME NEW r \in Rounds, NEW w \in WorkerSet, OnceAt(r, w), r > roundID' => r > roundID,
         Keeps(outbox[Coordinator], outbox'[Coordinator], {Envelope(w, Train(r))}),
         Keeps(mailbox[w], mailbox'[w], {Train(r)}),
         Keeps(outbox[w], outbox'[w], Answers(r, w)),
         Keeps(mailbox[Aggregator], mailbox'[Aggregator], UpdatesOf(r, w)),
         Keeps(updates[r], updates'[r], UpdatesOf(r, w))
  PROVE  OnceAt(r, w)' /\ (Nowhere(r, w) => Nowhere(r, w)')
<1>1. /\ Ordered(r, w)' => Ordered(r, w)
      /\ Requested(r, w)' => Requested(r, w)
      /\ Answered(r, w)' => Answered(r, w)
      /\ Arrived(r, w)' => Arrived(r, w)
      /\ Collected(r, w)' => Collected(r, w)
  BY Zenon DEF Keeps, Ordered, Requested, Answered, Arrived, Collected
<1>2. SingleEach(r, w)'
  BY Zenon DEF Keeps, OnceAt, SingleEach
<1> QED
  BY <1>1, <1>2, Zenon DEF OnceAt, InOnePlace, Nowhere

\* No worker's round changes if no place gets anything.
LEMMA AllKept ==
  ASSUME TypeOK, OnceInv, roundID' = roundID,
         \A a \in Actors : Shrinks(outbox[a], outbox'[a]),
         \A a \in Actors \ {Coordinator} : Shrinks(mailbox[a], mailbox'[a]),
         \A r \in Rounds : Shrinks(updates[r], updates'[r])
  PROVE  OnceInv' /\ Settled
<1> SUFFICES ASSUME NEW r \in Rounds, NEW w \in WorkerSet
    PROVE  OnceAt(r, w)' /\ (Nowhere(r, w) => Nowhere(r, w)')
  BY DEF OnceInv, Settled
<1>1. /\ \A a \in Actors : outbox[a] \in Seq(Post) /\ mailbox[a] \in Seq(Message)
      /\ updates[r] \in Seq(UpdateMessage)
  BY DEF TypeOK, Post
<1>2. w \in Actors /\ w # Coordinator /\ Coordinator \in Actors /\ Aggregator \in Actors /\ Aggregator # Coordinator
  BY Posts
<1>3. /\ Keeps(outbox[Coordinator], outbox'[Coordinator], {Envelope(w, Train(r))})
      /\ Keeps(outbox[w], outbox'[w], Answers(r, w))
  BY <1>1, <1>2, ShrinksKeeps
<1>4. /\ Keeps(mailbox[w], mailbox'[w], {Train(r)})
      /\ Keeps(mailbox[Aggregator], mailbox'[Aggregator], UpdatesOf(r, w))
  BY <1>1, <1>2, ShrinksKeeps
<1>5. Keeps(updates[r], updates'[r], UpdatesOf(r, w))
  BY <1>1, ShrinksKeeps
<1>6. OnceAt(r, w)
  BY DEF OnceInv
<1> QED
  BY <1>3, <1>4, <1>5, <1>6, OnceKept

\* The trigger and the requests are not updates, and belong to one round.
LEMMA MessagesDiffer ==
  ASSUME NEW r \in Rounds, NEW w \in WorkerSet, NEW s \in Rounds, NEW v \in WorkerSet
  PROVE  /\ Trigger(s) \notin UpdatesOf(r, w)
         /\ Train(s) = Train(r) <=> s = r
         /\ Envelope(v, Train(s)) = Envelope(w, Train(r)) <=> s = r /\ v = w
         /\ Envelope(Aggregator, Trigger(s)) # Envelope(w, Train(r))
<1>1. Trigger(s).type = "AggregateTrigger" /\ \A m \in UpdatesOf(r, w) : m.type = "LocalModelUpdate"
  BY DEF Trigger, UpdatesOf, UpdateMessage
<1>2. Train(s) = Train(r) <=> s = r
  BY DEF Train
<1>3. Envelope(v, Train(s)) = Envelope(w, Train(r)) <=> v = w /\ Train(s) = Train(r)
  BY DEF Envelope
<1>4. Envelope(Aggregator, Trigger(s)).to = Aggregator /\ Envelope(w, Train(r)).to = w
  BY DEF Envelope
<1> QED
  BY <1>1, <1>2, <1>3, <1>4, Posts

\* A Tell accepted: an order becomes a request, an answer arrives.
LEMMA OnceSendOk ==
  ASSUME RoundInv, NEW a \in Actors, SendOk(a)
  PROVE  OnceInv' /\ Settled
<1> SUFFICES ASSUME NEW r \in Rounds, NEW w \in WorkerSet
    PROVE  OnceAt(r, w)' /\ (Nowhere(r, w) => Nowhere(r, w)')
  BY DEF OnceInv, Settled
<1> DEFINE e == Head(outbox[a])
<1>1. /\ outbox[a] # <<>> /\ outbox' = [outbox EXCEPT ![a] = Tail(outbox[a])]
      /\ mailbox' = [mailbox EXCEPT ![e.to] = Append(mailbox[e.to], e.msg)]
      /\ roundID' = roundID /\ updates' = updates
  BY DEF SendOk, Done, Sends
<1>2. TypeOK /\ OutboxInv /\ OnceAt(r, w)
  BY DEF RoundInv, WorkInv, BaseInv, OnceInv
<1>3. /\ outbox \in [Actors -> Seq(Post)] /\ mailbox \in [Actors -> Seq(Message)]
      /\ updates[r] \in Seq(UpdateMessage)
  BY <1>2 DEF TypeOK, Post
<1>4. e \in Outgoing(a) /\ e.to \in Actors /\ e.msg \in Message
  BY <1>1, <1>2, DoneFacts, SMT DEF Post
<1>5. /\ w \in Actors /\ Coordinator \in Actors /\ Aggregator \in Actors
      /\ w # Coordinator /\ w # Aggregator /\ Coordinator # Aggregator
  BY Posts
<1>6. /\ \A b \in Actors \ {a} : outbox'[b] = outbox[b]
      /\ outbox'[a] = Tail(outbox[a])
      /\ \A b \in Actors \ {e.to} : mailbox'[b] = mailbox[b]
      /\ mailbox'[e.to] = Append(mailbox[e.to], e.msg)
  BY <1>1, <1>3, <1>4, Zenon
<1>7. \A S : \A b \in Actors : Keeps(outbox[b], outbox'[b], S)
  BY <1>1, <1>3, <1>6, ShrinksKeeps DEF Shrinks
<1>8. \A S : Keeps(updates[r], updates'[r], S) /\ \A b \in Actors \ {e.to} : Keeps(mailbox[b], mailbox'[b], S)
  BY <1>1, <1>6 DEF Keeps
<1>9. ASSUME NEW S, e.msg \notin S PROVE Keeps(mailbox[e.to], mailbox'[e.to], S)
  BY <1>3, <1>4, <1>6, <1>9, AppendFacts DEF Keeps
<1> HIDE DEF e
<1>10. CASE a = Coordinator
  <2>1. \/ \E s \in Rounds : e = Envelope(Aggregator, Trigger(s))
        \/ \E v \in WorkerSet, s \in Rounds : e = Envelope(v, Train(s))
    BY <1>4, <1>10, SMT DEF Outgoing
  <2>2. CASE \E s \in Rounds : e = Envelope(Aggregator, Trigger(s))
    <3>1. PICK s \in Rounds : e = Envelope(Aggregator, Trigger(s))
      BY <2>2
    <3>2. e.to = Aggregator /\ e.msg \notin UpdatesOf(r, w)
      BY <3>1, MessagesDiffer DEF Envelope
    <3> QED
      BY <1>1, <1>2, <1>5, <1>7, <1>8, <1>9, <3>2, OnceKept
  <2>3. CASE \E v \in WorkerSet, s \in Rounds : e = Envelope(v, Train(s))
    <3>1. PICK v \in WorkerSet, s \in Rounds : e = Envelope(v, Train(s))
      BY <2>3
    <3>2. e.to = v /\ e.msg = Train(s) /\ v # Aggregator
      BY <3>1, Posts DEF Envelope
    <3>3. CASE v = w /\ s = r
      <4>1. Ordered(r, w) /\ ~Ordered(r, w)' /\ Single(outbox'[Coordinator], {Envelope(w, Train(r))})
        <5>1. outbox[Coordinator] \in Seq(Post) /\ outbox[Coordinator] # <<>>
          BY <1>1, <1>3, <1>5, <1>10
        <5>2. Head(outbox[Coordinator]) \in {Envelope(w, Train(r))}
          BY <1>10, <3>1, <3>3 DEF e
        <5>3. Single(outbox[Coordinator], {Envelope(w, Train(r))})
          BY <1>2 DEF OnceAt, SingleEach
        <5>4. outbox'[Coordinator] = Tail(outbox[Coordinator])
          BY <1>6, <1>10
        <5> QED
          BY <5>1, <5>2, <5>3, <5>4, TailFacts DEF Ordered
      <4>2. ~Requested(r, w) /\ ~Answered(r, w) /\ ~Arrived(r, w) /\ ~Collected(r, w)
        BY <1>2, <4>1 DEF OnceAt, InOnePlace
      <4>3. Single(mailbox'[w], {Train(r)})
        <5>1. Single(mailbox[w], {Train(r)}) /\ ~Has(mailbox[w], {Train(r)})
          BY <1>2, <4>2 DEF Requested, OnceAt, SingleEach
        <5>2. mailbox'[w] = Append(mailbox[w], Train(r)) /\ mailbox[w] \in Seq(Message)
          BY <1>3, <1>5, <1>6, <3>2, <3>3
        <5>3. Single(Append(mailbox[w], Train(r)), {Train(r)})
          BY <5>1, <5>2, AppendFacts
        <5> QED
          BY <5>2, <5>3
      <4>4. ~Answered(r, w)' /\ ~Arrived(r, w)' /\ ~Collected(r, w)'
        BY <1>5, <1>7, <1>8, <3>2, <4>2 DEF Keeps, Answered, Arrived, Collected
      <4>5. SingleEach(r, w)'
        BY <1>2, <1>5, <1>7, <1>8, <3>2, <4>1, <4>3 DEF Keeps, OnceAt, SingleEach
      <4>6. ~(r > roundID')
        BY <1>1, <1>2, <4>1 DEF OnceAt, Nowhere
      <4> QED
        BY <4>1, <4>4, <4>5, <4>6 DEF OnceAt, InOnePlace, Nowhere
    <3>4. CASE ~(v = w /\ s = r)
      <4>1. v = w => e.msg \notin {Train(r)}
        BY <3>2, <3>4, MessagesDiffer
      <4> QED
        BY <1>1, <1>2, <1>5, <1>7, <1>8, <1>9, <3>2, <4>1, OnceKept
    <3> QED
      BY <3>3, <3>4
  <2> QED
    BY <2>1, <2>2, <2>3
<1>11. CASE a = Aggregator
  <2>1. e.to = Coordinator
    BY <1>4, <1>5, <1>11, SMT DEF Outgoing, Envelope
  <2> QED
    BY <1>1, <1>2, <1>5, <1>7, <1>8, <2>1, OnceKept
<1>12. CASE a # Coordinator /\ a # Aggregator
  <2>1. PICK m \in UpdateMessage : m.worker = a /\ e = Envelope(Aggregator, m)
    BY <1>4, <1>12, SMT DEF Outgoing
  <2>2. e.to = Aggregator /\ e.msg = m
    BY <2>1 DEF Envelope
  <2>3. CASE a = w /\ m.round = r
    <3>1. m \in UpdatesOf(r, w) /\ e \in Answers(r, w)
      BY <2>1, <2>3, EnvelopeIn, Zenon DEF UpdatesOf, Answers
    <3>2. Answered(r, w) /\ ~Answered(r, w)' /\ Single(outbox'[w], Answers(r, w))
      BY <1>1, <1>2, <1>3, <1>5, <1>6, <2>3, <3>1, TailFacts DEF e, Answered, OnceAt, SingleEach
    <3>3. ~Ordered(r, w) /\ ~Requested(r, w) /\ ~Arrived(r, w) /\ ~Collected(r, w)
      BY <1>2, <3>2 DEF OnceAt, InOnePlace
    <3>4. Single(mailbox'[Aggregator], UpdatesOf(r, w))
      <4>1. Single(mailbox[Aggregator], UpdatesOf(r, w)) /\ ~Has(mailbox[Aggregator], UpdatesOf(r, w))
        BY <1>2, <3>3 DEF Arrived, OnceAt, SingleEach
      <4>2. mailbox'[Aggregator] = Append(mailbox[Aggregator], m) /\ mailbox[Aggregator] \in Seq(Message)
        BY <1>3, <1>5, <1>6, <2>2
      <4>3. Single(Append(mailbox[Aggregator], m), UpdatesOf(r, w))
        <5> HIDE DEF UpdatesOf
        <5> QED
          BY <4>1, <4>2, AppendFacts, Zenon
      <4> QED
        BY <4>2, <4>3
    <3>5. ~Ordered(r, w)' /\ ~Requested(r, w)' /\ ~Collected(r, w)'
      BY <1>5, <1>7, <1>8, <2>2, <3>3 DEF Keeps, Ordered, Requested, Collected
    <3>6. SingleEach(r, w)'
      BY <1>2, <1>5, <1>7, <1>8, <2>2, <3>2, <3>4 DEF Keeps, OnceAt, SingleEach
    <3>7. ~(r > roundID')
      BY <1>1, <1>2, <3>2 DEF OnceAt, Nowhere
    <3> QED
      BY <3>2, <3>5, <3>6, <3>7 DEF OnceAt, InOnePlace, Nowhere
  <2>4. CASE ~(a = w /\ m.round = r)
    <3>1. e.msg \notin UpdatesOf(r, w)
      BY <2>1, <2>2, <2>4 DEF UpdatesOf
    <3> QED
      BY <1>1, <1>2, <1>5, <1>7, <1>8, <1>9, <2>2, <3>1, OnceKept
  <2> QED
    BY <2>3, <2>4
<1> QED
  BY <1>10, <1>11, <1>12

\* A round's requests name different workers.
LEMMA RoundPostsOnce ==
  ASSUME NEW r \in Rounds, NEW s \in Rounds, NEW w \in WorkerSet
  PROVE  /\ Has(RoundPosts(s), {Envelope(w, Train(r))}) => r = s
         /\ Single(RoundPosts(s), {Envelope(w, Train(r))})
<1> DEFINE posts == RoundPosts(s)
<1>1. /\ Len(posts) = 1 + Len(Workers) /\ Len(Workers) \in Nat
      /\ posts[1] = Envelope(Aggregator, Trigger(s))
      /\ \A i \in 2..Len(posts) :
           i - 1 \in 1..Len(Workers) /\ posts[i] = Envelope(Workers[i - 1], Train(s))
  BY RoundPostsFacts, WorkersFacts
<1>2. /\ \A i \in 1..Len(Workers) : Workers[i] \in WorkerSet
      /\ \A i, j \in 1..Len(Workers) : Workers[i] = Workers[j] => i = j
  BY RoundAssumption DEF RoundAssumption
<1> HIDE DEF posts
<1>3. ASSUME NEW i \in 1..Len(posts), posts[i] = Envelope(w, Train(r))
      PROVE  i - 1 \in 1..Len(Workers) /\ Workers[i - 1] = w /\ r = s
  <2>1. i # 1
    BY <1>1, <1>3, MessagesDiffer
  <2>2. i - 1 \in 1..Len(Workers) /\ posts[i] = Envelope(Workers[i - 1], Train(s))
    BY <1>1, <2>1
  <2>3. Workers[i - 1] \in WorkerSet /\ Envelope(Workers[i - 1], Train(s)) = Envelope(w, Train(r))
    BY <1>2, <1>3, <2>2
  <2> QED
    BY <2>2, <2>3, MessagesDiffer
<1>4. Has(posts, {Envelope(w, Train(r))}) => r = s
  BY <1>3 DEF Has
<1>5. ASSUME NEW i \in 1..Len(posts), NEW j \in 1..Len(posts),
             posts[i] = Envelope(w, Train(r)), posts[j] = Envelope(w, Train(r))
      PROVE  i = j
  <2>1. i - 1 \in 1..Len(Workers) /\ j - 1 \in 1..Len(Workers) /\ Workers[i - 1] = Workers[j - 1]
    BY <1>3, <1>5
  <2>2. i - 1 = j - 1
    BY <1>2, <2>1
  <2> QED
    BY <1>1, <2>2
<1> QED
  BY <1>4, <1>5 DEF posts, Single

\* A new round is ordered from every worker; nothing of it existed before.
LEMMA OnceStartRound ==
  ASSUME RoundInv, StartRound
  PROVE  /\ OnceInv'
         /\ \A r \in Rounds \ {roundID + 1}, w \in WorkerSet : Nowhere(r, w) => Nowhere(r, w)'
<1> SUFFICES ASSUME NEW r \in Rounds, NEW w \in WorkerSet
    PROVE  OnceAt(r, w)' /\ (r # roundID + 1 => (Nowhere(r, w) => Nowhere(r, w)'))
  BY DEF OnceInv
<1> DEFINE s == roundID + 1
           S == {Envelope(w, Train(r))}
<1>1. /\ TypeOK /\ OutboxInv /\ OnceAt(r, w) /\ s \in Rounds
      /\ roundID' = s /\ updates' = updates /\ Receives(Coordinator, "StartTraining")
      /\ Sends(Coordinator, RoundPosts(s))
  BY BaseStartRound DEF RoundInv, WorkInv, BaseInv, OnceInv, StartRound, RoundPosts
<1>2. /\ w \in Actors /\ Coordinator \in Actors /\ Aggregator \in Actors
      /\ w # Coordinator /\ Coordinator # Aggregator
  BY Posts
<1>3. /\ outbox[Coordinator] = <<>>
      /\ mailbox' = [mailbox EXCEPT ![Coordinator] = Tail(mailbox[Coordinator])]
      /\ outbox' = [outbox EXCEPT ![Coordinator] = RoundPosts(s)]
  BY <1>1, <1>2, ReceiptFacts DEF Sends
<1>4. /\ outbox \in [Actors -> Seq(Post)] /\ mailbox \in [Actors -> Seq(Message)] /\ roundID \in 0..Starts
  BY <1>1 DEF TypeOK, Post
<1>5. /\ outbox'[w] = outbox[w] /\ outbox'[Coordinator] = RoundPosts(s)
      /\ mailbox'[w] = mailbox[w] /\ mailbox'[Aggregator] = mailbox[Aggregator] /\ updates'[r] = updates[r]
  BY <1>1, <1>2, <1>3, <1>4, Zenon
<1>6. (Has(RoundPosts(s), S) => r = s) /\ Single(RoundPosts(s), S)
  BY <1>1, RoundPostsOnce
<1>7. CASE r # s
  <2>1. ~Has(outbox'[Coordinator], S) /\ Single(outbox'[Coordinator], S)
    BY <1>5, <1>6, <1>7
  <2>2. r > roundID' => r > roundID
    BY <1>1, <1>4 DEF Rounds
  <2> HIDE DEF S
  <2>3. Keeps(outbox[Coordinator], outbox'[Coordinator], S)
    BY <2>1, Zenon DEF Keeps
  <2> QED
    BY <1>1, <1>5, <2>2, <2>3, OnceKept DEF Keeps, S
<1>8. CASE r = s
  <2>1. r > roundID /\ ~(r > roundID')
    BY <1>1, <1>4, <1>8
  <2>2. Nowhere(r, w)
    BY <1>1, <2>1 DEF OnceAt
  <2>3. ~Requested(r, w)' /\ ~Answered(r, w)' /\ ~Arrived(r, w)' /\ ~Collected(r, w)'
    BY <1>5, <2>2 DEF Nowhere, Requested, Answered, Arrived, Collected
  <2>4. SingleEach(r, w)'
    BY <1>1, <1>5, <1>6 DEF OnceAt, SingleEach
  <2> QED
    BY <1>8, <2>1, <2>3, <2>4 DEF OnceAt, InOnePlace
<1> QED
  BY <1>7, <1>8

\* A worker answers a request, for its round.
LEMMA OnceWorkerTrains ==
  ASSUME RoundInv, NEW v \in WorkerSet, WorkerTrains(v)
  PROVE  OnceInv' /\ Settled
<1> SUFFICES ASSUME NEW r \in Rounds, NEW w \in WorkerSet
    PROVE  OnceAt(r, w)' /\ (Nowhere(r, w) => Nowhere(r, w)')
  BY DEF OnceInv, Settled
<1> DEFINE m == Head(mailbox[v])
           s == m.round
           u == Update(s, v)
<1>1. /\ TypeOK /\ OutboxInv /\ OnceAt(r, w) /\ roundID' = roundID /\ updates' = updates
      /\ Receives(v, "TrainRequest") /\ Sends(v, <<Envelope(Aggregator, u)>>)
  BY DEF RoundInv, WorkInv, BaseInv, OnceInv, WorkerTrains
<1>2. /\ v \in Actors /\ w \in Actors /\ Coordinator \in Actors /\ Aggregator \in Actors
      /\ v # Coordinator /\ v # Aggregator /\ w # Coordinator /\ w # Aggregator
  BY Posts
<1>3. /\ outbox[v] = <<>> /\ mailbox[v] # <<>> /\ m \in Message /\ m.type = "TrainRequest"
      /\ mailbox' = [mailbox EXCEPT ![v] = Tail(mailbox[v])]
      /\ outbox' = [outbox EXCEPT ![v] = <<Envelope(Aggregator, u)>>]
  BY <1>1, <1>2, ReceiptFacts DEF Sends
<1>4. outbox \in [Actors -> Seq(Post)] /\ mailbox \in [Actors -> Seq(Message)] /\ run \in 0..MaxRuns
  BY <1>1 DEF TypeOK, Post
<1>5. /\ \A b \in Actors \ {v} : outbox'[b] = outbox[b] /\ mailbox'[b] = mailbox[b]
      /\ outbox'[v] = <<Envelope(Aggregator, u)>> /\ mailbox'[v] = Tail(mailbox[v])
  BY <1>2, <1>3, <1>4, Zenon
<1>6. s \in Rounds /\ m = Train(s)
  <2> HIDE DEF m
  <2> QED
    BY <1>3 DEF Message, Train, UpdateMessage, ModelMessage
<1>7. u \in UpdateMessage /\ u.worker = v /\ u.round = s
  BY <1>4, <1>6 DEF Update, UpdateMessage
<1> HIDE DEF u, s
<1>8. CASE v # w
  BY <1>1, <1>2, <1>5, <1>8, OnceKept DEF Keeps
<1>9. CASE v = w /\ s # r
  <2>1. Envelope(Aggregator, u) \notin Answers(r, w)
    BY <1>7, <1>9 DEF Answers, UpdatesOf, Envelope
  <2>2. Keeps(outbox[w], outbox'[w], Answers(r, w))
    BY <1>3, <1>5, <1>9, <2>1, ShortFacts DEF Keeps
  <2>3. Keeps(mailbox[w], mailbox'[w], {Train(r)})
    BY <1>2, <1>3, <1>4, <1>5, <1>9, ShrinksKeeps DEF Shrinks
  <2> QED
    BY <1>1, <1>2, <1>5, <1>9, <2>2, <2>3, OnceKept DEF Keeps
<1>10. CASE v = w /\ s = r
  <2>1. Single(mailbox[w], {Train(r)}) /\ m \in {Train(r)} /\ mailbox[w] \in Seq(Message) /\ mailbox[w] # <<>>
        /\ m = Head(mailbox[w]) /\ mailbox'[w] = Tail(mailbox[w])
    BY <1>1, <1>2, <1>3, <1>4, <1>5, <1>6, <1>10 DEF OnceAt, SingleEach
  <2> HIDE DEF m
  <2>2. Requested(r, w) /\ ~Requested(r, w)' /\ Single(mailbox'[w], {Train(r)})
    BY <2>1, TailFacts DEF Requested
  <2>3. ~Ordered(r, w) /\ ~Answered(r, w) /\ ~Arrived(r, w) /\ ~Collected(r, w)
    BY <1>1, <2>2 DEF OnceAt, InOnePlace
  <2>4. ~Ordered(r, w)' /\ ~Arrived(r, w)' /\ ~Collected(r, w)'
    BY <1>1, <1>2, <1>5, <1>10, <2>3 DEF Ordered, Arrived, Collected
  <2>5. Single(outbox'[w], Answers(r, w))
    BY <1>5, <1>10, ShortFacts
  <2>6. SingleEach(r, w)'
    BY <1>1, <1>2, <1>5, <1>10, <2>2, <2>5 DEF OnceAt, SingleEach
  <2>7. ~(r > roundID') /\ ~Nowhere(r, w)
    BY <1>1, <2>2 DEF OnceAt, Nowhere
  <2> QED
    BY <2>2, <2>4, <2>6, <2>7 DEF OnceAt, InOnePlace
<1> QED
  BY <1>8, <1>9, <1>10

\* What is collected for a round when a message has come: of each worker one
\* update at most, and none of another round or run.
LEMMA CollectedFacts ==
  ASSUME RoundInv, Aggregates
  PROVE  \E r \in Rounds, n \in {Len(Workers), None}, ups \in Seq(UpdateMessage) :
           /\ Collect(r, n, ups)
           /\ ~Has(ups, Foreign(r, run))
           /\ \A w \in WorkerSet :
                /\ Single(ups, UpdatesOf(r, w))
                /\ Has(ups, UpdatesOf(r, w)) =>
                     \/ Keeps(updates[r], ups, UpdatesOf(r, w))
                     \/ ~Arrived(r, w)' /\ Arrived(r, w)
           /\ LET m == Head(mailbox[Aggregator]) IN
              /\ m.round = r
              /\ \/ m.type = "AggregateTrigger" /\ n = Len(Workers) /\ ups = updates[r]
                 \/ m \in UpdateMessage /\ n = expected[r] /\ ups = Append(updates[r], m)
<1>1. /\ TypeOK /\ OutboxInv /\ OnceInv /\ KeptInv /\ ~Has(mailbox[Aggregator], Stale(run))
      /\ updates \in [Rounds -> Seq(UpdateMessage)] /\ mailbox \in [Actors -> Seq(Message)]
  BY DEF RoundInv, WorkInv, BaseInv, TypeOK, DataInv
<1> DEFINE box == mailbox[Aggregator]
           m == Head(box)
<1>2. Aggregator \in Actors
  BY Posts
<1>3. box # <<>> /\ mailbox' = [mailbox EXCEPT ![Aggregator] = Tail(box)]
  BY <1>1, AggregatesFacts
<1>4. PICK r \in Rounds, n \in {Len(Workers), None}, ups \in Seq(UpdateMessage) :
        /\ r = m.round /\ Collect(r, n, ups)
        /\ \/ m.type = "AggregateTrigger" /\ n = Len(Workers) /\ ups = updates[r]
           \/ m \in UpdateMessage /\ n = expected[r] /\ ups = Append(updates[r], m)
  BY <1>1, AggregatesFacts
<1>5. mailbox'[Aggregator] = Tail(box) /\ box \in Seq(Message)
  BY <1>1, <1>2, <1>3, Zenon
<1>6. ~Has(updates[r], Foreign(r, run)) /\ updates[r] \in Seq(UpdateMessage)
  BY <1>1, <1>4 DEF KeptInv
<1>7. ASSUME NEW w \in WorkerSet PROVE OnceAt(r, w) /\ Single(updates[r], UpdatesOf(r, w))
  BY <1>1, <1>4 DEF OnceInv, OnceAt, SingleEach
<1>8. CASE ups = updates[r]
  BY <1>4, <1>6, <1>7, <1>8 DEF Keeps
<1>9. CASE m \in UpdateMessage /\ ups = Append(updates[r], m)
  <2>1. m.round = r /\ m \notin Stale(run)
    <3> HIDE DEF m
    <3>1. Head(box) \in Stale(run) => Has(box, Stale(run))
      <4> HIDE DEF box
      <4> QED
        BY <1>3, <1>5, TailFacts
    <3> QED
      BY <1>1, <1>4, <3>1 DEF m
  <2>2. m \notin Foreign(r, run)
    BY <1>9, <2>1 DEF Foreign, Stale
  <2>3. ~Has(ups, Foreign(r, run))
    BY <1>6, <1>9, <2>2, AppendFacts, Zenon
  <2>4. ASSUME NEW w \in WorkerSet
        PROVE  /\ Single(ups, UpdatesOf(r, w))
               /\ \/ Keeps(updates[r], ups, UpdatesOf(r, w))
                  \/ ~Arrived(r, w)' /\ Arrived(r, w)
    <3>1. CASE m.worker = w
      <4>1. m \in UpdatesOf(r, w)
        BY <1>9, <2>1, <3>1 DEF UpdatesOf
      <4>2. Single(box, UpdatesOf(r, w))
        BY <1>7 DEF OnceAt, SingleEach
      <4> HIDE DEF box
      <4>3. Has(box, UpdatesOf(r, w)) /\ ~Has(Tail(box), UpdatesOf(r, w))
        BY <1>3, <1>5, <4>1, <4>2, TailFacts
      <4>4. Arrived(r, w) /\ ~Arrived(r, w)'
        BY <1>5, <4>3 DEF Arrived, box
      <4>5. ~Has(updates[r], UpdatesOf(r, w))
        BY <1>7, <4>4 DEF OnceAt, InOnePlace, Collected
      <4>6. Single(Append(updates[r], m), UpdatesOf(r, w))
        <5> HIDE DEF UpdatesOf
        <5> QED
          BY <1>6, <1>7, <4>5, AppendFacts, Zenon
      <4> QED
        BY <1>9, <4>4, <4>6
    <3>2. CASE m.worker # w
      <4>1. m \notin UpdatesOf(r, w)
        BY <3>2 DEF UpdatesOf
      <4>2. /\ Single(Append(updates[r], m), UpdatesOf(r, w))
            /\ Has(Append(updates[r], m), UpdatesOf(r, w)) => Has(updates[r], UpdatesOf(r, w))
        <5> HIDE DEF UpdatesOf, m
        <5> QED
          BY <1>6, <1>7, <4>1, AppendFacts, Zenon
      <4> QED
        BY <1>9, <4>2 DEF Keeps
    <3> QED
      BY <3>1, <3>2
  <2> QED
    BY <1>4, <2>3, <2>4
<1> QED
  BY <1>4, <1>8, <1>9

\* The aggregator takes a message: an update that has arrived is collected.
LEMMA RoundAggregates ==
  ASSUME RoundInv, Aggregates
  PROVE  WorkInv' /\ Settled
<1>1. /\ TypeOK /\ OutboxInv /\ OnceInv /\ KeptInv /\ ModelsInv /\ DataInv /\ FreshInv
      /\ updates \in [Rounds -> Seq(UpdateMessage)] /\ mailbox \in [Actors -> Seq(Message)]
      /\ outbox \in [Actors -> Seq(Post)]
  BY DEF RoundInv, WorkInv, BaseInv, TypeOK, Post
<1>2. /\ Coordinator \in Actors /\ Aggregator \in Actors /\ WorkerSet \subseteq Actors
      /\ Coordinator # Aggregator /\ Coordinator \notin WorkerSet /\ Aggregator \notin WorkerSet
  BY Posts
<1>3. /\ mailbox' = [mailbox EXCEPT ![Aggregator] = Tail(mailbox[Aggregator])]
      /\ mailbox[Aggregator] # <<>>
      /\ UNCHANGED <<late, roundID, reporting, results, run, driver>>
  BY <1>1, AggregatesFacts DEF driverVars
<1>4. PICK r \in Rounds, n \in {Len(Workers), None}, ups \in Seq(UpdateMessage) :
           /\ Collect(r, n, ups)
           /\ ~Has(ups, Foreign(r, run))
           /\ \A w \in WorkerSet :
                /\ Single(ups, UpdatesOf(r, w))
                /\ Has(ups, UpdatesOf(r, w)) =>
                     \/ Keeps(updates[r], ups, UpdatesOf(r, w))
                     \/ ~Arrived(r, w)' /\ Arrived(r, w)
  BY CollectedFacts
<1>5. /\ \/ Complete(n, ups) /\ updates' = [updates EXCEPT ![r] = <<>>]
              /\ outbox' = [outbox EXCEPT ![Aggregator] = <<Envelope(Coordinator, Model(r, ups))>>]
         \/ ~Complete(n, ups) /\ updates' = [updates EXCEPT ![r] = ups] /\ outbox' = outbox
  BY <1>4 DEF Collect, Sends
<1>6. /\ \A s \in Rounds \ {r} : updates'[s] = updates[s]
      /\ updates'[r] = <<>> \/ updates'[r] = ups
      /\ \A b \in Actors \ {Aggregator} : outbox'[b] = outbox[b] /\ mailbox'[b] = mailbox[b]
      /\ mailbox'[Aggregator] = Tail(mailbox[Aggregator])
  BY <1>1, <1>2, <1>3, <1>4, <1>5, Zenon
<1>7. OnceInv' /\ Settled
  <2> SUFFICES ASSUME NEW s \in Rounds, NEW w \in WorkerSet
      PROVE  OnceAt(s, w)' /\ (Nowhere(s, w) => Nowhere(s, w)')
    BY DEF OnceInv, Settled
  <2>1. OnceAt(s, w)
    BY <1>1 DEF OnceInv
  <2>2. \A S : Keeps(mailbox[Aggregator], mailbox'[Aggregator], S)
    BY <1>1, <1>2, <1>3, <1>6, ShrinksKeeps DEF Shrinks
  <2>3. /\ outbox'[Coordinator] = outbox[Coordinator] /\ outbox'[w] = outbox[w] /\ mailbox'[w] = mailbox[w]
    BY <1>2, <1>6
  <2>4. CASE Keeps(updates[s], updates'[s], UpdatesOf(s, w))
    BY <1>3, <2>1, <2>2, <2>3, <2>4, OnceKept DEF Keeps
  <2>5. CASE ~Keeps(updates[s], updates'[s], UpdatesOf(s, w))
    <3>1. s = r /\ updates'[r] = ups
      BY <1>6, <2>5, ShortFacts DEF Keeps
    <3>2. Single(ups, UpdatesOf(r, w)) /\ ~Arrived(r, w)' /\ Arrived(r, w)
      BY <1>4, <2>5, <3>1 DEF Keeps
    <3>3. ~Ordered(r, w) /\ ~Requested(r, w) /\ ~Answered(r, w) /\ ~(r > roundID) /\ ~Nowhere(r, w)
      BY <2>1, <3>1, <3>2 DEF OnceAt, InOnePlace, Nowhere
    <3>4. ~Ordered(r, w)' /\ ~Requested(r, w)' /\ ~Answered(r, w)' /\ ~(r > roundID')
      BY <1>3, <2>3, <3>3 DEF Ordered, Requested, Answered
    <3>5. SingleEach(r, w)'
      BY <2>1, <2>2, <2>3, <3>1, <3>2 DEF OnceAt, SingleEach, Keeps
    <3> QED
      BY <3>1, <3>2, <3>3, <3>4, <3>5 DEF OnceAt, InOnePlace
  <2> QED
    BY <2>4, <2>5
<1>8. KeptInv'
  <2> SUFFICES ASSUME NEW s \in Rounds PROVE ~Has(updates'[s], Foreign(s, run))
    BY <1>3 DEF KeptInv
  <2>1. CASE s = r
    BY <1>4, <1>6, <2>1, ShortFacts
  <2>2. CASE s # r
    BY <1>1, <1>6, <2>2 DEF KeptInv
  <2> QED
    BY <2>1, <2>2
<1>9. ModelsInv'
  <2>1. mailbox'[Coordinator] = mailbox[Coordinator]
    BY <1>2, <1>6
  <2> DEFINE S == {Envelope(Coordinator, m) : m \in Bad(run)}
  <2>2. ~Has(outbox'[Aggregator], S)
    <3>1. CASE Complete(n, ups)
      <4>1. Len(ups) >= Len(Workers)
        BY <1>4, <3>1 DEF Complete
      <4>2. FromAll(ups)
        BY <1>4, <4>1, Pigeons
      <4>3. Model(r, ups).updates = ups /\ Envelope(Coordinator, Model(r, ups)).msg = Model(r, ups)
        BY DEF Model, Envelope
      <4>4. ~Has(ups, Stale(run))
        BY <1>4 DEF Has, Stale, Foreign
      <4>6. Envelope(Coordinator, Model(r, ups)) \notin S
        BY <4>2, <4>3, <4>4 DEF Bad, Envelope
      <4>5. outbox'[Aggregator] = <<Envelope(Coordinator, Model(r, ups))>>
        BY <1>1, <1>2, <1>5, <3>1, Zenon
      <4> HIDE DEF S
      <4> QED
        BY <4>5, <4>6, ShortFacts
    <3>2. CASE ~Complete(n, ups)
      BY <1>1, <1>5, <3>2 DEF ModelsInv
    <3> QED
      BY <3>1, <3>2
  <2> QED
    BY <1>1, <1>3, <2>1, <2>2 DEF ModelsInv
<1>10. DataInv'
  <2>1. \A S : ~Has(mailbox[Aggregator], S) => ~Has(mailbox'[Aggregator], S)
    BY <1>1, <1>2, <1>3, <1>6, ShrinksKeeps DEF Shrinks, Keeps
  <2> QED
    BY <1>1, <1>2, <1>3, <1>6, <2>1 DEF DataInv
<1>11. FreshInv'
  BY <1>1, <1>3 DEF FreshInv
<1> QED
  BY <1>7, <1>8, <1>9, <1>10, <1>11 DEF WorkInv

\* Whatever becomes of a Tell, models and updates are sent as they were made.
LEMMA RoundSending ==
  ASSUME RoundInv, DeliveredOnce, NEW a \in Actors, Sending(a)
  PROVE  WorkInv' /\ Settled
<1> DEFINE e == Head(outbox[a])
           S == {Envelope(Coordinator, m) : m \in Bad(run)}
<1>1. /\ TypeOK /\ OutboxInv /\ OnceInv /\ KeptInv /\ ModelsInv /\ DataInv /\ FreshInv
      /\ outbox \in [Actors -> Seq(Post)] /\ mailbox \in [Actors -> Seq(Message)]
  BY DEF RoundInv, WorkInv, BaseInv, TypeOK, Post
<1>2. ~SendLate(a)
  <2>1. "late" \in FaultKinds /\ faults["late"] \in Nat /\ MaxFaults[program]["late"] = 0
    BY <1>1 DEF FaultKinds, TypeOK, DeliveredOnce
  <2>2. SendLate(a) => faults["late"] < MaxFaults[program]["late"]
    BY DEF SendLate, Fault
  <2> QED
    BY <2>1, <2>2
<1>3. /\ outbox[a] # <<>> /\ (Fail(a) \/ Done(a))
      /\ UNCHANGED <<roundID, reporting, updates, driverVars, late>>
  BY <1>2 DEF Sending, SendOk, SendRefused, SendError
<1>4. FreshInv' /\ KeptInv'
  BY <1>1, <1>3 DEF FreshInv, KeptInv, driverVars
<1>5. /\ outbox' \in [Actors -> Seq(Post)]
      /\ outbox' = outbox \/ outbox' = [outbox EXCEPT ![a] = Tail(outbox[a])]
  BY <1>1, <1>3, AttemptFacts
<1>6. \A b \in Actors : Shrinks(outbox[b], outbox'[b])
  BY <1>1, <1>3, <1>5 DEF Shrinks
<1>7. Aggregator \in Actors /\ Coordinator \in Actors /\ Aggregator # Coordinator
  BY Posts
<1>8. ~Has(outbox'[Aggregator], S)
  <2>1. ~Has(outbox[Aggregator], S)
    BY <1>1 DEF ModelsInv
  <2> HIDE DEF S
  <2> QED
    BY <1>1, <1>6, <1>7, <2>1, ShrinksKeeps DEF Keeps
<1>11. \A w \in WorkerSet : ~Has(outbox'[w], {Envelope(Aggregator, m) : m \in Stale(run)})
  <2> SUFFICES ASSUME NEW w \in WorkerSet, NEW T, ~Has(outbox[w], T) PROVE ~Has(outbox'[w], T)
    BY <1>1 DEF DataInv
  <2> QED
    BY <1>1, <1>6, Posts, ShrinksKeeps DEF Keeps
<1>9. CASE SendOk(a)
  <2>1. OnceInv' /\ Settled
    BY <1>9, OnceSendOk
  <2>2. e \in Outgoing(a) /\ e.to \in Actors /\ e.msg \in Message
    BY <1>1, <1>3, DoneFacts, SMT DEF Post
  <2>3. mailbox' = [mailbox EXCEPT ![e.to] = Append(mailbox[e.to], e.msg)]
    BY <1>9 DEF SendOk
  <2>4. ~Has(mailbox'[Coordinator], Bad(run))
    <3>1. ~Has(mailbox[Coordinator], Bad(run)) /\ mailbox[Coordinator] \in Seq(Message)
      BY <1>1, <1>7 DEF ModelsInv
    <3>2. CASE e.to # Coordinator
      BY <1>1, <1>7, <2>3, <3>1, <3>2
    <3>3. CASE e.to = Coordinator
      <4>1. a = Aggregator
        BY <2>2, <3>3, Posts, SMT DEF Outgoing, Envelope
      <4>2. e \notin S
        <5>1. ~Has(outbox[Aggregator], S) /\ outbox[Aggregator] \in Seq(Post) /\ outbox[Aggregator] # <<>>
              /\ e = Head(outbox[Aggregator])
          BY <1>1, <1>3, <1>7, <4>1 DEF ModelsInv
        <5> HIDE DEF S, e
        <5> QED
          BY <5>1, TailFacts
      <4>3. e.msg \notin Bad(run)
        <5>1. PICK m \in ModelMessage : e = Envelope(Coordinator, m)
          BY <1>7, <2>2, <4>1, SMT DEF Outgoing
        <5>2. e.msg = m
          BY <5>1 DEF Envelope
        <5> HIDE DEF e
        <5> QED
          BY <4>2, <5>1, <5>2
      <4>4. mailbox'[Coordinator] = Append(mailbox[Coordinator], e.msg)
        BY <1>1, <1>7, <2>3, <3>3
      <4> HIDE DEF e
      <4> QED
        BY <3>1, <4>3, <4>4, AppendFacts
    <3> QED
      BY <3>2, <3>3
  <2>5. ~Has(mailbox'[Aggregator], Stale(run))
    <3>1. ~Has(mailbox[Aggregator], Stale(run)) /\ mailbox[Aggregator] \in Seq(Message)
      BY <1>1, <1>7 DEF DataInv
    <3>2. CASE e.to # Aggregator
      BY <1>1, <1>7, <2>3, <3>1, <3>2
    <3>3. CASE e.to = Aggregator
      <4>1. e.msg \notin Stale(run)
        <5>1. CASE a \in WorkerSet
          <6> DEFINE P == {Envelope(Aggregator, m) : m \in Stale(run)}
          <6>1. ~Has(outbox[a], P) /\ outbox[a] \in Seq(Post) /\ outbox[a] # <<>>
            BY <1>1, <1>3, <5>1 DEF DataInv
          <6>2. e \notin P
            <7> HIDE DEF P
            <7> QED
              BY <6>1, TailFacts
          <6>3. PICK m \in UpdateMessage : e = Envelope(Aggregator, m)
            BY <1>7, <2>2, <5>1, Posts, SMT DEF Outgoing
          <6>4. e.msg = m
            BY <6>3 DEF Envelope
          <6> HIDE DEF e
          <6> QED
            BY <6>2, <6>3, <6>4
        <5>2. CASE a = Aggregator
          BY <1>7, <2>2, <3>3, <5>2, SMT DEF Outgoing, Envelope
        <5>3. CASE a = Coordinator
          <6>1. PICK r \in Rounds : e = Envelope(Aggregator, Trigger(r))
            BY <1>7, <2>2, <3>3, <5>3, Posts, SMT DEF Outgoing, Envelope
          <6>2. e.msg = Trigger(r)
            BY <6>1 DEF Envelope
          <6> HIDE DEF e
          <6> QED
            BY <6>2 DEF Trigger, Stale, UpdateMessage
        <5> QED
          BY <5>1, <5>2, <5>3 DEF Actors
      <4>2. mailbox'[Aggregator] = Append(mailbox[Aggregator], e.msg)
        BY <1>1, <1>7, <2>3, <3>3
      <4> HIDE DEF e
      <4> QED
        BY <3>1, <4>1, <4>2, AppendFacts
    <3> QED
      BY <3>2, <3>3
  <2> QED
    BY <1>1, <1>3, <1>4, <1>8, <1>11, <2>1, <2>4, <2>5 DEF WorkInv, ModelsInv, DataInv, driverVars
<1>10. CASE SendRefused(a) \/ SendError(a)
  <2>1. mailbox' = mailbox
    BY <1>10 DEF SendRefused, SendError
  <2>2. OnceInv' /\ Settled
    BY <1>1, <1>3, <1>6, <2>1, AllKept DEF Shrinks
  <2> QED
    BY <1>1, <1>3, <1>4, <1>8, <1>11, <2>1, <2>2 DEF WorkInv, ModelsInv, DataInv, driverVars
<1> QED
  BY <1>2, <1>9, <1>10 DEF Sending

\* No round is begun before the program runs.
LEMMA RoundStarts ==
  ASSUME RoundInv, StartRound
  PROVE  WorkInv'
<1>1. /\ TypeOK /\ OutboxInv /\ StartsInv /\ KeptInv /\ ModelsInv /\ DataInv /\ FreshInv
      /\ outbox \in [Actors -> Seq(Post)] /\ mailbox \in [Actors -> Seq(Message)]
  BY DEF RoundInv, WorkInv, BaseInv, TypeOK, Post
<1>2. /\ Receives(Coordinator, "StartTraining") /\ Sends(Coordinator, RoundPosts(roundID + 1))
      /\ UNCHANGED <<late, reporting, updates, driverVars>>
  BY DEF StartRound, RoundPosts
<1>3. Aggregator \in Actors /\ Coordinator \in Actors /\ Aggregator # Coordinator
  BY Posts
<1>4. /\ mailbox[Coordinator] # <<>> /\ mailbox' = [mailbox EXCEPT ![Coordinator] = Tail(mailbox[Coordinator])]
      /\ CountStarts(mailbox[Coordinator]) - 1 \in Nat
  BY <1>1, <1>2, <1>3, ReceiptFacts
<1>5. driver # "down"
  BY <1>1, <1>4 DEF StartsInv
<1>6. FreshInv'
  BY <1>1, <1>2, <1>5 DEF FreshInv, driverVars
<1>7. ~Has(mailbox'[Coordinator], Bad(run))
  BY <1>1, <1>3, <1>4, TailFacts DEF ModelsInv
<1>8. outbox'[Aggregator] = outbox[Aggregator]
  BY <1>1, <1>2, <1>3 DEF Sends
<1>9. DataInv'
  <2>1. \A w \in WorkerSet : outbox'[w] = outbox[w]
    BY <1>1, <1>2, Posts DEF Sends
  <2> QED
    BY <1>1, <1>2, <1>3, <1>4, <2>1 DEF DataInv, driverVars
<1> QED
  BY <1>1, <1>2, <1>6, <1>7, <1>8, <1>9, OnceStartRound DEF WorkInv, KeptInv, ModelsInv, driverVars

\* The coordinator passes on the model it got.
LEMMA RoundEvaluates ==
  ASSUME RoundInv, Evaluate \/ Report
  PROVE  WorkInv' /\ Settled
<1>1. /\ TypeOK /\ OnceInv /\ KeptInv /\ ModelsInv /\ DataInv /\ FreshInv
      /\ mailbox \in [Actors -> Seq(Message)] /\ results \in Seq(ModelMessage) /\ reporting \in ModelMessage \cup {None}
  BY DEF RoundInv, WorkInv, BaseInv, TypeOK
<1>2. Coordinator \in Actors
  BY Posts
<1>5. Aggregator \in Actors /\ Aggregator # Coordinator
  BY Posts
<1>3. CASE Evaluate
  <2>1. /\ Receives(Coordinator, "AggregatedModel") /\ reporting' = Head(mailbox[Coordinator])
        /\ UNCHANGED <<late, outbox, roundID, updates, driverVars>>
    BY <1>3 DEF Evaluate
  <2>2. mailbox[Coordinator] # <<>> /\ mailbox' = [mailbox EXCEPT ![Coordinator] = Tail(mailbox[Coordinator])]
    BY <2>1 DEF Receives
  <2>3. /\ mailbox'[Coordinator] = Tail(mailbox[Coordinator])
        /\ \A b \in Actors \ {Coordinator} : mailbox'[b] = mailbox[b]
    BY <1>1, <1>2, <2>2, Zenon
  <2>4. ~Has(mailbox'[Coordinator], Bad(run)) /\ reporting' \notin Bad(run)
    BY <1>1, <1>2, <2>1, <2>2, <2>3, TailFacts DEF ModelsInv
  <2>5. OnceInv' /\ Settled
    BY <1>1, <2>1, <2>3, AllKept DEF Shrinks
  <2> QED
    BY <1>1, <1>2, <1>5, <2>1, <2>3, <2>4, <2>5 DEF WorkInv, KeptInv, ModelsInv, DataInv, FreshInv, driverVars
<1>4. CASE Report
  <2>1. /\ reporting # None /\ results' = Append(results, reporting) /\ reporting' = None
        /\ UNCHANGED <<late, mailbox, outbox, roundID, updates, driver, run>>
    BY <1>4 DEF Report
  <2>2. ~Has(results', Bad(run))
    BY <1>1, <2>1, AppendFacts DEF ModelsInv
  <2>3. OnceInv' /\ Settled
    BY <1>1, <2>1, AllKept DEF Shrinks
  <2> QED
    BY <1>1, <2>1, <2>2, <2>3 DEF WorkInv, KeptInv, ModelsInv, DataInv, FreshInv
<1> QED
  BY <1>3, <1>4

\* A worker answers, or the request is lost with its partition.
LEMMA RoundWorks ==
  ASSUME RoundInv, NEW w \in WorkerSet, Works(w)
  PROVE  WorkInv' /\ Settled
<1>1. /\ TypeOK /\ OnceInv /\ KeptInv /\ ModelsInv /\ DataInv /\ FreshInv
      /\ mailbox \in [Actors -> Seq(Message)] /\ outbox \in [Actors -> Seq(Post)]
  BY DEF RoundInv, WorkInv, BaseInv, TypeOK, Post
<1>2. /\ w \in Actors /\ Coordinator \in Actors /\ Aggregator \in Actors
      /\ w # Coordinator /\ w # Aggregator
  BY Posts
<1>3. /\ Receives(w, "TrainRequest") /\ UNCHANGED <<late, roundID, reporting, updates, driverVars>>
  BY DEF Works, WorkerTrains, WorkerCannotLoad
<1>4. mailbox[w] # <<>> /\ mailbox' = [mailbox EXCEPT ![w] = Tail(mailbox[w])]
  BY <1>3 DEF Receives
<1>5. \A b \in Actors : Shrinks(mailbox[b], mailbox'[b])
  BY <1>1, <1>4 DEF Shrinks
<1>6. mailbox'[Coordinator] = mailbox[Coordinator]
  BY <1>1, <1>2, <1>4
<1>7. outbox'[Aggregator] = outbox[Aggregator]
  BY <1>1, <1>2 DEF Works, WorkerTrains, WorkerCannotLoad, Sends
<1>11. DataInv'
  <2>1. ~Has(mailbox'[Aggregator], Stale(run))
    BY <1>1, <1>2, <1>4 DEF DataInv
  <2>2. ~Has(outbox'[w], {Envelope(Aggregator, m) : m \in Stale(run)})
    <3>1. CASE WorkerTrains(w)
      <4> DEFINE u == Update(Head(mailbox[w]).round, w)
                 P == {Envelope(Aggregator, m) : m \in Stale(run)}
      <4>1. outbox' = [outbox EXCEPT ![w] = <<Envelope(Aggregator, u)>>]
        BY <3>1 DEF WorkerTrains, Sends
      <4>2. Envelope(Aggregator, u) \notin P
        <5>1. u.data = run
          BY DEF Update
        <5>2. \A m : Envelope(Aggregator, m).msg = m
          BY DEF Envelope
        <5> HIDE DEF u
        <5> QED
          BY <5>1, <5>2 DEF Stale
      <4>3. outbox'[w] = <<Envelope(Aggregator, u)>>
        BY <1>1, <1>2, <4>1
      <4> HIDE DEF u, P
      <4> QED
        BY <4>2, <4>3, ShortFacts DEF P
    <3>2. CASE WorkerCannotLoad(w)
      BY <1>1, <3>2 DEF WorkerCannotLoad, DataInv
    <3> QED
      BY <3>1, <3>2 DEF Works
  <2>3. \A v \in WorkerSet \ {w} : outbox'[v] = outbox[v]
    <3>1. outbox' = outbox \/ \E es : outbox' = [outbox EXCEPT ![w] = es]
      BY DEF Works, WorkerTrains, WorkerCannotLoad, Sends
    <3> QED
      BY <1>1, <1>2, <3>1, Posts
  <2> QED
    BY <1>1, <1>3, <2>1, <2>2, <2>3 DEF DataInv, driverVars
<1>8. KeptInv' /\ ModelsInv' /\ DataInv' /\ FreshInv'
  BY <1>1, <1>3, <1>6, <1>7, <1>11 DEF KeptInv, ModelsInv, FreshInv, driverVars
<1>9. CASE WorkerTrains(w)
  BY <1>8, <1>9, OnceWorkerTrains DEF WorkInv
<1>10. CASE WorkerCannotLoad(w)
  <2>1. outbox' = outbox
    BY <1>10 DEF WorkerCannotLoad
  <2> QED
    BY <1>1, <1>3, <1>5, <1>8, <2>1, AllKept DEF Shrinks, WorkInv
<1> QED
  BY <1>9, <1>10 DEF Works

\* There are no more open rounds than rounds.
LEMMA OpenFacts ==
  /\ Open \subseteq Rounds /\ IsFiniteSet(Open) /\ Cardinality(Open) \in Nat /\ Cardinality(Open) <= Starts
<1>1. Starts \in Nat /\ Open \in SUBSET (1..Starts)
  BY RoundAssumption DEF RoundAssumption, Open, Rounds
<1>2. IsFiniteSet(1..Starts) /\ Cardinality(1..Starts) = Starts
  BY <1>1, FS_Interval
<1> QED
  BY <1>1, <1>2, FS_Subset, FS_CardinalityType DEF Rounds

\* When the program is not running, nothing of an earlier run is left.
LEMMA Idle ==
  ASSUME RoundInv, driver = "down", run = 0 \/ MaxRuns # 1
  PROVE  \A r \in Rounds : ~Begun(r) /\ \A w \in WorkerSet : Nowhere(r, w)
<1>1. /\ OnceInv /\ StepInv /\ FreshInv /\ EndInv /\ read \in 0..Starts /\ Starts \in Nat
  BY RoundAssumption DEF RoundAssumption, RoundInv, WorkInv, BaseInv, TypeOK
<1>2. CASE run = 0
  <2>1. roundID = 0 /\ \A r \in Rounds : r > 0
    BY <1>1, <1>2 DEF FreshInv, Rounds
  <2> QED
    BY <1>1, <2>1 DEF OnceInv, OnceAt, StepInv, StepAt
<1>3. CASE run # 0
  <2>1. read = Starts /\ read + Cardinality(Open) <= Starts
    BY <1>1, <1>3 DEF EndInv
  <2>2. IsFiniteSet(Open) /\ Cardinality(Open) \in Nat
    <3>1. IsFiniteSet(1..Starts)
      BY <1>1, FS_Interval
    <3>2. Open \in SUBSET (1..Starts)
      BY DEF Open, Rounds
    <3> QED
      BY <3>1, <3>2, FS_Subset, FS_CardinalityType
  <2>3. Open = {}
    BY <1>1, <2>1, <2>2, FS_EmptySet
  <2> QED
    BY <2>3 DEF Open, IsOpen
<1> QED
  BY <1>2, <1>3

\* The program begins with nothing of an earlier run around.
LEMMA RoundLaunch ==
  ASSUME RoundInv, Patient, LaunchCoordinator \/ LaunchRound
  PROVE  RoundInv'
<1>1. /\ TypeOK /\ OutboxInv /\ OnceInv /\ KeptInv /\ ModelsInv /\ DataInv /\ FreshInv /\ StepInv
      /\ run \in 0..MaxRuns /\ MaxRuns \in Nat /\ Starts \in Nat
      /\ mailbox \in [Actors -> Seq(Message)] /\ outbox \in [Actors -> Seq(Post)]
      /\ updates \in [Rounds -> Seq(UpdateMessage)] /\ results \in Seq(ModelMessage)
      /\ reporting \in ModelMessage \cup {None}
  BY RoundAssumption DEF RoundAssumption, RoundInv, WorkInv, BaseInv, TypeOK, Post
<1>2. /\ Coordinator \in Actors /\ Aggregator \in Actors /\ WorkerSet \subseteq Actors
      /\ Coordinator \notin WorkerSet /\ Aggregator \notin WorkerSet
  BY Posts
<1>3. /\ driver = "down" /\ driver' = "waiting" /\ run' = run + 1 /\ read' = 0 /\ roundID' = 0
      /\ UNCHANGED <<mailbox, late, outbox, reporting, updates, expected, results>>
      /\ run = 0 \/ MaxRuns # 1
  BY <1>1 DEF LaunchCoordinator, LaunchRound, Launch
<1>4. \A r \in Rounds : ~Begun(r) /\ \A w \in WorkerSet : Nowhere(r, w)
  BY <1>3, Idle
<1>5. \A m \in UpdateMessage : m.round \in Rounds /\ m.worker \in WorkerSet /\ m \in UpdatesOf(m.round, m.worker)
  BY DEF UpdateMessage, UpdatesOf
<1>6. \A m \in ModelMessage : m.round \in Rounds /\ m \in ModelsOf(m.round)
  BY DEF ModelMessage, ModelsOf
<1>7. BaseInv'
  BY BaseLaunch DEF RoundInv
<1>8. OnceInv'
  <2> SUFFICES ASSUME NEW r \in Rounds, NEW w \in WorkerSet PROVE OnceAt(r, w)'
    BY DEF OnceInv
  <2>1. OnceAt(r, w) /\ Nowhere(r, w)
    BY <1>1, <1>4 DEF OnceInv
  <2>2. SingleEach(r, w)' /\ InOnePlace(r, w)' /\ Nowhere(r, w)'
    BY <1>3, <2>1 DEF OnceAt, SingleEach, InOnePlace, Nowhere, Ordered, Requested, Answered, Arrived, Collected
  <2> QED
    BY <2>2 DEF OnceAt
<1>9. StepInv' /\ \A r \in Rounds : ~Begun(r)'
  <2> SUFFICES ASSUME NEW r \in Rounds PROVE StepAt(r)' /\ ~Begun(r)'
    BY DEF StepInv
  <2>1. StepAt(r) /\ ~Begun(r)
    BY <1>1, <1>4 DEF StepInv
  <2>2. ~Begun(r)'
    BY <1>3, <2>1 DEF Begun, Modelled, Asked, Triggered, Awaited, Made, Returned, Reporting, Reported
  <2>3. SingleSteps(r)'
    BY <1>3, <2>1 DEF StepAt, SingleSteps
  <2> QED
    BY <2>2, <2>3 DEF StepAt, AtOneStep, Begun, Modelled
<1>10. KeptInv'
  <2> SUFFICES ASSUME NEW r \in Rounds, NEW i \in 1..Len(updates[r]), updates[r][i] \in UpdateMessage PROVE FALSE
    BY <1>3 DEF KeptInv, Has, Foreign
  <2>1. updates[r][i].round = r
    BY <1>1 DEF KeptInv, Has, Foreign
  <2>2. Collected(r, updates[r][i].worker) /\ updates[r][i].worker \in WorkerSet
    BY <1>5, <2>1 DEF Collected, Has
  <2> QED
    BY <1>4, <2>2 DEF Nowhere
<1>11. DataInv'
  <2>1. ASSUME NEW S \in SUBSET UpdateMessage, Has(mailbox[Aggregator], S) PROVE FALSE
    <3>1. PICK i \in 1..Len(mailbox[Aggregator]) : mailbox[Aggregator][i] \in S
      BY <2>1 DEF Has
    <3>2. PICK r \in Rounds, w \in WorkerSet : mailbox[Aggregator][i] \in UpdatesOf(r, w)
      BY <1>5, <3>1
    <3> QED
      BY <1>4, <3>2 DEF Nowhere, Arrived, Has
  <2>2. ASSUME NEW w \in WorkerSet, NEW S \in SUBSET UpdateMessage,
               Has(outbox[w], {Envelope(Aggregator, m) : m \in S})
        PROVE  FALSE
    <3>1. PICK i \in 1..Len(outbox[w]), m \in S : outbox[w][i] = Envelope(Aggregator, m)
      BY <2>2 DEF Has
    <3>2. outbox[w][i] \in Outgoing(w)
      <4>1. outbox[w] \in Seq(Outgoing(w))
        BY <1>1, <1>2 DEF OutboxInv
      <4> QED
        BY <4>1
    <3>3. PICK u \in UpdateMessage : u.worker = w /\ outbox[w][i] = Envelope(Aggregator, u)
      BY <1>2, <3>2, SMT DEF Outgoing
    <3>4. u \in UpdatesOf(u.round, w) /\ u.round \in Rounds
      BY <1>5, <3>3
    <3>5. outbox[w][i] \in Answers(u.round, w)
      BY <3>3, <3>4, EnvelopeIn DEF Answers
    <3>6. Answered(u.round, w)
      BY <3>5 DEF Answered, Has
    <3> QED
      BY <1>4, <3>4, <3>6 DEF Nowhere
  <2>3. Stale(run') \in SUBSET UpdateMessage
    BY DEF Stale
  <2> QED
    BY <1>3, <2>1, <2>2, <2>3 DEF DataInv
<1>12. ModelsInv'
  <2>1. Bad(run') \in SUBSET ModelMessage
    BY DEF Bad
  <2>2. ASSUME NEW s, Has(s, Bad(run')) PROVE \E r \in Rounds : Has(s, ModelsOf(r))
    BY <1>6, <2>1, <2>2 DEF Has
  <2>3. ~Has(mailbox[Coordinator], Bad(run')) /\ ~Has(results, Bad(run'))
    BY <1>4, <2>2 DEF Begun, Modelled, Returned, Reported
  <2>4. reporting # None => reporting \notin Bad(run')
    BY <1>4, <1>6, <2>1 DEF Begun, Modelled, Reporting
  <2>5. ASSUME Has(outbox[Aggregator], {Envelope(Coordinator, m) : m \in Bad(run')}) PROVE FALSE
    <3>1. PICK i \in 1..Len(outbox[Aggregator]), m \in Bad(run') : outbox[Aggregator][i] = Envelope(Coordinator, m)
      BY <2>5 DEF Has
    <3>2. m.round \in Rounds /\ outbox[Aggregator][i] \in ModelPosts(m.round)
      BY <1>6, <2>1, <3>1, EnvelopeIn DEF ModelPosts
    <3> QED
      BY <1>4, <3>2 DEF Begun, Modelled, Made, Has
  <2> QED
    BY <1>3, <2>3, <2>4, <2>5 DEF ModelsInv
<1>13. FreshInv'
  BY <1>1, <1>3 DEF FreshInv
<1>14. EndInv'
  <2>1. Open' \subseteq Rounds
    BY DEF Open
  <2>2. Cardinality(Open') \in Nat /\ Cardinality(Open') <= Starts
    <3>1. IsFiniteSet(1..Starts) /\ Cardinality(1..Starts) = Starts
      BY <1>1, FS_Interval
    <3>2. Open' \in SUBSET (1..Starts)
      BY <2>1 DEF Rounds
    <3> HIDE DEF Open
    <3> QED
      BY <3>1, <3>2, FS_Subset, FS_CardinalityType
  <2> QED
    BY <1>1, <1>3, <2>2 DEF EndInv
<1> QED
  BY <1>7, <1>8, <1>9, <1>10, <1>11, <1>12, <1>13, <1>14 DEF RoundInv, WorkInv

\* The program while it runs: it takes results and forgets, or tells the start.
LEMMA RoundDriver ==
  ASSUME RoundInv,
         TellStart \/ ReadResult \/ TimeOut \/ Closes
  PROVE  WorkInv' /\ Settled
<1>1. /\ TypeOK /\ OnceInv /\ KeptInv /\ ModelsInv /\ DataInv /\ FreshInv /\ run \in 0..MaxRuns
      /\ mailbox \in [Actors -> Seq(Message)] /\ outbox \in [Actors -> Seq(Post)] /\ results \in Seq(ModelMessage)
  BY DEF RoundInv, WorkInv, BaseInv, TypeOK, Post
<1>2. /\ Coordinator \in Actors /\ Aggregator \in Actors /\ Coordinator # Aggregator
      /\ WorkerSet \subseteq Actors /\ Coordinator \notin WorkerSet
  BY Posts
<1>4. CASE TellStart
  <2>1. /\ driver = "waiting" /\ mailbox' = [mailbox EXCEPT ![Coordinator] = Append(mailbox[Coordinator], Start)]
        /\ UNCHANGED <<late, outbox, roundID, reporting, updates, driver, results, run>>
    BY <1>4 DEF TellStart
  <2>2. /\ mailbox'[Coordinator] = Append(mailbox[Coordinator], Start)
        /\ \A b \in Actors \ {Coordinator} : mailbox'[b] = mailbox[b]
    BY <1>1, <1>2, <2>1, Zenon
  <2>3. Start \notin Bad(run)
    BY Messages DEF Bad
  <2>4. ~Has(mailbox'[Coordinator], Bad(run))
    BY <1>1, <1>2, <2>2, <2>3, AppendFacts DEF ModelsInv
  <2>5. OnceInv' /\ Settled
    BY <1>1, <2>1, <2>2, AllKept DEF Shrinks
  <2> QED
    BY <1>1, <1>2, <2>1, <2>2, <2>4, <2>5 DEF WorkInv, KeptInv, ModelsInv, DataInv, FreshInv
<1>5. CASE ReadResult \/ TimeOut
  <2>1. /\ driver = "waiting" /\ UNCHANGED <<actorVars, run>>
        /\ Shrinks(results, results')
    BY <1>5 DEF ReadResult, TimeOut, Shrinks
  <2>2. ~Has(results', Bad(run))
    BY <1>1, <2>1, ShrinksKeeps DEF ModelsInv, Keeps
  <2>3. OnceInv' /\ Settled
    BY <1>1, <2>1, AllKept DEF Shrinks, actorVars
  <2>4. run # 0
    BY <1>1, <2>1 DEF FreshInv
  <2> QED
    BY <1>1, <2>1, <2>2, <2>3, <2>4 DEF WorkInv, KeptInv, ModelsInv, DataInv, FreshInv, actorVars
<1>6. CASE ProcessExits
  <2>1. /\ driver = "closing" /\ reporting' = None /\ results' = <<>>
        /\ late' = {e \in late : e.to # Coordinator}
        /\ mailbox' = [mailbox EXCEPT ![Coordinator] = <<>>]
        /\ outbox' = [outbox EXCEPT ![Coordinator] = <<>>]
        /\ UNCHANGED <<roundID, updates, run>>
    BY <1>6 DEF ProcessExits
  <2>2. /\ mailbox'[Coordinator] = <<>> /\ \A b \in Actors \ {Coordinator} : mailbox'[b] = mailbox[b]
        /\ outbox'[Coordinator] = <<>> /\ \A b \in Actors \ {Coordinator} : outbox'[b] = outbox[b]
    BY <1>1, <1>2, <2>1, Zenon
  <2>3. OnceInv' /\ Settled
    BY <1>1, <2>1, <2>2, AllKept DEF Shrinks
  <2>4. ModelsInv'
    BY <1>1, <1>2, <2>1, <2>2, ShortFacts DEF ModelsInv
  <2>5. \A w \in WorkerSet : outbox'[w] = outbox[w]
    BY <1>2, <2>2
  <2> QED
    BY <1>1, <1>2, <2>1, <2>2, <2>3, <2>4, <2>5 DEF WorkInv, KeptInv, DataInv, FreshInv
<1>7. CASE ShutdownReturns \/ \E a \in Actors : StopActor(a)
  <2>1. UNCHANGED <<mailbox, late, outbox, roundID, reporting, updates, results, run>> /\ driver = "closing"
    BY <1>7 DEF ShutdownReturns, StopActor, actorVars, driverVars
  <2>2. OnceInv' /\ Settled
    BY <1>1, <2>1, AllKept DEF Shrinks
  <2> QED
    BY <1>1, <2>1, <2>2 DEF WorkInv, KeptInv, ModelsInv, DataInv, FreshInv
<1> QED
  BY <1>4, <1>5, <1>6, <1>7 DEF Closes

\* Before the program is run there is no round anywhere.
LEMMA RoundInit == Init => RoundInv
<1> SUFFICES ASSUME Init PROVE RoundInv
  OBVIOUS
<1>1. Coordinator \in Actors /\ Aggregator \in Actors /\ WorkerSet \subseteq Actors
  BY Posts
<1>2. /\ \A a \in Actors : mailbox[a] = <<>> /\ outbox[a] = <<>>
      /\ \A r \in Rounds : updates[r] = <<>>
      /\ late = {} /\ roundID = 0 /\ reporting = None /\ results = <<>> /\ driver = "down" /\ run = 0
  BY DEF Init
<1>3. OnceInv
  <2> SUFFICES ASSUME NEW r \in Rounds, NEW w \in WorkerSet PROVE OnceAt(r, w)
    BY DEF OnceInv
  <2>1. /\ outbox[Coordinator] = <<>> /\ mailbox[w] = <<>> /\ outbox[w] = <<>>
        /\ mailbox[Aggregator] = <<>> /\ updates[r] = <<>>
    BY <1>1, <1>2
  <2>2. Nowhere(r, w)
    BY <2>1, ShortFacts DEF Nowhere, Ordered, Requested, Answered, Arrived, Collected
  <2>3. SingleEach(r, w)
    BY <2>1, ShortFacts DEF SingleEach
  <2> QED
    BY <2>2, <2>3, Zenon DEF OnceAt, InOnePlace, Nowhere
<1>4. KeptInv /\ ModelsInv /\ DataInv /\ FreshInv
  BY <1>1, <1>2, ShortFacts DEF KeptInv, ModelsInv, DataInv, FreshInv
<1>5. StepInv
  <2> SUFFICES ASSUME NEW r \in Rounds PROVE StepAt(r)
    BY DEF StepInv
  <2>1. expected[r] = None
    BY DEF Init
  <2>2. ~Begun(r)
    BY <1>1, <1>2, <2>1, ShortFacts
       DEF Begun, Modelled, Asked, Triggered, Awaited, Made, Returned, Reporting, Reported
  <2>3. SingleSteps(r)
    BY <1>1, <1>2, ShortFacts DEF SingleSteps
  <2> QED
    BY <2>2, <2>3 DEF StepAt, AtOneStep, Begun, Modelled
<1>6. EndInv
  BY <1>2, OpenFacts DEF EndInv, Init
<1> QED
  BY <1>3, <1>4, <1>5, <1>6, BaseInit DEF RoundInv, WorkInv

-----------------------------------------------------------------------------
(* Where a round is.                                                       *)

\* A round's place when none of its places got anything.
LEMMA StepKept ==
  ASSUME NEW r \in Rounds, StepAt(r), r > roundID' => r > roundID,
         Keeps(outbox[Coordinator], outbox'[Coordinator], TriggerPosts(r)),
         Keeps(mailbox[Aggregator], mailbox'[Aggregator], {Trigger(r)}),
         Awaited(r)' => Awaited(r),
         Keeps(outbox[Aggregator], outbox'[Aggregator], ModelPosts(r)),
         Keeps(mailbox[Coordinator], mailbox'[Coordinator], ModelsOf(r)),
         Reporting(r)' => Reporting(r),
         Keeps(results, results', ModelsOf(r)),
         \A w \in WorkerSet : Nowhere(r, w) => Nowhere(r, w)'
  PROVE  StepAt(r)' /\ (IsOpen(r)' => IsOpen(r))
<1>1. /\ Asked(r)' => Asked(r)
      /\ Triggered(r)' => Triggered(r)
      /\ Made(r)' => Made(r)
      /\ Returned(r)' => Returned(r)
      /\ Reported(r)' => Reported(r)
  BY Zenon DEF Keeps, Asked, Triggered, Made, Returned, Reported
<1>2. SingleSteps(r)'
  BY Zenon DEF Keeps, StepAt, SingleSteps
<1>3. (Modelled(r)' => Modelled(r)) /\ (Begun(r)' => Begun(r))
  BY <1>1, Zenon DEF Modelled, Begun
<1>4. AtOneStep(r)'
  BY <1>1, <1>3, Zenon DEF StepAt, AtOneStep
<1> QED
  BY <1>2, <1>3, <1>4, Zenon DEF StepAt, IsOpen

\* No round's place changes if no place gets anything.
LEMMA StepsKept ==
  ASSUME TypeOK, StepInv, Settled, roundID' = roundID,
         Shrinks(outbox[Coordinator], outbox'[Coordinator]), Shrinks(outbox[Aggregator], outbox'[Aggregator]),
         Shrinks(mailbox[Coordinator], mailbox'[Coordinator]), Shrinks(mailbox[Aggregator], mailbox'[Aggregator]),
         Shrinks(results, results'), expected' = expected, reporting' = reporting \/ reporting' = None
  PROVE  StepInv' /\ Closing
<1> SUFFICES ASSUME NEW r \in Rounds PROVE StepAt(r)' /\ (IsOpen(r)' => IsOpen(r))
  BY DEF StepInv, Closing
<1>1. Coordinator \in Actors /\ Aggregator \in Actors
  BY Posts
<1>2. /\ outbox[Coordinator] \in Seq(Post) /\ outbox[Aggregator] \in Seq(Post)
      /\ mailbox[Coordinator] \in Seq(Message) /\ mailbox[Aggregator] \in Seq(Message)
      /\ results \in Seq(ModelMessage)
  BY <1>1 DEF TypeOK, Post
<1>3. \A S : /\ Keeps(outbox[Coordinator], outbox'[Coordinator], S) /\ Keeps(outbox[Aggregator], outbox'[Aggregator], S)
             /\ Keeps(mailbox[Coordinator], mailbox'[Coordinator], S) /\ Keeps(mailbox[Aggregator], mailbox'[Aggregator], S)
             /\ Keeps(results, results', S)
  BY <1>2, ShrinksKeeps
<1>4. StepAt(r) /\ \A w \in WorkerSet : Nowhere(r, w) => Nowhere(r, w)'
  BY DEF StepInv, Settled
<1>5. (Awaited(r)' => Awaited(r)) /\ (Reporting(r)' => Reporting(r))
  BY DEF Awaited, Reporting
<1> QED
  BY <1>3, <1>4, <1>5, StepKept

\* A round's trigger and its model are of that round only.
LEMMA StepMessages ==
  ASSUME NEW r \in Rounds, NEW s \in Rounds, NEW w \in WorkerSet, NEW m \in ModelMessage, NEW u \in UpdateMessage
  PROVE  /\ Envelope(Aggregator, Trigger(s)) \in TriggerPosts(r) <=> s = r
         /\ Trigger(s) \in {Trigger(r)} <=> s = r
         /\ Envelope(w, Train(s)) \notin TriggerPosts(r)
         /\ m \in ModelsOf(r) <=> m.round = r
         /\ Envelope(Coordinator, m) \in ModelPosts(r) <=> m.round = r
         /\ u \notin {Trigger(r)} /\ Start \notin ModelsOf(r)
<1>1. Trigger(s).round = s /\ Trigger(r).round = r /\ Trigger(r).type = "AggregateTrigger" /\ u.type = "LocalModelUpdate"
  BY DEF Trigger, UpdateMessage
<1>2. \A x, y, p, q : Envelope(x, p) = Envelope(y, q) <=> x = y /\ p = q
  BY DEF Envelope
<1>3. w # Aggregator
  BY Posts
<1>4. m \in ModelsOf(r) <=> m.round = r
  BY DEF ModelsOf
<1>5. Start \notin ModelsOf(r)
  BY Messages DEF ModelsOf
<1> QED
  BY <1>1, <1>2, <1>3, <1>4, <1>5, EnvelopeIn DEF TriggerPosts, ModelPosts

\* A Tell accepted: a trigger reaches the aggregator, a model the coordinator.
LEMMA StepSendOk ==
  ASSUME RoundInv, Settled, NEW a \in Actors, SendOk(a)
  PROVE  StepInv' /\ Closing
<1> SUFFICES ASSUME NEW r \in Rounds PROVE StepAt(r)' /\ (IsOpen(r)' => IsOpen(r))
  BY DEF StepInv, Closing
<1> DEFINE e == Head(outbox[a])
<1>1. /\ outbox[a] # <<>> /\ outbox' = [outbox EXCEPT ![a] = Tail(outbox[a])]
      /\ mailbox' = [mailbox EXCEPT ![e.to] = Append(mailbox[e.to], e.msg)]
      /\ UNCHANGED <<roundID, reporting, expected, results>>
  BY DEF SendOk, Done, Sends, driverVars
<1>2. TypeOK /\ OutboxInv /\ StepAt(r)
  BY DEF RoundInv, WorkInv, BaseInv, StepInv
<1>3. outbox \in [Actors -> Seq(Post)] /\ mailbox \in [Actors -> Seq(Message)]
  BY <1>2 DEF TypeOK, Post
<1>4. e \in Outgoing(a) /\ e.to \in Actors /\ e.msg \in Message
  BY <1>1, <1>2, DoneFacts, SMT DEF Post
<1>5. /\ Coordinator \in Actors /\ Aggregator \in Actors /\ Coordinator # Aggregator
      /\ Coordinator \notin WorkerSet /\ Aggregator \notin WorkerSet
  BY Posts
<1>6. /\ outbox'[a] = Tail(outbox[a]) /\ \A b \in Actors \ {a} : outbox'[b] = outbox[b]
      /\ mailbox'[e.to] = Append(mailbox[e.to], e.msg)
      /\ \A b \in Actors \ {e.to} : mailbox'[b] = mailbox[b]
  BY <1>1, <1>3, <1>4, Zenon
<1>7. \A S : \A b \in Actors : Keeps(outbox[b], outbox'[b], S)
  BY <1>1, <1>3, <1>6, ShrinksKeeps DEF Shrinks
<1>8. \A S : Keeps(results, results', S) /\ \A b \in Actors \ {e.to} : Keeps(mailbox[b], mailbox'[b], S)
  BY <1>1, <1>6 DEF Keeps
<1>9. ASSUME NEW S, e.msg \notin S PROVE Keeps(mailbox[e.to], mailbox'[e.to], S)
  BY <1>3, <1>4, <1>6, <1>9, AppendFacts DEF Keeps
<1>10. /\ \A w \in WorkerSet : Nowhere(r, w) => Nowhere(r, w)'
       /\ (Awaited(r)' <=> Awaited(r)) /\ (Reporting(r)' <=> Reporting(r)) /\ (Reported(r)' <=> Reported(r))
  BY <1>1 DEF Settled, Awaited, Reporting, Reported
<1>11. ASSUME e.to = Aggregator => e.msg \notin {Trigger(r)},
              e.to = Coordinator => e.msg \notin ModelsOf(r)
       PROVE  StepAt(r)' /\ (IsOpen(r)' => IsOpen(r))
  <2>1. Keeps(mailbox[Aggregator], mailbox'[Aggregator], {Trigger(r)})
    BY <1>5, <1>8, <1>9, <1>11
  <2>2. Keeps(mailbox[Coordinator], mailbox'[Coordinator], ModelsOf(r))
    BY <1>5, <1>8, <1>9, <1>11
  <2> QED
    BY <1>1, <1>2, <1>5, <1>7, <1>8, <1>10, <2>1, <2>2, StepKept
<1> HIDE DEF e
<1>12. CASE a = Coordinator
  <2>1. \/ \E s \in Rounds : e = Envelope(Aggregator, Trigger(s))
        \/ \E v \in WorkerSet, s \in Rounds : e = Envelope(v, Train(s))
    BY <1>4, <1>12, SMT DEF Outgoing
  <2>2. CASE \E v \in WorkerSet, s \in Rounds : e = Envelope(v, Train(s))
    <3>1. e.to \in WorkerSet
      BY <2>2 DEF Envelope
    <3> QED
      BY <1>5, <1>11, <3>1
  <2>3. CASE \E s \in Rounds : e = Envelope(Aggregator, Trigger(s))
    <3>1. PICK s \in Rounds : e = Envelope(Aggregator, Trigger(s))
      BY <2>3
    <3>2. e.to = Aggregator /\ e.msg = Trigger(s)
      BY <3>1 DEF Envelope
    <3>3. CASE s # r
      <4>1. e.msg \notin {Trigger(r)}
        BY <3>2, <3>3 DEF Trigger
      <4> QED
        BY <1>5, <1>11, <3>2, <4>1
    <3>4. CASE s = r
      <4>1. e \in TriggerPosts(r)
        BY <3>1, <3>4 DEF TriggerPosts
      <4>2. Asked(r) /\ ~Asked(r)' /\ Single(outbox'[Coordinator], TriggerPosts(r))
        <5>1. Single(outbox[Coordinator], TriggerPosts(r)) /\ outbox[Coordinator] \in Seq(Post)
          BY <1>2, <1>3, <1>5 DEF StepAt, SingleSteps
        <5> QED
          BY <1>1, <1>6, <1>12, <4>1, <5>1, TailFacts DEF e, Asked
      <4>3. ~Triggered(r) /\ ~Awaited(r) /\ ~Modelled(r) /\ ~(r > roundID)
        BY <1>2, <4>2 DEF StepAt, AtOneStep, Begun
      <4>4. Single(mailbox'[Aggregator], {Trigger(r)})
        <5>1. Single(mailbox[Aggregator], {Trigger(r)}) /\ ~Has(mailbox[Aggregator], {Trigger(r)})
          BY <1>2, <4>3 DEF Triggered, StepAt, SingleSteps
        <5>2. mailbox'[Aggregator] = Append(mailbox[Aggregator], e.msg) /\ mailbox[Aggregator] \in Seq(Message)
          BY <1>3, <1>5, <1>6, <3>2
        <5> QED
          BY <5>1, <5>2, AppendFacts
      <4>5. ~Made(r)' /\ ~Returned(r)' /\ Single(outbox'[Aggregator], ModelPosts(r))
            /\ Single(mailbox'[Coordinator], ModelsOf(r)) /\ Single(results', ModelsOf(r))
        BY <1>2, <1>5, <1>7, <1>8, <3>2, <4>3 DEF Keeps, Modelled, Made, Returned, StepAt, SingleSteps
      <4>6. SingleSteps(r)' /\ ~Modelled(r)' /\ ~Awaited(r)'
        BY <1>10, <4>2, <4>3, <4>4, <4>5 DEF SingleSteps, Modelled
      <4>7. AtOneStep(r)'
        BY <4>2, <4>6 DEF AtOneStep, Modelled
      <4> QED
        BY <1>1, <4>2, <4>3, <4>6, <4>7 DEF StepAt, IsOpen, Begun
    <3> QED
      BY <3>3, <3>4
  <2> QED
    BY <2>1, <2>2, <2>3
<1>13. CASE a = Aggregator
  <2>1. PICK m \in ModelMessage : e = Envelope(Coordinator, m)
    BY <1>4, <1>5, <1>13, SMT DEF Outgoing
  <2>2. e.to = Coordinator /\ e.msg = m
    BY <2>1 DEF Envelope
  <2>3. CASE m.round # r
    <3>1. e.msg \notin ModelsOf(r)
      BY <2>2, <2>3 DEF ModelsOf
    <3> QED
      BY <1>5, <1>11, <2>2, <3>1
  <2>4. CASE m.round = r
    <3>1. e \in ModelPosts(r)
      BY <2>1, <2>4, EnvelopeIn, Zenon DEF ModelPosts, ModelsOf
    <3>2. Made(r) /\ ~Made(r)' /\ Single(outbox'[Aggregator], ModelPosts(r))
      <4>1. Single(outbox[Aggregator], ModelPosts(r)) /\ outbox[Aggregator] \in Seq(Post)
        BY <1>2, <1>3, <1>5 DEF StepAt, SingleSteps
      <4> QED
        BY <1>1, <1>6, <1>13, <3>1, <4>1, TailFacts DEF e, Made
    <3>3. /\ ~Asked(r) /\ ~Triggered(r) /\ ~Awaited(r) /\ ~Returned(r) /\ ~Reporting(r) /\ ~Reported(r)
          /\ ~(r > roundID) /\ Modelled(r) /\ \A w \in WorkerSet : Nowhere(r, w)
      BY <1>2, <3>2 DEF StepAt, AtOneStep, Begun, Modelled
    <3>4. Single(mailbox'[Coordinator], ModelsOf(r))
      <4>1. Single(mailbox[Coordinator], ModelsOf(r)) /\ ~Has(mailbox[Coordinator], ModelsOf(r))
        BY <1>2, <3>3 DEF Returned, StepAt, SingleSteps
      <4>2. mailbox'[Coordinator] = Append(mailbox[Coordinator], e.msg) /\ mailbox[Coordinator] \in Seq(Message)
        BY <1>3, <1>5, <1>6, <2>2
      <4> QED
        BY <4>1, <4>2, AppendFacts
    <3>5. ~Asked(r)' /\ ~Triggered(r)' /\ Single(outbox'[Coordinator], TriggerPosts(r))
          /\ Single(mailbox'[Aggregator], {Trigger(r)}) /\ Single(results', ModelsOf(r))
      BY <1>2, <1>5, <1>7, <1>8, <2>2, <3>3 DEF Keeps, Asked, Triggered, StepAt, SingleSteps
    <3>6. SingleSteps(r)' /\ AtOneStep(r)'
      BY <1>10, <3>2, <3>3, <3>4, <3>5 DEF SingleSteps, AtOneStep
    <3> QED
      BY <1>1, <1>10, <3>3, <3>6 DEF StepAt, IsOpen, Begun
  <2> QED
    BY <2>3, <2>4
<1>14. CASE a # Coordinator /\ a # Aggregator
  <2>1. PICK m \in UpdateMessage : e = Envelope(Aggregator, m)
    BY <1>4, <1>14, SMT DEF Outgoing
  <2>2. e.to = Aggregator /\ e.msg = m
    BY <2>1 DEF Envelope
  <2>3. e.msg \notin {Trigger(r)}
    BY <2>2 DEF Trigger, UpdateMessage
  <2> QED
    BY <1>5, <1>11, <2>2, <2>3
<1> QED
  BY <1>12, <1>13, <1>14


\* A new round: its trigger is with the coordinator, and nothing of it was there.
LEMMA StepStartRound ==
  ASSUME RoundInv, StartRound
  PROVE  StepInv' /\ Closing
<1> DEFINE s == roundID + 1
<1> SUFFICES ASSUME NEW r \in Rounds PROVE StepAt(r)' /\ (IsOpen(r)' => IsOpen(r))
  BY DEF StepInv, Closing
<1>1. /\ TypeOK /\ OutboxInv /\ StepAt(r) /\ s \in Rounds
      /\ roundID' = s /\ Receives(Coordinator, "StartTraining") /\ Sends(Coordinator, RoundPosts(s))
      /\ UNCHANGED <<reporting, expected, results>>
  BY BaseStartRound DEF RoundInv, BaseInv, StepInv, StartRound, RoundPosts, driverVars
<1>2. Coordinator \in Actors /\ Aggregator \in Actors /\ Coordinator # Aggregator
  BY Posts
<1>3. /\ outbox[Coordinator] = <<>> /\ mailbox[Coordinator] # <<>>
      /\ mailbox' = [mailbox EXCEPT ![Coordinator] = Tail(mailbox[Coordinator])]
      /\ outbox' = [outbox EXCEPT ![Coordinator] = RoundPosts(s)]
  BY <1>1, <1>2, ReceiptFacts DEF Sends
<1>4. outbox \in [Actors -> Seq(Post)] /\ mailbox \in [Actors -> Seq(Message)] /\ roundID \in 0..Starts
  BY <1>1 DEF TypeOK, Post
<1>5. /\ outbox'[Coordinator] = RoundPosts(s) /\ outbox'[Aggregator] = outbox[Aggregator]
      /\ mailbox'[Coordinator] = Tail(mailbox[Coordinator]) /\ mailbox'[Aggregator] = mailbox[Aggregator]
  BY <1>2, <1>3, <1>4, Zenon
<1>6. \A S : /\ Keeps(mailbox[Coordinator], mailbox'[Coordinator], S)
             /\ Keeps(mailbox[Aggregator], mailbox'[Aggregator], S)
             /\ Keeps(outbox[Aggregator], outbox'[Aggregator], S)
             /\ Keeps(results, results', S)
  <2>1. \A S : Keeps(mailbox[Coordinator], mailbox'[Coordinator], S)
    BY <1>2, <1>3, <1>4, <1>5, ShrinksKeeps DEF Shrinks
  <2> QED
    BY <1>1, <1>5, <2>1 DEF Keeps
<1>7. (Awaited(r)' <=> Awaited(r)) /\ (Reporting(r)' <=> Reporting(r)) /\ (Reported(r)' <=> Reported(r))
  BY <1>1 DEF Awaited, Reporting, Reported
<1>8. \A i \in 1..Len(RoundPosts(s)) : RoundPosts(s)[i] \in TriggerPosts(r) <=> i = 1 /\ r = s
  <2>1. /\ RoundPosts(s)[1] = Envelope(Aggregator, Trigger(s)) /\ Len(Workers) \in Nat /\ Len(RoundPosts(s)) = 1 + Len(Workers)
        /\ \A i \in 2..Len(RoundPosts(s)) :
             i - 1 \in 1..Len(Workers) /\ RoundPosts(s)[i] = Envelope(Workers[i - 1], Train(s))
    BY <1>1, RoundPostsFacts, WorkersFacts
  <2>2. \A i \in 1..Len(Workers) : Workers[i] \in WorkerSet
    BY RoundAssumption DEF RoundAssumption
  <2> HIDE DEF s
  <2>3. RoundPosts(s)[1] \in TriggerPosts(r) <=> r = s
    <3>1. Trigger(s) = Trigger(r) <=> r = s
      BY DEF Trigger
    <3> QED
      BY <2>1, <3>1 DEF TriggerPosts, Envelope
  <2>4. \A i \in 2..Len(RoundPosts(s)) : RoundPosts(s)[i] \notin TriggerPosts(r)
    <3> SUFFICES ASSUME NEW i \in 2..Len(RoundPosts(s)) PROVE RoundPosts(s)[i] \notin TriggerPosts(r)
      OBVIOUS
    <3>1. RoundPosts(s)[i] = Envelope(Workers[i - 1], Train(s)) /\ Workers[i - 1] \in WorkerSet
      BY <2>1, <2>2
    <3>2. Workers[i - 1] # Aggregator
      BY <3>1, Posts
    <3> QED
      BY <3>1, <3>2 DEF TriggerPosts, Envelope
  <2> QED
    BY <2>1, <2>3, <2>4
<1>9. Single(outbox'[Coordinator], TriggerPosts(r)) /\ (Asked(r)' => r = s)
  BY <1>5, <1>8 DEF Single, Asked, Has
<1>10. CASE r # s
  <2>1. Keeps(outbox[Coordinator], outbox'[Coordinator], TriggerPosts(r))
    BY <1>9, <1>10 DEF Keeps, Asked
  <2>2. \A w \in WorkerSet : Nowhere(r, w) => Nowhere(r, w)'
    BY <1>10, OnceStartRound
  <2>3. r > roundID' => r > roundID
    BY <1>1, <1>4 DEF Rounds
  <2> QED
    BY <1>1, <1>6, <1>7, <2>1, <2>2, <2>3, StepKept
<1>11. CASE r = s
  <2>1. r > roundID /\ ~(r > roundID')
    BY <1>1, <1>4, <1>11
  <2>2. ~Begun(r)
    BY <1>1, <2>1 DEF StepAt
  <2>3. ~Triggered(r)' /\ ~Made(r)' /\ ~Returned(r)'
    BY <1>6, <2>2, Zenon DEF Keeps, Begun, Modelled, Triggered, Made, Returned
  <2>4. ~Triggered(r)' /\ ~Awaited(r)' /\ ~Modelled(r)'
    BY <1>7, <2>2, <2>3, Zenon DEF Begun, Modelled
  <2>5. SingleSteps(r)'
    BY <1>1, <1>6, <1>9, Zenon DEF Keeps, StepAt, SingleSteps
  <2>6. AtOneStep(r)'
    BY <2>4, Zenon DEF AtOneStep, Modelled
  <2> QED
    BY <2>1, <2>4, <2>5, <2>6, Zenon DEF StepAt, IsOpen
<1> QED
  BY <1>10, <1>11

\* A model handed on: from the mailbox to evaluate(), from there to the program.
LEMMA StepEvaluates ==
  ASSUME RoundInv, Settled, Evaluate \/ Report
  PROVE  StepInv' /\ Closing
<1> SUFFICES ASSUME NEW r \in Rounds PROVE StepAt(r)' /\ (IsOpen(r)' => IsOpen(r))
  BY DEF StepInv, Closing
<1>1. /\ TypeOK /\ StepAt(r) /\ reporting \in ModelMessage \cup {None}
      /\ mailbox \in [Actors -> Seq(Message)] /\ results \in Seq(ModelMessage)
      /\ \A w \in WorkerSet : Nowhere(r, w) => Nowhere(r, w)'
  BY DEF RoundInv, BaseInv, StepInv, TypeOK, Settled
<1>2. Coordinator \in Actors /\ Aggregator \in Actors /\ Coordinator # Aggregator
  BY Posts
<1>3. CASE Evaluate
  <2> DEFINE m == Head(mailbox[Coordinator])
  <2>1. /\ mailbox[Coordinator] # <<>> /\ mailbox' = [mailbox EXCEPT ![Coordinator] = Tail(mailbox[Coordinator])]
        /\ m \in Message /\ m.type = "AggregatedModel" /\ reporting = None /\ reporting' = m
        /\ UNCHANGED <<outbox, roundID, expected, results>>
    BY <1>1, <1>2, <1>3, ReceiptFacts DEF Evaluate, Receives, Busy, driverVars
  <2>2. mailbox'[Coordinator] = Tail(mailbox[Coordinator]) /\ mailbox'[Aggregator] = mailbox[Aggregator]
    BY <1>1, <1>2, <2>1, Zenon
  <2>3. m \in ModelMessage
    BY <2>1, MessageKinds
  <2>4. \A S : Keeps(mailbox[Coordinator], mailbox'[Coordinator], S)
    BY <1>1, <1>2, <2>1, <2>2, ShrinksKeeps DEF Shrinks
  <2>5. /\ (Asked(r)' <=> Asked(r)) /\ (Triggered(r)' <=> Triggered(r)) /\ (Awaited(r)' <=> Awaited(r))
        /\ (Made(r)' <=> Made(r)) /\ (Reported(r)' <=> Reported(r))
    BY <2>1, <2>2 DEF Asked, Triggered, Awaited, Made, Reported
  <2>6. Reporting(r)' => m \in ModelsOf(r)
    BY <2>1 DEF Reporting
  <2>7. SingleSteps(r)'
    BY <1>1, <2>1, <2>2, <2>4 DEF Keeps, StepAt, SingleSteps
  <2>8. CASE m \notin ModelsOf(r)
    <3>1. ~Reporting(r)'
      BY <2>6, <2>8
    <3> QED
      BY <1>1, <2>1, <2>2, <2>4, <2>5, <3>1, StepKept DEF Keeps
  <2>9. CASE m \in ModelsOf(r)
    <3>1. Returned(r) /\ ~Returned(r)'
      <4>1. Single(mailbox[Coordinator], ModelsOf(r)) /\ mailbox[Coordinator] \in Seq(Message)
        BY <1>1, <1>2 DEF StepAt, SingleSteps
      <4> QED
        BY <2>1, <2>2, <2>9, <4>1, TailFacts DEF Returned
    <3>2. /\ ~Asked(r) /\ ~Triggered(r) /\ ~Awaited(r) /\ ~Made(r) /\ ~Reported(r) /\ Begun(r)
          /\ ~(r > roundID) /\ \A w \in WorkerSet : Nowhere(r, w)
      BY <1>1, <3>1 DEF StepAt, AtOneStep, Begun, Modelled
    <3>3. AtOneStep(r)'
      BY <2>5, <3>1, <3>2, Zenon DEF AtOneStep
    <3>4. r > roundID' <=> r > roundID
      BY <2>1
    <3> QED
      BY <1>1, <2>7, <3>2, <3>3, <3>4, Zenon DEF StepAt, IsOpen
  <2> QED
    BY <2>8, <2>9
<1>4. CASE Report
  <2>1. /\ reporting # None /\ results' = Append(results, reporting) /\ reporting' = None
        /\ UNCHANGED <<mailbox, outbox, roundID, expected>> /\ reporting \in ModelMessage
    BY <1>1, <1>4 DEF Report
  <2>2. /\ (Asked(r)' <=> Asked(r)) /\ (Triggered(r)' <=> Triggered(r)) /\ (Awaited(r)' <=> Awaited(r))
        /\ (Made(r)' <=> Made(r)) /\ (Returned(r)' <=> Returned(r)) /\ ~Reporting(r)'
    BY <2>1 DEF Asked, Triggered, Awaited, Made, Returned, Reporting
  <2>3. CASE reporting \notin ModelsOf(r)
    <3>1. Keeps(results, results', ModelsOf(r))
      BY <1>1, <2>1, <2>3, AppendFacts DEF Keeps
    <3> QED
      BY <1>1, <2>1, <2>2, <3>1, StepKept DEF Keeps
  <2>4. CASE reporting \in ModelsOf(r)
    <3>1. Reporting(r)
      BY <2>1, <2>4 DEF Reporting
    <3>2. /\ ~Asked(r) /\ ~Triggered(r) /\ ~Awaited(r) /\ ~Made(r) /\ ~Returned(r) /\ ~Reported(r) /\ Begun(r)
          /\ ~(r > roundID) /\ \A w \in WorkerSet : Nowhere(r, w)
      BY <1>1, <3>1 DEF StepAt, AtOneStep, Begun, Modelled
    <3>3. Single(results', ModelsOf(r))
      BY <1>1, <2>1, <3>2, AppendFacts DEF StepAt, SingleSteps, Reported
    <3>4. SingleSteps(r)'
      BY <1>1, <2>1, <3>3 DEF StepAt, SingleSteps
    <3>5. AtOneStep(r)'
      BY <2>2, <3>2, Zenon DEF AtOneStep
    <3>6. r > roundID' <=> r > roundID
      BY <2>1
    <3> QED
      BY <1>1, <3>2, <3>4, <3>5, <3>6, Zenon DEF StepAt, IsOpen
  <2> QED
    BY <2>3, <2>4
<1> QED
  BY <1>3, <1>4


\* A trigger handled or an update collected: the round is awaited, or its model
\* is made, and then of all its updates.
LEMMA StepAggregates ==
  ASSUME RoundInv, Settled, Aggregates
  PROVE  StepInv' /\ Closing
<1> DEFINE box == mailbox[Aggregator]
           m == Head(box)
<1>1. /\ TypeOK /\ OutboxInv /\ StepInv /\ OnceInv
      /\ outbox \in [Actors -> Seq(Post)] /\ mailbox \in [Actors -> Seq(Message)]
      /\ updates \in [Rounds -> Seq(UpdateMessage)] /\ expected \in [Rounds -> {Len(Workers), None}]
  BY DEF RoundInv, WorkInv, BaseInv, TypeOK, Post
<1>2. /\ Coordinator \in Actors /\ Aggregator \in Actors /\ WorkerSet \subseteq Actors
      /\ Coordinator # Aggregator /\ Coordinator \notin WorkerSet /\ Aggregator \notin WorkerSet
  BY Posts
<1>3. /\ box # <<>> /\ outbox[Aggregator] = <<>> /\ mailbox' = [mailbox EXCEPT ![Aggregator] = Tail(box)]
      /\ UNCHANGED <<roundID, reporting, results>>
  BY <1>1, AggregatesFacts DEF driverVars
<1>4. PICK r \in Rounds, n \in {Len(Workers), None}, ups \in Seq(UpdateMessage) :
           /\ Collect(r, n, ups)
           /\ ~Has(ups, Foreign(r, run))
           /\ \A w \in WorkerSet :
                /\ Single(ups, UpdatesOf(r, w))
                /\ Has(ups, UpdatesOf(r, w)) =>
                     \/ Keeps(updates[r], ups, UpdatesOf(r, w))
                     \/ ~Arrived(r, w)' /\ Arrived(r, w)
           /\ m.round = r
           /\ \/ m.type = "AggregateTrigger" /\ n = Len(Workers) /\ ups = updates[r]
              \/ m \in UpdateMessage /\ n = expected[r] /\ ups = Append(updates[r], m)
  BY CollectedFacts
<1> DEFINE post == Envelope(Coordinator, Model(r, ups))
<1>5. \/ /\ Complete(n, ups) /\ updates' = [updates EXCEPT ![r] = <<>>]
         /\ expected' = [expected EXCEPT ![r] = None]
         /\ outbox' = [outbox EXCEPT ![Aggregator] = <<post>>]
      \/ /\ ~Complete(n, ups) /\ expected' = [expected EXCEPT ![r] = n] /\ outbox' = outbox
  BY <1>4 DEF Collect, Sends
<1>6. /\ \A b \in Actors \ {Aggregator} : outbox'[b] = outbox[b] /\ mailbox'[b] = mailbox[b]
      /\ mailbox'[Aggregator] = Tail(box)
      /\ \A s \in Rounds \ {r} : expected'[s] = expected[s]
      /\ Complete(n, ups) => updates'[r] = <<>> /\ expected'[r] = None /\ outbox'[Aggregator] = <<post>>
      /\ ~Complete(n, ups) => expected'[r] = n /\ outbox'[Aggregator] = outbox[Aggregator]
  BY <1>1, <1>2, <1>3, <1>4, <1>5, Zenon
<1>7. box \in Seq(Message) /\ m \in Message
  <2>1. box \in Seq(Message)
    BY <1>1, <1>2
  <2> HIDE DEF box
  <2> QED
    BY <1>3, <2>1, TailFacts
<1>8. \A S : /\ Keeps(mailbox[Aggregator], mailbox'[Aggregator], S)
             /\ Keeps(mailbox[Coordinator], mailbox'[Coordinator], S)
             /\ Keeps(outbox[Coordinator], outbox'[Coordinator], S)
             /\ Keeps(results, results', S)
  <2>1. \A S : Keeps(mailbox[Aggregator], mailbox'[Aggregator], S)
    BY <1>3, <1>6, <1>7, ShrinksKeeps DEF Shrinks
  <2> QED
    BY <1>2, <1>3, <1>6, <2>1 DEF Keeps
<1>9. \A s \in Rounds : post \in ModelPosts(s) <=> s = r
  <2>1. Model(r, ups) \in ModelMessage /\ Model(r, ups).round = r
    BY <1>4 DEF Model, ModelMessage
  <2> HIDE DEF post
  <2> QED
    BY <2>1, StepMessages DEF post, ModelPosts, ModelsOf, Envelope
<1>10. \A s \in Rounds : Single(outbox'[Aggregator], ModelPosts(s))
  <2> SUFFICES ASSUME NEW s \in Rounds PROVE Single(outbox'[Aggregator], ModelPosts(s))
    OBVIOUS
  <2>1. Single(outbox[Aggregator], ModelPosts(s))
    BY <1>1 DEF StepInv, StepAt, SingleSteps
  <2>2. \A x : Single(<<x>>, ModelPosts(s))
    BY ShortFacts
  <2> QED
    BY <1>6, <2>1, <2>2, Zenon
<1>11. Complete(n, ups) => \A w \in WorkerSet : Nowhere(r, w)'
  <2> SUFFICES ASSUME Complete(n, ups), NEW w \in WorkerSet PROVE Nowhere(r, w)'
    OBVIOUS
  <2>1. FromAll(ups)
    BY <1>4, Pigeons DEF Complete
  <2>2. Has(ups, UpdatesOf(r, w))
    <3>1. PICK j \in 1..Len(ups) : ups[j].worker = w
      BY <2>1 DEF FromAll
    <3>2. ups[j] \in UpdateMessage /\ ups[j] \notin Foreign(r, run)
      BY <1>4, <3>1 DEF Has
    <3> QED
      BY <3>1, <3>2 DEF Has, UpdatesOf, Foreign
  <2>3. Collected(r, w) \/ (Arrived(r, w) /\ ~Arrived(r, w)')
    BY <1>4, <2>2 DEF Keeps, Collected
  <2>4. OnceAt(r, w)
    BY <1>1, <1>4 DEF OnceInv
  <2>5. ~Ordered(r, w) /\ ~Requested(r, w) /\ ~Answered(r, w) /\ ~Arrived(r, w)'
    BY <1>8, <2>3, <2>4 DEF OnceAt, InOnePlace, Keeps, Arrived
  <2>6. ~Ordered(r, w)' /\ ~Requested(r, w)' /\ ~Answered(r, w)'
    BY <1>2, <1>6, <2>5 DEF Ordered, Requested, Answered
  <2>7. ~Collected(r, w)'
    BY <1>6, ShortFacts DEF Collected
  <2> QED
    BY <2>5, <2>6, <2>7 DEF Nowhere
<1>12. \A s \in Rounds : (Reporting(s)' <=> Reporting(s)) /\ (Reported(s)' <=> Reported(s))
                         /\ (Returned(s)' <=> Returned(s)) /\ (Asked(s)' <=> Asked(s))
  BY <1>2, <1>3, <1>6 DEF Reporting, Reported, Returned, Asked
<1>13. ASSUME NEW s \in Rounds, s # r PROVE StepAt(s)' /\ (IsOpen(s)' => IsOpen(s))
  <2>1. Keeps(outbox[Aggregator], outbox'[Aggregator], ModelPosts(s))
    <3> HIDE DEF post
    <3>1. CASE Complete(n, ups)
      <4>1. post \notin ModelPosts(s)
        BY <1>9, <1>13
      <4>2. outbox'[Aggregator] = <<post>>
        BY <1>6, <3>1
      <4>3. ~Has(<<post>>, ModelPosts(s)) /\ Single(<<post>>, ModelPosts(s))
        BY <4>1, ShortFacts
      <4> QED
        BY <4>2, <4>3 DEF Keeps
    <3>2. CASE ~Complete(n, ups)
      <4>1. outbox'[Aggregator] = outbox[Aggregator]
        BY <1>6, <3>2
      <4> QED
        BY <4>1 DEF Keeps
    <3> QED
      BY <3>1, <3>2
  <2>2. (Awaited(s)' => Awaited(s)) /\ StepAt(s) /\ \A w \in WorkerSet : Nowhere(s, w) => Nowhere(s, w)'
    BY <1>1, <1>6, <1>13 DEF Awaited, StepInv, Settled
  <2> QED
    BY <1>3, <1>8, <1>12, <2>1, <2>2, StepKept
<1>14. StepAt(r) /\ (\A w \in WorkerSet : Nowhere(r, w) => Nowhere(r, w)') /\ SingleSteps(r)'
  BY <1>1, <1>4, <1>8, <1>10 DEF StepInv, Settled, StepAt, SingleSteps, Keeps
<1>15. Made(r)' <=> Complete(n, ups)
  <2>1. ~Has(outbox[Aggregator], ModelPosts(r))
    BY <1>3, ShortFacts
  <2> QED
    BY <1>4, <1>6, <1>9, <2>1, ShortFacts DEF Made
<1>16. CASE ~Complete(n, ups) /\ m \in UpdateMessage /\ n = expected[r]
  <2>1. (Awaited(r)' => Awaited(r)) /\ Keeps(outbox[Aggregator], outbox'[Aggregator], ModelPosts(r))
    BY <1>6, <1>16 DEF Awaited, Keeps
  <2>2. StepAt(r)' /\ (IsOpen(r)' => IsOpen(r))
    BY <1>3, <1>8, <1>12, <1>14, <2>1, StepKept
  <2> QED
    BY <1>13, <2>2 DEF StepInv, Closing
<1>17. CASE ~(~Complete(n, ups) /\ m \in UpdateMessage /\ n = expected[r])
  <2>1. /\ ~Asked(r) /\ ~Modelled(r) /\ ~Triggered(r)' /\ ~(r > roundID) /\ Begun(r)
    <3>1. CASE m.type = "AggregateTrigger"
      <4>1. m = Trigger(r)
        <5> HIDE DEF m
        <5> QED
          BY <1>4, <1>7, <3>1 DEF Message, UpdateMessage, ModelMessage, Trigger
      <4>2. Single(box, {Trigger(r)})
        BY <1>14 DEF StepAt, SingleSteps
      <4>3. Has(box, {Trigger(r)}) /\ ~Has(Tail(box), {Trigger(r)})
        <5> HIDE DEF box
        <5> QED
          BY <1>3, <1>7, <4>1, <4>2, TailFacts DEF m
      <4>4. Triggered(r) /\ ~Triggered(r)'
        BY <1>6, <4>3 DEF Triggered
      <4> QED
        BY <1>14, <4>4, Zenon DEF StepAt, AtOneStep, Begun
    <3>2. CASE Complete(n, ups) /\ n = expected[r]
      <4>1. Awaited(r)
        BY <3>2 DEF Complete, Awaited
      <4>2. ~Triggered(r)
        BY <1>14, <4>1, Zenon DEF StepAt, AtOneStep
      <4>3. ~Triggered(r)'
        BY <1>8, <4>2 DEF Keeps, Triggered
      <4> QED
        BY <1>14, <4>1, <4>3, Zenon DEF StepAt, AtOneStep, Begun
    <3> QED
      BY <1>4, <1>17, <3>1, <3>2
  <2>2. ~Asked(r)' /\ ~Returned(r)' /\ ~Reporting(r)' /\ ~Reported(r)'
    BY <1>4, <1>12, <2>1 DEF Modelled
  <2>3. Awaited(r)' => ~Made(r)'
    BY <1>6, <1>15 DEF Awaited
  <2>4. AtOneStep(r)'
    BY <2>1, <2>2, <2>3, Zenon DEF AtOneStep, Modelled
  <2>5. Modelled(r)' => \A w \in WorkerSet : Nowhere(r, w)'
    BY <1>11, <1>15, <2>2, Zenon DEF Modelled
  <2>6. ~(r > roundID')
    BY <1>3, <2>1
  <2>7. StepAt(r)' /\ (IsOpen(r)' => IsOpen(r))
    BY <1>14, <2>1, <2>4, <2>5, <2>6, Zenon DEF StepAt, IsOpen
  <2> QED
    BY <1>13, <2>7 DEF StepInv, Closing
<1> QED
  BY <1>16, <1>17

\* What is lost, goes to a worker or begins the program moves no round.
LEMMA StepRest ==
  ASSUME RoundInv, Settled,
         \/ \E a \in Actors : SendRefused(a) \/ SendError(a)
         \/ \E w \in WorkerSet : Works(w)
         \/ TellStart \/ ReadResult \/ TimeOut \/ Closes
  PROVE  StepInv' /\ Closing
<1>1. /\ TypeOK /\ OutboxInv /\ StepInv
      /\ outbox \in [Actors -> Seq(Post)] /\ mailbox \in [Actors -> Seq(Message)]
  BY DEF RoundInv, BaseInv, TypeOK, Post
<1>2. /\ Coordinator \in Actors /\ Aggregator \in Actors /\ WorkerSet \subseteq Actors
      /\ Coordinator # Aggregator /\ Coordinator \notin WorkerSet /\ Aggregator \notin WorkerSet
  BY Posts
<1>3. CASE \E a \in Actors : SendRefused(a) \/ SendError(a)
  <2>1. PICK a \in Actors : SendRefused(a) \/ SendError(a)
    BY <1>3
  <2>2. /\ outbox[a] # <<>> /\ Fail(a)
        /\ UNCHANGED <<mailbox, roundID, expected, reporting, results>>
    BY <2>1 DEF SendRefused, SendError, driverVars
  <2>3. outbox' = outbox \/ outbox' = [outbox EXCEPT ![a] = Tail(outbox[a])]
    BY <1>1, <2>2, AttemptFacts
  <2>4. \A b \in Actors : Shrinks(outbox[b], outbox'[b])
    BY <1>1, <2>2, <2>3 DEF Shrinks
  <2> QED
    BY <1>1, <1>2, <2>2, <2>4, StepsKept DEF Shrinks
<1>4. CASE \E w \in WorkerSet : Works(w)
  <2>1. PICK w \in WorkerSet : Works(w)
    BY <1>4
  <2>2. /\ Receives(w, "TrainRequest") /\ UNCHANGED <<roundID, expected, reporting, results>>
        /\ outbox' = outbox \/ \E es : outbox' = [outbox EXCEPT ![w] = es]
    BY <2>1 DEF Works, WorkerTrains, WorkerCannotLoad, Sends, driverVars
  <2>3. mailbox' = [mailbox EXCEPT ![w] = Tail(mailbox[w])]
    BY <2>2 DEF Receives
  <2>4. \A b \in {Coordinator, Aggregator} : outbox'[b] = outbox[b] /\ mailbox'[b] = mailbox[b]
    BY <1>1, <1>2, <2>1, <2>2, <2>3
  <2> QED
    BY <1>1, <2>2, <2>4, StepsKept DEF Shrinks
<1>5. CASE TellStart
  <2>1. /\ mailbox' = [mailbox EXCEPT ![Coordinator] = Append(mailbox[Coordinator], Start)]
        /\ UNCHANGED <<outbox, roundID, expected, reporting, results>>
    BY <1>5 DEF TellStart
  <2>2. /\ mailbox'[Coordinator] = Append(mailbox[Coordinator], Start) /\ mailbox'[Aggregator] = mailbox[Aggregator]
        /\ mailbox[Coordinator] \in Seq(Message)
    BY <1>1, <1>2, <2>1, Zenon
  <2> SUFFICES ASSUME NEW r \in Rounds PROVE StepAt(r)' /\ (IsOpen(r)' => IsOpen(r))
    BY DEF StepInv, Closing
  <2>3. Start \notin ModelsOf(r)
    BY Messages DEF ModelsOf
  <2>4. Keeps(mailbox[Coordinator], mailbox'[Coordinator], ModelsOf(r))
    BY <2>2, <2>3, AppendFacts DEF Keeps
  <2>5. StepAt(r) /\ (\A w \in WorkerSet : Nowhere(r, w) => Nowhere(r, w)')
        /\ (Awaited(r)' => Awaited(r)) /\ (Reporting(r)' => Reporting(r))
    BY <1>1, <2>1 DEF StepInv, Settled, Awaited, Reporting
  <2> QED
    BY <2>1, <2>2, <2>4, <2>5, StepKept DEF Keeps
<1>6. CASE ReadResult \/ TimeOut
  <2>1. UNCHANGED actorVars /\ Shrinks(results, results')
    BY <1>6 DEF ReadResult, TimeOut, Shrinks
  <2> QED
    BY <1>1, <2>1, StepsKept DEF Shrinks, actorVars
<1>7. CASE ProcessExits
  <2>1. /\ mailbox' = [mailbox EXCEPT ![Coordinator] = <<>>] /\ outbox' = [outbox EXCEPT ![Coordinator] = <<>>]
        /\ reporting' = None /\ results' = <<>> /\ UNCHANGED <<roundID, expected>>
    BY <1>7 DEF ProcessExits
  <2>2. /\ mailbox'[Coordinator] = <<>> /\ mailbox'[Aggregator] = mailbox[Aggregator]
        /\ outbox'[Coordinator] = <<>> /\ outbox'[Aggregator] = outbox[Aggregator]
    BY <1>1, <1>2, <2>1, Zenon
  <2> QED
    BY <1>1, <2>1, <2>2, StepsKept DEF Shrinks
<1>8. CASE ShutdownReturns \/ \E a \in Actors : StopActor(a)
  <2>1. UNCHANGED <<mailbox, outbox, roundID, reporting, expected, results>>
    BY <1>8 DEF ShutdownReturns, StopActor, actorVars, driverVars
  <2> QED
    BY <1>1, <2>1, StepsKept DEF Shrinks
<1> QED
  BY <1>3, <1>4, <1>5, <1>6, <1>7, <1>8 DEF Closes

-----------------------------------------------------------------------------
(* When the program ends.                                                  *)

\* Fewer open rounds are enough for the results read so far.
LEMMA EndKept ==
  ASSUME RoundInv, Closing, read' = read, run' = run,
         driver' = driver \/ (driver = "closing" /\ driver' = "down")
  PROVE  EndInv'
<1>1. EndInv /\ read \in 0..Starts /\ Starts \in Nat /\ FreshInv
  BY RoundAssumption DEF RoundAssumption, RoundInv, WorkInv, BaseInv, TypeOK
<1>2. Open' \in SUBSET Open
  BY DEF Open, Closing
<1>3. IsFiniteSet(Open) /\ Cardinality(Open) \in Nat
  BY OpenFacts
<1>4. Cardinality(Open') <= Cardinality(Open) /\ Cardinality(Open') \in Nat
  <2> HIDE DEF Open
  <2> QED
    BY <1>2, <1>3, FS_Subset, FS_CardinalityType
<1>5. read' + Cardinality(Open') <= Starts
  BY <1>1, <1>3, <1>4 DEF EndInv
<1>6. run' # 0 /\ driver' # "waiting" => read' = Starts \/ MaxRuns = 1
  BY <1>1 DEF EndInv, FreshInv
<1> QED
  BY <1>5, <1>6 DEF EndInv

\* Of a round whose result is read nothing is left.
LEMMA EndRead ==
  ASSUME RoundInv, Settled, StepInv', Closing, ReadResult
  PROVE  EndInv'
<1>1. /\ EndInv /\ StepInv /\ read \in 0..Starts /\ Starts \in Nat /\ results \in Seq(ModelMessage)
  BY RoundAssumption DEF RoundAssumption, RoundInv, WorkInv, BaseInv, TypeOK
<1>2. /\ results # <<>> /\ results' = Tail(results) /\ read' = read + 1 /\ run' = run
      /\ driver' = IF read + 1 = Starts THEN "closing" ELSE "waiting"
      /\ UNCHANGED <<mailbox, outbox, roundID, reporting, expected>>
  BY DEF ReadResult, actorVars
<1>3. Head(results) \in ModelMessage
  BY <1>1, <1>2, TailFacts
<1>4. PICK r \in Rounds : Head(results) \in ModelsOf(r)
  BY <1>3 DEF ModelMessage, ModelsOf
<1>5. StepAt(r)
  BY <1>1, <1>4 DEF StepInv
<1>6. Reported(r) /\ ~Reported(r)'
  BY <1>1, <1>2, <1>4, <1>5, TailFacts DEF Reported, StepAt, SingleSteps
<1>7. /\ ~Asked(r) /\ ~Triggered(r) /\ ~Awaited(r) /\ ~Made(r) /\ ~Returned(r) /\ ~Reporting(r)
      /\ ~(r > roundID) /\ Begun(r) /\ \A w \in WorkerSet : Nowhere(r, w)
  BY <1>5, <1>6, Zenon DEF StepAt, AtOneStep, Begun, Modelled
<1>8. /\ ~Asked(r)' /\ ~Triggered(r)' /\ ~Awaited(r)' /\ ~Made(r)' /\ ~Returned(r)' /\ ~Reporting(r)'
      /\ ~(r > roundID') /\ \A w \in WorkerSet : Nowhere(r, w)'
  BY <1>2, <1>4, <1>7 DEF Asked, Triggered, Awaited, Made, Returned, Reporting, Settled
<1>9. ~IsOpen(r)' /\ IsOpen(r)
  BY <1>6, <1>7, <1>8, Zenon DEF IsOpen, Begun, Modelled
<1>10. Open' \in SUBSET (Open \ {r}) /\ r \in Open
  BY <1>4, <1>9, Zenon DEF Open, Closing
<1>11. IsFiniteSet(Open) /\ Cardinality(Open) \in Nat
  BY OpenFacts
<1>12. Cardinality(Open') \in Nat /\ Cardinality(Open') <= Cardinality(Open) - 1
  <2> HIDE DEF Open
  <2>1. IsFiniteSet(Open \ {r}) /\ Cardinality(Open \ {r}) = Cardinality(Open) - 1
    BY <1>10, <1>11, FS_RemoveElement
  <2> QED
    BY <1>10, <2>1, FS_Subset, FS_CardinalityType
<1> QED
  BY <1>1, <1>2, <1>11, <1>12 DEF EndInv

\* What no fault may do.
LEMMA NoFault ==
  ASSUME TypeOK, NEW kind \in FaultKinds, Fault(kind)
  PROVE  MaxFaults[program][kind] # 0 /\ program \in Programs
<1>1. program \in Programs /\ faults \in [FaultKinds -> Nat] /\ MaxFaults \in [Programs -> [FaultKinds -> Nat]]
  BY RoundAssumption DEF RoundAssumption, TypeOK
<1>2. faults[kind] < MaxFaults[program][kind]
  BY DEF Fault
<1>3. faults[kind] \in Nat
  BY <1>1
<1>4. MaxFaults[program] \in [FaultKinds -> Nat]
  BY <1>1
<1>5. MaxFaults[program][kind] \in Nat
  BY <1>4
<1> QED
  BY <1>1, <1>2, <1>3, <1>5

\* Every step of the actors, of the Tells and of the program keeps the invariant.
LEMMA RoundNext ==
  ASSUME RoundInv, DeliveredOnce, Patient, [Next]_vars
  PROVE  RoundInv'
<1>1. TypeOK /\ FreshInv
  BY DEF RoundInv, WorkInv, BaseInv
<1>2. BaseInv'
  BY BaseNext DEF RoundInv
<1>3. ASSUME WorkInv', StepInv', Closing, read' = read, run' = run,
             driver' = driver \/ (driver = "closing" /\ driver' = "down")
      PROVE  RoundInv'
  BY <1>2, <1>3, EndKept DEF RoundInv
<1>4. CASE \E a \in Actors : Sending(a)
  <2>1. PICK a \in Actors : Sending(a)
    BY <1>4
  <2>2. WorkInv' /\ Settled
    BY <2>1, RoundSending
  <2>3. ~SendLate(a)
    BY <1>1, NoFault DEF SendLate, DeliveredOnce, FaultKinds
  <2>4. StepInv' /\ Closing
    BY <2>1, <2>2, <2>3, StepSendOk, StepRest DEF Sending
  <2>5. UNCHANGED <<read, run, driver>>
    BY <2>1 DEF Sending, SendOk, SendRefused, SendError, SendLate, driverVars
  <2> QED
    BY <1>3, <2>2, <2>4, <2>5
<1>5. CASE LateArrives
  BY <1>1, <1>5 DEF LateArrives, FreshInv
<1>6. CASE Coordinates
  <2>1. UNCHANGED <<read, run, driver>>
    BY <1>6 DEF Coordinates, StartRound, Evaluate, Report, driverVars
  <2> QED
    BY <1>3, <1>6, <2>1, RoundStarts, StepStartRound, RoundEvaluates, StepEvaluates DEF Coordinates
<1>7. CASE \E w \in WorkerSet : Works(w)
  <2>1. PICK w \in WorkerSet : Works(w)
    BY <1>7
  <2>2. WorkInv' /\ Settled
    BY <2>1, RoundWorks
  <2>3. UNCHANGED <<read, run, driver>>
    BY <2>1 DEF Works, WorkerTrains, WorkerCannotLoad, driverVars
  <2> QED
    BY <1>3, <1>7, <2>2, <2>3, StepRest
<1>8. CASE Aggregates
  <2>1. UNCHANGED <<read, run, driver>>
    BY <1>8 DEF Aggregates, HandleTrigger, HandleUpdate, driverVars
  <2> QED
    BY <1>3, <1>8, <2>1, RoundAggregates, StepAggregates
<1>9. CASE LaunchCoordinator \/ LaunchRound
  BY <1>9, RoundLaunch
<1>10. CASE TellStart \/ ReadResult \/ TimeOut \/ Closes
  <2>1. WorkInv' /\ Settled
    BY <1>10, RoundDriver
  <2>2. StepInv' /\ Closing
    BY <1>10, <2>1, StepRest
  <2>3. CASE TellStart
    BY <1>3, <2>1, <2>2, <2>3 DEF TellStart
  <2>4. CASE ReadResult
    BY <1>2, <2>1, <2>2, <2>4, EndRead DEF RoundInv
  <2>5. CASE TimeOut
    <3>1. MaxRuns = 1
      BY <1>1, <2>5, NoFault DEF TimeOut, Patient, FaultKinds
    <3>2. read' = read /\ Cardinality(Open') <= Cardinality(Open) /\ Cardinality(Open') \in Nat
      <4>1. Open' \in SUBSET Open
        BY <2>2 DEF Open, Closing
      <4> HIDE DEF Open
      <4> QED
        BY <2>5, <4>1, OpenFacts, FS_Subset, FS_CardinalityType DEF TimeOut
    <3>3. read + Cardinality(Open) <= Starts /\ Starts \in Nat /\ read \in 0..Starts /\ Cardinality(Open) \in Nat
      BY OpenFacts, RoundAssumption DEF RoundAssumption, RoundInv, BaseInv, TypeOK, EndInv
    <3>4. read' + Cardinality(Open') <= Starts
      BY <3>2, <3>3
    <3> QED
      BY <1>2, <2>1, <2>2, <3>1, <3>4 DEF RoundInv, EndInv
  <2>6. CASE Closes
    <3>1. UNCHANGED <<read, run>> /\ (driver' = driver \/ (driver = "closing" /\ driver' = "down"))
      BY <2>6 DEF Closes, ProcessExits, ShutdownReturns, StopActor, driverVars
    <3> QED
      BY <1>3, <2>1, <2>2, <3>1
  <2> QED
    BY <1>10, <2>3, <2>4, <2>5, <2>6
<1>11. CASE UNCHANGED vars
  <2>1. UNCHANGED <<mailbox, late, outbox, roundID, reporting, updates, expected, results, run, read, driver>>
    BY <1>11 DEF vars, actorVars, driverVars
  <2>2. OnceInv' /\ Settled
    <3>1. OnceInv
      BY DEF RoundInv, WorkInv
    <3> QED
      BY <1>1, <2>1, <3>1, AllKept DEF Shrinks
  <2>3. WorkInv'
    BY <2>1, <2>2 DEF RoundInv, WorkInv, KeptInv, ModelsInv, DataInv, FreshInv
  <2>4. StepInv' /\ Closing
    <3>1. StepInv
      BY DEF RoundInv
    <3> QED
      BY <1>1, <2>1, <2>2, <3>1, StepsKept DEF Shrinks
  <2> QED
    BY <1>3, <2>1, <2>3, <2>4
<1> QED
  BY <1>4, <1>5, <1>6, <1>7, <1>8, <1>9, <1>10, <1>11 DEF Next

\* Of the models in the Results channel the invariant says what is to be shown.
LEMMA RoundInvFromEveryWorker == RoundInv => FromEveryWorker
<1> SUFFICES ASSUME RoundInv, NEW k \in DOMAIN results
    PROVE  /\ Len(results[k].updates) = Len(Workers)
           /\ \A w \in WorkerSet : \E j \in DOMAIN results[k].updates : results[k].updates[j].worker = w
  BY DEF FromEveryWorker
<1>1. results \in Seq(ModelMessage) /\ ~Has(results, Bad(run))
  BY DEF RoundInv, WorkInv, BaseInv, TypeOK, ModelsInv
<1>2. k \in 1..Len(results) /\ results[k] \in ModelMessage /\ results[k] \notin Bad(run)
  BY <1>1 DEF Has
<1>3. FromAll(results[k].updates) /\ results[k].updates \in Seq(UpdateMessage)
  BY <1>2 DEF Bad, ModelMessage
<1> QED
  BY <1>3 DEF FromAll

\* Its models are of updates trained in this run.
LEMMA RoundInvOfThisRun == RoundInv => OfThisRun
<1> SUFFICES ASSUME RoundInv, NEW k \in DOMAIN results, NEW j \in DOMAIN results[k].updates
    PROVE  results[k].updates[j].data = run
  BY DEF OfThisRun
<1>1. results \in Seq(ModelMessage) /\ ~Has(results, Bad(run))
  BY DEF RoundInv, WorkInv, BaseInv, TypeOK, ModelsInv
<1>2. k \in 1..Len(results) /\ results[k] \in ModelMessage /\ results[k] \notin Bad(run)
  BY <1>1 DEF Has
<1>3. ~Has(results[k].updates, Stale(run)) /\ results[k].updates \in Seq(UpdateMessage)
  BY <1>2 DEF Bad, ModelMessage
<1>4. j \in 1..Len(results[k].updates) /\ results[k].updates[j] \in UpdateMessage
  BY <1>3
<1> QED
  BY <1>3, <1>4 DEF Has, Stale

\* Whatever the number of workers, attempts, rounds and runs, and whichever sends
\* fail or partitions cannot be loaded: a model that the coordinator reports sums
\* one update of each worker, unless a message whose Tell failed is delivered all
\* the same (then it may sum two updates of one worker, as FLRoundDuplicate shows)
\* or a program that gave up waiting is run again (FLRoundAgain).
THEOREM FromEveryWorkerHolds == DeliveredOnce /\ Patient => (Spec => []FromEveryWorker)
<1> SUFFICES ASSUME DeliveredOnce, Patient PROVE Spec => []FromEveryWorker
  OBVIOUS
<1>1. RoundInv /\ [Next]_vars => RoundInv'
  BY RoundNext
<1> QED
  BY RoundInit, <1>1, RoundInvFromEveryWorker, PTL DEF Spec

\* Under the same conditions every update in it was trained on the partitions that
\* this run of the program has written: what the coordinator's next process finds
\* at the aggregator, round numbers starting again from 1, is nothing of the last.
THEOREM OfThisRunHolds == DeliveredOnce /\ Patient => (Spec => []OfThisRun)
<1> SUFFICES ASSUME DeliveredOnce, Patient PROVE Spec => []OfThisRun
  OBVIOUS
<1>1. RoundInv /\ [Next]_vars => RoundInv'
  BY RoundNext
<1> QED
  BY RoundInit, <1>1, RoundInvOfThisRun, PTL DEF Spec

-----------------------------------------------------------------------------
(* The refinement: what a step of the program or its actors does to the    *)
(* statuses of the rounds and the parts of the workers, and which step of  *)
(* RoundContract that is.                                                  *)

\* A round is as far as it was if its places say the same as before.
LEMMA StatusKept ==
  ASSUME NEW r \in Rounds,
         (r > roundID') <=> (r > roundID),
         Reported(r)' <=> Reported(r), Modelled(r)' <=> Modelled(r),
         (Asked(r) \/ Triggered(r) \/ Awaited(r))' <=> (Asked(r) \/ Triggered(r) \/ Awaited(r))
  PROVE  Status(r)' = Status(r)
BY DEF Status

\* A worker's part is as it was if its places say the same as before.
LEMMA PartKept ==
  ASSUME NEW r \in Rounds, NEW w \in WorkerSet,
         (r > roundID') <=> (r > roundID),
         (Ordered(r, w) \/ Requested(r, w))' <=> (Ordered(r, w) \/ Requested(r, w)),
         (Answered(r, w) \/ Arrived(r, w) \/ Collected(r, w))'
           <=> (Answered(r, w) \/ Arrived(r, w) \/ Collected(r, w))
  PROVE  Part(r, w)' = Part(r, w)
BY DEF Part

\* The rounds and the parts together, if all are as they were but one.
LEMMA StatusesKept ==
  ASSUME \A r \in Rounds : Status(r)' = Status(r)
  PROVE  Statuses' = Statuses
BY DEF Statuses

\* One round is elsewhere.
LEMMA StatusesChange ==
  ASSUME NEW r \in Rounds, NEW x, Status(r)' = x, \A s \in Rounds \ {r} : Status(s)' = Status(s)
  PROVE  Statuses' = [Statuses EXCEPT ![r] = x]
BY DEF Statuses

\* All parts are where they were.
LEMMA PartsKept ==
  ASSUME \A r \in Rounds, w \in WorkerSet : Part(r, w)' = Part(r, w)
  PROVE  Parts' = Parts
BY DEF Parts

\* One worker's part in one round is elsewhere.
LEMMA PartsChange ==
  ASSUME NEW r \in Rounds, NEW w \in WorkerSet, NEW x, Part(r, w)' = x,
         \A s \in Rounds, v \in WorkerSet : s # r \/ v # w => Part(s, v)' = Part(s, v)
  PROVE  Parts' = [Parts EXCEPT ![r][w] = x]
<1>1. Parts' = [s \in Rounds |-> [v \in WorkerSet |-> IF s = r /\ v = w THEN x ELSE Part(s, v)]]
  BY DEF Parts
<1>2. Parts[r] = [v \in WorkerSet |-> Part(r, v)]
  BY DEF Parts
<1>3. [Parts[r] EXCEPT ![w] = x] = [v \in WorkerSet |-> IF v = w THEN x ELSE Part(r, v)]
  BY <1>2
<1>4. ASSUME NEW s \in Rounds
      PROVE  Parts'[s] = IF s = r THEN [Parts[r] EXCEPT ![w] = x] ELSE Parts[s]
  BY <1>1, <1>3 DEF Parts
<1> QED
  BY <1>1, <1>4 DEF Parts

\* The invariant says where a round and a worker's part can be.
LEMMA PlacesFacts ==
  ASSUME RoundInv, NEW r \in Rounds, NEW w \in WorkerSet
  PROVE  /\ OnceAt(r, w) /\ StepAt(r) /\ roundID \in 0..Starts /\ r \in Int
         /\ r > roundID => Part(r, w) = "due" /\ Status(r) = "ahead"
         /\ Ordered(r, w) \/ Requested(r, w) => Part(r, w) = "due" /\ ~(r > roundID)
         /\ Answered(r, w) \/ Arrived(r, w) \/ Collected(r, w) => Part(r, w) = "done" /\ ~(r > roundID)
         /\ ~(r > roundID) /\ Nowhere(r, w) => Part(r, w) = "gone"
         /\ ~(r > roundID) => Status(r) # "ahead"
         /\ Reported(r) => Status(r) = "reported" /\ ~(r > roundID)
         /\ Made(r) \/ Returned(r) \/ Reporting(r) => Status(r) = "modelled" /\ ~(r > roundID)
         /\ Asked(r) \/ Triggered(r) \/ Awaited(r) => Status(r) = "running" /\ ~(r > roundID)
         /\ ~(r > roundID) /\ ~Begun(r) => Status(r) = "over"
<1>1. OnceAt(r, w) /\ StepAt(r) /\ roundID \in 0..Starts /\ r \in Int
  BY RoundAssumption DEF RoundAssumption, RoundInv, BaseInv, TypeOK, WorkInv, OnceInv, StepInv, Rounds
<1>2. /\ r > roundID => Part(r, w) = "due" /\ Status(r) = "ahead"
      /\ ~(r > roundID) => Status(r) # "ahead"
  BY DEF Part, Status
<1>3. Ordered(r, w) \/ Requested(r, w) => Part(r, w) = "due" /\ ~(r > roundID)
  BY <1>1 DEF OnceAt, Nowhere, Part
<1>4. Answered(r, w) \/ Arrived(r, w) \/ Collected(r, w) => Part(r, w) = "done" /\ ~(r > roundID)
  BY <1>1 DEF OnceAt, InOnePlace, Nowhere, Part
<1>5. ~(r > roundID) /\ Nowhere(r, w) => Part(r, w) = "gone"
  BY DEF Nowhere, Part
<1>6. Reported(r) => Status(r) = "reported" /\ ~(r > roundID)
  BY <1>1 DEF StepAt, Begun, Modelled, Status
<1>7. Made(r) \/ Returned(r) \/ Reporting(r) => Status(r) = "modelled" /\ ~(r > roundID)
  BY <1>1 DEF StepAt, AtOneStep, Begun, Modelled, Status
<1>8. Asked(r) \/ Triggered(r) \/ Awaited(r) => Status(r) = "running" /\ ~(r > roundID)
  BY <1>1 DEF StepAt, AtOneStep, Begun, Modelled, Status
<1>9. ~(r > roundID) /\ ~Begun(r) => Status(r) = "over"
  BY DEF Begun, Modelled, Status
<1> QED
  BY <1>1, <1>2, <1>3, <1>4, <1>5, <1>6, <1>7, <1>8, <1>9

\* A worker's part is lost.
LEMMA LoseStep ==
  ASSUME NEW r \in Rounds, NEW w \in WorkerSet, Status(r) # "ahead", Part(r, w) \in {"due", "done"},
         Part(r, w)' = "gone",
         \A s \in Rounds, v \in WorkerSet : s # r \/ v # w => Part(s, v)' = Part(s, v),
         \A s \in Rounds : Status(s)' = Status(s),
         UNCHANGED <<run, driver, started, results>>
  PROVE  Contract!Lose(r, w)
<1>1. Parts' = [Parts EXCEPT ![r][w] = "gone"]
  BY PartsChange
<1>2. Statuses' = Statuses /\ Reports' = Reports
  BY StatusesKept DEF Reports
<1>3. Statuses[r] = Status(r) /\ Parts[r][w] = Part(r, w)
  BY DEF Statuses, Parts
<1> QED
  BY <1>1, <1>2, <1>3 DEF Contract!Lose

\* A round is given up.
LEMMA AbandonStep ==
  ASSUME NEW r \in Rounds, Status(r) \in {"running", "modelled"}, Status(r)' = "over",
         \A s \in Rounds \ {r} : Status(s)' = Status(s),
         \A s \in Rounds, v \in WorkerSet : Part(s, v)' = Part(s, v),
         UNCHANGED <<run, driver, started, results>>
  PROVE  Contract!Abandon(r)
<1>1. Statuses' = [Statuses EXCEPT ![r] = "over"]
  BY StatusesChange
<1>2. Parts' = Parts /\ Reports' = Reports
  BY PartsKept DEF Reports
<1>3. Statuses[r] = Status(r)
  BY DEF Statuses
<1> QED
  BY <1>1, <1>2, <1>3 DEF Contract!Abandon

\* Nothing the contract speaks of has changed.
LEMMA KeptStep ==
  ASSUME \A r \in Rounds : Status(r)' = Status(r),
         \A r \in Rounds, w \in WorkerSet : Part(r, w)' = Part(r, w),
         UNCHANGED <<run, driver, started, results>>
  PROVE  UNCHANGED Contract!vars
<1>1. Statuses' = Statuses /\ Parts' = Parts /\ Reports' = Reports
  BY StatusesKept, PartsKept DEF Reports
<1> QED
  BY <1>1 DEF Contract!vars

\* A message taken from a place is the one that was first there.
LEMMA TakenFacts ==
  ASSUME NEW T, NEW s \in Seq(T), s # <<>>, NEW S
  PROVE  Has(s, S) <=> Head(s) \in S \/ Has(Tail(s), S)
<1>1. /\ Len(s) \in Nat /\ Len(s) >= 1 /\ Len(Tail(s)) = Len(s) - 1
      /\ \A i \in 1..Len(Tail(s)) : Tail(s)[i] = s[i + 1]
      /\ Head(s) = s[1]
  OBVIOUS
<1>2. ASSUME NEW i \in 1..Len(s), s[i] \in S PROVE Head(s) \in S \/ Has(Tail(s), S)
  <2>1. CASE i = 1
    BY <1>1, <1>2, <2>1
  <2>2. CASE i # 1
    <3>1. i - 1 \in 1..Len(Tail(s)) /\ Tail(s)[i - 1] = s[i]
      BY <1>1, <2>2
    <3> QED
      BY <1>2, <3>1 DEF Has
  <2> QED
    BY <2>1, <2>2
<1>3. Head(s) \in S \/ Has(Tail(s), S) => Has(s, S)
  BY TailFacts
<1> QED
  BY <1>2, <1>3 DEF Has

\* What the first message of an outbox can be.
LEMMA PostKinds ==
  ASSUME TypeOK, OutboxInv, NEW a \in Actors, outbox[a] # <<>>
  PROVE  LET e == Head(outbox[a]) IN
         \/ a = Coordinator /\ \E s \in Rounds : e = Envelope(Aggregator, Trigger(s))
         \/ a = Coordinator /\ \E s \in Rounds, v \in WorkerSet : e = Envelope(v, Train(s))
         \/ a = Aggregator /\ \E m \in ModelMessage : e = Envelope(Coordinator, m)
         \/ a \in WorkerSet /\ \E m \in UpdateMessage : m.worker = a /\ e = Envelope(Aggregator, m)
<1> DEFINE e == Head(outbox[a])
<1>1. e \in Outgoing(a)
  BY DoneFacts
<1> HIDE DEF e
<1>2. CASE a = Coordinator
  BY <1>1, <1>2, SMT DEF Outgoing, e
<1>3. CASE a = Aggregator
  BY <1>1, <1>3, Posts, SMT DEF Outgoing, e
<1>4. CASE a # Coordinator /\ a # Aggregator
  <2>1. a \in WorkerSet
    BY <1>4 DEF Actors
  <2>2. PICK m \in {u \in UpdateMessage : u.worker = a} : e = Envelope(Aggregator, m)
    BY <1>1, <1>4, SMT DEF Outgoing
  <2> QED
    BY <2>1, <2>2 DEF e
<1> QED
  BY <1>2, <1>3, <1>4

\* Of which round and worker a message is.
LEMMA PostSets ==
  ASSUME NEW r \in Rounds, NEW w \in WorkerSet
  PROVE  /\ \A s \in Rounds :
              /\ Envelope(Aggregator, Trigger(s)) \in TriggerPosts(r) <=> s = r
              /\ Envelope(Aggregator, Trigger(s)) \notin {Envelope(w, Train(r))}
              /\ Trigger(s) \in {Trigger(r)} <=> s = r
              /\ Trigger(s) \notin UpdatesOf(r, w)
              /\ Train(s) \in {Train(r)} <=> s = r
         /\ \A s \in Rounds, v \in WorkerSet :
              /\ Envelope(v, Train(s)) \in {Envelope(w, Train(r))} <=> s = r /\ v = w
              /\ Envelope(v, Train(s)) \notin TriggerPosts(r)
         /\ \A m \in ModelMessage :
              /\ Envelope(Coordinator, m) \in ModelPosts(r) <=> m.round = r
              /\ m \in ModelsOf(r) <=> m.round = r
              /\ m.round \in Rounds
         /\ \A m \in UpdateMessage :
              /\ Envelope(Aggregator, m) \in Answers(r, w) <=> m.round = r /\ m.worker = w
              /\ m \in UpdatesOf(r, w) <=> m.round = r /\ m.worker = w
              /\ m \notin {Trigger(r)}
              /\ m.round \in Rounds /\ m.worker \in WorkerSet
         /\ Start \notin ModelsOf(r)
<1>1. ASSUME NEW s \in Rounds
      PROVE  /\ Trigger(s) \in {Trigger(r)} <=> s = r
             /\ Trigger(s) \notin UpdatesOf(r, w)
             /\ Train(s) \in {Train(r)} <=> s = r
  BY MessagesDiffer DEF Trigger
<1>2. ASSUME NEW s \in Rounds
      PROVE  /\ Envelope(Aggregator, Trigger(s)) \in TriggerPosts(r) <=> s = r
             /\ Envelope(Aggregator, Trigger(s)) \notin {Envelope(w, Train(r))}
  <2>1. Envelope(Aggregator, Trigger(s)) = Envelope(Aggregator, Trigger(r)) <=> Trigger(s) = Trigger(r)
    BY DEF Envelope
  <2> QED
    BY <1>1, <2>1, MessagesDiffer DEF TriggerPosts
<1>3. ASSUME NEW s \in Rounds, NEW v \in WorkerSet
      PROVE  /\ Envelope(v, Train(s)) \in {Envelope(w, Train(r))} <=> s = r /\ v = w
             /\ Envelope(v, Train(s)) \notin TriggerPosts(r)
  <2>1. v # Aggregator
    BY Posts
  <2>2. Envelope(v, Train(s)) # Envelope(Aggregator, Trigger(r))
    BY <2>1 DEF Envelope
  <2> QED
    BY <2>2, MessagesDiffer DEF TriggerPosts
<1>4. ASSUME NEW m \in ModelMessage
      PROVE  /\ m \in ModelsOf(r) <=> m.round = r
             /\ m.round \in Rounds
  BY DEF ModelsOf, ModelMessage
<1>5. ASSUME NEW m \in ModelMessage
      PROVE  Envelope(Coordinator, m) \in ModelPosts(r) <=> m.round = r
  BY <1>4, EnvelopeIn DEF ModelPosts
<1>6. ASSUME NEW m \in UpdateMessage
      PROVE  /\ m \in UpdatesOf(r, w) <=> m.round = r /\ m.worker = w
             /\ m \notin {Trigger(r)}
             /\ m.round \in Rounds /\ m.worker \in WorkerSet
  BY DEF UpdatesOf, UpdateMessage, Trigger
<1>7. ASSUME NEW m \in UpdateMessage
      PROVE  Envelope(Aggregator, m) \in Answers(r, w) <=> m.round = r /\ m.worker = w
  BY <1>6, EnvelopeIn DEF Answers
<1>8. Start \notin ModelsOf(r)
  BY Messages DEF ModelsOf
<1> QED
  BY <1>1, <1>2, <1>3, <1>4, <1>5, <1>6, <1>7, <1>8

\* A Tell accepted moves a message on, and no round or part.
LEMMA SendOkRefines ==
  ASSUME RoundInv, NEW a \in Actors, SendOk(a)
  PROVE  UNCHANGED Contract!vars
<1> DEFINE e == Head(outbox[a])
<1>1. /\ outbox[a] # <<>> /\ outbox' = [outbox EXCEPT ![a] = Tail(outbox[a])]
      /\ mailbox' = [mailbox EXCEPT ![e.to] = Append(mailbox[e.to], e.msg)]
      /\ UNCHANGED <<roundID, reporting, updates, expected, results, run, driver, started>>
  BY DEF SendOk, Done, Sends, driverVars
<1>2. TypeOK /\ OutboxInv
  BY DEF RoundInv, BaseInv
<1>3. outbox \in [Actors -> Seq(Post)] /\ mailbox \in [Actors -> Seq(Message)]
  BY <1>2 DEF TypeOK, Post
<1>4. e.to \in Actors
  BY <1>1, <1>2, DoneFacts, SMT DEF Post
<1>5. /\ Coordinator \in Actors /\ Aggregator \in Actors /\ WorkerSet \subseteq Actors
      /\ Coordinator # Aggregator /\ Coordinator \notin WorkerSet /\ Aggregator \notin WorkerSet
  BY Posts
<1>6. /\ outbox'[a] = Tail(outbox[a]) /\ \A b \in Actors \ {a} : outbox'[b] = outbox[b]
      /\ mailbox'[e.to] = Append(mailbox[e.to], e.msg)
      /\ \A b \in Actors \ {e.to} : mailbox'[b] = mailbox[b]
  BY <1>1, <1>3, <1>4, Zenon
<1>7. \A S : Has(outbox[a], S) <=> e \in S \/ Has(outbox'[a], S)
  BY <1>1, <1>3, <1>6, TakenFacts
<1>8. \A S : Has(mailbox'[e.to], S) <=> Has(mailbox[e.to], S) \/ e.msg \in S
  BY <1>3, <1>4, <1>6, AppendFacts
<1>9. \/ a = Coordinator /\ \E s \in Rounds : e = Envelope(Aggregator, Trigger(s))
      \/ a = Coordinator /\ \E s \in Rounds, v \in WorkerSet : e = Envelope(v, Train(s))
      \/ a = Aggregator /\ \E m \in ModelMessage : e = Envelope(Coordinator, m)
      \/ a \in WorkerSet /\ \E m \in UpdateMessage : m.worker = a /\ e = Envelope(Aggregator, m)
  BY <1>1, <1>2, PostKinds
<1>10. \A to, msg : Envelope(to, msg).to = to /\ Envelope(to, msg).msg = msg
  BY DEF Envelope
<1> HIDE DEF e
<1> SUFFICES ASSUME NEW r \in Rounds, NEW w \in WorkerSet
    PROVE  Status(r)' = Status(r) /\ Part(r, w)' = Part(r, w)
  <2>1. \E w \in WorkerSet : TRUE
    BY RoundAssumption DEF RoundAssumption, WorkerSet
  <2> QED
    BY <1>1, <2>1, KeptStep
<1>11. /\ (Awaited(r)' <=> Awaited(r)) /\ (Reporting(r)' <=> Reporting(r)) /\ (Reported(r)' <=> Reported(r))
       /\ (Collected(r, w)' <=> Collected(r, w)) /\ (r > roundID' <=> r > roundID)
  BY <1>1 DEF Awaited, Reporting, Reported, Collected
<1>12. w \in Actors /\ w # Coordinator /\ w # Aggregator
  BY <1>5
<1>13. CASE a = Coordinator /\ \E s \in Rounds : e = Envelope(Aggregator, Trigger(s))
  <2>1. PICK s \in Rounds : e = Envelope(Aggregator, Trigger(s))
    BY <1>13
  <2>2. e.to = Aggregator /\ e.msg = Trigger(s)
    BY <1>10, <2>1
  <2>3. /\ e \in TriggerPosts(r) <=> s = r
        /\ e \notin {Envelope(w, Train(r))}
        /\ e.msg \in {Trigger(r)} <=> s = r
        /\ e.msg \notin UpdatesOf(r, w)
    BY <2>1, <2>2, PostSets
  <2>4. /\ outbox'[w] = outbox[w] /\ outbox'[Aggregator] = outbox[Aggregator]
        /\ mailbox'[w] = mailbox[w] /\ mailbox'[Coordinator] = mailbox[Coordinator]
    BY <1>5, <1>6, <1>12, <1>13, <2>2
  <2>5. /\ Ordered(r, w)' <=> Ordered(r, w)
        /\ Requested(r, w)' <=> Requested(r, w)
        /\ Answered(r, w)' <=> Answered(r, w)
        /\ Arrived(r, w)' <=> Arrived(r, w)
    BY <1>7, <1>8, <1>13, <2>2, <2>3, <2>4 DEF Ordered, Requested, Answered, Arrived
  <2>6. /\ (Asked(r) \/ Triggered(r))' <=> Asked(r) \/ Triggered(r)
        /\ Made(r)' <=> Made(r)
        /\ Returned(r)' <=> Returned(r)
    BY <1>7, <1>8, <1>13, <2>2, <2>3, <2>4 DEF Asked, Triggered, Made, Returned
  <2> QED
    BY <1>11, <2>5, <2>6, StatusKept, PartKept DEF Modelled
<1>14. CASE a = Coordinator /\ \E s \in Rounds, v \in WorkerSet : e = Envelope(v, Train(s))
  <2>1. PICK s \in Rounds, v \in WorkerSet : e = Envelope(v, Train(s))
    BY <1>14
  <2>2. e.to = v /\ e.msg = Train(s) /\ v # Coordinator /\ v # Aggregator
    BY <1>5, <1>10, <2>1
  <2>3. /\ e \notin TriggerPosts(r)
        /\ e \in {Envelope(w, Train(r))} <=> s = r /\ v = w
        /\ e.msg \in {Train(r)} <=> s = r
    BY <2>1, <2>2, PostSets
  <2>4. /\ outbox'[w] = outbox[w] /\ outbox'[Aggregator] = outbox[Aggregator]
        /\ mailbox'[Aggregator] = mailbox[Aggregator] /\ mailbox'[Coordinator] = mailbox[Coordinator]
        /\ v # w => mailbox'[w] = mailbox[w]
    BY <1>5, <1>6, <1>12, <1>14, <2>2
  <2>5. /\ (Ordered(r, w) \/ Requested(r, w))' <=> Ordered(r, w) \/ Requested(r, w)
        /\ Answered(r, w)' <=> Answered(r, w)
        /\ Arrived(r, w)' <=> Arrived(r, w)
    BY <1>7, <1>8, <1>14, <2>2, <2>3, <2>4 DEF Ordered, Requested, Answered, Arrived
  <2>6. /\ Asked(r)' <=> Asked(r)
        /\ Triggered(r)' <=> Triggered(r)
        /\ Made(r)' <=> Made(r)
        /\ Returned(r)' <=> Returned(r)
    BY <1>7, <1>14, <2>3, <2>4 DEF Asked, Triggered, Made, Returned
  <2> QED
    BY <1>11, <2>5, <2>6, StatusKept, PartKept DEF Modelled
<1>15. CASE a = Aggregator /\ \E m \in ModelMessage : e = Envelope(Coordinator, m)
  <2>1. PICK m \in ModelMessage : e = Envelope(Coordinator, m)
    BY <1>15
  <2>2. e.to = Coordinator /\ e.msg = m
    BY <1>10, <2>1
  <2>3. e \in ModelPosts(r) <=> e.msg \in ModelsOf(r)
    BY <2>1, <2>2, PostSets
  <2>4. /\ outbox'[w] = outbox[w] /\ outbox'[Coordinator] = outbox[Coordinator]
        /\ mailbox'[w] = mailbox[w] /\ mailbox'[Aggregator] = mailbox[Aggregator]
    BY <1>5, <1>6, <1>12, <1>15, <2>2
  <2>5. /\ Ordered(r, w)' <=> Ordered(r, w)
        /\ Requested(r, w)' <=> Requested(r, w)
        /\ Answered(r, w)' <=> Answered(r, w)
        /\ Arrived(r, w)' <=> Arrived(r, w)
        /\ Asked(r)' <=> Asked(r)
        /\ Triggered(r)' <=> Triggered(r)
    BY <2>4 DEF Ordered, Requested, Answered, Arrived, Asked, Triggered
  <2>6. (Made(r) \/ Returned(r))' <=> Made(r) \/ Returned(r)
    BY <1>7, <1>8, <1>15, <2>2, <2>3 DEF Made, Returned
  <2> QED
    BY <1>11, <2>5, <2>6, StatusKept, PartKept DEF Modelled
<1>16. CASE a \in WorkerSet /\ \E m \in UpdateMessage : m.worker = a /\ e = Envelope(Aggregator, m)
  <2>1. PICK m \in UpdateMessage : m.worker = a /\ e = Envelope(Aggregator, m)
    BY <1>16
  <2>2. e.to = Aggregator /\ e.msg = m /\ a # Coordinator /\ a # Aggregator
    BY <1>5, <1>10, <1>16, <2>1
  <2>3. /\ e \in Answers(r, w) <=> e.msg \in UpdatesOf(r, w)
        /\ e.msg \in UpdatesOf(r, w) => a = w
        /\ e.msg \notin {Trigger(r)}
    BY <2>1, <2>2, PostSets
  <2>4. /\ outbox'[Coordinator] = outbox[Coordinator] /\ outbox'[Aggregator] = outbox[Aggregator]
        /\ mailbox'[w] = mailbox[w] /\ mailbox'[Coordinator] = mailbox[Coordinator]
        /\ a # w => outbox'[w] = outbox[w]
    BY <1>5, <1>6, <1>12, <2>2
  <2>5. /\ Ordered(r, w)' <=> Ordered(r, w)
        /\ Requested(r, w)' <=> Requested(r, w)
        /\ (Answered(r, w) \/ Arrived(r, w))' <=> Answered(r, w) \/ Arrived(r, w)
    BY <1>7, <1>8, <2>2, <2>3, <2>4 DEF Ordered, Requested, Answered, Arrived
  <2>6. /\ Asked(r)' <=> Asked(r)
        /\ Triggered(r)' <=> Triggered(r)
        /\ Made(r)' <=> Made(r)
        /\ Returned(r)' <=> Returned(r)
    BY <1>8, <2>2, <2>3, <2>4 DEF Asked, Triggered, Made, Returned
  <2> QED
    BY <1>11, <2>5, <2>6, StatusKept, PartKept DEF Modelled
<1> QED
  BY <1>9, <1>13, <1>14, <1>15, <1>16

\* After its last attempt a message is lost, and with it a part or a round.
LEMMA SendLostRefines ==
  ASSUME RoundInv, NEW a \in Actors, SendRefused(a) \/ SendError(a)
  PROVE  \/ UNCHANGED Contract!vars
         \/ \E r \in Rounds : Contract!Abandon(r) \/ \E w \in WorkerSet : Contract!Lose(r, w)
<1> DEFINE e == Head(outbox[a])
<1>1. /\ outbox[a] # <<>> /\ Fail(a)
      /\ UNCHANGED <<mailbox, roundID, reporting, updates, expected, results, run, driver, started>>
  BY DEF SendRefused, SendError, driverVars
<1>2. TypeOK /\ OutboxInv
  BY DEF RoundInv, BaseInv
<1>3. outbox \in [Actors -> Seq(Post)]
  BY <1>2 DEF TypeOK, Post
<1>4. /\ Coordinator \in Actors /\ Aggregator \in Actors /\ WorkerSet \subseteq Actors
      /\ Coordinator # Aggregator /\ Coordinator \notin WorkerSet /\ Aggregator \notin WorkerSet
  BY Posts
<1>5. ASSUME NEW r \in Rounds, NEW w \in WorkerSet
      PROVE  /\ (Triggered(r)' <=> Triggered(r)) /\ (Awaited(r)' <=> Awaited(r))
             /\ (Returned(r)' <=> Returned(r)) /\ (Reporting(r)' <=> Reporting(r)) /\ (Reported(r)' <=> Reported(r))
             /\ (Requested(r, w)' <=> Requested(r, w)) /\ (Arrived(r, w)' <=> Arrived(r, w))
             /\ (Collected(r, w)' <=> Collected(r, w)) /\ (r > roundID' <=> r > roundID)
  BY <1>1 DEF Triggered, Awaited, Returned, Reporting, Reported, Requested, Arrived, Collected
<1>6. CASE outbox' = outbox
  <2>1. ASSUME NEW r \in Rounds, NEW w \in WorkerSet
        PROVE  Status(r)' = Status(r) /\ Part(r, w)' = Part(r, w)
    <3>1. /\ (Asked(r)' <=> Asked(r)) /\ (Made(r)' <=> Made(r))
          /\ (Ordered(r, w)' <=> Ordered(r, w)) /\ (Answered(r, w)' <=> Answered(r, w))
      BY <1>6 DEF Asked, Made, Ordered, Answered
    <3> QED
      BY <1>5, <3>1, StatusKept, PartKept DEF Modelled
  <2>2. \E w \in WorkerSet : TRUE
    BY RoundAssumption DEF RoundAssumption, WorkerSet
  <2> QED
    BY <1>1, <2>1, <2>2, KeptStep
<1>7. CASE outbox' = [outbox EXCEPT ![a] = Tail(outbox[a])]
  <2>1. outbox'[a] = Tail(outbox[a]) /\ \A b \in Actors \ {a} : outbox'[b] = outbox[b]
    BY <1>3, <1>7, Zenon
  <2>2. \A S : Has(outbox[a], S) <=> e \in S \/ Has(outbox'[a], S)
    BY <1>1, <1>3, <2>1, TakenFacts
  <2>3. \A S : Single(outbox[a], S) /\ e \in S => ~Has(outbox'[a], S)
    BY <1>1, <1>3, <2>1, TailFacts
  <2>4. \/ a = Coordinator /\ \E s \in Rounds : e = Envelope(Aggregator, Trigger(s))
        \/ a = Coordinator /\ \E s \in Rounds, v \in WorkerSet : e = Envelope(v, Train(s))
        \/ a = Aggregator /\ \E m \in ModelMessage : e = Envelope(Coordinator, m)
        \/ a \in WorkerSet /\ \E m \in UpdateMessage : m.worker = a /\ e = Envelope(Aggregator, m)
    BY <1>1, <1>2, PostKinds
  <2> HIDE DEF e
  <2>5. ASSUME NEW r \in Rounds, e \notin TriggerPosts(r), e \notin ModelPosts(r)
        PROVE  Status(r)' = Status(r)
    <3>1. (Asked(r)' <=> Asked(r)) /\ (Made(r)' <=> Made(r))
      BY <1>4, <2>1, <2>2, <2>5 DEF Asked, Made
    <3>2. \E w \in WorkerSet : TRUE
      BY RoundAssumption DEF RoundAssumption, WorkerSet
    <3> QED
      BY <1>5, <3>1, <3>2, StatusKept DEF Modelled
  <2>6. ASSUME NEW r \in Rounds, NEW w \in WorkerSet, e \notin {Envelope(w, Train(r))}, e \notin Answers(r, w)
        PROVE  Part(r, w)' = Part(r, w)
    <3>1. (Ordered(r, w)' <=> Ordered(r, w)) /\ (Answered(r, w)' <=> Answered(r, w))
      BY <1>4, <2>1, <2>2, <2>6 DEF Ordered, Answered
    <3> QED
      BY <1>5, <3>1, PartKept
  <2>7. \A to, msg : Envelope(to, msg).to = to /\ Envelope(to, msg).msg = msg
    BY DEF Envelope
  <2>8. \A r \in Rounds, w \in WorkerSet :
          /\ e \in Answers(r, w) => e.to = Aggregator /\ e.msg.type = "LocalModelUpdate"
          /\ e \in ModelPosts(r) => e.to = Coordinator
          /\ e \in TriggerPosts(r) => e.to = Aggregator /\ e.msg.type = "AggregateTrigger"
          /\ e \in {Envelope(w, Train(r))} => e.to = w
    BY <2>7 DEF Answers, UpdatesOf, UpdateMessage, ModelPosts, TriggerPosts, Trigger
  <2>9. CASE a = Coordinator /\ \E s \in Rounds : e = Envelope(Aggregator, Trigger(s))
    <3>1. PICK s \in Rounds : e = Envelope(Aggregator, Trigger(s))
      BY <2>9
    <3>2. e.to = Aggregator /\ e.msg.type = "AggregateTrigger"
      BY <2>7, <3>1 DEF Trigger
    <3>3. PICK w \in WorkerSet : TRUE
      BY RoundAssumption DEF RoundAssumption, WorkerSet
    <3>4. e \in TriggerPosts(s) /\ \A r \in Rounds \ {s} : e \notin TriggerPosts(r)
      BY <3>1, <3>3, PostSets
    <3>5. Asked(s) /\ ~Asked(s)'
      <4>1. Single(outbox[Coordinator], TriggerPosts(s))
        BY <3>3, PlacesFacts DEF StepAt, SingleSteps
      <4> QED
        BY <2>2, <2>3, <2>9, <3>4, <4>1 DEF Asked
    <3>6. ~Triggered(s) /\ ~Awaited(s) /\ ~Modelled(s) /\ ~(s > roundID) /\ Status(s) = "running"
      BY <3>3, <3>5, PlacesFacts DEF StepAt, AtOneStep
    <3>7. ~Made(s)'
      BY <1>4, <2>1, <2>9, <3>6 DEF Modelled, Made
    <3>8. Status(s)' = "over"
      BY <1>5, <3>3, <3>5, <3>6, <3>7 DEF Status, Modelled
    <3>9. \A r \in Rounds \ {s} : Status(r)' = Status(r)
      BY <1>4, <2>5, <2>8, <3>2, <3>3, <3>4
    <3>10. \A r \in Rounds, v \in WorkerSet : Part(r, v)' = Part(r, v)
      BY <1>4, <2>6, <2>8, <3>2
    <3> QED
      BY <1>1, <3>6, <3>8, <3>9, <3>10, AbandonStep
  <2>10. CASE a = Coordinator /\ \E s \in Rounds, v \in WorkerSet : e = Envelope(v, Train(s))
    <3>1. PICK s \in Rounds, v \in WorkerSet : e = Envelope(v, Train(s))
      BY <2>10
    <3>2. e.to = v /\ v # Coordinator /\ v # Aggregator
      BY <1>4, <2>7, <3>1
    <3>3. \A r \in Rounds, w \in WorkerSet : e \in {Envelope(w, Train(r))} <=> r = s /\ w = v
      BY <3>1, PostSets
    <3>4. Ordered(s, v) /\ ~Ordered(s, v)'
      <4>1. Single(outbox[Coordinator], {Envelope(v, Train(s))})
        BY PlacesFacts DEF OnceAt, SingleEach
      <4> QED
        BY <2>2, <2>3, <2>10, <3>3, <4>1 DEF Ordered
    <3>5. /\ ~Requested(s, v) /\ ~Answered(s, v) /\ ~Arrived(s, v) /\ ~Collected(s, v)
          /\ ~(s > roundID) /\ Part(s, v) = "due" /\ Status(s) # "ahead"
      BY <3>4, PlacesFacts DEF OnceAt, InOnePlace
    <3>6. ~Answered(s, v)'
      BY <1>4, <2>1, <2>10, <3>5 DEF Answered
    <3>7. Part(s, v)' = "gone"
      BY <1>5, <3>4, <3>5, <3>6 DEF Part
    <3>8. \A r \in Rounds : Status(r)' = Status(r)
      BY <2>5, <2>8, <3>2
    <3>9. \A r \in Rounds, w \in WorkerSet : r # s \/ w # v => Part(r, w)' = Part(r, w)
      BY <2>6, <2>8, <3>2, <3>3
    <3> QED
      BY <1>1, <3>5, <3>7, <3>8, <3>9, LoseStep
  <2>11. CASE a = Aggregator /\ \E m \in ModelMessage : e = Envelope(Coordinator, m)
    <3>1. PICK m \in ModelMessage : e = Envelope(Coordinator, m)
      BY <2>11
    <3> DEFINE s == m.round
    <3>2. e.to = Coordinator
      BY <2>7, <3>1
    <3>3. PICK w \in WorkerSet : TRUE
      BY RoundAssumption DEF RoundAssumption, WorkerSet
    <3>4. s \in Rounds
      BY DEF ModelMessage
    <3>5. e \in ModelPosts(s) /\ \A r \in Rounds \ {s} : e \notin ModelPosts(r)
      BY <3>1, <3>3, <3>4, PostSets
    <3> HIDE DEF s
    <3>6. Made(s) /\ ~Made(s)'
      <4>1. Single(outbox[Aggregator], ModelPosts(s))
        BY <3>3, <3>4, PlacesFacts DEF StepAt, SingleSteps
      <4> QED
        BY <2>2, <2>3, <2>11, <3>5, <4>1 DEF Made
    <3>7. /\ ~Asked(s) /\ ~Triggered(s) /\ ~Awaited(s) /\ ~Returned(s) /\ ~Reporting(s) /\ ~Reported(s)
          /\ ~(s > roundID) /\ Status(s) = "modelled"
      BY <3>3, <3>4, <3>6, PlacesFacts DEF StepAt, AtOneStep, Modelled
    <3>8. ~Asked(s)'
      BY <1>4, <2>1, <2>11, <3>7 DEF Asked
    <3>9. Status(s)' = "over"
      BY <1>5, <3>3, <3>4, <3>6, <3>7, <3>8 DEF Status, Modelled
    <3>10. \A r \in Rounds \ {s} : Status(r)' = Status(r)
      BY <1>4, <2>5, <2>8, <3>2, <3>3, <3>5
    <3>11. \A r \in Rounds, v \in WorkerSet : Part(r, v)' = Part(r, v)
      BY <1>4, <2>6, <2>8, <3>2
    <3> QED
      BY <1>1, <3>4, <3>7, <3>9, <3>10, <3>11, AbandonStep
  <2>12. CASE a \in WorkerSet /\ \E m \in UpdateMessage : m.worker = a /\ e = Envelope(Aggregator, m)
    <3>1. PICK m \in UpdateMessage : m.worker = a /\ e = Envelope(Aggregator, m)
      BY <2>12
    <3> DEFINE s == m.round
    <3>2. e.to = Aggregator /\ e.msg.type = "LocalModelUpdate" /\ s \in Rounds
      BY <2>7, <3>1 DEF UpdateMessage
    <3>3. \A r \in Rounds, w \in WorkerSet : e \in Answers(r, w) <=> r = s /\ w = a
      BY <3>1, PostSets
    <3> HIDE DEF s
    <3>4. Answered(s, a) /\ ~Answered(s, a)'
      <4>1. Single(outbox[a], Answers(s, a))
        BY <2>12, <3>2, PlacesFacts DEF OnceAt, SingleEach
      <4> QED
        BY <2>2, <2>3, <2>12, <3>2, <3>3, <4>1 DEF Answered
    <3>5. /\ ~Ordered(s, a) /\ ~Requested(s, a) /\ ~Arrived(s, a) /\ ~Collected(s, a)
          /\ ~(s > roundID) /\ Part(s, a) = "done" /\ Status(s) # "ahead"
      BY <2>12, <3>2, <3>4, PlacesFacts DEF OnceAt, InOnePlace
    <3>6. ~Ordered(s, a)'
      BY <1>4, <2>1, <2>12, <3>5 DEF Ordered
    <3>7. Part(s, a)' = "gone"
      BY <1>5, <2>12, <3>2, <3>4, <3>5, <3>6 DEF Part
    <3>8. \A r \in Rounds : Status(r)' = Status(r)
      BY <1>4, <2>5, <2>8, <2>12, <3>2
    <3>9. \A r \in Rounds, w \in WorkerSet : r # s \/ w # a => Part(r, w)' = Part(r, w)
      BY <1>4, <2>6, <2>8, <3>2, <3>3
    <3> QED
      BY <1>1, <2>12, <3>2, <3>5, <3>7, <3>8, <3>9, LoseStep
  <2> QED
    BY <2>4, <2>9, <2>10, <2>11, <2>12
<1> QED
  BY <1>1, <1>2, <1>6, <1>7, AttemptFacts

\* startRound begins the next round, which the program has asked for.
LEMMA StartRoundRefines ==
  ASSUME RoundInv, StartRound
  PROVE  \E r \in Rounds : Contract!Begin(r)
<1>0. PICK s \in Rounds : s = roundID + 1
  BY BaseStartRound DEF RoundInv
<1>1. /\ TypeOK /\ StartsInv
      /\ roundID' = s /\ Receives(Coordinator, "StartTraining") /\ Sends(Coordinator, RoundPosts(s))
      /\ UNCHANGED <<reporting, updates, expected, results, run, driver, started>>
  BY <1>0 DEF RoundInv, BaseInv, StartRound, RoundPosts, driverVars
<1>2. /\ Coordinator \in Actors /\ Aggregator \in Actors /\ WorkerSet \subseteq Actors
      /\ Coordinator # Aggregator /\ Coordinator \notin WorkerSet /\ Aggregator \notin WorkerSet
  BY Posts
<1>3. /\ outbox[Coordinator] = <<>> /\ mailbox[Coordinator] # <<>>
      /\ mailbox' = [mailbox EXCEPT ![Coordinator] = Tail(mailbox[Coordinator])]
      /\ outbox' = [outbox EXCEPT ![Coordinator] = RoundPosts(s)]
      /\ Head(mailbox[Coordinator]) = Start
      /\ CountStarts(mailbox'[Coordinator]) = CountStarts(mailbox[Coordinator]) - 1
      /\ CountStarts(mailbox[Coordinator]) \in Nat /\ CountStarts(mailbox'[Coordinator]) \in Nat
  BY <1>1, <1>2, ReceiptFacts, MessageKinds DEF Sends
<1>4. outbox \in [Actors -> Seq(Post)] /\ mailbox \in [Actors -> Seq(Message)]
      /\ roundID \in 0..Starts /\ started \in 0..Starts /\ Starts \in Nat
  BY <1>1, RoundAssumption DEF RoundAssumption, TypeOK, Post
<1>5. /\ outbox'[Coordinator] = RoundPosts(s) /\ \A b \in Actors \ {Coordinator} : outbox'[b] = outbox[b]
      /\ mailbox'[Coordinator] = Tail(mailbox[Coordinator])
      /\ \A b \in Actors \ {Coordinator} : mailbox'[b] = mailbox[b]
  BY <1>2, <1>3, <1>4, Zenon
<1>6. driver # "down" /\ s <= started
  BY <1>0, <1>1, <1>3, <1>4 DEF StartsInv
<1>7. Len(RoundPosts(s)) = 1 + Len(Workers) /\ Len(Workers) \in Nat
      /\ RoundPosts(s)[1] = Envelope(Aggregator, Trigger(s))
      /\ \A i \in 2..Len(RoundPosts(s)) : i - 1 \in 1..Len(Workers) /\ RoundPosts(s)[i] = Envelope(Workers[i - 1], Train(s))
  BY <1>1, RoundPostsFacts, WorkersFacts
<1>8. DOMAIN Workers = 1..Len(Workers) /\ \A i \in 1..Len(Workers) : Workers[i] \in WorkerSet
  BY RoundAssumption DEF RoundAssumption
<1>9. ASSUME NEW r \in Rounds
      PROVE  /\ (Awaited(r)' <=> Awaited(r)) /\ (Reporting(r)' <=> Reporting(r)) /\ (Reported(r)' <=> Reported(r))
             /\ (Triggered(r)' <=> Triggered(r)) /\ (Made(r)' <=> Made(r)) /\ (Returned(r)' <=> Returned(r))
  <2>1. PICK w \in WorkerSet : TRUE
    BY RoundAssumption DEF RoundAssumption, WorkerSet
  <2>2. Start \notin ModelsOf(r)
    BY <2>1, PostSets
  <2>3. Returned(r)' <=> Returned(r)
    BY <1>2, <1>3, <1>4, <1>5, <2>2, TakenFacts DEF Returned
  <2> QED
    BY <1>1, <1>2, <1>5, <2>3 DEF Awaited, Reporting, Reported, Triggered, Made
<1>10. ASSUME NEW r \in Rounds, NEW w \in WorkerSet
       PROVE  /\ (Requested(r, w)' <=> Requested(r, w)) /\ (Answered(r, w)' <=> Answered(r, w))
              /\ (Arrived(r, w)' <=> Arrived(r, w)) /\ (Collected(r, w)' <=> Collected(r, w))
  BY <1>1, <1>2, <1>5 DEF Requested, Answered, Arrived, Collected
<1>11. ASSUME NEW r \in Rounds
       PROVE  Asked(r)' <=> r = s
  <2>1. PICK w \in WorkerSet : TRUE
    BY RoundAssumption DEF RoundAssumption, WorkerSet
  <2>2. \A i \in 1..Len(RoundPosts(s)) : RoundPosts(s)[i] \in TriggerPosts(r) <=> i = 1 /\ r = s
    BY <1>1, <1>7, <1>8, <2>1, PostSets
  <2> QED
    BY <1>5, <1>7, <2>2 DEF Asked, Has
<1>12. ASSUME NEW r \in Rounds, NEW w \in WorkerSet
       PROVE  Ordered(r, w)' <=> r = s
  <2>1. r # s => ~Ordered(r, w)'
    BY <1>1, <1>5, RoundPostsOnce DEF Ordered
  <2>2. Ordered(s, w)'
    <3>1. PICK j \in 1..Len(Workers) : Workers[j] = w
      BY <1>8 DEF WorkerSet
    <3>2. j + 1 \in 1..Len(RoundPosts(s)) /\ RoundPosts(s)[j + 1] = Envelope(w, Train(s))
      BY <1>7, <3>1
    <3> QED
      BY <1>5, <3>2 DEF Ordered, Has
  <2> QED
    BY <2>1, <2>2
<1>13. ASSUME NEW r \in Rounds, NEW w \in WorkerSet
       PROVE  Part(r, w)' = Part(r, w)
  <2>1. CASE r = s
    <3>1. r > roundID
      BY <1>0, <1>4, <2>1
    <3> QED
      BY <1>12, <2>1, <3>1 DEF Part
  <2>2. CASE r # s
    <3>1. ~Ordered(r, w)
      BY <1>3, ShortFacts DEF Ordered
    <3>2. r > roundID' <=> r > roundID
      BY <1>0, <1>1, <1>4, <2>2 DEF Rounds
    <3> QED
      BY <1>10, <1>12, <2>2, <3>1, <3>2, PartKept
  <2> QED
    BY <2>1, <2>2
<1>14. ASSUME NEW r \in Rounds, r # s
       PROVE  Status(r)' = Status(r)
  <2>1. ~Asked(r)
    BY <1>3, ShortFacts DEF Asked
  <2>2. r > roundID' <=> r > roundID
    BY <1>0, <1>1, <1>4, <1>14 DEF Rounds
  <2> QED
    BY <1>9, <1>11, <1>14, <2>1, <2>2, StatusKept DEF Modelled
<1>15. Status(s) = "ahead" /\ Status(s)' = "running"
  <2>1. PICK w \in WorkerSet : TRUE
    BY RoundAssumption DEF RoundAssumption, WorkerSet
  <2>2. s > roundID /\ ~(s > roundID')
    BY <1>0, <1>1, <1>4
  <2>3. ~Begun(s)
    BY <1>1, <2>1, <2>2, PlacesFacts DEF StepAt
  <2>4. ~Reported(s)' /\ ~Modelled(s)' /\ Asked(s)'
    BY <1>1, <1>9, <1>11, <2>3 DEF Begun, Modelled
  <2> QED
    BY <2>2, <2>4 DEF Status
<1>16. \A r \in Rounds : r < s => Status(r) # "ahead"
  <2> SUFFICES ASSUME NEW r \in Rounds, r < s PROVE Status(r) # "ahead"
    OBVIOUS
  <2>1. ~(r > roundID)
    BY <1>0, <1>4 DEF Rounds
  <2> QED
    BY <2>1 DEF Status
<1>17. Statuses' = [Statuses EXCEPT ![s] = "running"] /\ Parts' = Parts /\ Reports' = Reports
  BY <1>1, <1>13, <1>14, <1>15, StatusesChange, PartsKept DEF Reports
<1>18. \A r \in Rounds : Statuses[r] = Status(r)
  BY DEF Statuses
<1> QED
  BY <1>1, <1>6, <1>15, <1>16, <1>17, <1>18 DEF Contract!Begin, Contract!Round, Rounds

\* A model that evaluate() has taken is still to be reported.
LEMMA EvaluateRefines ==
  ASSUME RoundInv, Evaluate
  PROVE  UNCHANGED Contract!vars
<1> DEFINE m == Head(mailbox[Coordinator])
<1>1. TypeOK /\ mailbox \in [Actors -> Seq(Message)]
  BY DEF RoundInv, BaseInv, TypeOK
<1>2. /\ Coordinator \in Actors /\ Aggregator \in Actors /\ WorkerSet \subseteq Actors
      /\ Coordinator # Aggregator /\ Coordinator \notin WorkerSet
  BY Posts
<1>3. /\ mailbox[Coordinator] # <<>> /\ mailbox' = [mailbox EXCEPT ![Coordinator] = Tail(mailbox[Coordinator])]
      /\ m \in Message /\ m.type = "AggregatedModel" /\ reporting = None /\ reporting' = m
      /\ UNCHANGED <<outbox, roundID, updates, expected, results, run, driver, started>>
  BY <1>1, <1>2, ReceiptFacts DEF Evaluate, Receives, Busy, driverVars
<1>4. m \in ModelMessage /\ m # None
  <2>1. m \in ModelMessage
    BY <1>3, MessageKinds
  <2> QED
    BY <2>1, NoneAssumption DEF NoneAssumption
<1>5. /\ mailbox'[Coordinator] = Tail(mailbox[Coordinator])
      /\ \A b \in Actors \ {Coordinator} : mailbox'[b] = mailbox[b]
  BY <1>1, <1>2, <1>3, Zenon
<1>6. \A S : Has(mailbox[Coordinator], S) <=> m \in S \/ Has(mailbox'[Coordinator], S)
  BY <1>1, <1>2, <1>3, <1>5, TakenFacts
<1> HIDE DEF m
<1>7. ASSUME NEW r \in Rounds PROVE Status(r)' = Status(r)
  <2>1. (Returned(r) \/ Reporting(r))' <=> Returned(r) \/ Reporting(r)
    BY <1>3, <1>4, <1>6 DEF Returned, Reporting
  <2>2. /\ (Asked(r)' <=> Asked(r)) /\ (Triggered(r)' <=> Triggered(r)) /\ (Awaited(r)' <=> Awaited(r))
        /\ (Made(r)' <=> Made(r)) /\ (Reported(r)' <=> Reported(r)) /\ (r > roundID' <=> r > roundID)
    BY <1>2, <1>3, <1>5 DEF Asked, Triggered, Awaited, Made, Reported
  <2> QED
    BY <2>1, <2>2, StatusKept DEF Modelled
<1>8. ASSUME NEW r \in Rounds, NEW w \in WorkerSet PROVE Part(r, w)' = Part(r, w)
  <2>1. /\ (Ordered(r, w)' <=> Ordered(r, w)) /\ (Requested(r, w)' <=> Requested(r, w))
        /\ (Answered(r, w)' <=> Answered(r, w)) /\ (Arrived(r, w)' <=> Arrived(r, w))
        /\ (Collected(r, w)' <=> Collected(r, w)) /\ (r > roundID' <=> r > roundID)
    BY <1>2, <1>3, <1>5 DEF Ordered, Requested, Answered, Arrived, Collected
  <2> QED
    BY <2>1, PartKept
<1> QED
  BY <1>3, <1>7, <1>8, KeptStep

\* What a model reports that is made of one update of each worker, of this run.
LEMMA ResultFacts ==
  ASSUME NEW m \in ModelMessage, m \notin Bad(run)
  PROVE  ResultOf(m) = Contract!Result(m.round)
<1>0. DOMAIN m.updates = 1..Len(m.updates)
  BY DEF ModelMessage
<1>1. FromAll(m.updates) /\ ~Has(m.updates, Stale(run)) /\ m.updates \in Seq(UpdateMessage)
  BY DEF Bad, ModelMessage
<1>2. /\ Len(m.updates) = Len(Workers) /\ DOMAIN m.updates = 1..Len(m.updates)
      /\ \A j \in 1..Len(m.updates) : m.updates[j] \in UpdateMessage
      /\ \A w \in WorkerSet : \E j \in 1..Len(m.updates) : m.updates[j].worker = w
  BY <1>1 DEF FromAll
<1>3. \A u \in UpdateMessage : u.worker \in WorkerSet
  BY DEF UpdateMessage
<1>4. {m.updates[j].worker : j \in DOMAIN m.updates} = WorkerSet
  BY <1>2, <1>3
<1>5. \A j \in 1..Len(m.updates) : m.updates[j].data = run
  BY <1>1, <1>2 DEF Has, Stale
<1>6. Len(Workers) >= 1 /\ Len(Workers) \in Nat
  BY RoundAssumption DEF RoundAssumption
<1>7. 1 \in DOMAIN m.updates
  BY <1>2, <1>6
<1>8. {m.updates[j].data : j \in DOMAIN m.updates} = {run}
  BY <1>2, <1>5, <1>7
<1>9. ResultOf(m) = [round |-> m.round, workers |-> WorkerSet, updates |-> Len(Workers), runs |-> {run}]
  BY <1>2, <1>4, <1>8, Zenon DEF ResultOf
<1>10. Contract!Cardinality(WorkerSet) = Cardinality(WorkerSet)
  BY Zenon DEF Contract!Cardinality, Cardinality
<1> QED
  BY <1>9, <1>10, WorkersFacts, Zenon DEF Contract!Result

\* The results for the program, when one is added and when one is taken.
LEMMA ReportsAppend ==
  ASSUME results \in Seq(ModelMessage), NEW m, results' = Append(results, m)
  PROVE  Reports' = Append(Reports, ResultOf(m))
<1> DEFINE x == ResultOf(m)
           n == Len(results)
           V == {Reports[k] : k \in 1..n} \cup {x}
<1>1. n \in Nat /\ DOMAIN results = 1..n
  OBVIOUS
<1>2. /\ DOMAIN results' = 1..(n + 1)
      /\ \A k \in 1..n : results'[k] = results[k]
      /\ results'[n + 1] = m
  BY <1>1
<1>3. Reports = [k \in 1..n |-> ResultOf(results[k])]
  BY <1>1 DEF Reports
<1>4. Reports' = [k \in 1..(n + 1) |-> ResultOf(results'[k])]
  BY <1>2 DEF Reports
<1> HIDE DEF x, n
<1>5. Reports \in Seq(V) /\ Len(Reports) = n
  BY <1>1, <1>3
<1>6. /\ Append(Reports, x) \in Seq(V) /\ Len(Append(Reports, x)) = n + 1
      /\ \A k \in 1..n : Append(Reports, x)[k] = Reports[k]
      /\ Append(Reports, x)[n + 1] = x
  BY <1>5, AppendProperties
<1>7. \A k \in 1..(n + 1) : Reports'[k] = Append(Reports, x)[k]
  <2> SUFFICES ASSUME NEW k \in 1..(n + 1) PROVE Reports'[k] = Append(Reports, x)[k]
    OBVIOUS
  <2>1. CASE k = n + 1
    BY <1>2, <1>4, <1>6, <2>1 DEF x
  <2>2. CASE k # n + 1
    <3>1. k \in 1..n
      BY <1>1, <2>2
    <3> QED
      BY <1>2, <1>3, <1>4, <1>6, <3>1
  <2> QED
    BY <2>1, <2>2
<1>8. Append(Reports, x) = [k \in 1..(n + 1) |-> Append(Reports, x)[k]]
  BY <1>6, LenProperties
<1> QED
  BY <1>4, <1>7, <1>8 DEF x

\* The program reads a result: the first report is gone, the others move up.
LEMMA ReportsTail ==
  ASSUME results \in Seq(ModelMessage), results # <<>>, results' = Tail(results)
  PROVE  Reports' = Tail(Reports) /\ Reports # <<>> /\ Head(Reports) = ResultOf(Head(results))
<1> DEFINE n == Len(results)
           V == {Reports[k] : k \in 1..n}
<1>1. n \in Nat /\ n >= 1 /\ DOMAIN results = 1..n
  OBVIOUS
<1>2. /\ DOMAIN results' = 1..(n - 1)
      /\ \A k \in 1..(n - 1) : results'[k] = results[k + 1]
      /\ Head(results) = results[1]
  BY <1>1
<1>3. Reports = [k \in 1..n |-> ResultOf(results[k])]
  BY <1>1 DEF Reports
<1>4. Reports' = [k \in 1..(n - 1) |-> ResultOf(results'[k])]
  BY <1>2 DEF Reports
<1> HIDE DEF n
<1>5. Reports \in Seq(V) /\ Len(Reports) = n /\ Reports # <<>>
  <2>1. Reports \in Seq(V) /\ Len(Reports) = n
    BY <1>1, <1>3
  <2> QED
    BY <1>1, <2>1
<1>6. /\ Tail(Reports) \in Seq(V) /\ Len(Tail(Reports)) = n - 1
      /\ \A k \in 1..(n - 1) : Tail(Reports)[k] = Reports[k + 1]
      /\ Head(Reports) = Reports[1]
  BY <1>1, <1>5, HeadTailProperties
<1>7. \A k \in 1..(n - 1) : Reports'[k] = Tail(Reports)[k]
  <2> SUFFICES ASSUME NEW k \in 1..(n - 1) PROVE Reports'[k] = Tail(Reports)[k]
    OBVIOUS
  <2>1. k + 1 \in 1..n
    BY <1>1
  <2> QED
    BY <1>2, <1>3, <1>4, <1>6, <2>1
<1>8. Tail(Reports) = [k \in 1..(n - 1) |-> Tail(Reports)[k]]
  BY <1>6, LenProperties
<1>9. Reports' = Tail(Reports)
  BY <1>4, <1>7, <1>8
<1>10. Head(Reports) = ResultOf(Head(results))
  BY <1>1, <1>2, <1>3, <1>6
<1> QED
  BY <1>5, <1>9, <1>10

\* The program is told the result of a round whose model has been made.
LEMMA ReportRefines ==
  ASSUME RoundInv, Report
  PROVE  \E r \in Rounds : Contract!Report(r)
<1>1. /\ TypeOK /\ reporting \in ModelMessage \cup {None} /\ results \in Seq(ModelMessage)
      /\ reporting # None => reporting \notin Bad(run)
  BY DEF RoundInv, BaseInv, TypeOK, WorkInv, ModelsInv
<1>2. /\ reporting # None /\ results' = Append(results, reporting) /\ reporting' = None
      /\ UNCHANGED <<mailbox, outbox, roundID, updates, expected, run, driver, started>>
      /\ reporting \in ModelMessage
  BY <1>1 DEF Report
<1>3. PICK v \in WorkerSet : TRUE
  BY RoundAssumption DEF RoundAssumption, WorkerSet
<1>4. PICK s \in Rounds : s = reporting.round /\ \A r \in Rounds : reporting \in ModelsOf(r) <=> r = s
  <2>1. reporting.round \in Rounds
    BY <1>2 DEF ModelMessage
  <2>2. \A r \in Rounds : reporting \in ModelsOf(r) <=> r = reporting.round
    BY <1>2 DEF ModelsOf
  <2> QED
    BY <2>1, <2>2
<1>5. \A r \in Rounds : (Reporting(r) <=> r = s) /\ ~Reporting(r)'
  BY <1>2, <1>4 DEF Reporting
<1>6. \A r \in Rounds : Reported(r)' <=> Reported(r) \/ r = s
  BY <1>1, <1>2, <1>4, AppendFacts DEF Reported
<1>7. ASSUME NEW r \in Rounds
      PROVE  /\ (Asked(r)' <=> Asked(r)) /\ (Triggered(r)' <=> Triggered(r)) /\ (Awaited(r)' <=> Awaited(r))
             /\ (Made(r)' <=> Made(r)) /\ (Returned(r)' <=> Returned(r)) /\ (r > roundID' <=> r > roundID)
  BY <1>2 DEF Asked, Triggered, Awaited, Made, Returned
<1>8. Status(s) = "modelled" /\ Status(s)' = "reported"
  <2>1. Status(s) = "modelled" /\ ~(s > roundID)
    BY <1>3, <1>4, <1>5, PlacesFacts
  <2>2. ~(s > roundID') /\ Reported(s)'
    BY <1>4, <1>6, <1>7, <2>1
  <2> QED
    BY <2>1, <2>2 DEF Status
<1>9. \A r \in Rounds \ {s} : Status(r)' = Status(r)
  BY <1>5, <1>6, <1>7, StatusKept DEF Modelled
<1>10. ASSUME NEW r \in Rounds, NEW w \in WorkerSet PROVE Part(r, w)' = Part(r, w)
  BY <1>2, PartKept DEF Ordered, Requested, Answered, Arrived, Collected
<1>11. ResultOf(reporting) = Contract!Result(s)
  BY <1>1, <1>2, <1>4, ResultFacts
<1>12. Reports' = Append(Reports, Contract!Result(s))
  BY <1>1, <1>2, <1>11, ReportsAppend
<1>13. Statuses' = [Statuses EXCEPT ![s] = "reported"] /\ Parts' = Parts /\ Statuses[s] = Status(s)
  BY <1>4, <1>8, <1>9, <1>10, StatusesChange, PartsKept DEF Statuses
<1> QED
  BY <1>2, <1>4, <1>8, <1>12, <1>13 DEF Contract!Report

\* A worker does its part, or cannot load its partition and the part is lost.
LEMMA WorksRefines ==
  ASSUME RoundInv, NEW v \in WorkerSet, Works(v)
  PROVE  \E s \in Rounds : Contract!Train(s, v) \/ Contract!Lose(s, v)
<1> DEFINE m == Head(mailbox[v])
<1>1. /\ TypeOK /\ Receives(v, "TrainRequest")
      /\ UNCHANGED <<roundID, reporting, updates, expected, results, run, driver, started>>
      /\ outbox \in [Actors -> Seq(Post)] /\ mailbox \in [Actors -> Seq(Message)] /\ run \in 0..MaxRuns
  BY DEF RoundInv, BaseInv, TypeOK, Post, Works, WorkerTrains, WorkerCannotLoad, driverVars
<1>2. /\ Coordinator \in Actors /\ Aggregator \in Actors /\ WorkerSet \subseteq Actors /\ v \in Actors
      /\ v # Coordinator /\ v # Aggregator
  BY Posts
<1>3. /\ outbox[v] = <<>> /\ mailbox[v] # <<>> /\ m \in Message /\ m.type = "TrainRequest"
      /\ mailbox' = [mailbox EXCEPT ![v] = Tail(mailbox[v])]
  BY <1>1, <1>2, ReceiptFacts
<1>4. PICK s \in Rounds : m = Train(s)
  <2> HIDE DEF m
  <2> QED
    BY <1>3 DEF Message, Train, UpdateMessage, ModelMessage
<1>5. \/ Sends(v, <<Envelope(Aggregator, Update(s, v))>>)
      \/ outbox' = outbox
  <2>1. m.round = s
    BY <1>4 DEF Train
  <2> QED
    BY <2>1 DEF Works, WorkerTrains, WorkerCannotLoad
<1>6. Update(s, v) \in UpdateMessage /\ Update(s, v).round = s /\ Update(s, v).worker = v
  BY <1>1, <1>4 DEF Update, UpdateMessage
<1>7. /\ \A b \in Actors \ {v} : outbox'[b] = outbox[b] /\ mailbox'[b] = mailbox[b]
      /\ mailbox'[v] = Tail(mailbox[v])
      /\ outbox'[v] = <<Envelope(Aggregator, Update(s, v))>> \/ outbox'[v] = <<>>
  BY <1>1, <1>2, <1>3, <1>5, Zenon DEF Sends
<1>8. \A S : /\ Has(mailbox[v], S) <=> m \in S \/ Has(mailbox'[v], S)
             /\ Single(mailbox[v], S) /\ m \in S => ~Has(mailbox'[v], S)
  BY <1>1, <1>2, <1>3, <1>7, TakenFacts, TailFacts
<1> HIDE DEF m
<1>9. ASSUME NEW r \in Rounds PROVE Status(r)' = Status(r)
  <2>1. /\ (Asked(r)' <=> Asked(r)) /\ (Triggered(r)' <=> Triggered(r)) /\ (Awaited(r)' <=> Awaited(r))
        /\ (Made(r)' <=> Made(r)) /\ (Returned(r)' <=> Returned(r))
        /\ (Reporting(r)' <=> Reporting(r)) /\ (Reported(r)' <=> Reported(r)) /\ (r > roundID' <=> r > roundID)
    BY <1>1, <1>2, <1>7 DEF Asked, Triggered, Awaited, Made, Returned, Reporting, Reported
  <2> QED
    BY <2>1, StatusKept DEF Modelled
<1>10. ASSUME NEW r \in Rounds, NEW w \in WorkerSet
       PROVE  /\ (Ordered(r, w)' <=> Ordered(r, w)) /\ (Arrived(r, w)' <=> Arrived(r, w))
              /\ (Collected(r, w)' <=> Collected(r, w)) /\ (r > roundID' <=> r > roundID)
  BY <1>1, <1>2, <1>7 DEF Ordered, Arrived, Collected
<1>11. ASSUME NEW r \in Rounds, NEW w \in WorkerSet, r # s \/ w # v
       PROVE  Part(r, w)' = Part(r, w)
  <2>1. CASE w # v
    <3>1. w \in Actors \ {v}
      BY <1>2, <2>1
    <3>2. (Requested(r, w)' <=> Requested(r, w)) /\ (Answered(r, w)' <=> Answered(r, w))
      BY <1>7, <3>1 DEF Requested, Answered
    <3> QED
      BY <1>10, <3>2, PartKept
  <2>2. CASE w = v /\ r # s
    <3>1. m \notin {Train(r)} /\ Envelope(Aggregator, Update(s, v)) \notin Answers(r, v)
      BY <1>4, <1>6, <2>2, PostSets
    <3>2. Requested(r, v)' <=> Requested(r, v)
      BY <1>8, <3>1 DEF Requested
    <3>3. Answered(r, v)' <=> Answered(r, v)
      BY <1>3, <1>7, <3>1, ShortFacts DEF Answered
    <3> QED
      BY <1>10, <2>2, <3>2, <3>3, PartKept
  <2> QED
    BY <1>11, <2>1, <2>2
<1>12. Requested(s, v) /\ ~Requested(s, v)'
  <2>1. Single(mailbox[v], {Train(s)})
    BY PlacesFacts DEF OnceAt, SingleEach
  <2> QED
    BY <1>4, <1>8, <2>1 DEF Requested
<1>13. /\ ~Ordered(s, v) /\ ~Answered(s, v) /\ ~Arrived(s, v) /\ ~Collected(s, v)
       /\ ~(s > roundID) /\ Part(s, v) = "due" /\ Status(s) # "ahead"
  BY <1>12, PlacesFacts DEF OnceAt, InOnePlace
<1>14. CASE outbox'[v] = <<Envelope(Aggregator, Update(s, v))>>
  <2>1. Envelope(Aggregator, Update(s, v)) \in Answers(s, v)
    BY <1>6, PostSets
  <2>2. Answered(s, v)'
    BY <1>14, <2>1, ShortFacts DEF Answered
  <2>3. Part(s, v)' = "done"
    BY <1>10, <1>12, <1>13, <2>2 DEF Part
  <2>4. Parts' = [Parts EXCEPT ![s][v] = "done"] /\ Statuses' = Statuses /\ Reports' = Reports
    BY <1>1, <1>9, <1>11, <2>3, PartsChange, StatusesKept DEF Reports
  <2>5. Statuses[s] = Status(s) /\ Parts[s][v] = Part(s, v)
    BY DEF Statuses, Parts
  <2> QED
    BY <1>1, <1>13, <2>4, <2>5 DEF Contract!Train
<1>15. CASE outbox'[v] = <<>>
  <2>1. ~Answered(s, v)'
    BY <1>15, ShortFacts DEF Answered
  <2>2. Part(s, v)' = "gone"
    BY <1>10, <1>12, <1>13, <2>1 DEF Part
  <2> QED
    BY <1>1, <1>9, <1>11, <1>13, <2>2, LoseStep
<1> QED
  BY <1>7, <1>14, <1>15

\* The aggregator waits, or has all parts of a round and makes its model.
LEMMA AggregatesRefines ==
  ASSUME RoundInv, Aggregates
  PROVE  UNCHANGED Contract!vars \/ \E r \in Rounds : Contract!Aggregate(r)
<1> DEFINE box == mailbox[Aggregator]
           m == Head(box)
<1>1. /\ TypeOK /\ OutboxInv /\ KeptInv
      /\ outbox \in [Actors -> Seq(Post)] /\ mailbox \in [Actors -> Seq(Message)]
      /\ updates \in [Rounds -> Seq(UpdateMessage)] /\ expected \in [Rounds -> {Len(Workers), None}]
  BY DEF RoundInv, WorkInv, BaseInv, TypeOK, Post
<1>2. /\ Coordinator \in Actors /\ Aggregator \in Actors /\ WorkerSet \subseteq Actors
      /\ Coordinator # Aggregator /\ Coordinator \notin WorkerSet /\ Aggregator \notin WorkerSet
  BY Posts
<1>3. /\ box # <<>> /\ outbox[Aggregator] = <<>> /\ mailbox' = [mailbox EXCEPT ![Aggregator] = Tail(box)]
      /\ UNCHANGED <<roundID, reporting, results, run, driver, started>>
  BY <1>1, AggregatesFacts DEF driverVars
<1>4. box \in Seq(Message) /\ m \in Message
  <2>1. box \in Seq(Message)
    BY <1>1, <1>2
  <2> HIDE DEF box
  <2> QED
    BY <1>3, <2>1, TailFacts
<1>5. PICK r \in Rounds, n \in {Len(Workers), None}, ups \in Seq(UpdateMessage) :
        /\ Collect(r, n, ups)
        /\ ~Has(ups, Foreign(r, run))
        /\ \A w \in WorkerSet :
             /\ Single(ups, UpdatesOf(r, w))
             /\ Has(ups, UpdatesOf(r, w)) =>
                  \/ Keeps(updates[r], ups, UpdatesOf(r, w))
                  \/ ~Arrived(r, w)' /\ Arrived(r, w)
        /\ m.round = r
        /\ \/ m.type = "AggregateTrigger" /\ n = Len(Workers) /\ ups = updates[r]
           \/ m \in UpdateMessage /\ n = expected[r] /\ ups = Append(updates[r], m)
  BY CollectedFacts
<1> DEFINE post == Envelope(Coordinator, Model(r, ups))
<1>6. \/ /\ Complete(n, ups) /\ updates' = [updates EXCEPT ![r] = <<>>]
         /\ expected' = [expected EXCEPT ![r] = None]
         /\ outbox' = [outbox EXCEPT ![Aggregator] = <<post>>]
      \/ /\ ~Complete(n, ups) /\ updates' = [updates EXCEPT ![r] = ups]
         /\ expected' = [expected EXCEPT ![r] = n] /\ outbox' = outbox
  BY <1>5 DEF Collect, Sends
<1>7. /\ \A b \in Actors \ {Aggregator} : outbox'[b] = outbox[b] /\ mailbox'[b] = mailbox[b]
      /\ mailbox'[Aggregator] = Tail(box)
      /\ \A s \in Rounds \ {r} : expected'[s] = expected[s] /\ updates'[s] = updates[s]
      /\ Complete(n, ups) => updates'[r] = <<>> /\ expected'[r] = None /\ outbox'[Aggregator] = <<post>>
      /\ ~Complete(n, ups) => updates'[r] = ups /\ expected'[r] = n /\ outbox'[Aggregator] = outbox[Aggregator]
  BY <1>1, <1>2, <1>3, <1>5, <1>6, Zenon
<1> HIDE DEF post
<1>5a. \/ m = Trigger(r) /\ n = Len(Workers) /\ ups = updates[r]
       \/ m \in UpdateMessage /\ m.round = r /\ n = expected[r] /\ ups = Append(updates[r], m)
  <2> HIDE DEF m
  <2>1. m.type = "AggregateTrigger" => m = Trigger(r)
    BY <1>4, <1>5 DEF Message, UpdateMessage, ModelMessage, Trigger
  <2> QED
    BY <1>5, <2>1
<1>8. \A S : /\ Has(box, S) <=> m \in S \/ Has(mailbox'[Aggregator], S)
             /\ Single(box, S) /\ m \in S => ~Has(mailbox'[Aggregator], S)
  <2> HIDE DEF box
  <2>1. box \in Seq(Message) /\ box # <<>> /\ m = Head(box) /\ mailbox'[Aggregator] = Tail(box)
    BY <1>3, <1>4, <1>7 DEF m
  <2> HIDE DEF m
  <2>2. \A S : Has(box, S) <=> m \in S \/ Has(Tail(box), S)
    BY <2>1, TakenFacts
  <2>3. \A S : Single(box, S) /\ m \in S => ~Has(Tail(box), S)
    BY <2>1, TailFacts
  <2> QED
    BY <2>1, <2>2, <2>3, Zenon
<1> HIDE DEF m, box
<1>9. ASSUME NEW s \in Rounds, NEW w \in WorkerSet
      PROVE  /\ (Ordered(s, w)' <=> Ordered(s, w)) /\ (Requested(s, w)' <=> Requested(s, w))
             /\ (Answered(s, w)' <=> Answered(s, w)) /\ (s > roundID' <=> s > roundID)
  BY <1>2, <1>3, <1>7 DEF Ordered, Requested, Answered
<1>10. ASSUME NEW s \in Rounds
       PROVE  /\ (Asked(s)' <=> Asked(s)) /\ (Returned(s)' <=> Returned(s))
              /\ (Reporting(s)' <=> Reporting(s)) /\ (Reported(s)' <=> Reported(s)) /\ ~Made(s)
              /\ s > roundID' <=> s > roundID
  BY <1>2, <1>3, <1>7, ShortFacts DEF Asked, Returned, Reporting, Reported, Made
<1>11. PICK v \in WorkerSet : TRUE
  BY RoundAssumption DEF RoundAssumption, WorkerSet
<1>12. \A s \in Rounds, w \in WorkerSet :
         /\ m \in UpdatesOf(s, w) <=> m \in UpdateMessage /\ s = r /\ m.worker = w
         /\ m \in {Trigger(s)} <=> m = Trigger(r) /\ s = r
  <2> SUFFICES ASSUME NEW s \in Rounds, NEW w \in WorkerSet
      PROVE  /\ m \in UpdatesOf(s, w) <=> m \in UpdateMessage /\ s = r /\ m.worker = w
             /\ m \in {Trigger(s)} <=> m = Trigger(r) /\ s = r
    OBVIOUS
  <2>1. CASE m = Trigger(r)
    <3>1. m \notin UpdateMessage /\ m \notin UpdatesOf(s, w)
      BY <2>1 DEF Trigger, UpdateMessage, UpdatesOf
    <3>2. m \in {Trigger(s)} <=> s = r
      BY <2>1, PostSets
    <3> QED
      BY <2>1, <3>1, <3>2
  <2>2. CASE m \in UpdateMessage /\ m.round = r
    <3>1. m \notin {Trigger(s)} /\ m \notin {Trigger(r)}
      BY <2>2, PostSets
    <3> QED
      BY <2>2, <3>1 DEF UpdatesOf
  <2> QED
    BY <1>5a, <2>1, <2>2
<1>13. ASSUME NEW s \in Rounds, s # r, NEW w \in WorkerSet PROVE Part(s, w)' = Part(s, w)
  <2>1. Arrived(s, w)' <=> Arrived(s, w)
    BY <1>8, <1>12, <1>13 DEF Arrived, box
  <2>2. Collected(s, w)' <=> Collected(s, w)
    BY <1>7, <1>13 DEF Collected
  <2> QED
    BY <1>9, <2>1, <2>2, PartKept
<1>14. Model(r, ups) \in ModelMessage /\ Model(r, ups).round = r
  BY <1>5 DEF Model, ModelMessage
<1>15. \A s \in Rounds : post \in ModelPosts(s) <=> s = r
  BY <1>11, <1>14, PostSets DEF post
<1>16. \A s \in Rounds : Made(s)' <=> Complete(n, ups) /\ s = r
  <2>1. \A s \in Rounds : Has(<<post>>, ModelPosts(s)) <=> s = r
    BY <1>15, ShortFacts
  <2>2. \A s \in Rounds : ~Has(outbox[Aggregator], ModelPosts(s))
    BY <1>3, ShortFacts
  <2> QED
    BY <1>7, <2>1, <2>2 DEF Made
<1>17. ASSUME NEW s \in Rounds, s # r PROVE Status(s)' = Status(s)
  <2>1. Triggered(s)' <=> Triggered(s)
    BY <1>8, <1>12, <1>17 DEF Triggered, box
  <2>2. (Awaited(s)' <=> Awaited(s)) /\ ~Made(s)'
    BY <1>7, <1>16, <1>17 DEF Awaited
  <2> QED
    BY <1>10, <2>1, <2>2, StatusKept DEF Modelled
<1>18. Len(Workers) # None
  BY WorkersFacts, NoneAssumption DEF NoneAssumption
<1>19. Triggered(r) \/ Awaited(r) <=> m = Trigger(r) \/ Triggered(r)' \/ Awaited(r)
  BY <1>8, <1>12 DEF Triggered, box
<1>20. CASE ~Complete(n, ups)
  <2>1. (Triggered(r) \/ Awaited(r))' <=> Triggered(r) \/ Awaited(r)
    <3>1. Awaited(r)' <=> n # None
      BY <1>7, <1>20 DEF Awaited
    <3>2. CASE m = Trigger(r) /\ n = Len(Workers)
      BY <1>18, <1>19, <3>1, <3>2
    <3>3. CASE m \in UpdateMessage /\ n = expected[r]
      <4>1. m # Trigger(r)
        BY <1>11, <3>3, PostSets
      <4> QED
        BY <1>19, <3>1, <3>3, <4>1 DEF Awaited
    <3> QED
      BY <1>5a, <3>2, <3>3
  <2>2. Status(r)' = Status(r)
    BY <1>10, <1>16, <1>20, <2>1, StatusKept DEF Modelled
  <2>3. ASSUME NEW w \in WorkerSet PROVE Part(r, w)' = Part(r, w)
    <3>1. (Arrived(r, w) \/ Collected(r, w))' <=> Arrived(r, w) \/ Collected(r, w)
      <4>1. Arrived(r, w) <=> m \in UpdatesOf(r, w) \/ Arrived(r, w)'
        BY <1>8 DEF Arrived, box
      <4>2. Collected(r, w)' <=> Has(ups, UpdatesOf(r, w))
        BY <1>7, <1>20 DEF Collected
      <4>3. CASE m = Trigger(r) /\ ups = updates[r]
        <5>1. m \notin UpdatesOf(r, w)
          BY <4>3, PostSets
        <5> QED
          BY <4>1, <4>2, <4>3, <5>1 DEF Collected
      <4>4. CASE ups = Append(updates[r], m)
        <5>1. updates[r] \in Seq(UpdateMessage)
          BY <1>1
        <5>2. Has(ups, UpdatesOf(r, w)) <=> Has(updates[r], UpdatesOf(r, w)) \/ m \in UpdatesOf(r, w)
          BY <4>4, <5>1, AppendFacts
        <5> QED
          BY <4>1, <4>2, <5>2 DEF Collected
      <4> QED
        BY <1>5a, <4>3, <4>4
    <3> QED
      BY <1>9, <3>1, PartKept
  <2> QED
    BY <1>3, <1>13, <1>17, <2>2, <2>3, KeptStep
<1>21. CASE Complete(n, ups)
  <2>1. Triggered(r) \/ Awaited(r)
    <3>1. CASE n = expected[r]
      BY <1>21, <3>1 DEF Complete, Awaited
    <3> QED
      BY <1>5a, <1>19, <3>1
  <2>2. Status(r) = "running" /\ ~Modelled(r) /\ ~(r > roundID)
    BY <1>11, <2>1, PlacesFacts DEF StepAt, AtOneStep
  <2>3. Status(r)' = "modelled"
    BY <1>10, <1>16, <1>21, <2>2 DEF Status, Modelled
  <2>4. ASSUME NEW w \in WorkerSet PROVE Collected(r, w) \/ (Arrived(r, w) /\ ~Arrived(r, w)')
    <3>1. FromAll(ups)
      BY <1>5, <1>21, Pigeons DEF Complete
    <3>2. PICK j \in 1..Len(ups) : ups[j].worker = w
      BY <3>1 DEF FromAll
    <3>3. ups[j] \in UpdateMessage /\ ups[j] \notin Foreign(r, run)
      BY <1>5, <3>2 DEF Has
    <3>4. Has(ups, UpdatesOf(r, w))
      BY <3>2, <3>3 DEF Has, UpdatesOf, Foreign
    <3> QED
      BY <1>5, <3>4 DEF Keeps, Collected
  <2>5. ASSUME NEW w \in WorkerSet PROVE Part(r, w) = "done" /\ Part(r, w)' = "gone"
    <3>1. OnceAt(r, w) /\ Part(r, w) = "done"
      BY <2>4, PlacesFacts
    <3>2. ~Ordered(r, w) /\ ~Requested(r, w) /\ ~Answered(r, w)
      BY <2>4, <3>1 DEF OnceAt, InOnePlace
    <3>3. ~Collected(r, w)'
      BY <1>7, <1>21, ShortFacts DEF Collected
    <3>4. ~Arrived(r, w)'
      BY <1>8, <2>4, <3>1 DEF OnceAt, InOnePlace, Arrived, box
    <3> QED
      BY <1>9, <2>2, <3>1, <3>2, <3>3, <3>4 DEF Part
  <2>6. Statuses' = [Statuses EXCEPT ![r] = "modelled"] /\ Reports' = Reports
    BY <1>3, <1>17, <2>3, StatusesChange DEF Reports
  <2>7. Parts' = [Parts EXCEPT ![r] = [w \in WorkerSet |-> "gone"]]
    BY <1>13, <2>5 DEF Parts
  <2>8. Statuses[r] = Status(r) /\ \A w \in WorkerSet : Parts[r][w] = Part(r, w)
    BY DEF Statuses, Parts
  <2> QED
    BY <1>3, <2>2, <2>5, <2>6, <2>7, <2>8 DEF Contract!Aggregate
<1> QED
  BY <1>20, <1>21

\* As long as the actors stand still, rounds and parts are where they were.
LEMMA ActorsKept ==
  ASSUME UNCHANGED <<mailbox, outbox, roundID, reporting, updates, expected, results>>
  PROVE  Statuses' = Statuses /\ Parts' = Parts /\ Reports' = Reports
<1>1. ASSUME NEW r \in Rounds PROVE Status(r)' = Status(r)
  BY StatusKept DEF Asked, Triggered, Awaited, Made, Returned, Reporting, Reported, Modelled
<1>2. ASSUME NEW r \in Rounds, NEW w \in WorkerSet PROVE Part(r, w)' = Part(r, w)
  BY PartKept DEF Ordered, Requested, Answered, Arrived, Collected
<1> QED
  BY <1>1, <1>2, StatusesKept, PartsKept DEF Reports

\* If the results read are as many as the rounds, no round is open.
LEMMA NoneOpen ==
  ASSUME NEW O \in SUBSET Rounds, Starts + Cardinality(O) <= Starts
  PROVE  O = {}
<1>1. Starts \in Nat /\ IsFiniteSet(1..Starts)
  BY RoundAssumption, FS_Interval DEF RoundAssumption
<1>2. IsFiniteSet(O) /\ Cardinality(O) \in Nat
  BY <1>1, FS_Subset, FS_CardinalityType DEF Rounds
<1> QED
  BY <1>1, <1>2, FS_EmptySet

\* A run begins where nothing of another is left.
LEMMA LaunchRefines ==
  ASSUME RoundInv, Patient, LaunchCoordinator \/ LaunchRound
  PROVE  Contract!Launch
<1>1. /\ FreshInv /\ EndInv /\ run \in 0..MaxRuns /\ results \in Seq(ModelMessage) /\ MaxRuns \in Nat
  BY RoundAssumption DEF RoundAssumption, RoundInv, WorkInv, BaseInv, TypeOK
<1>2. /\ driver = "down" /\ driver' = "waiting" /\ run' = run + 1 /\ roundID' = 0 /\ started' = 0
      /\ UNCHANGED <<mailbox, outbox, reporting, updates, expected, results>>
      /\ run = 0 \/ MaxRuns # 1
  BY <1>1 DEF LaunchCoordinator, LaunchRound, Launch
<1>3. \A r \in Rounds : ~Begun(r) /\ \A w \in WorkerSet : Nowhere(r, w)
  BY <1>2, Idle
<1>4. run # 0 => \A r \in Rounds : ~(r > roundID)
  <2> SUFFICES ASSUME run # 0 PROVE \A r \in Rounds : ~(r > roundID)
    OBVIOUS
  <2>1. Open \in SUBSET Rounds
    BY DEF Open
  <2>2. Starts + Cardinality(Open) <= Starts
    BY <1>1, <1>2 DEF EndInv
  <2>3. Open = {}
    <3> HIDE DEF Open
    <3> QED
      BY <2>1, <2>2, NoneOpen
  <2> QED
    BY <2>3 DEF Open, IsOpen
<1>5. run # 0 => \A r \in Rounds : Contract!Over(r)
  <2>1. ASSUME run # 0, NEW r \in Rounds PROVE Status(r) = "over" /\ \A w \in WorkerSet : Part(r, w) = "gone"
    <3>1. ~(r > roundID) /\ ~Begun(r) /\ \A w \in WorkerSet : Nowhere(r, w)
      BY <1>3, <1>4, <2>1
    <3> QED
      BY <3>1, PlacesFacts DEF Begun, Modelled, Nowhere, Status, Part
  <2> QED
    BY <2>1 DEF Contract!Over, Statuses, Parts
<1>6. results = <<>> /\ Reports = <<>> /\ Reports' = Reports
  <2>1. ASSUME results # <<>> PROVE FALSE
    <3>1. Head(results) \in ModelMessage
      BY <1>1, <2>1, TailFacts
    <3>2. Head(results).round \in Rounds /\ Head(results) \in ModelsOf(Head(results).round)
      BY <3>1 DEF ModelMessage, ModelsOf
    <3>3. Has(results, ModelsOf(Head(results).round))
      BY <1>1, <2>1, <3>2, TailFacts
    <3> QED
      BY <1>3, <3>2, <3>3 DEF Begun, Modelled, Reported
  <2> QED
    BY <1>2, <2>1 DEF Reports
<1>7. /\ Statuses' = [r \in Rounds |-> "ahead"]
      /\ Parts' = [r \in Rounds |-> [w \in WorkerSet |-> "due"]]
  <2>1. \A r \in Rounds : r > roundID'
    BY <1>2 DEF Rounds
  <2>2. \A r \in Rounds : Status(r)' = "ahead" /\ \A w \in WorkerSet : Part(r, w)' = "due"
    BY <2>1 DEF Status, Part
  <2> QED
    BY <2>2 DEF Statuses, Parts
<1> QED
  BY <1>2, <1>5, <1>6, <1>7 DEF Contract!Launch, Contract!Round, Rounds

\* The program asks for a round.
LEMMA TellStartRefines ==
  ASSUME RoundInv, TellStart
  PROVE  Contract!Ask
<1>1. /\ driver = "waiting" /\ started < Starts /\ started' = started + 1
      /\ mailbox' = [mailbox EXCEPT ![Coordinator] = Append(mailbox[Coordinator], Start)]
      /\ UNCHANGED <<outbox, roundID, reporting, updates, expected, driver, results, run>>
      /\ mailbox \in [Actors -> Seq(Message)]
  BY DEF TellStart, RoundInv, BaseInv, TypeOK
<1>2. /\ Coordinator \in Actors /\ Aggregator \in Actors /\ WorkerSet \subseteq Actors
      /\ Coordinator # Aggregator /\ Coordinator \notin WorkerSet
  BY Posts
<1>3. /\ mailbox'[Coordinator] = Append(mailbox[Coordinator], Start)
      /\ \A b \in Actors \ {Coordinator} : mailbox'[b] = mailbox[b]
  BY <1>1, <1>2, Zenon
<1>4. ASSUME NEW r \in Rounds PROVE Status(r)' = Status(r)
  <2>1. Start \notin ModelsOf(r)
    BY Messages DEF ModelsOf
  <2>2. Returned(r)' <=> Returned(r)
    BY <1>1, <1>2, <1>3, <2>1, AppendFacts DEF Returned
  <2>3. /\ (Asked(r)' <=> Asked(r)) /\ (Triggered(r)' <=> Triggered(r)) /\ (Awaited(r)' <=> Awaited(r))
        /\ (Made(r)' <=> Made(r)) /\ (Reporting(r)' <=> Reporting(r)) /\ (Reported(r)' <=> Reported(r))
        /\ (r > roundID' <=> r > roundID)
    BY <1>1, <1>2, <1>3 DEF Asked, Triggered, Awaited, Made, Reporting, Reported
  <2> QED
    BY <2>2, <2>3, StatusKept DEF Modelled
<1>5. ASSUME NEW r \in Rounds, NEW w \in WorkerSet PROVE Part(r, w)' = Part(r, w)
  <2>1. /\ (Ordered(r, w)' <=> Ordered(r, w)) /\ (Requested(r, w)' <=> Requested(r, w))
        /\ (Answered(r, w)' <=> Answered(r, w)) /\ (Arrived(r, w)' <=> Arrived(r, w))
        /\ (Collected(r, w)' <=> Collected(r, w)) /\ (r > roundID' <=> r > roundID)
    BY <1>1, <1>2, <1>3 DEF Ordered, Requested, Answered, Arrived, Collected
  <2> QED
    BY <2>1, PartKept
<1>6. Statuses' = Statuses /\ Parts' = Parts /\ Reports' = Reports
  BY <1>1, <1>4, <1>5, StatusesKept, PartsKept DEF Reports
<1> QED
  BY <1>1, <1>6 DEF Contract!Ask

\* The program reads a result; with the last one all rounds are over.
LEMMA ReadResultRefines ==
  ASSUME RoundInv, RoundInv', ReadResult
  PROVE  Contract!Read
<1>1. /\ results \in Seq(ModelMessage) /\ read \in 0..Starts /\ EndInv'
  BY DEF RoundInv, BaseInv, TypeOK
<1>2. /\ driver = "waiting" /\ results # <<>> /\ results' = Tail(results) /\ read' = read + 1
      /\ driver' = IF read + 1 = Starts THEN "closing" ELSE "waiting"
      /\ UNCHANGED <<mailbox, outbox, roundID, reporting, updates, expected, run, started>>
  BY DEF ReadResult, actorVars
<1>3. PICK v \in WorkerSet : TRUE
  BY RoundAssumption DEF RoundAssumption, WorkerSet
<1>4. PICK s \in Rounds : s = Head(results).round /\ \A r \in Rounds : Head(results) \in ModelsOf(r) <=> r = s
  <2>1. Head(results) \in ModelMessage
    BY <1>1, <1>2, TailFacts
  <2>2. Head(results).round \in Rounds
    BY <2>1 DEF ModelMessage
  <2>3. \A r \in Rounds : Head(results) \in ModelsOf(r) <=> r = Head(results).round
    BY <2>1 DEF ModelsOf
  <2> QED
    BY <2>2, <2>3
<1>5. \A S : /\ Has(results, S) <=> Head(results) \in S \/ Has(results', S)
             /\ Single(results, S) /\ Head(results) \in S => ~Has(results', S)
  BY <1>1, <1>2, TakenFacts, TailFacts
<1>6. ASSUME NEW r \in Rounds
      PROVE  /\ (Asked(r)' <=> Asked(r)) /\ (Triggered(r)' <=> Triggered(r)) /\ (Awaited(r)' <=> Awaited(r))
             /\ (Made(r)' <=> Made(r)) /\ (Returned(r)' <=> Returned(r)) /\ (Reporting(r)' <=> Reporting(r))
             /\ (r > roundID' <=> r > roundID)
  BY <1>2 DEF Asked, Triggered, Awaited, Made, Returned, Reporting
<1>7. \A r \in Rounds \ {s} : Status(r)' = Status(r)
  <2> SUFFICES ASSUME NEW r \in Rounds, r # s PROVE Status(r)' = Status(r)
    OBVIOUS
  <2>1. Reported(r)' <=> Reported(r)
    BY <1>4, <1>5 DEF Reported
  <2> QED
    BY <1>6, <2>1, StatusKept DEF Modelled
<1>8. Status(s)' = "over"
  <2>1. StepAt(s)
    BY <1>3, PlacesFacts
  <2>2. Reported(s) /\ ~Reported(s)'
    BY <1>4, <1>5, <2>1 DEF Reported, StepAt, SingleSteps
  <2>3. /\ ~Asked(s) /\ ~Triggered(s) /\ ~Awaited(s) /\ ~Made(s) /\ ~Returned(s) /\ ~Reporting(s)
        /\ ~(s > roundID)
    BY <2>1, <2>2 DEF StepAt, AtOneStep, Begun, Modelled
  <2> QED
    BY <1>6, <2>2, <2>3 DEF Status, Modelled
<1>9. ASSUME NEW r \in Rounds, NEW w \in WorkerSet PROVE Part(r, w)' = Part(r, w)
  BY <1>2, PartKept DEF Ordered, Requested, Answered, Arrived, Collected
<1>10. Statuses' = [Statuses EXCEPT ![s] = "over"] /\ Parts' = Parts
  BY <1>7, <1>8, <1>9, StatusesChange, PartsKept
<1>11. Reports # <<>> /\ Reports' = Tail(Reports) /\ Head(Reports).round = s
  <2>1. Reports # <<>> /\ Reports' = Tail(Reports) /\ Head(Reports) = ResultOf(Head(results))
    BY <1>1, <1>2, ReportsTail
  <2>2. ResultOf(Head(results)).round = s
    BY <1>4 DEF ResultOf
  <2> QED
    BY <2>1, <2>2
<1>12. driver' = driver \/ (driver' = "closing" /\ \A r \in Rounds : Contract!Over(r)')
  <2>1. CASE read + 1 = Starts
    <3>1. Open' \in SUBSET Rounds
      BY DEF Open
    <3>2. Starts + Cardinality(Open') <= Starts
      BY <1>1, <1>2, <2>1 DEF EndInv
    <3>3. Open' = {}
      <4> HIDE DEF Open
      <4> QED
        BY <3>1, <3>2, NoneOpen
    <3>4. \A r \in Rounds : ~IsOpen(r)'
      BY <3>3 DEF Open
    <3>5. \A r \in Rounds : Status(r)' = "over" /\ \A w \in WorkerSet : Part(r, w)' = "gone"
      BY <3>4 DEF IsOpen, Begun, Modelled, Nowhere, Status, Part
    <3> QED
      BY <1>2, <2>1, <3>5 DEF Contract!Over, Statuses, Parts
  <2>2. CASE read + 1 # Starts
    BY <1>2, <2>2
  <2> QED
    BY <2>1, <2>2
<1> QED
  BY <1>2, <1>10, <1>11, <1>12 DEF Contract!Read, Contract!Round, Rounds

\* The coordinator's process ends and takes what it held along.
LEMMA ProcessExitsRefines ==
  ASSUME RoundInv, ProcessExits
  PROVE  Contract!Exit
<1>1. /\ driver = "closing" /\ driver' = "down" /\ reporting' = None /\ results' = <<>>
      /\ mailbox' = [mailbox EXCEPT ![Coordinator] = <<>>] /\ outbox' = [outbox EXCEPT ![Coordinator] = <<>>]
      /\ UNCHANGED <<roundID, updates, expected, started, run>>
      /\ outbox \in [Actors -> Seq(Post)] /\ mailbox \in [Actors -> Seq(Message)]
  BY DEF ProcessExits, RoundInv, BaseInv, TypeOK, Post
<1>2. /\ Coordinator \in Actors /\ Aggregator \in Actors /\ WorkerSet \subseteq Actors
      /\ Coordinator # Aggregator /\ Coordinator \notin WorkerSet
  BY Posts
<1>3. /\ mailbox'[Coordinator] = <<>> /\ outbox'[Coordinator] = <<>>
      /\ \A b \in Actors \ {Coordinator} : mailbox'[b] = mailbox[b] /\ outbox'[b] = outbox[b]
  BY <1>1, <1>2, Zenon
<1>4. PICK v \in WorkerSet : TRUE
  BY RoundAssumption DEF RoundAssumption, WorkerSet
<1>5. ASSUME NEW r \in Rounds
      PROVE  /\ Status(r)' = Status(r) \/ Status(r)' = "over"
             /\ Status(r) = "ahead" => Status(r)' = "ahead"
             /\ Status(r) = "reported" => Status(r)' = "over"
  <2>1. /\ ~Asked(r)' /\ ~Returned(r)' /\ ~Reporting(r)' /\ ~Reported(r)'
        /\ (Triggered(r)' <=> Triggered(r)) /\ (Awaited(r)' <=> Awaited(r)) /\ (Made(r)' <=> Made(r))
        /\ (r > roundID' <=> r > roundID)
    BY <1>1, <1>2, <1>3, ShortFacts DEF Asked, Returned, Reporting, Reported, Triggered, Awaited, Made
  <2>2. AtOneStep(r)
    BY <1>4, PlacesFacts DEF StepAt
  <2> QED
    BY <2>1, <2>2 DEF AtOneStep, Modelled, Status
<1>6. ASSUME NEW r \in Rounds, NEW w \in WorkerSet
      PROVE  /\ Part(r, w)' = Part(r, w) \/ Part(r, w)' = "gone"
             /\ Status(r) = "ahead" => Part(r, w)' = Part(r, w)
  <2>1. /\ ~Ordered(r, w)' /\ (Requested(r, w)' <=> Requested(r, w)) /\ (Answered(r, w)' <=> Answered(r, w))
        /\ (Arrived(r, w)' <=> Arrived(r, w)) /\ (Collected(r, w)' <=> Collected(r, w))
        /\ (r > roundID' <=> r > roundID)
    BY <1>1, <1>2, <1>3, ShortFacts DEF Ordered, Requested, Answered, Arrived, Collected
  <2>2. InOnePlace(r, w)
    BY PlacesFacts DEF OnceAt
  <2>3. Status(r) = "ahead" => r > roundID
    BY DEF Status
  <2> QED
    BY <2>1, <2>2, <2>3 DEF InOnePlace, Part
<1> DEFINE R == {r \in Rounds : Status(r) # "ahead" /\ Status(r)' = "over"}
           P == {p \in Rounds \X WorkerSet : Status(p[1]) # "ahead" /\ Part(p[1], p[2])' = "gone"}
<1>7. /\ R \in SUBSET {r \in Rounds : Statuses[r] # "ahead"}
      /\ {r \in Rounds : Statuses[r] = "reported"} \subseteq R
  BY <1>5 DEF Statuses
<1>8. P \in SUBSET {p \in Rounds \X WorkerSet : Statuses[p[1]] # "ahead"}
  BY DEF Statuses
<1>9. Statuses' = [r \in Rounds |-> IF r \in R THEN "over" ELSE Statuses[r]]
  BY <1>5 DEF Statuses
<1>10. Parts' = [r \in Rounds |-> [w \in WorkerSet |-> IF <<r, w>> \in P THEN "gone" ELSE Parts[r][w]]]
  <2>1. ASSUME NEW r \in Rounds, NEW w \in WorkerSet
        PROVE  Part(r, w)' = IF <<r, w>> \in P THEN "gone" ELSE Part(r, w)
    BY <1>6
  <2> HIDE DEF P
  <2> QED
    BY <2>1 DEF Parts
<1>11. Reports' = <<>>
  BY <1>1 DEF Reports
<1> HIDE DEF R, P
<1> QED
  BY <1>1, <1>7, <1>8, <1>9, <1>10, <1>11 DEF Contract!Exit, Contract!Round, Rounds

\* A first run can be begun, and nothing of it has been.
LEMMA InitRefines == Init => Contract!Init
<1> SUFFICES ASSUME Init PROVE Contract!Init
  OBVIOUS
<1>1. run = 0 /\ driver = "down" /\ started = 0 /\ results = <<>> /\ roundID = 0
  BY DEF Init
<1>2. \A r \in Rounds : r > roundID
  BY <1>1 DEF Rounds
<1>3. \A r \in Rounds : Status(r) = "ahead" /\ \A w \in WorkerSet : Part(r, w) = "due"
  BY <1>2 DEF Status, Part
<1>4. Statuses = [r \in Rounds |-> "ahead"] /\ Parts = [r \in Rounds |-> [w \in WorkerSet |-> "due"]]
  BY <1>3 DEF Statuses, Parts
<1>5. Reports = <<>>
  BY <1>1 DEF Reports
<1> QED
  BY <1>1, <1>4, <1>5 DEF Contract!Init, Contract!Round, Rounds

\* Each step is one of the contract's, or none.
LEMMA NextRefines ==
  ASSUME RoundInv, RoundInv', DeliveredOnce, Patient, [Next]_vars
  PROVE  [Contract!Next]_(Contract!vars)
<1> SUFFICES Contract!Next \/ UNCHANGED Contract!vars
  OBVIOUS
<1>1. TypeOK /\ FreshInv /\ Rounds = Contract!Round
  BY DEF RoundInv, WorkInv, BaseInv, Rounds, Contract!Round
<1>2. CASE \E a \in Actors : Sending(a)
  <2>1. PICK a \in Actors : Sending(a)
    BY <1>2
  <2>2. ~SendLate(a)
    BY <1>1, NoFault DEF SendLate, DeliveredOnce, FaultKinds
  <2>3. CASE SendOk(a)
    BY <2>3, SendOkRefines
  <2>4. CASE SendRefused(a) \/ SendError(a)
    BY <1>1, <2>4, SendLostRefines DEF Contract!Next
  <2> QED
    BY <2>1, <2>2, <2>3, <2>4 DEF Sending
<1>3. CASE LateArrives
  BY <1>1, <1>3 DEF LateArrives, FreshInv
<1>4. CASE Coordinates
  <2>1. CASE StartRound
    BY <1>1, <2>1, StartRoundRefines DEF Contract!Next
  <2>2. CASE Evaluate
    BY <2>2, EvaluateRefines
  <2>3. CASE Report
    BY <1>1, <2>3, ReportRefines DEF Contract!Next
  <2> QED
    BY <1>4, <2>1, <2>2, <2>3 DEF Coordinates
<1>5. CASE \E w \in WorkerSet : Works(w)
  <2>1. PICK w \in WorkerSet : Works(w)
    BY <1>5
  <2>2. \E s \in Rounds : Contract!Train(s, w) \/ Contract!Lose(s, w)
    BY <2>1, WorksRefines
  <2> QED
    BY <1>1, <2>2 DEF Contract!Next
<1>6. CASE Aggregates
  BY <1>1, <1>6, AggregatesRefines DEF Contract!Next
<1>7. CASE LaunchCoordinator \/ LaunchRound
  BY <1>7, LaunchRefines DEF Contract!Next
<1>8. CASE TellStart
  BY <1>8, TellStartRefines DEF Contract!Next
<1>9. CASE ReadResult
  BY <1>9, ReadResultRefines DEF Contract!Next
<1>10. CASE TimeOut
  <2>1. /\ driver = "waiting" /\ driver' = "closing" /\ UNCHANGED <<run, started>>
        /\ UNCHANGED <<mailbox, outbox, roundID, reporting, updates, expected, results>>
    BY <1>10 DEF TimeOut, actorVars
  <2>2. Contract!GiveUp
    BY <2>1, ActorsKept DEF Contract!GiveUp
  <2> QED
    BY <2>2 DEF Contract!Next
<1>11. CASE Closes
  <2>1. CASE ProcessExits
    BY <2>1, ProcessExitsRefines DEF Contract!Next
  <2>2. CASE ShutdownReturns
    <3>1. /\ driver = "closing" /\ driver' = "down" /\ UNCHANGED <<run, started>>
          /\ UNCHANGED <<mailbox, outbox, roundID, reporting, updates, expected, results>>
      BY <2>2 DEF ShutdownReturns, actorVars
    <3>2. Contract!Return
      BY <3>1, ActorsKept DEF Contract!Return
    <3> QED
      BY <3>2 DEF Contract!Next
  <2>3. CASE \E a \in Actors : StopActor(a)
    <3>1. /\ UNCHANGED <<run, driver, started>>
          /\ UNCHANGED <<mailbox, outbox, roundID, reporting, updates, expected, results>>
      BY <2>3 DEF StopActor, driverVars
    <3> QED
      BY <3>1, ActorsKept DEF Contract!vars
  <2> QED
    BY <1>11, <2>1, <2>2, <2>3 DEF Closes
<1>12. CASE UNCHANGED vars
  <2>1. /\ UNCHANGED <<run, driver, started>>
        /\ UNCHANGED <<mailbox, outbox, roundID, reporting, updates, expected, results>>
    BY <1>12 DEF vars, actorVars, driverVars
  <2> QED
    BY <2>1, ActorsKept DEF Contract!vars
<1> QED
  BY <1>2, <1>3, <1>4, <1>5, <1>6, <1>7, <1>8, <1>9, <1>10, <1>11, <1>12 DEF Next

\* Under the conditions of the two theorems above, for any number of workers,
\* attempts, rounds and runs, coordinator, workers, aggregator and sendWithRetry
\* keep the contract of a round: whatever Tell fails and whichever partition cannot
\* be loaded, each worker does its part in a round once or it is lost, the model is
\* made when all parts are done, and once, it is reported once, and a run that has
\* read all its results leaves no round open for the next.
THEOREM ImplementsRoundHolds == DeliveredOnce /\ Patient => (Spec => ImplementsRound)
<1> SUFFICES ASSUME DeliveredOnce, Patient PROVE Spec => ImplementsRound
  OBVIOUS
<1>1. RoundInv /\ [Next]_vars => RoundInv'
  BY RoundNext
<1>2. RoundInv /\ RoundInv' /\ [Next]_vars => [Contract!Next]_(Contract!vars)
  BY NextRefines
<1> QED
  BY RoundInit, InitRefines, <1>1, <1>2, PTL DEF Spec, ImplementsRound, Contract!Spec
=============================================================================
