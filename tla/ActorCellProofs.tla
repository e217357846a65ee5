--------------------------- MODULE ActorCellProofs ---------------------------
(***************************************************************************)
(* Safety of one actor, for any set of Tell calls and any buffer size; and *)
(* that ActorCell implements the safety part of ActorContract: every step  *)
(* of the mailbox, the loop and stop() is a step the contract allows, or   *)
(* changes nothing in its terms.                                           *)
(***************************************************************************)
EXTENDS ActorCellRefinement, TLAPS

\* The signal is in the channel between stop()'s send and the loop's exit only.
SignalInv ==
  \A i \in 1..Len(ch) : ch[i] = StopSignal => stop = "signalled" /\ loop # "exited"

\* Where the stopper and the loop can be relative to each other.
PhaseInv ==
  /\ closed <=> stop # "idle"
  /\ stop \in {"joined", "returned"} => loop = "exited"
  /\ stop \in {"idle", "closed"} => loop # "exited"
  /\ loop = "handling" <=> current # None

\* Accepted messages are in the channel or handled, never both, never twice.
MailboxInv ==
  /\ handled \subseteq Accepted
  /\ \A i \in 1..Len(ch) : ch[i] \in Msgs => ch[i] \in Accepted \ handled
  /\ \A i, j \in 1..Len(ch) : ch[i] = ch[j] => i = j
  /\ \A m \in Accepted \ handled : \E i \in 1..Len(ch) : ch[i] = m

\* Early messages are ahead of the signal until they are handled.
EarlyInv ==
  /\ early \subseteq Accepted
  /\ \A m \in early \ handled :
       \A i, j \in 1..Len(ch) : ch[i] = m /\ ch[j] = StopSignal => i < j
  /\ loop = "exited" => early \subseteq handled

\* Between the two selects, or past them, by the time the mailbox was closed.
RacingInv ==
  closed => \A m \in Msgs : /\ tell[m] = "checked" => m \in racing
                            /\ tell[m] = "ok" => m \in early \cup racing

\* What was sent before m stays ahead of m.
OrderInv ==
  /\ \A m \in Msgs : sentBefore[m] \subseteq Accepted
  /\ \A m \in handled : sentBefore[m] \subseteq handled
  /\ \A i, j \in 1..Len(ch) : ch[i] \in Msgs /\ ch[j] \in sentBefore[ch[i]] => j < i

CellInv == TypeOK /\ SignalInv /\ PhaseInv /\ MailboxInv /\ EarlyInv /\ RacingInv /\ OrderInv

-----------------------------------------------------------------------------
(* Every reachable state of the actor has the shape TypeOK describes; in   *)
(* particular the mailbox never holds more than MailboxSize messages.      *)
LEMMA TypeStep == TypeOK /\ [Next]_vars => TypeOK'
<1> SUFFICES ASSUME TypeOK, [Next]_vars PROVE TypeOK'
  OBVIOUS
<1> USE CellAssumption DEF CellAssumption, TypeOK
<1>1. ASSUME NEW m \in Msgs, TellCheck(m) PROVE TypeOK'
  BY <1>1 DEF TellCheck, Accepted
<1>2. ASSUME NEW m \in Msgs, TellSend(m) PROVE TypeOK'
  BY <1>2 DEF TellSend, history
<1>3. ASSUME NEW m \in Msgs, TellReject(m) PROVE TypeOK'
  BY <1>3 DEF TellReject, history
<1>4. CASE StartLoop
  BY <1>4 DEF StartLoop, history
<1>5. CASE Deliver
  <2>1. /\ Head(ch) \in Msgs
        /\ Tail(ch) \in Seq(Msgs \cup {StopSignal})
        /\ Len(Tail(ch)) <= MailboxSize
    BY <1>5 DEF Deliver
  <2> QED
    BY <1>5, <2>1 DEF Deliver
<1>6. CASE ExitLoop
  BY <1>6 DEF ExitLoop, history
<1>7. ASSUME NEW b \in Behaviors, Become(b) PROVE TypeOK'
  BY <1>7 DEF Become, history
<1>8. CASE HandlerReturns
  BY <1>8 DEF HandlerReturns, history
<1>9. CASE HandlerPanics
  BY <1>9 DEF HandlerPanics, history
<1>10. CASE StopClose
  BY <1>10 DEF StopClose, Accepted
<1>11. CASE StopSend
  BY <1>11 DEF StopSend, history
<1>12. CASE StopJoin \/ StopHook
  BY <1>12 DEF StopJoin, StopHook, history
<1>13. CASE UNCHANGED vars
  BY <1>13 DEF vars, history
<1> QED
  BY <1>1, <1>2, <1>3, <1>4, <1>5, <1>6, <1>7, <1>8, <1>9, <1>10, <1>11, <1>12, <1>13
     DEF Next, Loop, Finished

\* A freshly created cell has the types, and an empty mailbox.
LEMMA TypeInit == Init => TypeOK
<1> SUFFICES ASSUME Init PROVE TypeOK
  OBVIOUS
<1>1. ch \in Seq(Msgs \cup {StopSignal}) /\ Len(ch) <= MailboxSize
  BY CellAssumption DEF CellAssumption, Init
<1>2. /\ tell \in [Msgs -> {"idle", "checked", "ok", "rejected"}]
      /\ sentBefore \in [Msgs -> SUBSET Msgs]
  BY DEF Init
<1> QED
  BY <1>1, <1>2, CellAssumption DEF CellAssumption, Init, TypeOK

(* Every variable of an actor keeps its type, and its mailbox channel      *)
(* never holds more than its capacity.                                     *)
THEOREM TypeCorrect == Spec => []TypeOK
  BY TypeInit, TypeStep, PTL DEF Spec

-----------------------------------------------------------------------------
\* The head of the channel is its first element; the others move up by one.
LEMMA TailIndices ==
  ASSUME NEW S, NEW s \in Seq(S), s # <<>>
  PROVE  /\ Len(s) >= 1 /\ Len(Tail(s)) = Len(s) - 1
         /\ Head(s) = s[1]
         /\ \A i \in 1..Len(Tail(s)) : i + 1 \in 1..Len(s) /\ Tail(s)[i] = s[i + 1]
  OBVIOUS

\* Sending puts the message behind the others, which keep their places.
LEMMA AppendIndices ==
  ASSUME NEW S, NEW s \in Seq(S), NEW e \in S
  PROVE  /\ Len(Append(s, e)) = Len(s) + 1
         /\ Append(s, e)[Len(s) + 1] = e
         /\ \A i \in 1..Len(s) : Append(s, e)[i] = s[i]
  OBVIOUS

\* The inductive invariant holds of a freshly created cell.
LEMMA CellInit == Init => CellInv
<1> SUFFICES ASSUME Init PROVE CellInv
  OBVIOUS
<1>1. TypeOK
  BY TypeInit
<1>2. SignalInv
  BY DEF Init, SignalInv
<1>3. PhaseInv
  BY DEF Init, PhaseInv
<1>4. MailboxInv
  BY DEF Init, MailboxInv, Accepted
<1>5. EarlyInv
  BY DEF Init, EarlyInv
<1>6. RacingInv
  BY DEF Init, RacingInv
<1>7. OrderInv
  BY DEF Init, OrderInv, Accepted
<1> QED
  BY <1>1, <1>2, <1>3, <1>4, <1>5, <1>6, <1>7 DEF CellInv

(* Every step of a Tell call, of the run goroutine or of stop() preserves   *)
(* the inductive invariant.                                                *)
LEMMA CellStep == CellInv /\ [Next]_vars => CellInv'
<1> SUFFICES ASSUME CellInv, [Next]_vars PROVE CellInv'
  OBVIOUS
<1>0. TypeOK /\ TypeOK'
  BY TypeStep DEF CellInv
<1> USE <1>0, CellAssumption DEF CellAssumption, TypeOK, CellInv
<1>1. ASSUME NEW m \in Msgs, TellCheck(m) PROVE CellInv'
  <2> USE <1>1 DEF TellCheck
  <2>1. SignalInv' /\ PhaseInv'
    BY DEF SignalInv, PhaseInv
  <2>2. Accepted' = Accepted
    BY DEF Accepted
  <2>3. MailboxInv'
    BY <2>2 DEF MailboxInv
  <2>4. EarlyInv'
    BY <2>2 DEF EarlyInv
  <2>5. RacingInv'
    BY DEF RacingInv, PhaseInv
  <2>6. OrderInv'
    <3>1. m \notin Accepted
      BY DEF Accepted
    <3>2. \A x \in Msgs \ {m} : sentBefore'[x] = sentBefore[x]
      OBVIOUS
    <3>3. \A i \in 1..Len(ch) : ch[i] # m
      BY <3>1 DEF MailboxInv
    <3> QED
      BY <2>2, <3>1, <3>2, <3>3 DEF OrderInv, MailboxInv, Accepted
  <2> QED
    BY <2>1, <2>3, <2>4, <2>5, <2>6
<1>2. ASSUME NEW m \in Msgs, TellSend(m) PROVE CellInv'
  <2> USE <1>2 DEF TellSend, history
  <2>0. /\ Len(ch') = Len(ch) + 1 /\ ch'[Len(ch) + 1] = m
        /\ \A i \in 1..Len(ch) : ch'[i] = ch[i]
    BY AppendIndices
  <2>1. m \notin Accepted /\ Accepted' = Accepted \cup {m}
    BY DEF Accepted
  <2>2. \A i \in 1..Len(ch) : ch[i] # m
    BY <2>1 DEF MailboxInv
  <2>3. SignalInv' /\ PhaseInv'
    BY <2>0 DEF SignalInv, PhaseInv
  <2>4. MailboxInv'
    BY <2>0, <2>1, <2>2 DEF MailboxInv
  <2>5. EarlyInv'
    BY <2>0, <2>1, <2>2 DEF EarlyInv
  <2>6. RacingInv'
    BY DEF RacingInv
  <2>7. OrderInv'
    BY <2>0, <2>1, <2>2 DEF OrderInv
  <2> QED
    BY <2>3, <2>4, <2>5, <2>6, <2>7
<1>3. ASSUME NEW m \in Msgs, TellReject(m) PROVE CellInv'
  <2> USE <1>3 DEF TellReject, history
  <2>1. Accepted' = Accepted
    BY DEF Accepted
  <2> QED
    BY <2>1 DEF SignalInv, PhaseInv, MailboxInv, EarlyInv, RacingInv, OrderInv
<1>4. CASE StartLoop \/ HandlerReturns \/ HandlerPanics \/ \E b \in Behaviors : Become(b)
  <2> USE <1>4 DEF StartLoop, HandlerReturns, HandlerPanics, Become, history
  <2>1. Accepted' = Accepted
    BY DEF Accepted
  <2> QED
    BY <2>1 DEF SignalInv, PhaseInv, MailboxInv, EarlyInv, RacingInv, OrderInv
<1>5. CASE Deliver
  <2> USE <1>5 DEF Deliver
  <2>0. /\ Len(ch') = Len(ch) - 1 /\ Head(ch) = ch[1] /\ Len(ch) >= 1
        /\ \A i \in 1..Len(ch') : i + 1 \in 1..Len(ch) /\ ch'[i] = ch[i + 1]
    BY TailIndices
  <2>1. Accepted' = Accepted /\ Head(ch) \in Accepted \ handled
    BY <2>0 DEF Accepted, MailboxInv
  <2>2. SignalInv' /\ PhaseInv' /\ RacingInv'
    BY <2>0, <2>1 DEF SignalInv, PhaseInv, RacingInv, Accepted
  <2>3. MailboxInv'
    <3>1. \A i \in 2..Len(ch) : i - 1 \in 1..Len(ch') /\ ch'[i - 1] = ch[i]
      BY <2>0
    <3>2. \A m \in Accepted \ handled' : \E i \in 1..Len(ch') : ch'[i] = m
      <4> SUFFICES ASSUME NEW m \in Accepted \ handled' PROVE \E i \in 1..Len(ch') : ch'[i] = m
        OBVIOUS
      <4>1. PICK i \in 1..Len(ch) : ch[i] = m
        BY DEF MailboxInv
      <4>2. i # 1
        BY <2>0, <4>1
      <4> QED
        BY <3>1, <4>1, <4>2
    <3> QED
      BY <2>0, <2>1, <3>2 DEF MailboxInv
  <2>4. EarlyInv'
    BY <2>0, <2>1 DEF EarlyInv
  <2>5. OrderInv'
    BY <2>0, <2>1 DEF OrderInv, MailboxInv
  <2> QED
    BY <2>2, <2>3, <2>4, <2>5
<1>6. CASE ExitLoop
  <2> USE <1>6 DEF ExitLoop, history
  <2>0. /\ Len(ch') = Len(ch) - 1 /\ Head(ch) = ch[1] /\ Len(ch) >= 1
        /\ \A i \in 1..Len(ch') : i + 1 \in 1..Len(ch) /\ ch'[i] = ch[i + 1]
    BY TailIndices
  <2>1. Accepted' = Accepted
    BY DEF Accepted
  <2>2. stop = "signalled" /\ \A i \in 1..Len(ch') : ch'[i] # StopSignal
    BY <2>0 DEF SignalInv, MailboxInv
  <2>3. SignalInv' /\ PhaseInv' /\ RacingInv'
    BY <2>2 DEF SignalInv, PhaseInv, RacingInv
  <2>4. MailboxInv'
    <3>1. \A i \in 2..Len(ch) : i - 1 \in 1..Len(ch') /\ ch'[i - 1] = ch[i]
      BY <2>0
    <3>2. \A m \in Accepted \ handled : \E i \in 1..Len(ch') : ch'[i] = m
      <4> SUFFICES ASSUME NEW m \in Accepted \ handled PROVE \E i \in 1..Len(ch') : ch'[i] = m
        OBVIOUS
      <4>1. PICK i \in 1..Len(ch) : ch[i] = m
        BY DEF MailboxInv
      <4>2. i # 1
        BY <2>0, <4>1 DEF Accepted
      <4> QED
        BY <3>1, <4>1, <4>2
    <3> QED
      BY <2>0, <2>1, <3>2 DEF MailboxInv
  <2>5. EarlyInv'
    \* An early message still in the channel would be ahead of its head.
    <3>1. early \subseteq handled
      BY <2>0 DEF EarlyInv, MailboxInv
    <3> QED
      BY <2>1, <3>1 DEF EarlyInv
  <2>6. OrderInv'
    BY <2>0, <2>1 DEF OrderInv
  <2> QED
    BY <2>3, <2>4, <2>5, <2>6
<1>7. CASE StopClose
  <2> USE <1>7 DEF StopClose
  <2>1. Accepted' = Accepted
    BY DEF Accepted
  <2>2. SignalInv' /\ PhaseInv' /\ MailboxInv' /\ OrderInv'
    BY <2>1 DEF SignalInv, PhaseInv, MailboxInv, OrderInv
  <2>3. EarlyInv'
    BY <2>1 DEF EarlyInv, SignalInv, PhaseInv
  <2>4. RacingInv'
    BY DEF RacingInv, Accepted
  <2> QED
    BY <2>2, <2>3, <2>4
<1>8. CASE StopSend
  <2> USE <1>8 DEF StopSend, history
  <2>0. /\ Len(ch') = Len(ch) + 1 /\ ch'[Len(ch) + 1] = StopSignal
        /\ \A i \in 1..Len(ch) : ch'[i] = ch[i]
    BY AppendIndices
  <2>1. Accepted' = Accepted
    BY DEF Accepted
  <2>2. \A i \in 1..Len(ch) : ch[i] # StopSignal
    BY DEF SignalInv
  <2>3. SignalInv' /\ PhaseInv' /\ RacingInv'
    BY <2>0 DEF SignalInv, PhaseInv, RacingInv
  <2>4. MailboxInv' /\ EarlyInv' /\ OrderInv'
    BY <2>0, <2>1, <2>2 DEF MailboxInv, EarlyInv, OrderInv
  <2> QED
    BY <2>3, <2>4
<1>9. CASE StopJoin \/ StopHook
  <2> USE <1>9 DEF StopJoin, StopHook, history
  <2>1. Accepted' = Accepted
    BY DEF Accepted
  <2> QED
    BY <2>1 DEF SignalInv, PhaseInv, MailboxInv, EarlyInv, RacingInv, OrderInv
<1>10. CASE UNCHANGED vars
  BY <1>10 DEF vars, history, Accepted, SignalInv, PhaseInv, MailboxInv, EarlyInv,
     RacingInv, OrderInv
<1> QED
  BY <1>1, <1>2, <1>3, <1>4, <1>5, <1>6, <1>7, <1>8, <1>9, <1>10 DEF Next, Loop, Finished

\* The inductive invariant of one actor, from which the rest follows.
THEOREM CellInvariant == Spec => []CellInv
  BY CellInit, CellStep, PTL DEF Spec

-----------------------------------------------------------------------------
(* stop() runs OnStop and returns only after every message that was        *)
(* accepted before it began has been handled.                              *)
THEOREM EarlyDeliveredHolds == Spec => []EarlyDelivered
<1>1. CellInv => EarlyDelivered
  BY DEF CellInv, PhaseInv, EarlyInv, EarlyDelivered
<1> QED
  BY <1>1, CellInvariant, PTL

(* Messages sent one after the other are handled in that order, whichever  *)
(* goroutines sent them.                                                   *)
THEOREM SentOrderHolds == Spec => []SentOrder
<1>1. CellInv => SentOrder
  BY DEF CellInv, OrderInv, SentOrder
<1> QED
  BY <1>1, CellInvariant, PTL

(* A message that enqueue accepted and no handler ever saw was caught      *)
(* between enqueue's two selects by the closing of the mailbox.            *)
THEOREM LossOnlyByRaceHolds == Spec => []LossOnlyByRace
<1>1. CellInv => LossOnlyByRace
  BY DEF CellInv, PhaseInv, EarlyInv, RacingInv, LossOnlyByRace, Accepted
<1> QED
  BY <1>1, CellInvariant, PTL

(* No handler runs once <-c.done has let stop() go on to OnStop.           *)
THEOREM QuietAfterJoinHolds == Spec => QuietAfterJoin
<1> DEFINE Quiet == (stop \in {"joined", "returned"}) => current' = None /\ handled' = handled
<1>1. CellInv /\ [Next]_vars => [Quiet]_vars
  <2> SUFFICES ASSUME CellInv, [Next]_vars, stop \in {"joined", "returned"}
               PROVE  current' = None /\ handled' = handled
    OBVIOUS
  <2>1. loop = "exited" /\ current = None
    BY DEF CellInv, PhaseInv, TypeOK
  <2> QED
    BY <2>1 DEF Next, Loop, Finished, TellCheck, TellSend, TellReject, StartLoop, Deliver,
       ExitLoop, Become, HandlerReturns, HandlerPanics, StopClose, StopSend, StopJoin,
       StopHook, history, vars
<1> QED
  BY <1>1, CellInvariant, PTL DEF Spec, QuietAfterJoin

-----------------------------------------------------------------------------
(* The contract: what is ahead of the loop, and the fate of each message. *)

Slots == Msgs \cup {StopSignal}
Distinct(s) == \A i, j \in 1..Len(s) : s[i] = s[j] => i = j
Signalled(s) == \E i \in 1..Len(s) : s[i] = StopSignal

\* A channel up to its signal, if it has one; it has one signal at most.
LEMMA UpToFacts ==
  ASSUME NEW s \in Seq(Slots), Distinct(s)
  PROVE  /\ UpToSignal(s) \in Seq(Msgs) /\ Len(UpToSignal(s)) <= Len(s)
         /\ \A i \in 1..Len(UpToSignal(s)) : UpToSignal(s)[i] = s[i]
         /\ ~Signalled(s) => UpToSignal(s) = s
         /\ Signalled(s) => s[Len(UpToSignal(s)) + 1] = StopSignal /\ Len(UpToSignal(s)) < Len(s)
<1> DEFINE t == Append(s, StopSignal)
           I == {i \in 1..Len(t) : t[i] = StopSignal}
           k == SelectInSeq(t, LAMBDA x : x = StopSignal)
<1>1. /\ Len(s) \in Nat /\ Len(t) = Len(s) + 1 /\ t[Len(s) + 1] = StopSignal
      /\ \A i \in 1..Len(s) : t[i] = s[i] /\ s[i] \in Slots
  OBVIOUS
<1>2. k = IF I # {} THEN CHOOSE x \in I : \A y \in I : x <= y ELSE 0
  BY DEF SelectInSeq, Min
<1>3. Len(s) + 1 \in I
  BY <1>1
<1>4. /\ k \in 1..(Len(s) + 1)
      /\ \A i \in 1..(k - 1) : s[i] # StopSignal
      /\ k <= Len(s) => s[k] = StopSignal
  <2>1. CASE Signalled(s)
    <3>1. PICK j \in 1..Len(s) : s[j] = StopSignal
      BY <2>1 DEF Signalled
    <3>2. I = {j, Len(s) + 1}
      BY <1>1, <3>1 DEF Distinct
    <3>3. k = j
      BY <1>1, <1>2, <3>1, <3>2
    <3> HIDE DEF k, t, I
    <3> QED
      BY <1>1, <3>1, <3>3 DEF Distinct
  <2>2. CASE ~Signalled(s)
    <3>1. I = {Len(s) + 1}
      BY <1>1, <2>2 DEF Signalled
    <3>2. k = Len(s) + 1
      BY <1>1, <1>2, <3>1
    <3> HIDE DEF k, t, I
    <3> QED
      BY <1>1, <2>2, <3>2 DEF Signalled
  <2> QED
    BY <2>1, <2>2
<1>5. UpToSignal(s) = SubSeq(s, 1, k - 1)
  BY DEF UpToSignal
<1> HIDE DEF k, t, I
<1>6. /\ Len(UpToSignal(s)) = k - 1
      /\ \A i \in 1..(k - 1) : UpToSignal(s)[i] = s[i] /\ s[i] \in Msgs
      /\ UpToSignal(s) = [i \in 1..(k - 1) |-> s[i]]
  BY <1>1, <1>4, <1>5 DEF Slots
<1>7. UpToSignal(s) \in Seq(Msgs)
  BY <1>1, <1>4, <1>6
<1>8. ASSUME ~Signalled(s) PROVE UpToSignal(s) = s
  <2>1. k = Len(s) + 1
    BY <1>1, <1>4, <1>8 DEF Signalled
  <2> QED
    BY <1>1, <1>6, <2>1
<1>9. ASSUME Signalled(s) PROVE k <= Len(s)
  BY <1>1, <1>4, <1>9 DEF Signalled
<1> QED
  BY <1>1, <1>4, <1>6, <1>7, <1>8, <1>9

-----------------------------------------------------------------------------
\* What the loop still has to handle, as the steps change the channel.
LEMMA AheadFacts ==
  ASSUME CellInv
  PROVE  /\ ch \in Seq(Slots) /\ Distinct(ch) /\ Ahead \in Seq(Msgs)
         /\ \A m \in Msgs : Contains(Ahead, m) => \E i \in 1..Len(ch) : ch[i] = m
         /\ loop = "exited" => Ahead = <<>>
         /\ loop # "exited" /\ ~Signalled(ch) => Ahead = ch
<1>1. ch \in Seq(Slots) /\ Distinct(ch)
  BY DEF CellInv, TypeOK, MailboxInv, Slots, Distinct
<1>2. /\ UpToSignal(ch) \in Seq(Msgs) /\ Len(UpToSignal(ch)) <= Len(ch)
      /\ \A i \in 1..Len(UpToSignal(ch)) : UpToSignal(ch)[i] = ch[i]
      /\ ~Signalled(ch) => UpToSignal(ch) = ch
  BY <1>1, UpToFacts
<1>3. Ahead = IF loop = "exited" THEN <<>> ELSE UpToSignal(ch)
  BY DEF Ahead
<1>4. Len(ch) \in Nat
  BY <1>1
<1>5. ASSUME NEW m \in Msgs, Contains(Ahead, m) PROVE \E i \in 1..Len(ch) : ch[i] = m
  BY <1>2, <1>3, <1>4, <1>5 DEF Contains
<1> QED
  BY <1>1, <1>2, <1>3, <1>5

\* A message not yet accepted is nowhere.
LEMMA FreshFacts ==
  ASSUME CellInv, NEW m \in Msgs, tell[m] # "ok"
  PROVE  /\ m \notin handled /\ ~Contains(Ahead, m) /\ \A i \in 1..Len(ch) : ch[i] # m
         /\ Fate(m) = IF tell[m] = "rejected" THEN "rejected" ELSE "untold"
<1>1. m \notin handled /\ \A i \in 1..Len(ch) : ch[i] # m
  BY DEF CellInv, MailboxInv, Accepted
<1>2. ~Contains(Ahead, m)
  BY <1>1, AheadFacts
<1>3. tell[m] \in {"idle", "checked", "rejected"}
  BY DEF CellInv, TypeOK
<1>4. Fate(m) = IF tell[m] = "rejected" THEN "rejected" ELSE "untold"
  BY <1>1, <1>2, <1>3 DEF Fate
<1> QED
  BY <1>1, <1>2, <1>4

\* Fates that a step leaves alone.
LEMMA FateKept ==
  ASSUME NEW m \in Msgs, tell'[m] = tell[m] \/ {tell[m], tell'[m]} = {"idle", "checked"},
         m \in handled' <=> m \in handled, Contains(Ahead, m)' <=> Contains(Ahead, m)
  PROVE  Fate(m)' = Fate(m)
<1>1. tell'[m] = "rejected" <=> tell[m] = "rejected"
  OBVIOUS
<1>2. tell'[m] \in {"idle", "checked"} <=> tell[m] \in {"idle", "checked"}
  OBVIOUS
<1> QED
  BY <1>1, <1>2 DEF Fate

Life == IF loop = "exited" THEN "stopped" ELSE IF closed THEN "closing" ELSE "open"
Fates == [m \in Msgs |-> Fate(m)]

\* One fate changes.
LEMMA FateSettled ==
  ASSUME NEW m \in Msgs, NEW f, Fate(m)' = f, \A x \in Msgs \ {m} : Fate(x)' = Fate(x)
  PROVE  Fates' = [Fates EXCEPT ![m] = f]
BY DEF Fates

-----------------------------------------------------------------------------
(* The calls.                                                              *)

\* A message accepted is queued, or lost behind the signal or in the channel
\* of an actor that has exited.
LEMMA SendRefines ==
  ASSUME CellInv, CellInv', NEW m \in Msgs, TellSend(m)
  PROVE  Contract!Accept(m) \/ Contract!Lose(m)
<1>1. /\ tell[m] = "checked" /\ ch' = Append(ch, m) /\ tell' = [tell EXCEPT ![m] = "ok"]
      /\ UNCHANGED <<closed, loop, stop, handled>>
  BY DEF TellSend, history
<1>2. /\ m \in Slots /\ ch \in Seq(Slots) /\ Distinct(ch) /\ Distinct(ch') /\ ch' \in Seq(Slots)
      /\ tell \in [Msgs -> {"idle", "checked", "ok", "rejected"}]
  BY AheadFacts DEF CellInv, TypeOK, MailboxInv, Slots, Distinct
<1>3. Fate(m) = "untold" /\ m \notin handled /\ ~Contains(Ahead, m) /\ \A i \in 1..Len(ch) : ch[i] # m
  BY <1>1, FreshFacts
<1>4. /\ Len(ch') = Len(ch) + 1 /\ ch'[Len(ch) + 1] = m
      /\ \A i \in 1..Len(ch) : ch'[i] = ch[i] /\ Len(ch) \in Nat
  BY <1>1, <1>2
<1>5. /\ tell'[m] = "ok"
      /\ \A x \in Msgs \ {m} : tell'[x] = tell[x]
  BY <1>1, <1>2
<1>6. CASE loop # "exited" /\ ~Signalled(ch)
  <2>1. ~Signalled(ch')
    BY <1>4, <1>6, CellAssumption DEF Signalled, CellAssumption
  <2>2. Ahead = ch /\ Ahead' = ch'
    BY <1>1, <1>2, <1>6, <2>1, UpToFacts DEF Ahead
  <2>3. \A x \in Msgs \ {m} : Contains(Ahead', x) <=> Contains(Ahead, x)
    BY <1>4, <2>2 DEF Contains
  <2>4. Contains(Ahead', m)
    BY <1>4, <2>2 DEF Contains
  <2>5. Fate(m)' = "queued"
    BY <1>1, <1>3, <1>5, <2>4 DEF Fate
  <2>6. Fates' = [Fates EXCEPT ![m] = "queued"]
    BY <1>1, <1>5, <2>3, <2>5, FateKept, FateSettled
  <2>7. Ahead' = Append(Ahead, m)
    BY <1>1, <2>2
  <2>8. Life' = Life /\ Life # "stopped"
    BY <1>1, <1>6 DEF Life
  <2>9. Fates[m] = "untold"
    BY <1>3 DEF Fates
  <2> QED
    BY <2>6, <2>7, <2>8, <2>9 DEF Contract!Accept, Contract!Settle, Fates, Life
<1>7. CASE loop = "exited" \/ Signalled(ch)
  <2>1. Ahead' = Ahead
    <3>1. CASE loop = "exited"
      BY <1>1, <3>1 DEF Ahead
    <3>2. CASE loop # "exited" /\ Signalled(ch)
      <4> DEFINE u == UpToSignal(ch)
                 v == UpToSignal(ch')
      <4>1. PICK j \in 1..Len(ch) : ch[j] = StopSignal
        BY <1>7, <3>2 DEF Signalled
      <4>2. Signalled(ch')
        BY <1>4, <4>1 DEF Signalled
      <4>3. /\ u \in Seq(Msgs) /\ Len(u) < Len(ch) /\ ch[Len(u) + 1] = StopSignal
            /\ v \in Seq(Msgs) /\ Len(v) < Len(ch') /\ ch'[Len(v) + 1] = StopSignal
            /\ \A i \in 1..Len(u) : u[i] = ch[i]
            /\ \A i \in 1..Len(v) : v[i] = ch'[i]
        BY <1>2, <3>2, <4>2, UpToFacts
      <4>4. Len(u) \in Nat /\ Len(v) \in Nat
        BY <4>3
      <4> HIDE DEF u, v
      <4>5. ch'[Len(u) + 1] = StopSignal
        BY <1>4, <4>3, <4>4
      <4>6. Len(u) + 1 = Len(v) + 1
        BY <1>2, <1>4, <4>3, <4>4, <4>5 DEF Distinct
      <4>7. Len(u) = Len(v) /\ \A i \in 1..Len(u) : u[i] = v[i]
        BY <1>4, <4>3, <4>4, <4>6
      <4>8. u = v
        BY <4>3, <4>7
      <4> QED
        BY <1>1, <4>8 DEF Ahead, u, v
    <3> QED
      BY <1>7, <3>1, <3>2
  <2>2. Fate(m)' = "lost"
    BY <1>1, <1>3, <1>5, <2>1 DEF Fate
  <2>3. Fates' = [Fates EXCEPT ![m] = "lost"]
    BY <1>1, <1>5, <2>1, <2>2, FateKept, FateSettled
  <2>4. closed
    BY <1>7 DEF CellInv, PhaseInv, SignalInv, Signalled, TypeOK
  <2>5. Life' = Life /\ Life # "open"
    BY <1>1, <2>4 DEF Life
  <2>6. Fates[m] = "untold"
    BY <1>3 DEF Fates
  <2> QED
    BY <2>1, <2>3, <2>5, <2>6 DEF Contract!Lose, Contract!Settle, Fates, Life
<1> QED
  BY <1>6, <1>7

\* A call that is rejected, at its first select or at its second.
LEMMA RejectRefines ==
  ASSUME CellInv, NEW m \in Msgs, TellCheck(m) \/ TellReject(m)
  PROVE  Contract!Reject(m) \/ UNCHANGED Contract!vars
<1>1. /\ tell[m] \in {"idle", "checked"} /\ UNCHANGED <<ch, closed, loop, handled>>
      /\ \/ closed /\ tell' = [tell EXCEPT ![m] = "rejected"]
         \/ tell[m] = "idle" /\ tell' = [tell EXCEPT ![m] = "checked"]
  BY DEF TellCheck, TellReject, history
<1>2. /\ tell \in [Msgs -> {"idle", "checked", "ok", "rejected"}]
      /\ Ahead' = Ahead /\ Life' = Life
  BY <1>1 DEF CellInv, TypeOK, Ahead, Life
<1>3. Fate(m) = "untold" /\ m \notin handled /\ ~Contains(Ahead, m)
  BY <1>1, FreshFacts
<1>4. \A x \in Msgs \ {m} : Fate(x)' = Fate(x)
  BY <1>1, <1>2, FateKept
<1>5. CASE closed /\ tell' = [tell EXCEPT ![m] = "rejected"]
  <2>1. tell'[m] = "rejected"
    BY <1>2, <1>5
  <2>2. Fate(m)' = "rejected"
    BY <1>1, <1>2, <1>3, <2>1 DEF Fate
  <2>3. Fates' = [Fates EXCEPT ![m] = "rejected"] /\ Fates[m] = "untold"
    BY <1>3, <1>4, <2>2, FateSettled DEF Fates
  <2>4. Life # "open"
    BY <1>5 DEF Life
  <2> QED
    BY <1>2, <2>3, <2>4 DEF Contract!Reject, Contract!Settle, Fates, Life
<1>6. CASE tell[m] = "idle" /\ tell' = [tell EXCEPT ![m] = "checked"]
  <2>1. tell'[m] = "checked"
    BY <1>2, <1>6
  <2>2. Fate(m)' = Fate(m)
    BY <1>1, <1>2, <1>6, <2>1, FateKept
  <2>3. Fates' = Fates
    BY <1>4, <2>2 DEF Fates
  <2> QED
    BY <1>2, <2>3 DEF Contract!vars, Fates, Life
<1> QED
  BY <1>1, <1>5, <1>6

-----------------------------------------------------------------------------
(* The loop and stop().                                                    *)

\* The oldest message waiting is handled.
LEMMA DeliverRefines ==
  ASSUME CellInv, CellInv', Deliver
  PROVE  Contract!Handle
<1>1. PICK m : m = Head(ch)
  OBVIOUS
<1>2. /\ loop = "receiving" /\ ch # <<>> /\ m # StopSignal /\ ch' = Tail(ch)
      /\ handled' = handled \cup {m} /\ loop' = "handling" /\ UNCHANGED <<closed, tell>>
  BY <1>1 DEF Deliver
<1>3. ch \in Seq(Slots) /\ Distinct(ch) /\ Distinct(ch') /\ ch' \in Seq(Slots)
  BY AheadFacts DEF CellInv, TypeOK, MailboxInv, Slots, Distinct
<1>4. /\ Len(ch) \in Nat /\ Len(ch) >= 1 /\ Len(ch') = Len(ch) - 1 /\ m = ch[1] /\ m \in Msgs
      /\ \A i \in 1..Len(ch') : i + 1 \in 1..Len(ch) /\ ch'[i] = ch[i + 1]
  BY <1>1, <1>2, <1>3, TailIndices DEF Slots
<1> DEFINE u == UpToSignal(ch)
           v == UpToSignal(ch')
<1>5. /\ u \in Seq(Msgs) /\ Len(u) <= Len(ch) /\ \A i \in 1..Len(u) : u[i] = ch[i]
      /\ ~Signalled(ch) => u = ch
      /\ Signalled(ch) => ch[Len(u) + 1] = StopSignal /\ Len(u) < Len(ch)
  BY <1>3, UpToFacts
<1>6. /\ v \in Seq(Msgs) /\ Len(v) <= Len(ch') /\ \A i \in 1..Len(v) : v[i] = ch'[i]
      /\ ~Signalled(ch') => v = ch'
      /\ Signalled(ch') => ch'[Len(v) + 1] = StopSignal /\ Len(v) < Len(ch')
  BY <1>3, UpToFacts
<1>7. Ahead = u /\ Ahead' = v
  BY <1>2 DEF Ahead
<1>8. Len(u) \in Nat /\ Len(v) \in Nat
  BY <1>5, <1>6
<1>9. Signalled(ch) <=> Signalled(ch')
  <2>1. ASSUME Signalled(ch) PROVE Signalled(ch')
    <3>1. PICK j \in 1..Len(ch) : ch[j] = StopSignal
      BY <2>1 DEF Signalled
    <3>2. j # 1
      BY <1>2, <1>4, <3>1
    <3>3. j - 1 \in 1..Len(ch') /\ ch'[j - 1] = ch[j]
      BY <1>4, <3>2
    <3> QED
      BY <3>1, <3>3 DEF Signalled
  <2>2. ASSUME Signalled(ch') PROVE Signalled(ch)
    BY <1>4, <2>2 DEF Signalled
  <2> QED
    BY <2>1, <2>2
<1> HIDE DEF u, v
<1>10. Len(u) = Len(v) + 1
  <2>1. CASE Signalled(ch)
    <3>1. Len(v) + 1 \in 1..Len(ch') /\ ch'[Len(v) + 1] = StopSignal /\ ch[Len(u) + 1] = StopSignal
          /\ Len(u) + 1 \in 1..Len(ch)
      BY <1>4, <1>5, <1>6, <1>8, <1>9, <2>1
    <3>2. ch[Len(v) + 2] = StopSignal /\ Len(v) + 2 \in 1..Len(ch)
      BY <1>4, <1>8, <3>1
    <3> QED
      BY <1>3, <1>8, <3>1, <3>2 DEF Distinct
  <2>2. CASE ~Signalled(ch)
    BY <1>4, <1>5, <1>6, <1>9, <2>2
  <2> QED
    BY <2>1, <2>2
<1>11. /\ u # <<>> /\ Head(u) = m
       /\ \A i \in 1..Len(v) : v[i] = u[i + 1]
  BY <1>2, <1>4, <1>5, <1>6, <1>8, <1>10
<1>12. v = Tail(u)
  BY <1>5, <1>6, <1>8, <1>10, <1>11
<1>13. \A x \in Msgs \ {m} : Contains(v, x) <=> Contains(u, x)
  <2> SUFFICES ASSUME NEW x \in Msgs \ {m} PROVE Contains(v, x) <=> Contains(u, x)
    OBVIOUS
  <2>1. ASSUME Contains(v, x) PROVE Contains(u, x)
    BY <1>8, <1>10, <1>11, <2>1 DEF Contains
  <2>2. ASSUME Contains(u, x) PROVE Contains(v, x)
    <3>1. PICK i \in 1..Len(u) : u[i] = x
      BY <2>2 DEF Contains
    <3>2. i # 1
      BY <1>5, <1>11, <3>1
    <3>3. i - 1 \in 1..Len(v) /\ v[i - 1] = u[i]
      BY <1>8, <1>10, <1>11, <3>2
    <3> QED
      BY <3>1, <3>3 DEF Contains
  <2> QED
    BY <2>1, <2>2
<1>14. Fate(m)' = "handled"
  <2>1. tell[m] = "ok"
    BY <1>4 DEF CellInv, MailboxInv, Accepted
  <2>2. \A i \in 1..Len(v) : v[i] # m
    BY <1>3, <1>4, <1>6, <1>8 DEF Distinct
  <2>3. ~Contains(Ahead', m)
    BY <1>7, <2>2 DEF Contains
  <2> QED
    BY <1>2, <2>1, <2>3 DEF Fate
<1>15. \A x \in Msgs \ {m} : Fate(x)' = Fate(x)
  BY <1>2, <1>7, <1>13, FateKept
<1>16. Fates' = [Fates EXCEPT ![Head(Ahead)] = "handled"]
  <2>1. m \in Msgs /\ Head(Ahead) = m
    BY <1>4, <1>7, <1>11
  <2>2. Fates' = [Fates EXCEPT ![m] = "handled"]
    BY <1>14, <1>15, <2>1, FateSettled
  <2> QED
    BY <2>1, <2>2
<1>17. Life' = Life
  BY <1>2 DEF Life
<1> QED
  BY <1>7, <1>11, <1>12, <1>16, <1>17 DEF Contract!Handle, Fates, Life

\* The signal is reached when nothing is ahead of it.
LEMMA ExitRefines ==
  ASSUME CellInv, ExitLoop
  PROVE  Contract!Finish
<1>1. /\ loop = "receiving" /\ ch # <<>> /\ Head(ch) = StopSignal /\ loop' = "exited"
      /\ UNCHANGED <<closed, tell, handled>>
  BY DEF ExitLoop, history
<1>2. ch \in Seq(Slots) /\ Distinct(ch)
  BY AheadFacts
<1>3. /\ Len(ch) \in Nat /\ Len(ch) >= 1 /\ ch[1] = StopSignal
  BY <1>1, <1>2
<1>4. Signalled(ch)
  BY <1>3 DEF Signalled
<1>5. UpToSignal(ch) \in Seq(Msgs) /\ \A i \in 1..Len(UpToSignal(ch)) : UpToSignal(ch)[i] = ch[i]
  BY <1>2, UpToFacts
<1>6. UpToSignal(ch) = <<>>
  <2>1. UpToSignal(ch) # <<>> => UpToSignal(ch)[1] \in Msgs /\ UpToSignal(ch)[1] = StopSignal
    BY <1>3, <1>5
  <2> QED
    BY <2>1, <1>5, CellAssumption DEF CellAssumption
<1>7. Ahead = <<>> /\ Ahead' = <<>>
  BY <1>1, <1>6 DEF Ahead
<1>8. \A m \in Msgs : Fate(m)' = Fate(m)
  BY <1>1, <1>7, FateKept
<1>9. closed
  BY <1>3, <1>4 DEF CellInv, SignalInv, PhaseInv, Signalled
<1>10. Life = "closing" /\ Life' = "stopped" /\ Fates' = Fates
  BY <1>1, <1>8, <1>9 DEF Life, Fates
<1> QED
  BY <1>7, <1>10 DEF Contract!Finish, Life, Fates

\* Closing the mailbox, and the signal behind all messages.
LEMMA StopRefines ==
  ASSUME CellInv, CellInv', StopClose \/ StopSend
  PROVE  Contract!Close \/ UNCHANGED Contract!vars
<1>1. UNCHANGED <<loop, tell, handled>> /\ loop # "exited"
  BY DEF StopClose, StopSend, history, CellInv, PhaseInv
<1>2. ASSUME Ahead' = Ahead PROVE Fates' = Fates
  BY <1>1, <1>2, FateKept DEF Fates
<1>3. CASE StopClose
  <2>1. Ahead' = Ahead
    BY <1>3 DEF StopClose, Ahead
  <2>2. Life = "open" /\ Life' = "closing"
    BY <1>1, <1>3 DEF StopClose, Life, CellInv, PhaseInv
  <2> QED
    BY <1>2, <2>1, <2>2 DEF Contract!Close, Life, Fates
<1>4. CASE StopSend
  <2>1. ch' = Append(ch, StopSignal) /\ closed' = closed /\ stop = "closed"
    BY <1>4 DEF StopSend
  <2>2. ch \in Seq(Slots) /\ Distinct(ch) /\ ch' \in Seq(Slots) /\ Distinct(ch')
    BY AheadFacts DEF CellInv, TypeOK, MailboxInv, Slots, Distinct
  <2>3. /\ Len(ch) \in Nat /\ Len(ch') = Len(ch) + 1 /\ ch'[Len(ch) + 1] = StopSignal
        /\ \A i \in 1..Len(ch) : ch'[i] = ch[i]
    BY <2>1, <2>2
  <2>4. ~Signalled(ch) /\ Signalled(ch')
    BY <2>1, <2>3 DEF CellInv, SignalInv, Signalled
  <2> DEFINE u == UpToSignal(ch)
             v == UpToSignal(ch')
  <2>5. /\ u = ch
        /\ v \in Seq(Msgs) /\ \A i \in 1..Len(v) : v[i] = ch'[i]
        /\ ch'[Len(v) + 1] = StopSignal /\ Len(v) < Len(ch')
    BY <2>2, <2>4, UpToFacts
  <2>6. Len(v) \in Nat
    BY <2>5
  <2> HIDE DEF u, v
  <2>7. Len(v) = Len(ch)
    BY <2>2, <2>3, <2>5, <2>6 DEF Distinct
  <2>8. v = ch
    BY <2>2, <2>3, <2>5, <2>7
  <2>9. Ahead' = Ahead
    BY <1>1, <2>5, <2>8 DEF Ahead, u, v
  <2> QED
    BY <1>1, <1>2, <2>1, <2>9 DEF Contract!vars, Life, Fates
<1> QED
  BY <1>3, <1>4

\* The remaining steps do not concern the contract.
LEMMA InnerRefines ==
  ASSUME CellInv, StartLoop \/ HandlerReturns \/ HandlerPanics \/ (\E b \in Behaviors : Become(b))
                    \/ StopJoin \/ StopHook \/ UNCHANGED vars
  PROVE  UNCHANGED Contract!vars
<1>1. /\ UNCHANGED <<ch, closed, tell, handled>> /\ (loop' = "exited" <=> loop = "exited")
  BY DEF StartLoop, HandlerReturns, HandlerPanics, Become, StopJoin, StopHook, vars, history
<1>2. Ahead' = Ahead /\ Life' = Life
  BY <1>1 DEF Ahead, Life
<1>3. Fates' = Fates
  BY <1>1, <1>2, FateKept DEF Fates
<1> QED
  BY <1>2, <1>3 DEF Contract!vars, Life, Fates

\* A new actor is open, and nothing was told it.
LEMMA InitRefines == Init => Contract!Init
<1> SUFFICES ASSUME Init PROVE Contract!Init
  OBVIOUS
<1>1. CellInv /\ loop = "starting" /\ ~closed /\ ch = <<>> /\ \A m \in Msgs : tell[m] = "idle"
  BY CellInit DEF Init
<1>2. ~Signalled(ch)
  BY <1>1 DEF Signalled
<1>3. Ahead = <<>>
  BY <1>1, <1>2, AheadFacts
<1>4. \A m \in Msgs : Fate(m) = "untold"
  BY <1>1, FreshFacts
<1>5. Life = "open" /\ Fates = [m \in Msgs |-> "untold"]
  BY <1>1, <1>4 DEF Life, Fates
<1> QED
  BY <1>3, <1>5 DEF Contract!Init, Life, Fates

(* An actor of pkg/actor keeps the contract: whatever the interleaving of  *)
(* calls, loop and stop(), accepted messages are handled once each, in the *)
(* order of their acceptance, before the actor is stopped; none is refused *)
(* before the stopping begins, and none is lost before it.                 *)
THEOREM ImplementsSafety == Spec => Contract!SafetySpec
<1>1. CellInv /\ CellInv' /\ [Next]_vars => [Contract!Next]_(Contract!vars)
  <2> SUFFICES ASSUME CellInv, CellInv', [Next]_vars
               PROVE  Contract!Next \/ UNCHANGED Contract!vars
    OBVIOUS
  <2>1. ASSUME NEW m \in Msgs, TellCheck(m) \/ TellSend(m) \/ TellReject(m)
        PROVE  Contract!Next \/ UNCHANGED Contract!vars
    BY <2>1, SendRefines, RejectRefines DEF Contract!Next
  <2>2. CASE Deliver \/ ExitLoop
    BY <2>2, DeliverRefines, ExitRefines DEF Contract!Next
  <2>3. CASE StopClose \/ StopSend
    BY <2>3, StopRefines DEF Contract!Next
  <2>4. CASE ~(Deliver \/ ExitLoop \/ StopClose \/ StopSend) /\ ~(\E m \in Msgs : TellCheck(m) \/ TellSend(m) \/ TellReject(m))
    BY <2>4, InnerRefines DEF Next, Loop, Finished
  <2> QED
    BY <2>1, <2>2, <2>3, <2>4
<1> QED
  BY <1>1, InitRefines, CellInvariant, PTL DEF Spec, Contract!SafetySpec
=============================================================================
