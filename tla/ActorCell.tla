------------------------------ MODULE ActorCell ------------------------------
(***************************************************************************)
(* One spawned actor of pkg/actor: its mailbox, the goroutine that drains  *)
(* it, the goroutines that Tell it and the one goroutine that stops it.    *)
(*                                                                         *)
(* A message stands for the Tell call that carries it, so Msgs is also the *)
(* set of calls; calls are concurrent unless sentBefore orders them.       *)
(***************************************************************************)
EXTENDS Naturals, Sequences, FiniteSets

CONSTANTS Msgs,         \* Tell calls, one message each
          Behaviors,    \* message handlers the actor can Become
          Receive,      \* the handler it starts with, Actor.Receive
          MailboxSize,  \* capacity of the mailbox channel
          StopSignal,   \* the stopSignal{} queued by stop()
          None          \* no message is being handled

ASSUME CellAssumption ==
  /\ MailboxSize \in Nat \ {0}
  /\ Receive \in Behaviors
  /\ StopSignal \notin Msgs
  /\ None \notin Msgs

VARIABLES
  ch,        \* mailbox.ch, the buffered channel
  closed,    \* mailbox.closed has been closed
  loop,      \* the run goroutine
  current,   \* message the handler is running on, or None
  behavior,  \* cell.behavior, used for the next message
  tell,      \* where each Tell call is
  stop,      \* where the stop() call is
  \* history, read by properties only
  handled,     \* messages handed to a handler so far
  sentBefore,  \* per call, the messages whose Tell had returned nil before it
  early,       \* messages whose Tell had returned nil before stop() began
  racing       \* those whose Tell was between its two selects at that point

history == <<handled, sentBefore, early, racing>>
vars == <<ch, closed, loop, current, behavior, tell, stop, history>>

Accepted == {m \in Msgs : tell[m] = "ok"}   \* Tell returned nil

Init ==
  /\ ch = <<>>
  /\ closed = FALSE
  /\ loop = "starting"     \* registered, OnStart still running
  /\ current = None
  /\ behavior = Receive
  /\ tell = [m \in Msgs |-> "idle"]
  /\ stop = "idle"
  /\ handled = {}
  /\ sentBefore = [m \in Msgs |-> {}]
  /\ early = {}
  /\ racing = {}

-----------------------------------------------------------------------------
(* Plausible bugs in the code below. No action uses them: each shows that  *)
(* a property would notice it.                                             *)

\* The second select without its closed case: a plain m.ch <- msg.
NeverReject(m) == FALSE /\ UNCHANGED vars

\* The first select forgotten: a closed mailbox with room takes new messages.
CheckNothing(m) ==
  /\ tell[m] = "idle"
  /\ tell' = [tell EXCEPT ![m] = "checked"]
  /\ sentBefore' = [sentBefore EXCEPT ![m] = Accepted]
  /\ UNCHANGED <<ch, closed, loop, current, behavior, stop, handled, early, racing>>

\* The buffer emptied from the wrong end.
DeliverLatest ==
  /\ loop = "receiving"
  /\ ch # <<>>
  /\ ch[Len(ch)] # StopSignal
  /\ ch' = SubSeq(ch, 1, Len(ch) - 1)
  /\ current' = ch[Len(ch)]
  /\ handled' = handled \cup {ch[Len(ch)]}
  /\ loop' = "handling"
  /\ UNCHANGED <<closed, behavior, tell, stop, sentBefore, early, racing>>

\* The loop watches mailbox.closed instead of waiting for the queued signal.
ExitOnClosed ==
  /\ loop = "receiving"
  /\ closed
  /\ loop' = "exited"
  /\ UNCHANGED <<ch, closed, current, behavior, tell, stop, history>>

\* No recover in deliver: the panic ends the goroutine, and done is closed.
PanicKillsLoop ==
  /\ loop = "handling"
  /\ loop' = "exited"
  /\ current' = None
  /\ UNCHANGED <<ch, closed, behavior, tell, stop, history>>

\* OnError's caller queues the failed message again.
PanicRedelivers ==
  /\ loop = "handling"
  /\ loop' = "receiving"
  /\ current' = None
  /\ ch' = <<current>> \o ch
  /\ UNCHANGED <<closed, behavior, tell, stop, history>>

\* The signal sent with a default case, or without regard for the capacity.
SendIfRoom ==
  /\ stop = "closed"
  /\ ch' = IF Len(ch) < MailboxSize THEN Append(ch, StopSignal) ELSE ch
  /\ stop' = "signalled"
  /\ UNCHANGED <<closed, loop, current, behavior, tell, history>>

SendBeyondCapacity ==
  /\ stop = "closed"
  /\ ch' = Append(ch, StopSignal)
  /\ stop' = "signalled"
  /\ UNCHANGED <<closed, loop, current, behavior, tell, history>>

\* OnStop called without waiting for <-c.done.
JoinNothing ==
  /\ stop = "signalled"
  /\ stop' = "joined"
  /\ UNCHANGED <<ch, closed, loop, current, behavior, tell, history>>

-----------------------------------------------------------------------------
(* PID.Tell: the two selects of mailbox.enqueue are two steps.             *)

\* First select: an already closed mailbox is an error, otherwise fall through.
TellCheck(m) ==
  /\ tell[m] = "idle"
  /\ tell' = [tell EXCEPT ![m] = IF closed THEN "rejected" ELSE "checked"]
  /\ sentBefore' = [sentBefore EXCEPT ![m] = Accepted]
  /\ UNCHANGED <<ch, closed, loop, current, behavior, stop, handled, early, racing>>

\* Second select, m.ch <- msg: taken whenever there is room, closed or not.
TellSend(m) ==
  /\ tell[m] = "checked"
  /\ Len(ch) < MailboxSize
  /\ ch' = Append(ch, m)
  /\ tell' = [tell EXCEPT ![m] = "ok"]
  /\ UNCHANGED <<closed, loop, current, behavior, stop, history>>

\* Second select, <-m.closed.
TellReject(m) ==
  /\ tell[m] = "checked"
  /\ closed
  /\ tell' = [tell EXCEPT ![m] = "rejected"]
  /\ UNCHANGED <<ch, closed, loop, current, behavior, stop, history>>

-----------------------------------------------------------------------------
(* The actor's own goroutine.                                              *)

\* OnStart has returned, go c.run(ctx).
StartLoop ==
  /\ loop = "starting"
  /\ loop' = "receiving"
  /\ UNCHANGED <<ch, closed, current, behavior, tell, stop, history>>

\* A message leaves the channel and is handed to the current behavior.
Deliver ==
  /\ loop = "receiving"
  /\ ch # <<>>
  /\ Head(ch) # StopSignal
  /\ ch' = Tail(ch)
  /\ current' = Head(ch)
  /\ handled' = handled \cup {Head(ch)}
  /\ loop' = "handling"
  /\ UNCHANGED <<closed, behavior, tell, stop, sentBefore, early, racing>>

\* The stop signal leaves the channel: return, and close(c.done).
ExitLoop ==
  /\ loop = "receiving"
  /\ ch # <<>>
  /\ Head(ch) = StopSignal
  /\ ch' = Tail(ch)
  /\ loop' = "exited"
  /\ UNCHANGED <<closed, current, behavior, tell, stop, history>>

\* Context.Become, from inside the running handler.
Become(b) ==
  /\ loop = "handling"
  /\ b # behavior
  /\ behavior' = b
  /\ UNCHANGED <<ch, closed, loop, current, tell, stop, history>>

\* The handler returns.
HandlerReturns ==
  /\ loop = "handling"
  /\ loop' = "receiving"
  /\ current' = None
  /\ UNCHANGED <<ch, closed, behavior, tell, stop, history>>

\* The handler panics; deliver recovers, calls OnError, and the loop goes on.
HandlerPanics ==
  /\ loop = "handling"
  /\ loop' = "receiving"
  /\ current' = None
  /\ UNCHANGED <<ch, closed, behavior, tell, stop, history>>

-----------------------------------------------------------------------------
(* actorCell.stop, run by the goroutine that called Stop or Shutdown.      *)

StopClose ==
  /\ stop = "idle"
  /\ stop' = "closed"
  /\ closed' = TRUE
  /\ early' = Accepted
  /\ racing' = {m \in Msgs : tell[m] = "checked"}
  /\ UNCHANGED <<ch, loop, current, behavior, tell, handled, sentBefore>>

StopSend ==
  /\ stop = "closed"
  /\ Len(ch) < MailboxSize
  /\ ch' = Append(ch, StopSignal)
  /\ stop' = "signalled"
  /\ UNCHANGED <<closed, loop, current, behavior, tell, history>>

\* <-c.done
StopJoin ==
  /\ stop = "signalled"
  /\ loop = "exited"
  /\ stop' = "joined"
  /\ UNCHANGED <<ch, closed, loop, current, behavior, tell, history>>

\* OnStop runs in the stopper's goroutine, then stop() returns.
StopHook ==
  /\ stop = "joined"
  /\ stop' = "returned"
  /\ UNCHANGED <<ch, closed, loop, current, behavior, tell, history>>

-----------------------------------------------------------------------------
Returned(m) == tell[m] \in {"ok", "rejected"}

\* Every call has returned; nothing is left to do.
Finished ==
  /\ stop = "returned"
  /\ \A m \in Msgs : Returned(m)
  /\ UNCHANGED vars

Loop == StartLoop \/ Deliver \/ ExitLoop \/ HandlerReturns \/ HandlerPanics

Next ==
  \/ \E m \in Msgs : TellCheck(m) \/ TellSend(m) \/ TellReject(m)
  \/ Loop
  \/ \E b \in Behaviors : Become(b)
  \/ StopClose \/ StopSend \/ StopJoin \/ StopHook
  \/ Finished

(* A runnable goroutine runs, and handlers and hooks return. Nobody is     *)
(* obliged to call Tell or Stop. Go parks blocked senders in a FIFO, which *)
(* would justify strong fairness of TellSend and StopSend; weak is enough. *)
Fairness ==
  /\ WF_vars(Loop)
  /\ \A m \in Msgs : WF_vars(TellSend(m) \/ TellReject(m))
  /\ WF_vars(StopSend) /\ WF_vars(StopJoin) /\ WF_vars(StopHook)

Spec == Init /\ [][Next]_vars
FairSpec == Spec /\ Fairness

-----------------------------------------------------------------------------
TypeOK ==
  /\ ch \in Seq(Msgs \cup {StopSignal}) /\ Len(ch) <= MailboxSize
  /\ closed \in BOOLEAN
  /\ loop \in {"starting", "receiving", "handling", "exited"}
  /\ current \in Msgs \cup {None}
  /\ behavior \in Behaviors
  /\ tell \in [Msgs -> {"idle", "checked", "ok", "rejected"}]
  /\ stop \in {"idle", "closed", "signalled", "joined", "returned"}
  /\ handled \in SUBSET Msgs
  /\ sentBefore \in [Msgs -> SUBSET Msgs]
  /\ early \in SUBSET Msgs
  /\ racing \in SUBSET Msgs

(* "Any message sent to pid before Stop is called is still delivered       *)
(* first": when stop() runs OnStop and returns, every message whose Tell   *)
(* had returned nil before it began has been handled, panics of other      *)
(* messages and full buffers notwithstanding.                              *)
EarlyDelivered == stop \in {"joined", "returned"} => early \subseteq handled

(* Messages sent one after the other are handled in that order, whoever    *)
(* sent them: a handled message is preceded by all those whose Tell had    *)
(* returned nil when its own Tell was called.                              *)
SentOrder == \A m \in handled : sentBefore[m] \subseteq handled

(* The actor's hooks and handlers never overlap: once stop() is past       *)
(* <-c.done, and so while OnStop runs, no message is being handled and     *)
(* none ever will be, although the channel may still hold some.            *)
QuietAfterJoin ==
  [][(stop \in {"joined", "returned"}) => current' = None /\ handled' = handled]_vars

(* The one loss the code admits: a message Tell accepted is missing when    *)
(* the actor is gone only if its Tell was between the two selects of       *)
(* enqueue when the mailbox was closed, never if it was called later.      *)
LossOnlyByRace ==
  stop \in {"joined", "returned"} => Accepted \ handled \subseteq racing

(* A Tell blocked on a full mailbox returns, even when the actor is        *)
(* stopped while it waits and nobody will ever drain the buffer again.     *)
TellReturns == \A m \in Msgs : tell[m] = "checked" ~> Returned(m)

(* Stop waits for the actor to exit and returns, although its own signal   *)
(* must find room in the buffer behind everybody else's messages.          *)
StopReturns == stop = "closed" ~> stop = "returned"

(* What a Tell accepted while nobody was stopping the actor is handled.    *)
EarlyHandled ==
  \A m \in Msgs : tell[m] = "ok" /\ ~closed ~> m \in handled

(* Stop's comment allows a message sent concurrently to be rejected "with  *)
(* ErrMailboxClosed instead" of delivered: whatever Tell accepted has been *)
(* handled by the time the actor is gone and all calls have returned.      *)
AcceptedDelivered ==
  stop = "returned" /\ (\A m \in Msgs : Returned(m)) => Accepted \subseteq handled
=============================================================================
