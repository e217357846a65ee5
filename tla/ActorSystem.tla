----------------------------- MODULE ActorSystem -----------------------------
(***************************************************************************)
(* The lifecycle of the actors of one process (pkg/actor): the registry    *)
(* and the goroutines that Spawn, Tell, Stop and Shutdown through it, the  *)
(* actors' own goroutines included, whose handlers do the same through     *)
(* their Context.                                                          *)
(*                                                                         *)
(* Cells are numbered in the order they are created. A cell's number is    *)
(* its PID (Spawn and Lookup hand out PIDs of created cells only) and its  *)
(* goroutine. Messages carry nothing here; ActorCell tells them apart.     *)
(***************************************************************************)
EXTENDS Naturals, Sequences, FiniteSets

CONSTANTS Ids,          \* actor identifiers
          Clients,      \* goroutines that are not actors
          MailboxSize,  \* capacity of every mailbox channel
          HandlerOps,   \* what handlers do besides returning
          Knows,        \* <<i, j>>: handlers of i hold PIDs of j
          MaxSpawns,    \* bound: actors created in a behaviour
          MaxSteps,     \* bound: operations per handled message
          None

Cells == 1..MaxSpawns
Threads == Clients \cup Cells

ASSUME SystemAssumption ==
  /\ MailboxSize \in Nat \ {0}
  /\ MaxSpawns \in Nat
  /\ MaxSteps \in Nat
  /\ HandlerOps \subseteq {"spawn", "tell", "stop", "shutdown", "panic"}
  /\ Knows \subseteq Ids \X Ids
  /\ Clients \cap Cells = {}
  /\ None \notin Cells
  /\ None \notin Ids

VARIABLES
  registry,  \* ActorSystem.cells
  spawned,   \* how many cells exist
  id,        \* per cell, its PID's id
  ch,        \* per cell, mailbox.ch: "msg" and the stopSignal "stop"
  closed,    \* per cell, mailbox.closed has been closed
  loop,      \* per cell, the run goroutine
  steps,     \* per cell, operations of the running handler so far
  pc,        \* per goroutine, where in a call it is
  target,    \* per goroutine, the cell that call works on
  todo,      \* per goroutine, cells its Stop or Shutdown has yet to stop
  \* history, read by properties only
  took       \* the actors a Stop or Shutdown has removed from the registry

cellVars == <<ch, closed, loop, steps>>
history == <<took>>
vars == <<registry, spawned, id, cellVars, pc, target, todo, history>>

Created == 1..spawned
Registered == {registry[i] : i \in Ids} \ {None}

Init ==
  /\ registry = [i \in Ids |-> None]
  /\ spawned = 0
  /\ id = [c \in Cells |-> None]
  /\ ch = [c \in Cells |-> <<>>]
  /\ closed = [c \in Cells |-> FALSE]
  /\ loop = [c \in Cells |-> "none"]
  /\ steps = [c \in Cells |-> 0]
  /\ pc = [t \in Threads |-> "idle"]
  /\ target = [t \in Threads |-> None]
  /\ todo = [t \in Threads |-> {}]
  /\ took = [t \in Threads |-> {}]

\* t starts an operation: a client between calls, or a handler with steps left.
Calls(t, op) ==
  /\ pc[t] = "idle"
  /\ IF t \in Clients THEN UNCHANGED steps
     ELSE /\ op \in HandlerOps
          /\ loop[t] = "handling"
          /\ steps[t] < MaxSteps
          /\ steps' = [steps EXCEPT ![t] = @ + 1]

\* t holds a PID of c.
Holds(t, c) == c \in Created /\ (t \in Cells => <<id[t], id[c]>> \in Knows)

Goto(t, label) == pc' = [pc EXCEPT ![t] = label]

-----------------------------------------------------------------------------
(* Plausible bugs in the code below. No action uses them: each shows that  *)
(* a property would notice it.                                             *)

\* The second select of enqueue without its closed case.
NeverReject(t) == FALSE /\ UNCHANGED vars

\* Stop looks the cell up under RLock and does not delete it.
StopKeepsEntry(t, p) ==
  LET taken == {registry[id[p]]} \ {None} IN
  /\ Calls(t, "stop")
  /\ Holds(t, p)
  /\ todo' = [todo EXCEPT ![t] = taken]
  /\ took' = [took EXCEPT ![t] = taken]
  /\ Goto(t, "stopping")
  /\ UNCHANGED <<registry, spawned, id, ch, closed, loop, target>>

\* Shutdown stops the cells without clearing the map.
ShutdownKeepsMap(t) ==
  /\ Calls(t, "shutdown")
  /\ todo' = [todo EXCEPT ![t] = Registered]
  /\ took' = [took EXCEPT ![t] = Registered]
  /\ Goto(t, "stopping")
  /\ UNCHANGED <<registry, spawned, id, ch, closed, loop, target>>

\* stop() without mailbox.close().
CloseNothing(t, c) ==
  /\ pc[t] = "stopping"
  /\ c \in todo[t]
  /\ todo' = [todo EXCEPT ![t] = @ \ {c}]
  /\ target' = [target EXCEPT ![t] = c]
  /\ Goto(t, "signalling")
  /\ UNCHANGED <<registry, spawned, id, cellVars, history>>

\* stop() sends its signal whatever the capacity, or does not wait for done.
SendBeyondCapacity(t) ==
  /\ pc[t] = "signalling"
  /\ ch' = [ch EXCEPT ![target[t]] = Append(@, "stop")]
  /\ Goto(t, "joining")
  /\ UNCHANGED <<registry, spawned, id, closed, loop, steps, target, todo, history>>

JoinNothing(t) ==
  /\ pc[t] = "joining"
  /\ Goto(t, "hook")
  /\ UNCHANGED <<registry, spawned, id, cellVars, target, todo, history>>

-----------------------------------------------------------------------------
(* Spawn. An id already registered is an error that changes nothing.       *)

Spawn(t, i) ==
  LET c == spawned + 1 IN
  /\ Calls(t, "spawn")
  /\ registry[i] = None
  /\ spawned < MaxSpawns
  /\ spawned' = c
  /\ registry' = [registry EXCEPT ![i] = c]
  /\ id' = [id EXCEPT ![c] = i]
  /\ loop' = [loop EXCEPT ![c] = "starting"]
  /\ target' = [target EXCEPT ![t] = c]
  /\ Goto(t, "starting")
  /\ UNCHANGED <<ch, closed, todo, history>>

\* OnStart returns to start(): go c.run(ctx).
OnStartReturns(t) ==
  /\ pc[t] = "starting"
  /\ loop' = [loop EXCEPT ![target[t]] = "receiving"]
  /\ Goto(t, "idle")
  /\ target' = [target EXCEPT ![t] = None]
  /\ UNCHANGED <<registry, spawned, id, ch, closed, steps, todo, history>>

\* OnStart panics in a handler's Spawn; the deliver of that handler recovers.
OnStartPanics(t) ==
  /\ t \in Cells
  /\ "panic" \in HandlerOps
  /\ pc[t] = "starting"
  /\ loop' = [loop EXCEPT ![target[t]] = "unstarted", ![t] = "receiving"]
  /\ Goto(t, "idle")
  /\ target' = [target EXCEPT ![t] = None]
  /\ UNCHANGED <<registry, spawned, id, ch, closed, steps, todo, history>>

-----------------------------------------------------------------------------
(* Tell, with the two selects of enqueue.                                  *)

TellCheck(t, c) ==
  /\ Calls(t, "tell")
  /\ Holds(t, c)
  /\ IF closed[c] THEN UNCHANGED <<pc, target>>
     ELSE Goto(t, "telling") /\ target' = [target EXCEPT ![t] = c]
  /\ UNCHANGED <<registry, spawned, id, ch, closed, loop, todo, history>>

TellSend(t) ==
  /\ pc[t] = "telling"
  /\ Len(ch[target[t]]) < MailboxSize
  /\ ch' = [ch EXCEPT ![target[t]] = Append(@, "msg")]
  /\ Goto(t, "idle")
  /\ target' = [target EXCEPT ![t] = None]
  /\ UNCHANGED <<registry, spawned, id, closed, loop, steps, todo, history>>

TellReject(t) ==
  /\ pc[t] = "telling"
  /\ closed[target[t]]
  /\ Goto(t, "idle")
  /\ target' = [target EXCEPT ![t] = None]
  /\ UNCHANGED <<registry, spawned, id, cellVars, todo, history>>

-----------------------------------------------------------------------------
(* Stop and Shutdown: what they do under the lock, then cell.stop for each *)
(* cell they took out of the registry. Shutdown ranges over a map, so in   *)
(* any order.                                                              *)

\* Stop(pid) takes whichever actor is registered under pid.id, if any.
Stop(t, p) ==
  LET taken == {registry[id[p]]} \ {None} IN
  /\ Calls(t, "stop")
  /\ Holds(t, p)
  /\ registry' = [registry EXCEPT ![id[p]] = None]
  /\ todo' = [todo EXCEPT ![t] = taken]
  /\ took' = [took EXCEPT ![t] = taken]
  /\ Goto(t, "stopping")
  /\ UNCHANGED <<spawned, id, ch, closed, loop, target>>

Shutdown(t) ==
  /\ Calls(t, "shutdown")
  /\ registry' = [i \in Ids |-> None]
  /\ todo' = [todo EXCEPT ![t] = Registered]
  /\ took' = [took EXCEPT ![t] = Registered]
  /\ Goto(t, "stopping")
  /\ UNCHANGED <<spawned, id, ch, closed, loop, target>>

StopClose(t, c) ==
  /\ pc[t] = "stopping"
  /\ c \in todo[t]
  /\ todo' = [todo EXCEPT ![t] = @ \ {c}]
  /\ target' = [target EXCEPT ![t] = c]
  /\ closed' = [closed EXCEPT ![c] = TRUE]
  /\ Goto(t, "signalling")
  /\ UNCHANGED <<registry, spawned, id, ch, loop, steps, history>>

StopSend(t) ==
  /\ pc[t] = "signalling"
  /\ Len(ch[target[t]]) < MailboxSize
  /\ ch' = [ch EXCEPT ![target[t]] = Append(@, "stop")]
  /\ Goto(t, "joining")
  /\ UNCHANGED <<registry, spawned, id, closed, loop, steps, target, todo, history>>

\* <-c.done
StopJoin(t) ==
  /\ pc[t] = "joining"
  /\ loop[target[t]] = "exited"
  /\ Goto(t, "hook")
  /\ UNCHANGED <<registry, spawned, id, cellVars, target, todo, history>>

\* OnStop returns, and so does stop().
StopHook(t) ==
  /\ pc[t] = "hook"
  /\ Goto(t, "stopping")
  /\ target' = [target EXCEPT ![t] = None]
  /\ UNCHANGED <<registry, spawned, id, cellVars, todo, history>>

\* Nothing (more) to stop: the call returns.
StopReturn(t) ==
  /\ pc[t] = "stopping"
  /\ todo[t] = {}
  /\ Goto(t, "idle")
  /\ took' = [took EXCEPT ![t] = {}]
  /\ UNCHANGED <<registry, spawned, id, cellVars, target, todo>>

-----------------------------------------------------------------------------
(* The actors' goroutines.                                                 *)

Deliver(c) ==
  /\ loop[c] = "receiving"
  /\ ch[c] # <<>>
  /\ Head(ch[c]) = "msg"
  /\ ch' = [ch EXCEPT ![c] = Tail(@)]
  /\ loop' = [loop EXCEPT ![c] = "handling"]
  /\ steps' = [steps EXCEPT ![c] = 0]
  /\ UNCHANGED <<registry, spawned, id, closed, pc, target, todo, history>>

ExitLoop(c) ==
  /\ loop[c] = "receiving"
  /\ ch[c] # <<>>
  /\ Head(ch[c]) = "stop"
  /\ ch' = [ch EXCEPT ![c] = Tail(@)]
  /\ loop' = [loop EXCEPT ![c] = "exited"]
  /\ UNCHANGED <<registry, spawned, id, closed, steps, pc, target, todo, history>>

\* The handler returns, or panics and is recovered: here there is no difference.
HandlerEnds(c) ==
  /\ loop[c] = "handling"
  /\ pc[c] = "idle"
  /\ loop' = [loop EXCEPT ![c] = "receiving"]
  /\ UNCHANGED <<registry, spawned, id, ch, closed, steps, pc, target, todo, history>>

-----------------------------------------------------------------------------
Stopping(t) == (\E c \in Cells : StopClose(t, c)) \/ StopSend(t) \/ StopJoin(t)
               \/ StopHook(t) \/ StopReturn(t)
Loop(c) == Deliver(c) \/ ExitLoop(c) \/ HandlerEnds(c)

Next ==
  \/ \E t \in Threads :
       \/ \E i \in Ids : Spawn(t, i)
       \/ OnStartReturns(t) \/ OnStartPanics(t)
       \/ \E c \in Cells : TellCheck(t, c) \/ Stop(t, c)
       \/ TellSend(t) \/ TellReject(t)
       \/ Shutdown(t)
       \/ Stopping(t)
  \/ \E c \in Cells : Loop(c)

(* Runnable goroutines run, handlers and hooks return. Nobody is obliged   *)
(* to begin a call. Go parks the senders on a full channel in a queue and  *)
(* hands each freed slot to the first, so no sender waits forever on a     *)
(* channel that keeps being drained: strong fairness of the sends.         *)
Fairness ==
  /\ \A t \in Threads : /\ WF_vars(OnStartReturns(t) \/ OnStartPanics(t))
                        /\ SF_vars(TellSend(t) \/ TellReject(t))
                        /\ WF_vars(Stopping(t))
  /\ \A c \in Cells : WF_vars(Loop(c))

Spec == Init /\ [][Next]_vars
FairSpec == Spec /\ Fairness

-----------------------------------------------------------------------------
InStop == {"signalling", "joining", "hook"}

\* The cells t has taken out of the registry and not yet seen exit.
Claims(t) == todo[t] \cup (IF pc[t] \in InStop THEN {target[t]} ELSE {})

TypeOK ==
  /\ registry \in [Ids -> Cells \cup {None}]
  /\ spawned \in 0..MaxSpawns
  /\ id \in [Cells -> Ids \cup {None}]
  /\ ch \in [Cells -> Seq({"msg", "stop"})]
  /\ \A c \in Cells : Len(ch[c]) <= MailboxSize
  /\ closed \in [Cells -> BOOLEAN]
  /\ loop \in [Cells -> {"none", "starting", "unstarted", "receiving", "handling", "exited"}]
  /\ steps \in [Cells -> 0..MaxSteps]
  /\ pc \in [Threads -> {"idle", "starting", "telling", "stopping"} \cup InStop]
  /\ target \in [Threads -> Cells \cup {None}]
  /\ todo \in [Threads -> SUBSET Cells]
  /\ took \in [Threads -> SUBSET Cells]

(* No two goroutines ever stop the same actor, and none stops one that is  *)
(* still registered: deleting the entry under the lock hands the cell to   *)
(* one caller. mailbox.close, which closes its channel after an unlocked   *)
(* check, depends on it, and so does the single stop signal.               *)
OneStopper ==
  /\ \A s, t \in Threads : s # t => Claims(s) \cap Claims(t) = {}
  /\ \A t \in Threads : Claims(t) \cap Registered = {}

(* An actor found by Lookup takes messages: as long as it is registered    *)
(* its mailbox is open and its goroutine has not exited.                   *)
RegisteredIsOpen ==
  \A i \in Ids : registry[i] # None =>
     id[registry[i]] = i /\ ~closed[registry[i]] /\ loop[registry[i]] # "exited"

(* "waits for all of their goroutines to exit before returning": the cells *)
(* a Stop or Shutdown took out of the registry have all exited when it     *)
(* returns.                                                                *)
Reaped ==
  [][\A t \in Threads : pc[t] = "stopping" /\ pc'[t] = "idle" =>
        \A c \in took[t] : loop'[c] = "exited"]_vars

(* Stop "terminates the actor referenced by pid, waits for it to exit",    *)
(* and Shutdown "waits for all of their goroutines to exit before          *)
(* returning": both return.                                                *)
StopReturns == \A t \in Threads : pc[t] = "stopping" ~> pc[t] = "idle"

\* t cannot go on before target[t]'s goroutine does: there is no room in an open
\* mailbox, or none for the stop signal, or that goroutine has not exited.
Waits(t) ==
  \/ pc[t] = "telling" /\ Len(ch[target[t]]) = MailboxSize /\ ~closed[target[t]]
  \/ pc[t] = "signalling" /\ Len(ch[target[t]]) = MailboxSize
  \/ pc[t] = "joining" /\ loop[target[t]] # "exited"

\* What t waits for waits itself, for itself in the end, or was never started.
Blocked(t) ==
  /\ Waits(t)
  /\ \E S \in SUBSET Cells :
       /\ target[t] \in S
       /\ \A c \in S : loop[c] = "unstarted" \/ (Waits(c) /\ target[c] \in S)

(* Stop and Shutdown return unless they wait for a cycle: an actor whose   *)
(* handler waits for room in a mailbox, or for an exit, that only an actor *)
(* could bring about which waits for the first; or for a goroutine that    *)
(* does not exist. Panics, ids used again, racing calls and full mailboxes *)
(* by themselves do not keep them.                                         *)
StopBlockedByCycle ==
  \A t \in Threads : pc[t] \in {"stopping"} \cup InStop ~> pc[t] = "idle" \/ Blocked(t)

(* A Tell blocked on a full mailbox returns, with room made by the actor   *)
(* or the error of its stopping. The only thing that can keep it waiting   *)
(* is such a cycle at the actor it tells.                                  *)
TellReturns == \A t \in Threads : pc[t] = "telling" ~> pc[t] = "idle" \/ Blocked(t)
=============================================================================
