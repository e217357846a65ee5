-------------------------- MODULE ActorSystemProofs --------------------------
(***************************************************************************)
(* Safety of the actor system, for any sets of ids, clients and cells, and *)
(* any mailbox size and handlers.                                          *)
(***************************************************************************)
EXTENDS ActorSystem, TLAPS

\* A cell exists once it is numbered; spawning is what numbers it.
CreatedInv ==
  /\ \A c \in Cells : loop[c] # "none" \/ closed[c] => c \in Created
  /\ \A c \in Created : id[c] \in Ids
  /\ \A i \in Ids : registry[i] # None => registry[i] \in Created
  /\ \A t \in Threads : todo[t] \subseteq Created
  /\ \A t \in Threads : target[t] # None => target[t] \in Created

\* A goroutine in the middle of a call works on a cell.
TargetInv ==
  /\ \A t \in Threads : pc[t] # "idle" /\ pc[t] # "stopping" => target[t] \in Cells
  /\ \A t \in Threads : pc[t] \notin {"stopping"} \cup InStop => todo[t] = {}

\* What the label of a goroutine says about that cell, and about its own.
PcInv ==
  /\ \A t \in Threads : pc[t] \in InStop => closed[target[t]]
  /\ \A t \in Threads : pc[t] = "starting" => loop[target[t]] = "starting"
  /\ \A t \in Threads : pc[t] = "hook" => loop[target[t]] = "exited"
  /\ \A t \in Threads : t \in Cells /\ pc[t] # "idle" => loop[t] = "handling"

\* A cell is started by one goroutine only.
StarterInv ==
  \A s, t \in Threads :
     pc[s] = "starting" /\ pc[t] = "starting" /\ target[s] = target[t] => s = t

\* Only a closed mailbox is sent the signal, and only the signal ends a loop.
SignalInv ==
  /\ \A c \in Cells : \A k \in 1..Len(ch[c]) : ch[c][k] = "stop" => closed[c]
  /\ \A c \in Cells : loop[c] = "exited" => closed[c]

\* c is among the cells t has yet to stop, or is stopping.
ClaimedBy(c, t) == c \in todo[t] \/ (pc[t] \in InStop /\ c = target[t])

\* OneStopper, cell by cell.
StopperInv ==
  /\ \A s, t \in Threads : \A c \in Cells : ClaimedBy(c, s) /\ ClaimedBy(c, t) => s = t
  /\ \A t \in Threads : \A i \in Ids : registry[i] # None => ~ClaimedBy(registry[i], t)

\* What Stop or Shutdown took has exited or is still to be stopped by it.
TookInv ==
  \A t \in Threads : \A c \in took[t] : ClaimedBy(c, t) \/ loop[c] = "exited"

SystemInv ==
  /\ TypeOK /\ CreatedInv /\ TargetInv /\ PcInv /\ StarterInv /\ SignalInv
  /\ StopperInv /\ TookInv /\ RegisteredIsOpen

-----------------------------------------------------------------------------
\* A new actor system has no cells, and everything has its type.
LEMMA TypeInit == Init => TypeOK
<1> SUFFICES ASSUME Init PROVE TypeOK
  OBVIOUS
<1> USE SystemAssumption DEF SystemAssumption, Init, Cells
<1>1. /\ ch \in [Cells -> Seq({"msg", "stop"})]
      /\ \A c \in Cells : Len(ch[c]) <= MailboxSize
  OBVIOUS
<1>2. /\ closed \in [Cells -> BOOLEAN]
      /\ todo \in [Threads -> SUBSET Cells]
      /\ took \in [Threads -> SUBSET Cells]
  OBVIOUS
<1> QED
  BY <1>1, <1>2 DEF TypeOK

\* The head of a channel is its first element; the others move up by one.
LEMMA TailIndices ==
  ASSUME NEW S, NEW s \in Seq(S), s # <<>>
  PROVE  /\ Tail(s) \in Seq(S) /\ Head(s) \in S
         /\ Len(s) >= 1 /\ Len(Tail(s)) = Len(s) - 1
         /\ Head(s) = s[1]
         /\ \A k \in 1..Len(Tail(s)) : k + 1 \in 1..Len(s) /\ Tail(s)[k] = s[k + 1]
  OBVIOUS

\* Sending puts the message behind the others, which keep their places.
LEMMA AppendIndices ==
  ASSUME NEW S, NEW s \in Seq(S), NEW e \in S
  PROVE  /\ Append(s, e) \in Seq(S)
         /\ Len(Append(s, e)) = Len(s) + 1
         /\ Append(s, e)[Len(s) + 1] = e
         /\ \A k \in 1..Len(s) : Append(s, e)[k] = s[k]
  OBVIOUS

\* An operation begins in an idle goroutine and counts one step of a handler.
LEMMA CallsSteps ==
  ASSUME TypeOK, NEW t \in Threads, NEW op, Calls(t, op)
  PROVE  /\ pc[t] = "idle" /\ (t \in Cells => loop[t] = "handling")
         /\ steps' \in [Cells -> 0..MaxSteps]
<1>1. CASE t \in Clients
  BY <1>1, SystemAssumption DEF SystemAssumption, TypeOK, Calls
<1>2. CASE t \in Cells /\ t \notin Clients
  <2>1. /\ pc[t] = "idle" /\ loop[t] = "handling"
        /\ steps[t] < MaxSteps /\ steps' = [steps EXCEPT ![t] = @ + 1]
    BY <1>2 DEF Calls
  <2>2. steps \in [Cells -> 0..MaxSteps] /\ MaxSteps \in Nat
    BY SystemAssumption DEF SystemAssumption, TypeOK
  <2>3. steps[t] + 1 \in 0..MaxSteps
    BY <1>2, <2>1, <2>2
  <2> QED
    BY <1>2, <2>1, <2>2, <2>3
<1> QED
  BY <1>1, <1>2 DEF Threads

(* Every step preserves the types; that there is room in a mailbox when a   *)
(* send is taken, and a cell left when one is spawned, comes from guards.  *)
LEMMA TypeStep == SystemInv /\ [Next]_vars => TypeOK'
<1> SUFFICES ASSUME SystemInv, [Next]_vars PROVE TypeOK'
  OBVIOUS
<1> USE SystemAssumption
    DEF SystemAssumption, SystemInv, TypeOK, Goto, InStop, history, cellVars
<1>1. ASSUME NEW t \in Threads, NEW i \in Ids, Spawn(t, i) PROVE TypeOK'
  <2>1. spawned + 1 \in Cells /\ spawned' \in 0..MaxSpawns
    BY <1>1 DEF Spawn, Cells
  <2>2. steps' \in [Cells -> 0..MaxSteps]
    BY <1>1, CallsSteps DEF Spawn
  <2>3. /\ registry' = [registry EXCEPT ![i] = spawned + 1] /\ id' = [id EXCEPT ![spawned + 1] = i]
        /\ target' = [target EXCEPT ![t] = spawned + 1] /\ pc' = [pc EXCEPT ![t] = "starting"]
        /\ loop' = [loop EXCEPT ![spawned + 1] = "starting"]
        /\ ch' = ch /\ closed' = closed /\ todo' = todo /\ took' = took
    BY <1>1 DEF Spawn
  <2>4. registry' \in [Ids -> Cells \cup {None}] /\ id' \in [Cells -> Ids \cup {None}]
    BY <2>1, <2>3
  <2>5. target' \in [Threads -> Cells \cup {None}]
    BY <2>1, <2>3
  <2>6. pc' \in [Threads -> {"idle", "starting", "telling", "stopping"} \cup InStop]
    BY <2>3
  <2>7. loop' \in [Cells -> {"none", "starting", "unstarted", "receiving", "handling", "exited"}]
    BY <2>1, <2>3
  <2>8. /\ ch' \in [Cells -> Seq({"msg", "stop"})] /\ \A c \in Cells : Len(ch'[c]) <= MailboxSize
        /\ closed' \in [Cells -> BOOLEAN]
        /\ todo' \in [Threads -> SUBSET Cells] /\ took' \in [Threads -> SUBSET Cells]
    BY <2>3, Zenon
  <2> HIDE DEF InStop
  <2> QED
    BY <2>1, <2>2, <2>4, <2>5, <2>6, <2>7, <2>8, Zenon
<1>2. ASSUME NEW t \in Threads, OnStartReturns(t) \/ OnStartPanics(t) PROVE TypeOK'
  <2>1. CASE OnStartReturns(t)
    BY <2>1 DEF OnStartReturns
  <2>2. CASE OnStartPanics(t)
    BY <2>2 DEF OnStartPanics
  <2> QED
    BY <1>2, <2>1, <2>2
<1>3. ASSUME NEW t \in Threads, NEW c \in Cells, TellCheck(t, c) PROVE TypeOK'
  <2>1. steps' \in [Cells -> 0..MaxSteps]
    BY <1>3, CallsSteps DEF TellCheck
  <2> QED
    <3>1. CASE closed[c]
      BY <1>3, <2>1, <3>1 DEF TellCheck
    <3>2. CASE ~closed[c]
      <4>1. /\ pc' = [pc EXCEPT ![t] = "telling"]
            /\ target' = [target EXCEPT ![t] = c]
        BY <1>3, <3>2 DEF TellCheck
      <4> QED
        BY <1>3, <2>1, <4>1 DEF TellCheck
    <3> QED
      BY <3>1, <3>2
<1>4. ASSUME NEW t \in Threads, TellSend(t) \/ StopSend(t) PROVE TypeOK'
  <2>1. target[t] \in Cells
    BY <1>4 DEF TellSend, StopSend, TargetInv
  <2>2. PICK e \in {"msg", "stop"} : ch' = [ch EXCEPT ![target[t]] = Append(@, e)]
    BY <1>4 DEF TellSend, StopSend
  <2>3. /\ Append(ch[target[t]], e) \in Seq({"msg", "stop"})
        /\ Len(Append(ch[target[t]], e)) <= MailboxSize
    BY <1>4, <2>1, AppendIndices DEF TellSend, StopSend
  <2>4. ch' \in [Cells -> Seq({"msg", "stop"})] /\ \A c \in Cells : Len(ch'[c]) <= MailboxSize
    BY <2>1, <2>2, <2>3
  <2> QED
    BY <1>4, <2>4 DEF TellSend, StopSend
<1>5. ASSUME NEW t \in Threads, TellReject(t) PROVE TypeOK'
  BY <1>5 DEF TellReject
<1>6. ASSUME NEW t \in Threads, NEW p \in Cells, Stop(t, p) PROVE TypeOK'
  <2>1. steps' \in [Cells -> 0..MaxSteps]
    BY <1>6, CallsSteps DEF Stop
  <2>2. id[p] \in Ids /\ {registry[id[p]]} \ {None} \in SUBSET Cells
    BY <1>6 DEF Stop, Holds, CreatedInv
  <2> QED
    BY <1>6, <2>1, <2>2 DEF Stop
<1>7. ASSUME NEW t \in Threads, Shutdown(t) PROVE TypeOK'
  <2>1. steps' \in [Cells -> 0..MaxSteps]
    BY <1>7, CallsSteps DEF Shutdown
  <2>2. Registered \in SUBSET Cells
    BY DEF Registered
  <2> QED
    BY <1>7, <2>1, <2>2 DEF Shutdown
<1>8. ASSUME NEW t \in Threads, NEW c \in Cells, StopClose(t, c) PROVE TypeOK'
  BY <1>8 DEF StopClose
<1>9. ASSUME NEW t \in Threads, StopJoin(t) \/ StopHook(t) \/ StopReturn(t) PROVE TypeOK'
  BY <1>9 DEF StopJoin, StopHook, StopReturn
<1>10. ASSUME NEW c \in Cells, Deliver(c) \/ ExitLoop(c) PROVE TypeOK'
  <2>1. Tail(ch[c]) \in Seq({"msg", "stop"}) /\ Len(Tail(ch[c])) <= MailboxSize
    BY <1>10, TailIndices DEF Deliver, ExitLoop
  <2>2. ch' = [ch EXCEPT ![c] = Tail(@)]
    BY <1>10 DEF Deliver, ExitLoop
  <2>3. ch' \in [Cells -> Seq({"msg", "stop"})] /\ \A d \in Cells : Len(ch'[d]) <= MailboxSize
    BY <2>1, <2>2
  <2>4. CASE Deliver(c)
    BY <2>3, <2>4 DEF Deliver
  <2>5. CASE ExitLoop(c)
    BY <2>3, <2>5 DEF ExitLoop
  <2> QED
    BY <1>10, <2>4, <2>5
<1>11. ASSUME NEW c \in Cells, HandlerEnds(c) PROVE TypeOK'
  BY <1>11 DEF HandlerEnds
<1>12. CASE UNCHANGED vars
  BY <1>12 DEF vars
<1> QED
  BY <1>1, <1>2, <1>3, <1>4, <1>5, <1>6, <1>7, <1>8, <1>9, <1>10, <1>11, <1>12
     DEF Next, Stopping, Loop

\* The inductive invariant holds of a new actor system.
LEMMA SystemInit == Init => SystemInv
<1> SUFFICES ASSUME Init PROVE SystemInv
  OBVIOUS
<1>1. TypeOK
  BY TypeInit
<1>2. /\ \A i \in Ids : registry[i] = None
      /\ \A c \in Cells : loop[c] = "none" /\ ~closed[c] /\ ch[c] = <<>>
      /\ \A t \in Threads : pc[t] = "idle" /\ target[t] = None /\ todo[t] = {} /\ took[t] = {}
      /\ Created = {}
  BY SystemAssumption DEF SystemAssumption, Init, Created, Cells
<1>3. CreatedInv /\ TargetInv /\ PcInv
  BY <1>2, SystemAssumption DEF SystemAssumption, CreatedInv, TargetInv, PcInv, InStop
<1>4. StarterInv /\ SignalInv
  BY <1>2 DEF StarterInv, SignalInv
<1>5. StopperInv /\ TookInv /\ RegisteredIsOpen
  BY <1>2 DEF StopperInv, TookInv, ClaimedBy, RegisteredIsOpen, InStop
<1> QED
  BY <1>1, <1>3, <1>4, <1>5 DEF SystemInv

(* Every step of a client, a handler or a loop preserves the inductive      *)
(* invariant, action by action and part by part.                           *)
LEMMA SystemStep == SystemInv /\ [Next]_vars => SystemInv'
<1> SUFFICES ASSUME SystemInv, [Next]_vars PROVE SystemInv'
  OBVIOUS
<1>0. /\ TypeOK /\ TypeOK' /\ CreatedInv /\ TargetInv /\ PcInv /\ StarterInv /\ SignalInv
      /\ StopperInv /\ TookInv /\ RegisteredIsOpen /\ None \notin Cells
  BY TypeStep, SystemAssumption DEF SystemInv, SystemAssumption
<1>a. /\ \A i \in Ids : registry[i] \in Cells \cup {None}
      /\ \A t \in Threads : /\ target[t] \in Cells \cup {None}
                           /\ todo[t] \subseteq Cells
                           /\ took[t] \subseteq Cells
      /\ Cells \subseteq Threads /\ Created \subseteq Cells
  <2>1. /\ registry \in [Ids -> Cells \cup {None}] /\ target \in [Threads -> Cells \cup {None}]
        /\ todo \in [Threads -> SUBSET Cells] /\ took \in [Threads -> SUBSET Cells]
        /\ spawned \in 0..MaxSpawns
    BY <1>0 DEF TypeOK
  <2>2. Cells \subseteq Threads /\ Created \subseteq Cells
    BY <2>1, SystemAssumption DEF Threads, Created, Cells, SystemAssumption
  <2> QED
    BY <2>1, <2>2
<1>1. ASSUME NEW t \in Threads, NEW i \in Ids, Spawn(t, i) PROVE SystemInv'
  <2>1. pc[t] = "idle" /\ (t \in Cells => loop[t] = "handling")
    BY <1>1, <1>0, CallsSteps DEF Spawn
  <2>2. /\ spawned + 1 \in Cells \ Created /\ Created' = Created \cup {spawned + 1}
        /\ \A j \in Ids : registry'[j] = IF j = i THEN spawned + 1 ELSE registry[j]
        /\ \A d \in Cells : id'[d] = IF d = spawned + 1 THEN i ELSE id[d]
        /\ \A d \in Cells : loop'[d] = IF d = spawned + 1 THEN "starting" ELSE loop[d]
        /\ \A s \in Threads : pc'[s] = IF s = t THEN "starting" ELSE pc[s]
        /\ \A s \in Threads : target'[s] = IF s = t THEN spawned + 1 ELSE target[s]
        /\ UNCHANGED <<ch, closed, todo, took>>
    <3>1. /\ registry' = [registry EXCEPT ![i] = spawned + 1] /\ id' = [id EXCEPT ![spawned + 1] = i]
          /\ target' = [target EXCEPT ![t] = spawned + 1] /\ pc' = [pc EXCEPT ![t] = "starting"]
          /\ loop' = [loop EXCEPT ![spawned + 1] = "starting"]
          /\ spawned' = spawned + 1 /\ spawned < MaxSpawns
          /\ UNCHANGED <<ch, closed, todo, took>>
      BY <1>1 DEF Spawn, Goto, history
    <3>2. spawned + 1 \in Cells \ Created /\ Created' = Created \cup {spawned + 1}
      <4>1. spawned \in Nat /\ MaxSpawns \in Nat
        BY <1>0, SystemAssumption DEF TypeOK, SystemAssumption
      <4>2. Created' = 1..(spawned + 1)
        BY <3>1 DEF Created
      <4> QED
        BY <3>1, <4>1, <4>2 DEF Created, Cells
    <3>3. /\ DOMAIN registry = Ids /\ DOMAIN id = Cells /\ DOMAIN loop = Cells
          /\ DOMAIN pc = Threads /\ DOMAIN target = Threads
      BY <1>0 DEF TypeOK
    <3>4. /\ \A j \in Ids : registry'[j] = IF j = i THEN spawned + 1 ELSE registry[j]
          /\ \A s \in Threads : pc'[s] = IF s = t THEN "starting" ELSE pc[s]
          /\ \A s \in Threads : target'[s] = IF s = t THEN spawned + 1 ELSE target[s]
      BY <3>1, <3>3
    <3>5. /\ \A d \in Cells : id'[d] = IF d = spawned + 1 THEN i ELSE id[d]
          /\ \A d \in Cells : loop'[d] = IF d = spawned + 1 THEN "starting" ELSE loop[d]
      BY <3>1, <3>2, <3>3
    <3> QED
      BY <3>1, <3>2, <3>4, <3>5
  <2>3. /\ loop[spawned + 1] = "none" /\ ~closed[spawned + 1]
        /\ \A s \in Threads : target[s] # spawned + 1 /\ spawned + 1 \notin todo[s]
        /\ \A j \in Ids : registry[j] # spawned + 1
    BY <1>1, <1>0, <2>2, SystemAssumption DEF CreatedInv, TypeOK, SystemAssumption
  <2>4. \A s \in Threads, d \in Cells : ClaimedBy(d, s)' <=> ClaimedBy(d, s)
    BY <1>0, <1>a, <2>1, <2>2, <2>3 DEF ClaimedBy, InStop, TargetInv
  <2>5. \A d \in Cells : loop[d] = "exited" => loop'[d] = "exited"
    BY <1>0, <2>1, <2>2, <2>3 DEF PcInv
  <2>6. CreatedInv'
    BY <1>0, <1>a, <2>1, <2>2, <2>3 DEF CreatedInv
  <2>7. TargetInv'
    BY <1>0, <1>a, <2>1, <2>2, <2>3 DEF TargetInv, InStop
  <2>8. PcInv'
    BY <1>0, <1>a, <2>1, <2>2, <2>3 DEF PcInv, TargetInv, InStop, CreatedInv
  <2>9. StarterInv'
    BY <1>0, <1>a, <2>1, <2>2, <2>3 DEF StarterInv
  <2>10. SignalInv'
    BY <1>0, <1>a, <2>1, <2>2, <2>3 DEF SignalInv
  <2>11. StopperInv'
    BY <1>0, <1>a, <2>1, <2>2, <2>3, <2>4 DEF StopperInv, ClaimedBy, InStop
  <2>12. TookInv'
    BY <1>0, <1>a, <2>1, <2>2, <2>3, <2>4, <2>5 DEF TookInv
  <2>13. RegisteredIsOpen'
    BY <1>0, <1>a, <2>1, <2>2, <2>3 DEF RegisteredIsOpen
  <2> QED
    BY <1>0, <2>6, <2>7, <2>8, <2>9, <2>10, <2>11, <2>12, <2>13 DEF SystemInv
<1>2. ASSUME NEW t \in Threads, OnStartReturns(t) PROVE SystemInv'
  <2>1. target[t] \in Cells /\ loop[target[t]] = "starting"
    BY <1>2, <1>0 DEF OnStartReturns, PcInv, TargetInv
  <2>2. /\ pc[t] = "starting"
        /\ \A d \in Cells : loop'[d] = IF d = target[t] THEN "receiving" ELSE loop[d]
        /\ \A s \in Threads : pc'[s] = IF s = t THEN "idle" ELSE pc[s]
        /\ \A s \in Threads : target'[s] = IF s = t THEN None ELSE target[s]
        /\ UNCHANGED <<registry, spawned, id, ch, closed, todo, took>>
    BY <1>2, <1>0, <2>1 DEF OnStartReturns, Goto, TypeOK, history
  <2>3. \A s \in Threads, d \in Cells : ClaimedBy(d, s)' <=> ClaimedBy(d, s)
    BY <1>0, <1>a, <2>1, <2>2 DEF ClaimedBy, InStop, TargetInv
  <2>4. \A d \in Cells : loop[d] = "exited" => loop'[d] = "exited"
    BY <1>0, <2>1, <2>2 DEF PcInv
  <2>5. CreatedInv'
    BY <1>0, <1>a, <2>1, <2>2 DEF CreatedInv, Created
  <2>6. TargetInv'
    BY <1>0, <1>a, <2>1, <2>2 DEF TargetInv, InStop
  <2>7. PcInv'
    BY <1>0, <1>a, <2>1, <2>2 DEF PcInv, TargetInv, InStop, StarterInv
  <2>8. StarterInv'
    BY <1>0, <1>a, <2>1, <2>2 DEF StarterInv
  <2>9. SignalInv'
    BY <1>0, <1>a, <2>1, <2>2 DEF SignalInv
  <2>10. StopperInv'
    BY <1>0, <1>a, <2>1, <2>2, <2>3 DEF StopperInv
  <2>11. TookInv'
    BY <1>0, <1>a, <2>1, <2>2, <2>3, <2>4 DEF TookInv
  <2>12. RegisteredIsOpen'
    BY <1>0, <1>a, <2>1, <2>2 DEF RegisteredIsOpen
  <2> QED
    BY <1>0, <2>5, <2>6, <2>7, <2>8, <2>9, <2>10, <2>11, <2>12 DEF SystemInv
<1>3. ASSUME NEW t \in Threads, OnStartPanics(t) PROVE SystemInv'
  <2>1. /\ t \in Cells /\ loop[t] = "handling"
        /\ target[t] \in Cells /\ loop[target[t]] = "starting"
    BY <1>3, <1>0 DEF OnStartPanics, PcInv, TargetInv, Threads
  <2>2. /\ pc[t] = "starting"
        /\ \A d \in Cells : loop'[d] = IF d = t THEN "receiving"
                                     ELSE IF d = target[t] THEN "unstarted" ELSE loop[d]
        /\ \A s \in Threads : pc'[s] = IF s = t THEN "idle" ELSE pc[s]
        /\ \A s \in Threads : target'[s] = IF s = t THEN None ELSE target[s]
        /\ UNCHANGED <<registry, spawned, id, ch, closed, todo, took>>
    BY <1>3, <1>0, <2>1 DEF OnStartPanics, Goto, TypeOK, history
  <2>3. \A s \in Threads, d \in Cells : ClaimedBy(d, s)' <=> ClaimedBy(d, s)
    BY <1>0, <1>a, <2>1, <2>2 DEF ClaimedBy, InStop, TargetInv
  <2>4. \A d \in Cells : loop[d] = "exited" => loop'[d] = "exited"
    BY <1>0, <2>1, <2>2 DEF PcInv
  <2>5. CreatedInv'
    BY <1>0, <1>a, <2>1, <2>2 DEF CreatedInv, Created
  <2>6. TargetInv'
    BY <1>0, <1>a, <2>1, <2>2 DEF TargetInv, InStop
  <2>7. PcInv'
    BY <1>0, <1>a, <2>1, <2>2 DEF PcInv, TargetInv, InStop, StarterInv
  <2>8. StarterInv'
    BY <1>0, <1>a, <2>1, <2>2 DEF StarterInv
  <2>9. SignalInv'
    BY <1>0, <1>a, <2>1, <2>2 DEF SignalInv
  <2>10. StopperInv'
    BY <1>0, <1>a, <2>1, <2>2, <2>3 DEF StopperInv
  <2>11. TookInv'
    BY <1>0, <1>a, <2>1, <2>2, <2>3, <2>4 DEF TookInv
  <2>12. RegisteredIsOpen'
    BY <1>0, <1>a, <2>1, <2>2 DEF RegisteredIsOpen
  <2> QED
    BY <1>0, <2>5, <2>6, <2>7, <2>8, <2>9, <2>10, <2>11, <2>12 DEF SystemInv
<1>4. ASSUME NEW t \in Threads, NEW c \in Cells, TellCheck(t, c), ~closed[c] PROVE SystemInv'
  <2>1. pc[t] = "idle" /\ (t \in Cells => loop[t] = "handling")
    BY <1>4, <1>0, CallsSteps DEF TellCheck
  <2>2. /\ c \in Created
        /\ \A s \in Threads : pc'[s] = IF s = t THEN "telling" ELSE pc[s]
        /\ \A s \in Threads : target'[s] = IF s = t THEN c ELSE target[s]
        /\ UNCHANGED <<registry, spawned, id, ch, closed, loop, todo, took>>
    BY <1>4, <1>0 DEF TellCheck, Holds, Goto, TypeOK, history
  <2>3. \A s \in Threads, d \in Cells : ClaimedBy(d, s)' <=> ClaimedBy(d, s)
    BY <1>0, <1>a, <2>1, <2>2 DEF ClaimedBy, InStop, TargetInv
  <2>4. \A d \in Cells : loop[d] = "exited" => loop'[d] = "exited"
    BY <1>0, <2>1, <2>2 DEF PcInv
  <2>5. CreatedInv'
    BY <1>0, <1>a, <2>1, <2>2 DEF CreatedInv, Created
  <2>6. TargetInv'
    BY <1>0, <1>a, <2>1, <2>2 DEF TargetInv, InStop
  <2>7. PcInv'
    BY <1>0, <1>a, <2>1, <2>2 DEF PcInv, TargetInv, InStop
  <2>8. StarterInv'
    BY <1>0, <1>a, <2>1, <2>2 DEF StarterInv
  <2>9. SignalInv'
    BY <1>0, <1>a, <2>1, <2>2 DEF SignalInv
  <2>10. StopperInv'
    BY <1>0, <1>a, <2>1, <2>2, <2>3 DEF StopperInv
  <2>11. TookInv'
    BY <1>0, <1>a, <2>1, <2>2, <2>3, <2>4 DEF TookInv
  <2>12. RegisteredIsOpen'
    BY <1>0, <1>a, <2>1, <2>2 DEF RegisteredIsOpen
  <2> QED
    BY <1>0, <2>5, <2>6, <2>7, <2>8, <2>9, <2>10, <2>11, <2>12 DEF SystemInv
<1>5. ASSUME NEW t \in Threads, TellSend(t) PROVE SystemInv'
  <2>1. pc[t] = "telling" /\ target[t] \in Cells
    BY <1>5, <1>0 DEF TellSend, TargetInv
  <2>2. /\ \A s \in Threads : pc'[s] = IF s = t THEN "idle" ELSE pc[s]
        /\ \A s \in Threads : target'[s] = IF s = t THEN None ELSE target[s]
        /\ \A d \in Cells : \A k \in 1..Len(ch'[d]) :
              (k \in 1..Len(ch[d]) /\ ch'[d][k] = ch[d][k]) \/ ch'[d][k] = "msg"
        /\ UNCHANGED <<registry, spawned, id, closed, loop, todo, took>>
    BY <1>5, <1>0, <2>1, AppendIndices DEF TellSend, Goto, TypeOK, history
  <2>3. \A s \in Threads, d \in Cells : ClaimedBy(d, s)' <=> ClaimedBy(d, s)
    BY <1>0, <1>a, <2>1, <2>2 DEF ClaimedBy, InStop, TargetInv
  <2>4. \A d \in Cells : loop[d] = "exited" => loop'[d] = "exited"
    BY <1>0, <2>1, <2>2 DEF PcInv
  <2>5. CreatedInv'
    BY <1>0, <1>a, <2>1, <2>2 DEF CreatedInv, Created
  <2>6. TargetInv'
    BY <1>0, <1>a, <2>1, <2>2 DEF TargetInv, InStop
  <2>7. PcInv'
    BY <1>0, <1>a, <2>1, <2>2 DEF PcInv, TargetInv, InStop
  <2>8. StarterInv'
    BY <1>0, <1>a, <2>1, <2>2 DEF StarterInv
  <2>9. SignalInv'
    BY <1>0, <1>a, <2>1, <2>2 DEF SignalInv
  <2>10. StopperInv'
    BY <1>0, <1>a, <2>1, <2>2, <2>3 DEF StopperInv
  <2>11. TookInv'
    BY <1>0, <1>a, <2>1, <2>2, <2>3, <2>4 DEF TookInv
  <2>12. RegisteredIsOpen'
    BY <1>0, <1>a, <2>1, <2>2 DEF RegisteredIsOpen
  <2> QED
    BY <1>0, <2>5, <2>6, <2>7, <2>8, <2>9, <2>10, <2>11, <2>12 DEF SystemInv
<1>6. ASSUME NEW t \in Threads, TellReject(t) PROVE SystemInv'
  <2>1. pc[t] = "telling"
    BY <1>6 DEF TellReject
  <2>2. /\ \A s \in Threads : pc'[s] = IF s = t THEN "idle" ELSE pc[s]
        /\ \A s \in Threads : target'[s] = IF s = t THEN None ELSE target[s]
        /\ UNCHANGED <<registry, spawned, id, ch, closed, loop, todo, took>>
    BY <1>6, <1>0 DEF TellReject, Goto, TypeOK, history, cellVars
  <2>3. \A s \in Threads, d \in Cells : ClaimedBy(d, s)' <=> ClaimedBy(d, s)
    BY <1>0, <1>a, <2>1, <2>2 DEF ClaimedBy, InStop, TargetInv
  <2>4. \A d \in Cells : loop[d] = "exited" => loop'[d] = "exited"
    BY <1>0, <2>1, <2>2 DEF PcInv
  <2>5. CreatedInv'
    BY <1>0, <1>a, <2>1, <2>2 DEF CreatedInv, Created
  <2>6. TargetInv'
    BY <1>0, <1>a, <2>1, <2>2 DEF TargetInv, InStop
  <2>7. PcInv'
    BY <1>0, <1>a, <2>1, <2>2 DEF PcInv, TargetInv, InStop
  <2>8. StarterInv'
    BY <1>0, <1>a, <2>1, <2>2 DEF StarterInv
  <2>9. SignalInv'
    BY <1>0, <1>a, <2>1, <2>2 DEF SignalInv
  <2>10. StopperInv'
    BY <1>0, <1>a, <2>1, <2>2, <2>3 DEF StopperInv
  <2>11. TookInv'
    BY <1>0, <1>a, <2>1, <2>2, <2>3, <2>4 DEF TookInv
  <2>12. RegisteredIsOpen'
    BY <1>0, <1>a, <2>1, <2>2 DEF RegisteredIsOpen
  <2> QED
    BY <1>0, <2>5, <2>6, <2>7, <2>8, <2>9, <2>10, <2>11, <2>12 DEF SystemInv
<1>7. ASSUME NEW t \in Threads, NEW p \in Cells, Stop(t, p) PROVE SystemInv'
  <2>1. pc[t] = "idle" /\ (t \in Cells => loop[t] = "handling")
    BY <1>7, <1>0, CallsSteps DEF Stop
  <2>2. /\ id[p] \in Ids
        /\ \A s \in Threads : pc'[s] = IF s = t THEN "stopping" ELSE pc[s]
        /\ \A j \in Ids : registry'[j] = IF j = id[p] THEN None ELSE registry[j]
        /\ \A s \in Threads : todo'[s] = IF s = t THEN {registry[id[p]]} \ {None} ELSE todo[s]
        /\ \A s \in Threads : took'[s] = IF s = t THEN {registry[id[p]]} \ {None} ELSE took[s]
        /\ UNCHANGED <<spawned, id, ch, closed, loop, target>>
    BY <1>7, <1>0 DEF Stop, Holds, Goto, TypeOK, CreatedInv
  <2>3. /\ \A d \in took'[t] : ClaimedBy(d, t)'
        /\ \A s \in Threads \ {t} : took'[s] = took[s]
              /\ \A d \in Cells : ClaimedBy(d, s) => ClaimedBy(d, s)'
    BY <1>7, <1>0, <1>a, <2>2 DEF ClaimedBy, InStop
  <2>4. CreatedInv'
    BY <1>0, <1>a, <2>1, <2>2, <2>3 DEF CreatedInv, Created
  <2>5. TargetInv'
    BY <1>0, <1>a, <2>1, <2>2, <2>3 DEF TargetInv, InStop
  <2>6. PcInv'
    BY <1>0, <1>a, <2>1, <2>2, <2>3 DEF PcInv, TargetInv, InStop
  <2>7. StarterInv'
    BY <1>0, <1>a, <2>1, <2>2, <2>3 DEF StarterInv
  <2>8. SignalInv'
    BY <1>0, <1>a, <2>1, <2>2, <2>3 DEF SignalInv
  <2>9. StopperInv'
    BY <1>0, <1>a, <2>1, <2>2, <2>3 DEF StopperInv, ClaimedBy, InStop, RegisteredIsOpen, TargetInv
  <2>10. TookInv'
    BY <1>0, <1>a, <2>1, <2>2, <2>3 DEF TookInv
  <2>11. RegisteredIsOpen'
    BY <1>0, <1>a, <2>1, <2>2, <2>3 DEF RegisteredIsOpen
  <2> QED
    BY <1>0, <2>4, <2>5, <2>6, <2>7, <2>8, <2>9, <2>10, <2>11 DEF SystemInv
<1>8. ASSUME NEW t \in Threads, Shutdown(t) PROVE SystemInv'
  <2>1. pc[t] = "idle" /\ (t \in Cells => loop[t] = "handling")
    BY <1>8, <1>0, CallsSteps DEF Shutdown
  <2>2. /\ \A s \in Threads : pc'[s] = IF s = t THEN "stopping" ELSE pc[s]
        /\ \A j \in Ids : registry'[j] = None
        /\ \A s \in Threads : todo'[s] = IF s = t THEN Registered ELSE todo[s]
        /\ \A s \in Threads : took'[s] = IF s = t THEN Registered ELSE took[s]
        /\ UNCHANGED <<spawned, id, ch, closed, loop, target>>
    BY <1>8, <1>0 DEF Shutdown, Goto, TypeOK
  <2>3. /\ \A d \in Registered : d \in Created /\ d \in Cells
        /\ \A s \in Threads : \A d \in Registered : ~ClaimedBy(d, s)
    BY <1>8, <1>0, <1>a DEF Registered, CreatedInv, StopperInv
  <2>4. /\ \A d \in took'[t] : ClaimedBy(d, t)'
        /\ \A s \in Threads \ {t} : took'[s] = took[s]
              /\ \A d \in Cells : ClaimedBy(d, s) => ClaimedBy(d, s)'
    BY <1>8, <1>0, <1>a, <2>2, <2>3 DEF ClaimedBy, InStop
  <2>5. CreatedInv'
    BY <1>0, <1>a, <2>1, <2>2, <2>3, <2>4 DEF CreatedInv, Created
  <2>6. TargetInv'
    BY <1>0, <1>a, <2>1, <2>2, <2>3, <2>4 DEF TargetInv, InStop
  <2>7. PcInv'
    BY <1>0, <1>a, <2>1, <2>2, <2>3, <2>4 DEF PcInv, TargetInv, InStop
  <2>8. StarterInv'
    BY <1>0, <1>a, <2>1, <2>2, <2>3, <2>4 DEF StarterInv
  <2>9. SignalInv'
    BY <1>0, <1>a, <2>1, <2>2, <2>3, <2>4 DEF SignalInv
  <2>10. StopperInv'
    BY <1>0, <1>a, <2>1, <2>2, <2>3, <2>4 DEF StopperInv, ClaimedBy, InStop, TargetInv
  <2>11. TookInv'
    BY <1>0, <1>a, <2>1, <2>2, <2>3, <2>4 DEF TookInv
  <2>12. RegisteredIsOpen'
    BY <1>0, <1>a, <2>1, <2>2, <2>3, <2>4 DEF RegisteredIsOpen
  <2> QED
    BY <1>0, <2>5, <2>6, <2>7, <2>8, <2>9, <2>10, <2>11, <2>12 DEF SystemInv
<1>9. ASSUME NEW t \in Threads, NEW c \in Cells, StopClose(t, c) PROVE SystemInv'
  <2>1. pc[t] = "stopping" /\ c \in todo[t]
    BY <1>9 DEF StopClose
  <2>2. /\ \A s \in Threads : pc'[s] = IF s = t THEN "signalling" ELSE pc[s]
        /\ \A s \in Threads : target'[s] = IF s = t THEN c ELSE target[s]
        /\ \A s \in Threads : todo'[s] = IF s = t THEN todo[t] \ {c} ELSE todo[s]
        /\ \A d \in Cells : closed'[d] <=> d = c \/ closed[d]
        /\ UNCHANGED <<registry, spawned, id, ch, loop, took>>
    BY <1>9, <1>0 DEF StopClose, Goto, TypeOK, history
  <2>3. \A j \in Ids : registry[j] # c
    BY <1>9, <1>0, <2>1 DEF StopperInv, ClaimedBy
  <2>4. \A d \in Cells : ClaimedBy(d, t)' <=> ClaimedBy(d, t)
    BY <1>9, <2>1, <2>2 DEF ClaimedBy, InStop
  <2>5. \A s \in Threads \ {t} : \A d \in Cells : ClaimedBy(d, s)' <=> ClaimedBy(d, s)
    BY <1>9, <2>2 DEF ClaimedBy
  <2>6. \A s \in Threads, d \in Cells : ClaimedBy(d, s)' <=> ClaimedBy(d, s)
    BY <1>0, <1>a, <2>1, <2>2, <2>3, <2>4, <2>5
  <2>7. \A d \in Cells : loop[d] = "exited" => loop'[d] = "exited"
    BY <1>0, <2>1, <2>2, <2>3, <2>4, <2>5 DEF PcInv
  <2>8. CreatedInv'
    BY <1>0, <1>a, <2>1, <2>2, <2>3, <2>4, <2>5 DEF CreatedInv, Created
  <2>9. TargetInv'
    BY <1>0, <1>a, <2>1, <2>2, <2>3, <2>4, <2>5 DEF TargetInv, InStop
  <2>10. PcInv'
    BY <1>0, <1>a, <2>1, <2>2, <2>3, <2>4, <2>5 DEF PcInv, TargetInv, InStop
  <2>11. StarterInv'
    BY <1>0, <1>a, <2>1, <2>2, <2>3, <2>4, <2>5 DEF StarterInv
  <2>12. SignalInv'
    BY <1>0, <1>a, <2>1, <2>2, <2>3, <2>4, <2>5 DEF SignalInv
  <2>13. StopperInv'
    BY <1>0, <1>a, <2>1, <2>2, <2>3, <2>4, <2>5, <2>6 DEF StopperInv
  <2>14. TookInv'
    BY <1>0, <1>a, <2>1, <2>2, <2>3, <2>4, <2>5, <2>6, <2>7 DEF TookInv
  <2>15. RegisteredIsOpen'
    BY <1>0, <1>a, <2>1, <2>2, <2>3, <2>4, <2>5 DEF RegisteredIsOpen
  <2> QED
    BY <1>0, <2>8, <2>9, <2>10, <2>11, <2>12, <2>13, <2>14, <2>15 DEF SystemInv
<1>10. ASSUME NEW t \in Threads, StopSend(t) PROVE SystemInv'
  <2>1. pc[t] = "signalling" /\ target[t] \in Cells /\ closed[target[t]]
    BY <1>10, <1>0 DEF StopSend, TargetInv, PcInv, InStop
  <2>2. /\ \A s \in Threads : pc'[s] = IF s = t THEN "joining" ELSE pc[s]
        /\ \A d \in Cells : \A k \in 1..Len(ch'[d]) :
              (k \in 1..Len(ch[d]) /\ ch'[d][k] = ch[d][k]) \/ d = target[t]
        /\ UNCHANGED <<registry, spawned, id, closed, loop, target, todo, took>>
    BY <1>10, <1>0, <2>1, AppendIndices DEF StopSend, Goto, TypeOK, history
  <2>3. \A s \in Threads, d \in Cells : ClaimedBy(d, s)' <=> ClaimedBy(d, s)
    BY <1>0, <1>a, <2>1, <2>2 DEF ClaimedBy, InStop, TargetInv
  <2>4. \A d \in Cells : loop[d] = "exited" => loop'[d] = "exited"
    BY <1>0, <2>1, <2>2 DEF PcInv
  <2>5. CreatedInv'
    BY <1>0, <1>a, <2>1, <2>2 DEF CreatedInv, Created
  <2>6. TargetInv'
    BY <1>0, <1>a, <2>1, <2>2 DEF TargetInv, InStop
  <2>7. PcInv'
    BY <1>0, <1>a, <2>1, <2>2 DEF PcInv, TargetInv, InStop
  <2>8. StarterInv'
    BY <1>0, <1>a, <2>1, <2>2 DEF StarterInv
  <2>9. SignalInv'
    BY <1>0, <1>a, <2>1, <2>2 DEF SignalInv
  <2>10. StopperInv'
    BY <1>0, <1>a, <2>1, <2>2, <2>3 DEF StopperInv
  <2>11. TookInv'
    BY <1>0, <1>a, <2>1, <2>2, <2>3, <2>4 DEF TookInv
  <2>12. RegisteredIsOpen'
    BY <1>0, <1>a, <2>1, <2>2 DEF RegisteredIsOpen
  <2> QED
    BY <1>0, <2>5, <2>6, <2>7, <2>8, <2>9, <2>10, <2>11, <2>12 DEF SystemInv
<1>11. ASSUME NEW t \in Threads, StopJoin(t) PROVE SystemInv'
  <2>1. /\ pc[t] = "joining" /\ loop[target[t]] = "exited"
        /\ \A s \in Threads : pc'[s] = IF s = t THEN "hook" ELSE pc[s]
        /\ UNCHANGED <<registry, spawned, id, ch, closed, loop, target, todo, took>>
    BY <1>11, <1>0 DEF StopJoin, Goto, TypeOK, history, cellVars
  <2>2. \A s \in Threads, d \in Cells : ClaimedBy(d, s)' <=> ClaimedBy(d, s)
    BY <1>0, <1>a, <2>1 DEF ClaimedBy, InStop, TargetInv
  <2>3. \A d \in Cells : loop[d] = "exited" => loop'[d] = "exited"
    BY <1>0, <2>1 DEF PcInv
  <2>4. CreatedInv'
    BY <1>0, <1>a, <2>1 DEF CreatedInv, Created
  <2>5. TargetInv'
    BY <1>0, <1>a, <2>1 DEF TargetInv, InStop
  <2>6. PcInv'
    BY <1>0, <1>a, <2>1 DEF PcInv, TargetInv, InStop
  <2>7. StarterInv'
    BY <1>0, <1>a, <2>1 DEF StarterInv
  <2>8. SignalInv'
    BY <1>0, <1>a, <2>1 DEF SignalInv
  <2>9. StopperInv'
    BY <1>0, <1>a, <2>1, <2>2 DEF StopperInv
  <2>10. TookInv'
    BY <1>0, <1>a, <2>1, <2>2, <2>3 DEF TookInv
  <2>11. RegisteredIsOpen'
    BY <1>0, <1>a, <2>1 DEF RegisteredIsOpen
  <2> QED
    BY <1>0, <2>4, <2>5, <2>6, <2>7, <2>8, <2>9, <2>10, <2>11 DEF SystemInv
<1>12. ASSUME NEW t \in Threads, StopHook(t) PROVE SystemInv'
  <2>1. /\ pc[t] = "hook" /\ loop[target[t]] = "exited"
        /\ \A s \in Threads : pc'[s] = IF s = t THEN "stopping" ELSE pc[s]
        /\ \A s \in Threads : target'[s] = IF s = t THEN None ELSE target[s]
        /\ UNCHANGED <<registry, spawned, id, ch, closed, loop, todo, took>>
    BY <1>12, <1>0 DEF StopHook, Goto, TypeOK, PcInv, history, cellVars
  <2>2. CreatedInv'
    BY <1>0, <1>a, <2>1 DEF CreatedInv, Created
  <2>3. TargetInv'
    BY <1>0, <1>a, <2>1 DEF TargetInv, InStop
  <2>4. PcInv'
    BY <1>0, <1>a, <2>1 DEF PcInv, TargetInv, InStop
  <2>5. StarterInv'
    BY <1>0, <1>a, <2>1 DEF StarterInv
  <2>6. SignalInv'
    BY <1>0, <1>a, <2>1 DEF SignalInv
  <2>7. StopperInv'
    BY <1>0, <1>a, <2>1 DEF StopperInv, ClaimedBy, InStop
  <2>8. TookInv'
    BY <1>0, <1>a, <2>1 DEF TookInv, ClaimedBy, InStop
  <2>9. RegisteredIsOpen'
    BY <1>0, <1>a, <2>1 DEF RegisteredIsOpen
  <2> QED
    BY <1>0, <2>2, <2>3, <2>4, <2>5, <2>6, <2>7, <2>8, <2>9 DEF SystemInv
<1>13. ASSUME NEW t \in Threads, StopReturn(t) PROVE SystemInv'
  <2>1. /\ pc[t] = "stopping" /\ todo[t] = {}
        /\ \A s \in Threads : pc'[s] = IF s = t THEN "idle" ELSE pc[s]
        /\ \A s \in Threads : took'[s] = IF s = t THEN {} ELSE took[s]
        /\ UNCHANGED <<registry, spawned, id, ch, closed, loop, target, todo>>
    BY <1>13, <1>0 DEF StopReturn, Goto, TypeOK, cellVars
  <2>2. \A s \in Threads, d \in Cells : ClaimedBy(d, s)' <=> ClaimedBy(d, s)
    BY <1>0, <1>a, <2>1 DEF ClaimedBy, InStop, TargetInv
  <2>3. \A d \in Cells : loop[d] = "exited" => loop'[d] = "exited"
    BY <1>0, <2>1 DEF PcInv
  <2>4. CreatedInv'
    BY <1>0, <1>a, <2>1 DEF CreatedInv, Created
  <2>5. TargetInv'
    BY <1>0, <1>a, <2>1 DEF TargetInv, InStop
  <2>6. PcInv'
    BY <1>0, <1>a, <2>1 DEF PcInv, TargetInv, InStop
  <2>7. StarterInv'
    BY <1>0, <1>a, <2>1 DEF StarterInv
  <2>8. SignalInv'
    BY <1>0, <1>a, <2>1 DEF SignalInv
  <2>9. StopperInv'
    BY <1>0, <1>a, <2>1, <2>2 DEF StopperInv
  <2>10. TookInv'
    BY <1>0, <1>a, <2>1, <2>2, <2>3 DEF TookInv
  <2>11. RegisteredIsOpen'
    BY <1>0, <1>a, <2>1 DEF RegisteredIsOpen
  <2> QED
    BY <1>0, <2>4, <2>5, <2>6, <2>7, <2>8, <2>9, <2>10, <2>11 DEF SystemInv
<1>14. ASSUME NEW c \in Cells, Deliver(c) PROVE SystemInv'
  <2>1. /\ loop[c] = "receiving"
        /\ \A d \in Cells : loop'[d] = IF d = c THEN "handling" ELSE loop[d]
        /\ \A d \in Cells : \A k \in 1..Len(ch'[d]) :
              \E l \in 1..Len(ch[d]) : ch'[d][k] = ch[d][l]
        /\ UNCHANGED <<registry, spawned, id, closed, pc, target, todo, took>>
    BY <1>14, <1>0, TailIndices DEF Deliver, TypeOK, history
  <2>2. \A s \in Threads, d \in Cells : ClaimedBy(d, s)' <=> ClaimedBy(d, s)
    BY <1>0, <1>a, <2>1 DEF ClaimedBy, InStop, TargetInv
  <2>3. \A d \in Cells : loop[d] = "exited" => loop'[d] = "exited"
    BY <1>0, <2>1 DEF PcInv
  <2>4. CreatedInv'
    BY <1>0, <1>a, <2>1 DEF CreatedInv, Created
  <2>5. TargetInv'
    BY <1>0, <1>a, <2>1 DEF TargetInv, InStop
  <2>6. PcInv'
    BY <1>0, <1>a, <2>1 DEF PcInv, TargetInv, InStop
  <2>7. StarterInv'
    BY <1>0, <1>a, <2>1 DEF StarterInv
  <2>8. SignalInv'
    BY <1>0, <1>a, <2>1 DEF SignalInv
  <2>9. StopperInv'
    BY <1>0, <1>a, <2>1, <2>2 DEF StopperInv
  <2>10. TookInv'
    BY <1>0, <1>a, <2>1, <2>2, <2>3 DEF TookInv
  <2>11. RegisteredIsOpen'
    BY <1>0, <1>a, <2>1 DEF RegisteredIsOpen
  <2> QED
    BY <1>0, <2>4, <2>5, <2>6, <2>7, <2>8, <2>9, <2>10, <2>11 DEF SystemInv
<1>15. ASSUME NEW c \in Cells, ExitLoop(c) PROVE SystemInv'
  <2>1. loop[c] = "receiving" /\ closed[c]
    BY <1>15, <1>0, TailIndices DEF ExitLoop, TypeOK, SignalInv
  <2>2. /\ \A d \in Cells : loop'[d] = IF d = c THEN "exited" ELSE loop[d]
        /\ UNCHANGED <<registry, spawned, id, closed, pc, target, todo, took>>
    BY <1>15, <1>0 DEF ExitLoop, TypeOK, history
  <2>3. /\ \A k \in 1..Len(ch'[c]) : k + 1 \in 1..Len(ch[c]) /\ ch'[c][k] = ch[c][k + 1]
        /\ \A d \in Cells : d # c => ch'[d] = ch[d]
    BY <1>15, <1>0, TailIndices DEF ExitLoop, TypeOK
  <2>4. \A s \in Threads, d \in Cells : ClaimedBy(d, s)' <=> ClaimedBy(d, s)
    BY <1>0, <1>a, <2>1, <2>2, <2>3 DEF ClaimedBy, InStop, TargetInv
  <2>5. \A d \in Cells : loop[d] = "exited" => loop'[d] = "exited"
    BY <1>0, <2>1, <2>2, <2>3 DEF PcInv
  <2>6. CreatedInv'
    BY <1>0, <1>a, <2>1, <2>2, <2>3 DEF CreatedInv, Created
  <2>7. TargetInv'
    BY <1>0, <1>a, <2>1, <2>2, <2>3 DEF TargetInv, InStop
  <2>8. PcInv'
    BY <1>0, <1>a, <2>1, <2>2, <2>3 DEF PcInv, TargetInv, InStop
  <2>9. StarterInv'
    BY <1>0, <1>a, <2>1, <2>2, <2>3 DEF StarterInv
  <2>10. SignalInv'
    BY <1>0, <1>a, <2>1, <2>2, <2>3 DEF SignalInv
  <2>11. StopperInv'
    BY <1>0, <1>a, <2>1, <2>2, <2>3, <2>4 DEF StopperInv
  <2>12. TookInv'
    BY <1>0, <1>a, <2>1, <2>2, <2>3, <2>4, <2>5 DEF TookInv
  <2>13. RegisteredIsOpen'
    BY <1>0, <1>a, <2>1, <2>2, <2>3 DEF RegisteredIsOpen
  <2> QED
    BY <1>0, <2>6, <2>7, <2>8, <2>9, <2>10, <2>11, <2>12, <2>13 DEF SystemInv
<1>16. ASSUME NEW c \in Cells, HandlerEnds(c) PROVE SystemInv'
  <2>1. /\ loop[c] = "handling" /\ (c \in Threads => pc[c] = "idle")
        /\ \A d \in Cells : loop'[d] = IF d = c THEN "receiving" ELSE loop[d]
        /\ UNCHANGED <<registry, spawned, id, ch, closed, pc, target, todo, took>>
    BY <1>16, <1>0 DEF HandlerEnds, TypeOK, history
  <2>2. \A s \in Threads, d \in Cells : ClaimedBy(d, s)' <=> ClaimedBy(d, s)
    BY <1>0, <1>a, <2>1 DEF ClaimedBy, InStop, TargetInv
  <2>3. \A d \in Cells : loop[d] = "exited" => loop'[d] = "exited"
    BY <1>0, <2>1 DEF PcInv
  <2>4. CreatedInv'
    BY <1>0, <1>a, <2>1 DEF CreatedInv, Created
  <2>5. TargetInv'
    BY <1>0, <1>a, <2>1 DEF TargetInv, InStop
  <2>6. PcInv'
    BY <1>0, <1>a, <2>1 DEF PcInv, TargetInv, InStop
  <2>7. StarterInv'
    BY <1>0, <1>a, <2>1 DEF StarterInv
  <2>8. SignalInv'
    BY <1>0, <1>a, <2>1 DEF SignalInv
  <2>9. StopperInv'
    BY <1>0, <1>a, <2>1, <2>2 DEF StopperInv
  <2>10. TookInv'
    BY <1>0, <1>a, <2>1, <2>2, <2>3 DEF TookInv
  <2>11. RegisteredIsOpen'
    BY <1>0, <1>a, <2>1 DEF RegisteredIsOpen
  <2> QED
    BY <1>0, <2>4, <2>5, <2>6, <2>7, <2>8, <2>9, <2>10, <2>11 DEF SystemInv
<1>17. ASSUME NEW t \in Threads, NEW c \in Cells, TellCheck(t, c), closed[c] PROVE SystemInv'
  <2>1. UNCHANGED <<registry, spawned, id, ch, closed, loop, pc, target, todo, took>>
    BY <1>17 DEF TellCheck, history
  <2> QED
    BY <1>0, <2>1 DEF SystemInv, CreatedInv, TargetInv, PcInv, StarterInv, SignalInv, TookInv,
       StopperInv, ClaimedBy, RegisteredIsOpen, Created
<1>18. CASE UNCHANGED vars
  BY <1>0, <1>18 DEF vars, history, cellVars, SystemInv, CreatedInv, TargetInv, PcInv, StarterInv,
     SignalInv, TookInv, StopperInv, ClaimedBy, RegisteredIsOpen, Created
<1> QED
  BY <1>1, <1>2, <1>3, <1>4, <1>5, <1>6, <1>7, <1>8, <1>9, <1>10, <1>11,
     <1>12, <1>13, <1>14, <1>15, <1>16, <1>17, <1>18 DEF Next, Stopping, Loop

\* The inductive invariant of the registry and the goroutines that use it.
THEOREM SystemInvariant == Spec => []SystemInv
  BY SystemInit, SystemStep, PTL DEF Spec

-----------------------------------------------------------------------------
(* Every reachable state has the shape TypeOK describes; no mailbox ever   *)
(* holds more than its capacity.                                           *)
THEOREM TypeCorrect == Spec => []TypeOK
  BY SystemInvariant, PTL DEF SystemInv

(* However Stop and Shutdown overlap, each cell is stopped by one          *)
(* goroutine, and only after it has left the registry.                     *)
THEOREM OneStopperHolds == Spec => []OneStopper
<1>1. SystemInv => OneStopper
  <2> SUFFICES ASSUME SystemInv PROVE OneStopper
    OBVIOUS
  <2>1. \A t \in Threads : \A c \in Claims(t) : c \in Cells /\ ClaimedBy(c, t)
    BY DEF SystemInv, TypeOK, TargetInv, Claims, ClaimedBy, InStop
  <2>2. \A s, t \in Threads : s # t => Claims(s) \cap Claims(t) = {}
    BY <2>1 DEF SystemInv, StopperInv
  <2>3. \A t \in Threads : Claims(t) \cap Registered = {}
    BY <2>1 DEF SystemInv, StopperInv, Registered
  <2> QED
    BY <2>2, <2>3 DEF OneStopper
<1> QED
  BY <1>1, SystemInvariant, PTL

(* A registered actor has an open mailbox and a goroutine that has not     *)
(* exited.                                                                 *)
THEOREM RegisteredIsOpenHolds == Spec => []RegisteredIsOpen
  BY SystemInvariant, PTL DEF SystemInv

(* When Stop or Shutdown returns, the actors it took have exited.          *)
THEOREM ReapedHolds == Spec => Reaped
<1> DEFINE Reaps == \A t \in Threads : pc[t] = "stopping" /\ pc'[t] = "idle" =>
                      \A c \in took[t] : loop'[c] = "exited"
<1>1. SystemInv /\ [Next]_vars => [Reaps]_vars
  <2> SUFFICES ASSUME SystemInv, [Next]_vars, NEW t \in Threads, NEW c \in took[t],
                      pc[t] = "stopping", pc'[t] = "idle"
               PROVE  loop'[c] = "exited"
    OBVIOUS
  <2>1. StopReturn(t)
    <3>0. pc = [s \in Threads |-> pc[s]] /\ \A d \in Cells : d \in Threads
      BY DEF SystemInv, TypeOK, Threads
    <3> DEFINE Returns == pc[t] = "stopping" /\ pc'[t] = "idle"
    <3>1. \A s \in Threads : OnStartReturns(s) \/ OnStartPanics(s)
                             \/ TellSend(s) \/ TellReject(s) => ~Returns
      BY <3>0 DEF OnStartReturns, OnStartPanics, TellSend, TellReject, Goto
    <3>2. \A s \in Threads : \A i \in Ids : Spawn(s, i) => ~Returns
      BY <3>0 DEF Spawn, Goto
    <3>3. \A s \in Threads : \A d \in Cells : TellCheck(s, d) \/ Stop(s, d) => ~Returns
      BY <3>0 DEF TellCheck, Stop, Goto
    <3>4. \A s \in Threads : Shutdown(s) => ~Returns
      BY <3>0 DEF Shutdown, Goto
    <3>5. \A s \in Threads : \A d \in Cells : StopClose(s, d) => ~Returns
      BY <3>0 DEF StopClose, Goto
    <3>6. \A s \in Threads : StopSend(s) \/ StopJoin(s) \/ StopHook(s) => ~Returns
      BY <3>0 DEF StopSend, StopJoin, StopHook, Goto
    <3>7. \A s \in Threads : StopReturn(s) /\ s # t => ~Returns
      BY <3>0 DEF StopReturn, Goto
    <3>8. \A d \in Cells : Loop(d) => ~Returns
      BY DEF Loop, Deliver, ExitLoop, HandlerEnds
    <3>9. UNCHANGED vars => ~Returns
      BY DEF vars
    <3> QED
      BY <3>1, <3>2, <3>3, <3>4, <3>5, <3>6, <3>7, <3>8, <3>9 DEF Next, Stopping
  <2>2. todo[t] = {} /\ loop' = loop
    BY <2>1 DEF StopReturn, cellVars
  <2> QED
    BY <2>2 DEF SystemInv, TookInv, ClaimedBy, InStop
<1> QED
  BY <1>1, SystemInvariant, PTL DEF Spec, Reaped
=============================================================================
