------------------------ MODULE ProviderClusterProofs ------------------------
(***************************************************************************)
(* What a client of the provider can rely on, for any number of clients,   *)
(* attempts and faults: types, ListsItself and ForgetsWithCause.           *)
(***************************************************************************)
EXTENDS ProviderCluster, TLAPS

-----------------------------------------------------------------------------
(* Types.                                                                  *)

\* What registerAndDiscover may have yet to send.
Plan(n) == {<<>>, <<Join(n), Discover(n)>>, <<Discover(n)>>}

Letter == [n : Nat, to : {"provider"}, msg : Request] \cup [n : Nat, to : Nodes, msg : Notice]

BaseInv == TypeOK /\ late \subseteq Letter /\ \A n \in Nodes : sending[n] \in Plan(n)

\* The plan is followed message by message.
LEMMA PlanFacts ==
  ASSUME NEW n \in Nodes, NEW s \in Plan(n), s # <<>>
  PROVE  /\ Tail(s) \in Plan(n) /\ Head(s) \in {Join(n), Discover(n)}
         /\ Head(s) = Discover(n) => s = <<Discover(n)>>
         /\ Tail(s) = <<Discover(n)>> => Head(s) = Join(n)
<1>1. Join(n) # Discover(n)
  <2>1. Join(n).type = "JoinCluster" /\ Discover(n).type = "DiscoverPeers"
    BY DEF Join, Discover
  <2> QED
    BY <2>1
<1>2. CASE s = <<Join(n), Discover(n)>>
  <2>1. Head(s) = Join(n) /\ Tail(s) = <<Discover(n)>>
    BY <1>2
  <2> QED
    BY <1>1, <2>1 DEF Plan
<1>3. CASE s = <<Discover(n)>>
  <2>1. Head(s) = Discover(n) /\ Tail(s) = <<>> /\ <<>> # <<Discover(n)>>
    BY <1>3
  <2> QED
    BY <1>1, <1>3, <2>1 DEF Plan
<1> QED
  BY <1>2, <1>3 DEF Plan

\* What is sent is a request, and what is planned a sequence of them.
LEMMA Requests ==
  ASSUME NEW n \in Nodes
  PROVE  /\ Join(n) \in Request /\ Leave(n) \in Request /\ Discover(n) \in Request
         /\ DiscoverNow \in Notice /\ DiscoverNow.type = "DiscoverNow"
         /\ registered \subseteq Nodes => PeerList \in Notice
         /\ Plan(n) \subseteq Seq(Request)
         /\ Join(n).type = "JoinCluster" /\ Discover(n).type = "DiscoverPeers" /\ Leave(n).type = "LeaveCluster"
         /\ \A m \in Nodes : /\ Discover(n) = Discover(m) => n = m
                             /\ Join(n) = Join(m) => n = m
                             /\ Join(n) # Discover(m) /\ Leave(n) # Discover(m) /\ Leave(n) # Join(m)
<1>1. Join(n) \in Request /\ Leave(n) \in Request /\ Discover(n) \in Request
  BY DEF Join, Leave, Discover, Request
<1>2. DiscoverNow \in Notice /\ (registered \subseteq Nodes => PeerList \in Notice)
  BY DEF DiscoverNow, PeerList, Notice
<1>3. Plan(n) \subseteq Seq(Request)
  BY <1>1 DEF Plan
<1>4. /\ Join(n).type = "JoinCluster" /\ Discover(n).type = "DiscoverPeers" /\ Leave(n).type = "LeaveCluster"
      /\ DiscoverNow.type = "DiscoverNow"
  BY DEF Join, Discover, Leave, DiscoverNow
<1>5. \A m \in Nodes : /\ Discover(n).node = n /\ Discover(m).node = m /\ Join(n).node = n /\ Join(m).node = m
                       /\ Discover(m).type = "DiscoverPeers" /\ Join(m).type = "JoinCluster"
  BY DEF Discover, Join
<1>6. \A m \in Nodes : /\ Discover(n) = Discover(m) => n = m
                       /\ Join(n) = Join(m) => n = m
                       /\ Join(n) # Discover(m) /\ Leave(n) # Discover(m) /\ Leave(n) # Join(m)
  BY <1>4, <1>5
<1> QED
  BY <1>1, <1>2, <1>3, <1>4, <1>6

\* A fault is counted, and stays within the bound.
LEMMA FaultFacts ==
  ASSUME ProviderAssumption, TypeOK, NEW kind \in FaultKinds, Fault(kind)
  PROVE  /\ faults' \in [FaultKinds -> Nat] /\ Happened' <= MaxFaults /\ Happened \in Nat
         /\ faults'[kind] > 0 /\ \A k \in FaultKinds \ {kind} : faults'[k] = faults[k]
<1>1. /\ faults \in [FaultKinds -> Nat] /\ Happened < MaxFaults /\ MaxFaults \in Nat
      /\ faults' = [faults EXCEPT ![kind] = faults[kind] + 1]
  BY DEF TypeOK, Fault, ProviderAssumption
<1>2. \A k \in FaultKinds : faults[k] \in Nat
  BY <1>1
<1>3. Happened \in Nat
  BY <1>2 DEF Happened, FaultKinds
<1>4. Happened' = Happened + 1
  BY <1>1, <1>2 DEF Happened, FaultKinds
<1>5. faults' \in [FaultKinds -> Nat]
  BY <1>1, <1>2
<1>6. faults'[kind] > 0 /\ \A k \in FaultKinds \ {kind} : faults'[k] = faults[k]
  BY <1>1, <1>2
<1> QED
  BY <1>1, <1>3, <1>4, <1>5, <1>6

\* A failed attempt leaves the plan as it is, or ends it.
LEMMA FailFacts ==
  ASSUME ProviderAssumption, BaseInv, NEW n \in Nodes, Fail(n)
  PROVE  /\ tries' \in [Nodes -> 0..(Attempts - 1)]
         /\ sending' \in [Nodes -> Seq(Request)]
         /\ \A m \in Nodes : sending'[m] \in {sending[m], <<>>} /\ sending'[m] \in Plan(m)
<1>1. /\ tries \in [Nodes -> 0..(Attempts - 1)] /\ Attempts \in Nat \ {0}
      /\ sending \in [Nodes -> Seq(Request)] /\ \A m \in Nodes : sending[m] \in Plan(m)
  BY DEF BaseInv, TypeOK, ProviderAssumption
<1>2. CASE tries[n] + 1 < Attempts /\ tries' = [tries EXCEPT ![n] = @ + 1] /\ UNCHANGED sending
  BY <1>1, <1>2
<1>3. CASE tries' = [tries EXCEPT ![n] = 0] /\ sending' = [sending EXCEPT ![n] = <<>>]
  <2>1. <<>> \in Seq(Request) /\ \A m \in Nodes : <<>> \in Plan(m)
    BY DEF Plan
  <2>2. \A m \in Nodes : sending'[m] \in {sending[m], <<>>}
    BY <1>1, <1>3
  <2>3. tries' \in [Nodes -> 0..(Attempts - 1)]
    BY <1>1, <1>3
  <2>4. sending' \in [Nodes -> Seq(Request)]
    BY <1>1, <1>3, <2>1, Zenon
  <2> QED
    BY <1>1, <2>1, <2>2, <2>3, <2>4
<1> QED
  BY <1>2, <1>3 DEF Fail

\* Messages put at the end of a mailbox or taken from its front.
LEMMA QueueFacts ==
  ASSUME NEW S, NEW s \in Seq(S)
  PROVE  /\ \A x : /\ Len(Append(s, x)) = Len(s) + 1 /\ Append(s, x)[Len(s) + 1] = x
                   /\ \A i \in 1..Len(s) : Append(s, x)[i] = s[i]
                   /\ x \in S => Append(s, x) \in Seq(S)
         /\ s # <<>> => /\ Tail(s) \in Seq(S) /\ Head(s) \in S /\ Head(s) = s[1]
                        /\ Len(s) >= 1 /\ Len(Tail(s)) = Len(s) - 1
                        /\ \A i \in 1..Len(Tail(s)) : i + 1 \in 1..Len(s) /\ Tail(s)[i] = s[i + 1]
         /\ Len(s) \in Nat
OBVIOUS

\* The outcomes of a client's Tell.
LEMMA BaseTells ==
  ASSUME ProviderAssumption, BaseInv, NEW n \in Nodes, Tells(n)
  PROVE  BaseInv'
<1> USE DEF BaseInv
<1>1. /\ requests \in Seq(Request) /\ sending \in [Nodes -> Seq(Request)] /\ tries \in [Nodes -> 0..(Attempts - 1)]
      /\ Attempts \in Nat \ {0} /\ sending[n] \in Plan(n)
  BY DEF TypeOK, ProviderAssumption
<1>2. sending[n] # <<>>
  BY DEF Tells, TellOk, TellRefused, TellError, TellLate, Sends
<1>3. Head(sending[n]) \in Request /\ Tail(sending[n]) \in Plan(n) /\ Tail(sending[n]) \in Seq(Request)
  BY <1>1, <1>2, PlanFacts, Requests
<1>4. CASE TellOk(n)
  <2>1. requests' \in Seq(Request)
    BY <1>1, <1>3, <1>4 DEF TellOk
  <2>2. sending' = [sending EXCEPT ![n] = Tail(sending[n])] /\ tries' = [tries EXCEPT ![n] = 0]
    BY <1>4 DEF TellOk
  <2>3. sending' \in [Nodes -> Seq(Request)] /\ \A m \in Nodes : sending'[m] \in Plan(m)
    BY <1>1, <1>3, <2>2, Zenon
  <2>4. tries' \in [Nodes -> 0..(Attempts - 1)]
    BY <1>1, <2>2
  <2> QED
    BY <1>4, <2>1, <2>3, <2>4 DEF TellOk, TypeOK, Happened
<1>5. CASE TellRefused(n)
  <2>1. /\ tries' \in [Nodes -> 0..(Attempts - 1)] /\ sending' \in [Nodes -> Seq(Request)]
        /\ \A m \in Nodes : sending'[m] \in Plan(m)
    BY <1>5, FailFacts DEF TellRefused
  <2> QED
    BY <1>5, <2>1 DEF TellRefused, providerVars, TypeOK, Happened
<1>6. CASE TellError(n) \/ TellLate(n)
  <2>1. /\ tries' \in [Nodes -> 0..(Attempts - 1)] /\ sending' \in [Nodes -> Seq(Request)]
        /\ \A m \in Nodes : sending'[m] \in Plan(m)
    BY <1>6, FailFacts DEF TellError, TellLate
  <2>2. faults' \in [FaultKinds -> Nat] /\ Happened' <= MaxFaults /\ Happened \in Nat
    BY <1>6, FaultFacts DEF TellError, TellLate, FaultKinds
  <2>3. late' \subseteq Letter
    <3>1. [n |-> Happened, to |-> "provider", msg |-> Head(sending[n])] \in Letter
      BY <1>3, <2>2 DEF Letter
    <3> QED
      BY <1>6, <3>1 DEF TellError, TellLate
  <2> QED
    BY <1>6, <2>1, <2>2, <2>3 DEF TellError, TellLate, providerVars, TypeOK
<1> QED
  BY <1>4, <1>5, <1>6 DEF Tells

\* A message arrives at the provider or at a client.
LEMMA BaseLate ==
  ASSUME ProviderAssumption, BaseInv, LateArrives
  PROVE  /\ BaseInv'
         /\ \E e \in late :
              /\ late' = late \ {e}
              /\ \/ e.to = "provider" /\ e.msg \in Request /\ requests' = Append(requests, e.msg) /\ UNCHANGED inbox
                 \/ e.to \in Nodes /\ e.to # "provider" /\ e.msg \in Notice
                    /\ inbox' = [inbox EXCEPT ![e.to] = Append(inbox[e.to], e.msg)] /\ UNCHANGED requests
              /\ UNCHANGED <<provider, registered, client, dialed, sending, tries, peers, faults>>
<1>1. PICK e \in late :
        /\ late' = late \ {e}
        /\ IF e.to = "provider"
           THEN requests' = Append(requests, e.msg) /\ UNCHANGED inbox
           ELSE inbox' = [inbox EXCEPT ![e.to] = Append(@, e.msg)] /\ UNCHANGED requests
        /\ UNCHANGED <<provider, registered, client, dialed, sending, tries, peers, faults>>
  BY DEF LateArrives
<1>2. e \in Letter
  BY DEF BaseInv
<1>3. \/ e.to = "provider" /\ e.msg \in Request
      \/ e.to \in Nodes /\ e.to # "provider" /\ e.msg \in Notice
  BY <1>2 DEF Letter, ProviderAssumption
<1>4. requests \in Seq(Request) /\ inbox \in [Nodes -> Seq(Notice)]
  BY DEF BaseInv, TypeOK
<1>5. requests' \in Seq(Request)
  <2>1. CASE e.to = "provider"
    <3>1. e.msg \in Request
      BY <1>3, <2>1
    <3>2. requests' = Append(requests, e.msg)
      BY <1>1, <2>1
    <3> QED
      BY <1>4, <3>1, <3>2, QueueFacts
  <2>2. CASE e.to # "provider"
    BY <1>1, <1>4, <2>2
  <2> QED
    BY <2>1, <2>2
<1>6. inbox' \in [Nodes -> Seq(Notice)]
  <2>1. CASE e.to = "provider"
    BY <1>1, <1>4, <2>1
  <2>2. CASE e.to # "provider"
    <3>1. Append(inbox[e.to], e.msg) \in Seq(Notice)
      BY <1>3, <1>4, <2>2
    <3> QED
      BY <1>1, <1>4, <2>2, <3>1, Zenon
  <2> QED
    BY <2>1, <2>2
<1>7. BaseInv'
  BY <1>1, <1>5, <1>6 DEF BaseInv, TypeOK, Happened
<1> QED
  BY <1>1, <1>3, <1>7

\* The client's own steps.
LEMMA BaseClient ==
  ASSUME ProviderAssumption, BaseInv, NEW n \in Nodes,
         SpawnClient(n) \/ OnStartReturns(n) \/ Handling(n) \/ AskDiscoverNow(n) \/ Die(n)
  PROVE  BaseInv'
<1> USE DEF BaseInv
<1>1. /\ client \in [Nodes -> {"unspawned", "starting", "running", "dead"}]
      /\ sending \in [Nodes -> Seq(Request)] /\ tries \in [Nodes -> 0..(Attempts - 1)]
      /\ inbox \in [Nodes -> Seq(Notice)] /\ peers \in [Nodes -> SUBSET Nodes]
      /\ Attempts \in Nat \ {0} /\ dialed \subseteq Nodes
      /\ \A m \in Nodes : sending[m] \in Plan(m)
      /\ faults \in [FaultKinds -> Nat] /\ Happened <= MaxFaults
  BY DEF TypeOK, ProviderAssumption
<1>2. \A c : RegisterAndDiscover(n, c) \in Plan(n) /\ RegisterAndDiscover(n, c) \in Seq(Request)
  BY Requests DEF RegisterAndDiscover, Plan
<1>3. CASE SpawnClient(n)
  <2>1. dialed' \subseteq Nodes /\ faults' \in [FaultKinds -> Nat] /\ Happened' <= MaxFaults
    BY <1>1, <1>3, FaultFacts DEF SpawnClient, NewRef, FaultKinds, Happened
  <2>2. /\ client' = [client EXCEPT ![n] = "starting"]
        /\ sending' = [sending EXCEPT ![n] = RegisterAndDiscover(n, n \in dialed')]
        /\ UNCHANGED <<providerVars, tries, inbox, peers, late>>
    BY <1>3 DEF SpawnClient
  <2>3. client' \in [Nodes -> {"unspawned", "starting", "running", "dead"}]
    BY <1>1, <2>2
  <2>4. sending' \in [Nodes -> Seq(Request)] /\ \A m \in Nodes : sending'[m] \in Plan(m)
    <3>1. PICK p \in Plan(n) : p = RegisterAndDiscover(n, n \in dialed') /\ p \in Seq(Request)
      BY <1>2
    <3> QED
      BY <1>1, <2>2, <3>1, Zenon
  <2> QED
    BY <2>1, <2>2, <2>3, <2>4 DEF TypeOK, providerVars
<1>4. CASE OnStartReturns(n)
  BY <1>1, <1>4 DEF OnStartReturns, TypeOK, providerVars, Happened
<1>5. CASE HandlePeerList(n)
  <2>1. inbox[n] # <<>> /\ inbox' = [inbox EXCEPT ![n] = Tail(inbox[n])] /\ Head(inbox[n]).type = "PeerList"
    BY <1>5 DEF HandlePeerList, Receives
  <2>2. Tail(inbox[n]) \in Seq(Notice) /\ Head(inbox[n]) \in Notice
    BY <1>1, <2>1
  <2>3. Head(inbox[n]).peers \in SUBSET Nodes
    BY <2>1, <2>2 DEF Notice, DiscoverNow
  <2>4. inbox' \in [Nodes -> Seq(Notice)]
    BY <1>1, <2>1, <2>2, Zenon
  <2>5. peers' \in [Nodes -> SUBSET Nodes]
    BY <1>1, <1>5, <2>3 DEF HandlePeerList
  <2> QED
    BY <1>5, <2>4, <2>5 DEF HandlePeerList, TypeOK, providerVars, Happened
<1>6. CASE HandleDiscoverNow(n)
  <2>1. inbox[n] # <<>> /\ inbox' = [inbox EXCEPT ![n] = Tail(inbox[n])]
        /\ sending' = [sending EXCEPT ![n] = RegisterAndDiscover(n, n \in dialed)]
    BY <1>6 DEF HandleDiscoverNow, Receives
  <2>2. Tail(inbox[n]) \in Seq(Notice)
    BY <1>1, <2>1
  <2>3. inbox' \in [Nodes -> Seq(Notice)]
    BY <1>1, <2>1, <2>2, Zenon
  <2>4. sending' \in [Nodes -> Seq(Request)] /\ \A m \in Nodes : sending'[m] \in Plan(m)
    <3>1. PICK p \in Plan(n) : p = RegisterAndDiscover(n, n \in dialed) /\ p \in Seq(Request)
      BY <1>2
    <3> QED
      BY <1>1, <2>1, <3>1, Zenon
  <2> QED
    BY <1>6, <2>3, <2>4 DEF HandleDiscoverNow, TypeOK, providerVars, Happened
<1>7. CASE AskDiscoverNow(n)
  <2>1. Append(inbox[n], DiscoverNow) \in Seq(Notice)
    BY <1>1, Requests
  <2>2. inbox' \in [Nodes -> Seq(Notice)]
    BY <1>1, <1>7, <2>1, Zenon DEF AskDiscoverNow
  <2> QED
    BY <1>7, <2>2 DEF AskDiscoverNow, TypeOK, providerVars, Happened
<1>8. CASE Die(n)
  <2>1. <<>> \in Seq(Request) /\ <<>> \in Seq(Notice) /\ <<>> \in Plan(n)
    BY DEF Plan
  <2>2. sending' \in [Nodes -> Seq(Request)] /\ \A m \in Nodes : sending'[m] \in Plan(m)
    BY <1>1, <1>8, <2>1, Zenon DEF Die
  <2>3. inbox' \in [Nodes -> Seq(Notice)]
    BY <1>1, <1>8, <2>1, Zenon DEF Die
  <2>4. /\ tries' \in [Nodes -> 0..(Attempts - 1)] /\ peers' \in [Nodes -> SUBSET Nodes]
        /\ client' \in [Nodes -> {"unspawned", "starting", "running", "dead"}] /\ late' \subseteq late
    BY <1>1, <1>8 DEF Die
  <2> QED
    BY <1>8, <2>2, <2>3, <2>4 DEF Die, TypeOK, providerVars, Happened
<1> QED
  BY <1>3, <1>4, <1>5, <1>6, <1>7, <1>8 DEF Handling

\* The provider's steps.
LEMMA BaseProvider ==
  ASSUME ProviderAssumption, BaseInv,
         SpawnProvider \/ ProviderCrashes \/ \E n \in Nodes : Provides(n) \/ OperatorLeaves(n)
  PROVE  BaseInv'
<1> USE DEF BaseInv
<1>1. /\ requests \in Seq(Request) /\ inbox \in [Nodes -> Seq(Notice)] /\ registered \subseteq Nodes
      /\ faults \in [FaultKinds -> Nat] /\ Happened <= MaxFaults
  BY DEF TypeOK
<1>2. CASE SpawnProvider
  BY <1>2 DEF SpawnProvider, clientVars, TypeOK, Happened
<1>3. CASE ProviderCrashes
  <2>1. faults' \in [FaultKinds -> Nat] /\ Happened' <= MaxFaults
    BY <1>3, FaultFacts DEF ProviderCrashes, FaultKinds
  <2>2. requests' \in Seq(Request) /\ late' \subseteq late
    BY <1>3 DEF ProviderCrashes
  <2> QED
    BY <1>3, <2>1, <2>2 DEF ProviderCrashes, clientVars, TypeOK
<1>4. ASSUME NEW n \in Nodes, HandleJoin(n) \/ HandleLeave(n) PROVE BaseInv'
  <2>1. requests # <<>> /\ requests' = Tail(requests) /\ registered' \subseteq Nodes
    BY <1>1, <1>4 DEF HandleJoin, HandleLeave, Handles
  <2>2. requests' \in Seq(Request)
    BY <1>1, <2>1
  <2> QED
    BY <1>4, <2>1, <2>2 DEF HandleJoin, HandleLeave, clientVars, TypeOK, Happened
<1>5. ASSUME NEW n \in Nodes, OperatorLeaves(n) PROVE BaseInv'
  <2>1. faults' \in [FaultKinds -> Nat] /\ Happened' <= MaxFaults
    BY <1>5, FaultFacts DEF OperatorLeaves, FaultKinds
  <2>2. requests' \in Seq(Request)
    BY <1>1, <1>5, Requests DEF OperatorLeaves
  <2> QED
    BY <1>5, <2>1, <2>2 DEF OperatorLeaves, clientVars, TypeOK
<1>6. ASSUME NEW n \in Nodes, HandleDiscover(n) PROVE BaseInv'
  <2>1. requests # <<>> /\ requests' = Tail(requests)
    BY <1>6 DEF HandleDiscover, Handles
  <2>2. requests' \in Seq(Request)
    BY <1>1, <2>1
  <2>3. PeerList \in Notice
    BY <1>1, Requests
  <2>4. Append(inbox[n], PeerList) \in Seq(Notice)
    BY <1>1, <2>3
  <2>5. inbox' \in [Nodes -> Seq(Notice)]
    BY <1>1, <1>6, <2>4, Zenon DEF HandleDiscover
  <2>6. faults' \in [FaultKinds -> Nat] /\ Happened' <= MaxFaults
    <3>1. UNCHANGED faults \/ Fault("error") \/ Fault("late")
      BY <1>6 DEF HandleDiscover
    <3> QED
      BY <1>1, <3>1, FaultFacts DEF FaultKinds, Happened
  <2>7. late' \subseteq Letter
    <3>1. Happened \in Nat
      BY <1>1 DEF Happened, FaultKinds
    <3>2. [n |-> Happened, to |-> n, msg |-> PeerList] \in Letter
      BY <2>3, <3>1 DEF Letter
    <3> QED
      BY <1>6, <3>2 DEF HandleDiscover
  <2> QED
    BY <1>6, <2>2, <2>5, <2>6, <2>7 DEF HandleDiscover, TypeOK
<1> QED
  BY <1>2, <1>3, <1>4, <1>5, <1>6 DEF Provides

\* Every step keeps the types.
LEMMA BaseNext ==
  ASSUME ProviderAssumption, BaseInv, [Next]_vars
  PROVE  BaseInv'
<1>1. CASE UNCHANGED vars
  BY <1>1 DEF vars, BaseInv, TypeOK, Happened
<1>2. CASE Step
  BY <1>2, BaseTells, BaseLate, BaseClient, BaseProvider DEF Step
<1>3. CASE \E n \in Nodes : SpawnClient(n) \/ Die(n)
  BY <1>3, BaseClient
<1> QED
  BY <1>1, <1>2, <1>3 DEF Next

\* Nobody is spawned, and nothing has happened.
LEMMA BaseInit ==
  ASSUME ProviderAssumption, Init
  PROVE  BaseInv
<1>1. /\ \A kind \in FaultKinds : faults[kind] = 0
      /\ faults \in [FaultKinds -> Nat]
  BY DEF Init
<1>2. Happened = 0
  BY <1>1 DEF Happened, FaultKinds
<1>3. /\ Attempts - 1 \in Nat /\ MaxFaults \in Nat
      /\ <<>> \in Seq(Request) /\ <<>> \in Seq(Notice)
  BY DEF ProviderAssumption
<1>4. TypeOK
  <2>1. /\ sending \in [Nodes -> Seq(Request)] /\ inbox \in [Nodes -> Seq(Notice)]
        /\ requests \in Seq(Request)
    BY <1>3, Zenon DEF Init
  <2>2. /\ client \in [Nodes -> {"unspawned", "starting", "running", "dead"}]
        /\ tries \in [Nodes -> 0..(Attempts - 1)] /\ peers \in [Nodes -> SUBSET Nodes]
    BY <1>3 DEF Init
  <2>3. provider \in BOOLEAN /\ registered \subseteq Nodes /\ dialed \subseteq Nodes
    BY DEF Init
  <2>4. Happened <= MaxFaults
    BY <1>2, <1>3
  <2> QED
    BY <1>1, <2>1, <2>2, <2>3, <2>4, Zenon DEF TypeOK
<1>5. late \subseteq Letter /\ \A n \in Nodes : sending[n] \in Plan(n)
  BY DEF Init, Plan
<1> QED
  BY <1>4, <1>5 DEF BaseInv

\* Provider and clients keep their types, no attempt is beyond the last and no
\* message has another addressee than the provider or a client.
THEOREM TypeCorrect == ProviderAssumption => (Spec => []TypeOK)
<1> SUFFICES ASSUME ProviderAssumption PROVE Spec => []TypeOK
  OBVIOUS
<1>1. Init => BaseInv
  BY BaseInit
<1>2. BaseInv /\ [Next]_vars => BaseInv'
  BY BaseNext
<1>3. BaseInv => TypeOK
  BY DEF BaseInv
<1> QED
  BY <1>1, <1>2, <1>3, PTL DEF Spec

-----------------------------------------------------------------------------
(* Lists name whom they are for, because a discovery comes after a join;   *)
(* and they grow, because one provider sends them in the order of its      *)
(* requests. Both need a provider that has not crashed and that nobody has *)
(* been taken out of; the second also that no message is late.             *)

NoCause == faults["crash"] = 0 /\ faults["leave"] = 0
NoLate == faults["late"] = 0

\* n is registered, or will be when the provider gets to its k-th request.
Known(n, k) == n \in registered \/ \E j \in 1..(k - 1) : requests[j] = Join(n)

\* A request the provider may be sent next.
Allowed(m) == m.type # "LeaveCluster" /\ \A n \in Nodes : m = Discover(n) => Known(n, Len(requests) + 1)

AskInv ==
  /\ \A i \in 1..Len(requests) : /\ requests[i].type # "LeaveCluster"
                                 /\ \A n \in Nodes : requests[i] = Discover(n) => Known(n, i)
  /\ \A n \in Nodes : sending[n] = <<Discover(n)>> => Known(n, Len(requests) + 1)
  /\ \A e \in late : e.to = "provider" => Allowed(e.msg)
  /\ ~provider => registered = {}

Lists(n) == {i \in 1..Len(inbox[n]) : inbox[n][i].type = "PeerList"}

NamedInv ==
  /\ \A n \in Nodes : /\ peers[n] # {} => n \in peers[n]
                      /\ \A i \in Lists(n) : n \in inbox[n][i].peers
  /\ \A e \in late : e.to \in Nodes /\ e.msg.type = "PeerList" => e.to \in e.msg.peers

OrderInv ==
  /\ late = {}
  /\ \A n \in Nodes : peers[n] \subseteq registered
  /\ \A n \in Nodes : \A i \in Lists(n) :
       /\ peers[n] \subseteq inbox[n][i].peers /\ inbox[n][i].peers \subseteq registered
       /\ \A j \in Lists(n) : i < j => inbox[n][i].peers \subseteq inbox[n][j].peers

DeadInv == \A n \in Nodes : client[n] = "dead" => peers[n] = {}

ListsInv ==
  /\ BaseInv
  /\ DeadInv
  /\ NoCause => AskInv /\ NamedInv
  /\ NoCause /\ NoLate => OrderInv

\* Faults other than a crash and a leave keep the premises of the invariant.
LEMMA CauseFacts ==
  ASSUME ProviderAssumption, BaseInv,
         UNCHANGED faults \/ Fault("error") \/ Fault("dial") \/ Fault("late")
  PROVE  /\ NoCause' => NoCause
         /\ NoLate' => NoLate /\ ~Fault("late")
<1>1. TypeOK
  BY DEF BaseInv
<1>2. CASE UNCHANGED faults /\ ~Fault("late")
  BY <1>2 DEF NoCause, NoLate
<1>3. CASE Fault("late")
  <2>1. faults'["late"] > 0 /\ faults'["crash"] = faults["crash"] /\ faults'["leave"] = faults["leave"]
    BY <1>1, <1>3, FaultFacts DEF FaultKinds
  <2> QED
    BY <2>1 DEF NoCause, NoLate
<1>4. ASSUME NEW kind \in {"error", "dial"}, Fault(kind), ~Fault("late")
      PROVE  (NoCause' => NoCause) /\ (NoLate' => NoLate /\ ~Fault("late"))
  <2>1. \A k \in {"crash", "leave", "late"} : faults'[k] = faults[k]
    <3>1. kind \in FaultKinds /\ \A k \in {"crash", "leave", "late"} : k \in FaultKinds \ {kind}
      BY DEF FaultKinds
    <3> QED
      BY <1>1, <1>4, <3>1, FaultFacts
  <2> QED
    BY <1>4, <2>1 DEF NoCause, NoLate
<1> QED
  BY <1>2, <1>3, <1>4

\* A request may follow those that are waiting, and what is known stays known.
LEMMA AskKeep ==
  ASSUME ProviderAssumption, BaseInv, AskInv,
         \/ UNCHANGED requests
         \/ \E m : requests' = Append(requests, m) /\ Allowed(m),
         registered' = registered,
         provider' \/ ~provider,
         \A n \in Nodes : sending'[n] = <<Discover(n)>> =>
           \/ sending[n] = <<Discover(n)>>
           \/ requests' = Append(requests, Join(n)),
         \A e \in late' : e.to = "provider" => e \in late \/ Allowed(e.msg)
  PROVE  AskInv'
<1>1. requests \in Seq(Request) /\ Len(requests) \in Nat
  BY DEF BaseInv, TypeOK
<1>2. /\ Len(requests) <= Len(requests') /\ Len(requests') \in Nat
      /\ \A i \in 1..Len(requests) : i \in 1..Len(requests') /\ requests'[i] = requests[i]
  BY <1>1
<1>3. \A n \in Nodes, k \in Nat, l \in Nat :
        Known(n, k) /\ k <= Len(requests) + 1 /\ k <= l => Known(n, l)'
  BY <1>1, <1>2 DEF Known
<1>4. \A m : Allowed(m) => Allowed(m)'
  BY <1>1, <1>2, <1>3 DEF Allowed
<1>5. ASSUME NEW i \in 1..Len(requests')
      PROVE  /\ requests'[i].type # "LeaveCluster"
             /\ \A n \in Nodes : requests'[i] = Discover(n) => Known(n, i)'
  <2>1. CASE i \in 1..Len(requests)
    BY <1>1, <1>2, <1>3, <2>1 DEF AskInv
  <2>2. CASE i \notin 1..Len(requests)
    <3>1. PICK m : requests' = Append(requests, m) /\ Allowed(m)
      BY <2>2
    <3>2. i = Len(requests) + 1 /\ requests'[i] = m
      BY <1>1, <2>2, <3>1
    <3> QED
      BY <1>1, <1>3, <3>1, <3>2 DEF Allowed
  <2> QED
    BY <2>1, <2>2
<1>6. ASSUME NEW n \in Nodes, sending'[n] = <<Discover(n)>> PROVE Known(n, Len(requests) + 1)'
  <2>1. CASE sending[n] = <<Discover(n)>>
    <3>1. Known(n, Len(requests) + 1)
      BY <2>1 DEF AskInv
    <3> QED
      BY <1>1, <1>2, <1>3, <3>1
  <2>2. CASE requests' = Append(requests, Join(n))
    <3>1. Len(requests') = Len(requests) + 1 /\ requests'[Len(requests) + 1] = Join(n)
      BY <1>1, <2>2
    <3>2. Len(requests) + 1 \in 1..((Len(requests') + 1) - 1)
      BY <1>1, <3>1
    <3> QED
      BY <3>1, <3>2 DEF Known
  <2> QED
    BY <1>6, <2>1, <2>2
<1>7. \A e \in late' : e.to = "provider" => Allowed(e.msg)'
  BY <1>4 DEF AskInv
<1>8. ~provider' => registered' = {}
  BY DEF AskInv
<1> QED
  BY <1>5, <1>6, <1>7, <1>8 DEF AskInv

\* The provider takes the first request; a join registers its node.
LEMMA AskTail ==
  ASSUME ProviderAssumption, BaseInv, AskInv, provider, provider', requests # <<>>, requests' = Tail(requests),
         registered \subseteq registered', \A n \in Nodes : Head(requests) = Join(n) => n \in registered',
         sending' = sending,
         \A e \in late' : e.to = "provider" => e \in late
  PROVE  AskInv'
<1>1. requests \in Seq(Request) /\ Len(requests) \in Nat
  BY DEF BaseInv, TypeOK
<1>2. /\ Len(requests') \in Nat /\ Len(requests) = Len(requests') + 1 /\ Head(requests) = requests[1]
      /\ \A i \in 1..Len(requests') : i + 1 \in 1..Len(requests) /\ requests'[i] = requests[i + 1]
  BY <1>1, QueueFacts
<1>3. ASSUME NEW n \in Nodes, NEW k \in Nat, k <= Len(requests), Known(n, k + 1)
      PROVE  Known(n, k)'
  <2>1. CASE n \in registered
    BY <2>1 DEF Known
  <2>2. CASE n \notin registered
    <3>1. PICK j \in 1..((k + 1) - 1) : requests[j] = Join(n)
      BY <1>3, <2>2 DEF Known
    <3>2. CASE j = 1
      BY <1>2, <3>1, <3>2 DEF Known
    <3>3. CASE j # 1
      <4>1. j - 1 \in 1..Len(requests') /\ j - 1 \in 1..(k - 1) /\ (j - 1) + 1 = j
        BY <1>2, <1>3, <3>1, <3>3
      <4>2. requests'[j - 1] = requests[j]
        BY <1>2, <4>1
      <4> QED
        BY <3>1, <4>1, <4>2 DEF Known
    <3> QED
      BY <3>2, <3>3
  <2> QED
    BY <2>1, <2>2
<1>4. \A m : Allowed(m) => Allowed(m)'
  BY <1>2, <1>3 DEF Allowed
<1>5. ASSUME NEW i \in 1..Len(requests')
      PROVE  /\ requests'[i].type # "LeaveCluster"
             /\ \A n \in Nodes : requests'[i] = Discover(n) => Known(n, i)'
  <2>1. i + 1 \in 1..Len(requests) /\ requests'[i] = requests[i + 1] /\ i \in Nat /\ i <= Len(requests)
    BY <1>2
  <2>2. /\ requests[i + 1].type # "LeaveCluster"
        /\ \A n \in Nodes : requests[i + 1] = Discover(n) => Known(n, i + 1)
    BY <2>1 DEF AskInv
  <2> QED
    BY <1>3, <2>1, <2>2
<1>6. \A n \in Nodes : sending'[n] = <<Discover(n)>> => Known(n, Len(requests) + 1)'
  <2>1. \A n \in Nodes : sending[n] = <<Discover(n)>> => Known(n, Len(requests) + 1)
    BY DEF AskInv
  <2>2. Len(requests') + 1 \in Nat /\ Len(requests') + 1 <= Len(requests)
    BY <1>2
  <2> QED
    BY <1>2, <1>3, <2>1, <2>2
<1>7. \A e \in late' : e.to = "provider" => Allowed(e.msg)'
  BY <1>4 DEF AskInv
<1> QED
  BY <1>5, <1>6, <1>7 DEF AskInv

\* Nothing changes for the clients' lists.
LEMMA NamedSame ==
  ASSUME ProviderAssumption, NamedInv, UNCHANGED <<inbox, peers>>,
         \A e \in late' : e.to \in Nodes => e \in late
  PROVE  NamedInv'
<1>1. \A n \in Nodes : Lists(n)' = Lists(n)
  BY DEF Lists
<1> QED
  BY <1>1 DEF NamedInv

\* Lists stay in order when nodes are registered.
LEMMA OrderSame ==
  ASSUME OrderInv, UNCHANGED <<inbox, peers, late>>, registered \subseteq registered'
  PROVE  OrderInv'
<1>1. \A n \in Nodes : Lists(n)' = Lists(n)
  BY DEF Lists
<1> QED
  BY <1>1 DEF OrderInv

\* A failed attempt makes nobody discover before it joins.
LEMMA FailKeeps ==
  ASSUME ProviderAssumption, BaseInv, NEW n \in Nodes, Fail(n)
  PROVE  \A m \in Nodes : sending'[m] = <<Discover(m)>> => sending[m] = <<Discover(m)>>
<1>1. \A m \in Nodes : sending'[m] \in {sending[m], <<>>} /\ <<Discover(m)>> # <<>>
  BY FailFacts
<1> QED
  BY <1>1

\* What a client sends next may follow what is waiting.
LEMMA NextAllowed ==
  ASSUME BaseInv, AskInv, NEW n \in Nodes, sending[n] # <<>>
  PROVE  Allowed(Head(sending[n]))
<1>1. sending[n] \in Plan(n)
  BY DEF BaseInv
<1>2. Head(sending[n]) \in {Join(n), Discover(n)} /\ (Head(sending[n]) = Discover(n) => sending[n] = <<Discover(n)>>)
  BY <1>1, PlanFacts
<1>3. CASE Head(sending[n]) = Join(n)
  BY <1>3, Requests DEF Allowed
<1>4. CASE Head(sending[n]) = Discover(n)
  <2>1. Known(n, Len(requests) + 1)
    BY <1>2, <1>4 DEF AskInv
  <2>2. Discover(n).type # "LeaveCluster" /\ \A m \in Nodes : Discover(n) = Discover(m) => n = m
    BY Requests
  <2> QED
    BY <1>4, <2>1, <2>2 DEF Allowed
<1> QED
  BY <1>2, <1>3, <1>4

\* The outcomes of a client's Tell: only an accepted or late message changes
\* what the provider may handle.
LEMMA ListsTells ==
  ASSUME ProviderAssumption, ListsInv, NEW n \in Nodes, Tells(n)
  PROVE  ListsInv'
<1>1. BaseInv /\ DeadInv /\ (NoCause => AskInv /\ NamedInv) /\ (NoCause /\ NoLate => OrderInv)
  BY DEF ListsInv
<1>2. BaseInv'
  BY <1>1, BaseTells
<1>3. /\ sending[n] # <<>>
      /\ UNCHANGED <<provider, registered, client, dialed, inbox, peers>>
  BY DEF Tells, TellOk, TellRefused, TellError, TellLate, Sends, providerVars
<1>4. DeadInv'
  BY <1>1, <1>3 DEF DeadInv
<1>5. CASE TellOk(n)
  <2>1. /\ requests' = Append(requests, Head(sending[n])) /\ sending' = [sending EXCEPT ![n] = Tail(sending[n])]
        /\ UNCHANGED <<late, faults>>
    BY <1>5 DEF TellOk
  <2>2. \A m \in Nodes : sending'[m] = <<Discover(m)>> =>
           sending[m] = <<Discover(m)>> \/ requests' = Append(requests, Join(m))
    <3>1. sending[n] \in Plan(n) /\ sending \in [Nodes -> Seq(Request)]
      BY <1>1 DEF BaseInv, TypeOK
    <3>2. Tail(sending[n]) = <<Discover(n)>> => Head(sending[n]) = Join(n)
      BY <1>3, <3>1, PlanFacts
    <3>3. \A m \in Nodes : m # n => sending'[m] = sending[m]
      BY <2>1, <3>1
    <3>4. sending'[n] = Tail(sending[n])
      BY <2>1, <3>1
    <3> QED
      BY <2>1, <3>2, <3>3, <3>4
  <2>3. NoCause' => NoCause /\ AskInv' /\ NamedInv'
    <3> SUFFICES ASSUME NoCause' PROVE NoCause /\ AskInv' /\ NamedInv'
      OBVIOUS
    <3>1. NoCause /\ AskInv /\ NamedInv
      BY <1>1, <2>1 DEF NoCause
    <3>2. Allowed(Head(sending[n]))
      BY <1>1, <1>3, <3>1, NextAllowed
    <3>3. AskInv'
      BY <1>1, <1>3, <2>1, <2>2, <3>1, <3>2, AskKeep
    <3>4. NamedInv'
      BY <1>3, <2>1, <3>1, NamedSame
    <3> QED
      BY <3>1, <3>3, <3>4
  <2>4. NoCause' /\ NoLate' => OrderInv'
    BY <1>1, <1>3, <2>1, <2>3, OrderSame DEF NoLate
  <2> QED
    BY <1>2, <1>4, <2>3, <2>4 DEF ListsInv
<1>6. CASE TellRefused(n) \/ TellError(n) \/ TellLate(n)
  <2>1. /\ Fail(n) /\ UNCHANGED requests
        /\ UNCHANGED faults \/ Fault("error") \/ Fault("dial") \/ Fault("late")
        /\ \/ UNCHANGED late
           \/ /\ Fault("late")
              /\ late' = late \cup {[n |-> Happened, to |-> "provider", msg |-> Head(sending[n])]}
    BY <1>6 DEF TellRefused, TellError, TellLate, providerVars
  <2>2. (NoCause' => NoCause) /\ (NoLate' => NoLate /\ ~Fault("late"))
    BY <1>1, <2>1, CauseFacts
  <2>3. \A m \in Nodes : sending'[m] = <<Discover(m)>> => sending[m] = <<Discover(m)>>
    BY <1>1, <2>1, FailKeeps
  <2>4. \A e \in late' : e \in late \/ (e.to = "provider" /\ e.msg = Head(sending[n]))
    BY <2>1
  <2>5. NoCause' => AskInv' /\ NamedInv'
    <3> SUFFICES ASSUME NoCause' PROVE AskInv' /\ NamedInv'
      OBVIOUS
    <3>1. AskInv /\ NamedInv
      BY <1>1, <2>2
    <3>2. Allowed(Head(sending[n]))
      BY <1>1, <1>3, <3>1, NextAllowed
    <3>3. AskInv'
      BY <1>1, <1>3, <2>1, <2>3, <2>4, <3>1, <3>2, AskKeep
    <3>4. NamedInv'
      BY <1>3, <2>4, <3>1, NamedSame DEF ProviderAssumption
    <3> QED
      BY <3>3, <3>4
  <2>6. NoCause' /\ NoLate' => OrderInv'
    BY <1>1, <1>3, <2>1, <2>2, OrderSame
  <2> QED
    BY <1>2, <1>4, <2>5, <2>6 DEF ListsInv
<1> QED
  BY <1>5, <1>6 DEF Tells

\* A list put into a client's mailbox names the client.
LEMMA NamedAppend ==
  ASSUME ProviderAssumption, BaseInv, NamedInv, NEW n \in Nodes, NEW m,
         inbox' = [inbox EXCEPT ![n] = Append(inbox[n], m)], m.type = "PeerList" => n \in m.peers,
         UNCHANGED peers, late' \subseteq late
  PROVE  NamedInv'
<1>1. inbox \in [Nodes -> Seq(Notice)] /\ Len(inbox[n]) \in Nat /\ inbox[n] \in Seq(Notice)
  BY DEF BaseInv, TypeOK
<1>2. /\ Len(inbox'[n]) = Len(inbox[n]) + 1 /\ inbox'[n][Len(inbox[n]) + 1] = m
      /\ \A i \in 1..Len(inbox[n]) : inbox'[n][i] = inbox[n][i]
  <2>1. inbox'[n] = Append(inbox[n], m)
    BY <1>1
  <2> QED
    BY <1>1, <2>1, QueueFacts
<1>3. \A k \in Nodes : k # n => inbox'[k] = inbox[k]
  BY <1>1
<1>4. ASSUME NEW k \in Nodes, NEW i \in Lists(k)' PROVE k \in inbox'[k][i].peers
  <2>1. CASE k # n
    BY <1>3, <1>4, <2>1 DEF Lists, NamedInv
  <2>2. CASE k = n /\ i \in 1..Len(inbox[n])
    BY <1>2, <1>4, <2>2 DEF Lists, NamedInv
  <2>3. CASE k = n /\ i \notin 1..Len(inbox[n])
    <3>1. i = Len(inbox[n]) + 1 /\ inbox'[n][i] = m /\ m.type = "PeerList"
      BY <1>1, <1>2, <1>4, <2>3 DEF Lists
    <3> QED
      BY <2>3, <3>1
  <2> QED
    BY <2>1, <2>2, <2>3
<1> QED
  BY <1>4 DEF NamedInv

\* A message that was late arrives.
LEMMA ListsLate ==
  ASSUME ProviderAssumption, ListsInv, LateArrives
  PROVE  ListsInv'
<1>1. BaseInv /\ DeadInv /\ (NoCause => AskInv /\ NamedInv) /\ (NoCause /\ NoLate => OrderInv)
  BY DEF ListsInv
<1>2. BaseInv'
  BY <1>1, BaseLate
<1>3. PICK e \in late :
        /\ late' = late \ {e}
        /\ \/ e.to = "provider" /\ e.msg \in Request /\ requests' = Append(requests, e.msg) /\ UNCHANGED inbox
           \/ e.to \in Nodes /\ e.to # "provider" /\ e.msg \in Notice
              /\ inbox' = [inbox EXCEPT ![e.to] = Append(inbox[e.to], e.msg)] /\ UNCHANGED requests
        /\ UNCHANGED <<provider, registered, client, dialed, sending, tries, peers, faults>>
  BY <1>1, BaseLate
<1>4. DeadInv'
  BY <1>1, <1>3 DEF DeadInv
<1>5. NoCause' => AskInv' /\ NamedInv'
  <2> SUFFICES ASSUME NoCause' PROVE AskInv' /\ NamedInv'
    OBVIOUS
  <2>1. AskInv /\ NamedInv
    BY <1>1, <1>3 DEF NoCause
  <2>2. e.to = "provider" => Allowed(e.msg)
    BY <2>1 DEF AskInv
  <2>3. AskInv'
    BY <1>1, <1>3, <2>1, <2>2, AskKeep
  <2>4. late' \subseteq late /\ peers' = peers /\ \A f \in late' : f.to \in Nodes => f \in late
    BY <1>3
  <2>5. CASE UNCHANGED inbox
    <3>1. UNCHANGED <<inbox, peers>>
      BY <2>5, <2>4
    <3> QED
      BY <2>1, <2>3, <2>4, <3>1, NamedSame
  <2>6. CASE e.to \in Nodes /\ inbox' = [inbox EXCEPT ![e.to] = Append(inbox[e.to], e.msg)]
    <3>1. e.msg.type = "PeerList" => e.to \in e.msg.peers
      BY <2>1, <2>6 DEF NamedInv
    <3> QED
      BY <1>1, <2>1, <2>3, <2>4, <2>6, <3>1, NamedAppend
  <2> QED
    BY <1>3, <2>3, <2>5, <2>6
<1>6. ~(NoCause' /\ NoLate')
  BY <1>1, <1>3 DEF NoCause, NoLate, OrderInv
<1> QED
  BY <1>2, <1>4, <1>5, <1>6 DEF ListsInv

\* A client takes the first message of its mailbox: the other lists move up.
LEMMA ListTake ==
  ASSUME BaseInv, NEW n \in Nodes, inbox[n] # <<>>, inbox' = [inbox EXCEPT ![n] = Tail(inbox[n])]
  PROVE  /\ \A k \in Nodes : k # n => inbox'[k] = inbox[k] /\ Lists(k)' = Lists(k)
         /\ \A i \in Lists(n)' : /\ i \in Nat /\ i + 1 \in Lists(n) /\ 1 < i + 1
                                 /\ inbox'[n][i] = inbox[n][i + 1]
         /\ Head(inbox[n]).type = "PeerList" => 1 \in Lists(n) /\ Head(inbox[n]) = inbox[n][1]
<1>1. inbox \in [Nodes -> Seq(Notice)] /\ inbox[n] \in Seq(Notice)
  BY DEF BaseInv, TypeOK
<1>2. inbox'[n] = Tail(inbox[n]) /\ \A k \in Nodes : k # n => inbox'[k] = inbox[k]
  BY <1>1
<1>3. /\ \A i \in 1..Len(Tail(inbox[n])) : i + 1 \in 1..Len(inbox[n]) /\ Tail(inbox[n])[i] = inbox[n][i + 1]
      /\ Len(inbox[n]) >= 1 /\ Len(inbox[n]) \in Nat /\ Head(inbox[n]) = inbox[n][1]
  BY <1>1, QueueFacts
<1>4. \A k \in Nodes : k # n => Lists(k)' = Lists(k)
  BY <1>2 DEF Lists
<1>5. \A i \in Lists(n)' : /\ i \in Nat /\ i + 1 \in Lists(n) /\ 1 < i + 1
                           /\ inbox'[n][i] = inbox[n][i + 1]
  <2> SUFFICES ASSUME NEW i \in Lists(n)'
               PROVE  i \in Nat /\ i + 1 \in Lists(n) /\ 1 < i + 1 /\ inbox'[n][i] = inbox[n][i + 1]
    OBVIOUS
  <2>1. i \in 1..Len(Tail(inbox[n])) /\ Tail(inbox[n])[i].type = "PeerList"
    BY <1>2 DEF Lists
  <2>2. Len(Tail(inbox[n])) = Len(inbox[n]) - 1
    BY <1>1, QueueFacts
  <2>3. i \in Nat /\ 1 < i + 1
    BY <1>3, <2>1, <2>2
  <2>4. i + 1 \in 1..Len(inbox[n]) /\ Tail(inbox[n])[i] = inbox[n][i + 1]
    BY <1>3, <2>1
  <2> QED
    BY <1>2, <2>1, <2>3, <2>4 DEF Lists
<1>6. Head(inbox[n]).type = "PeerList" => 1 \in Lists(n)
  BY <1>3 DEF Lists
<1> QED
  BY <1>2, <1>3, <1>4, <1>5, <1>6

\* A client takes a message; a list becomes its peers.
LEMMA ListsTake ==
  ASSUME ProviderAssumption, BaseInv, NEW n \in Nodes, inbox[n] # <<>>,
         inbox' = [inbox EXCEPT ![n] = Tail(inbox[n])],
         \/ UNCHANGED peers
         \/ Head(inbox[n]).type = "PeerList" /\ peers' = [peers EXCEPT ![n] = Head(inbox[n]).peers],
         UNCHANGED <<late, registered>>
  PROVE  /\ NamedInv => NamedInv'
         /\ OrderInv => OrderInv' /\ \A k \in Nodes : peers[k] \subseteq peers'[k]
<1>1. /\ \A k \in Nodes : k # n => inbox'[k] = inbox[k] /\ Lists(k)' = Lists(k)
      /\ \A i \in Lists(n)' : /\ i \in Nat /\ i + 1 \in Lists(n) /\ 1 < i + 1
                              /\ inbox'[n][i] = inbox[n][i + 1]
      /\ Head(inbox[n]).type = "PeerList" => 1 \in Lists(n) /\ Head(inbox[n]) = inbox[n][1]
  BY ListTake
<1>2. /\ \A k \in Nodes : k # n => peers'[k] = peers[k]
      /\ peers'[n] = peers[n] \/ (1 \in Lists(n) /\ peers'[n] = inbox[n][1].peers)
  BY <1>1 DEF BaseInv, TypeOK
<1>3. NamedInv => NamedInv'
  <2> SUFFICES ASSUME NamedInv PROVE NamedInv'
    OBVIOUS
  <2>1. ASSUME NEW k \in Nodes
        PROVE  (peers'[k] # {} => k \in peers'[k]) /\ \A i \in Lists(k)' : k \in inbox'[k][i].peers
    <3>1. CASE k # n
      BY <1>1, <1>2, <3>1 DEF NamedInv
    <3>2. CASE k = n
      <4>1. \A i \in Lists(n) : n \in inbox[n][i].peers
        BY DEF NamedInv
      <4>2. \A i \in Lists(n)' : n \in inbox'[n][i].peers
        BY <1>1, <4>1
      <4>3. peers'[n] # {} => n \in peers'[n]
        BY <1>2, <4>1 DEF NamedInv
      <4> QED
        BY <3>2, <4>2, <4>3
    <3> QED
      BY <3>1, <3>2
  <2> QED
    BY <2>1 DEF NamedInv
<1>4. ASSUME OrderInv
      PROVE  OrderInv' /\ \A k \in Nodes : peers[k] \subseteq peers'[k]
  <2>1. /\ peers[n] \subseteq peers'[n] /\ peers'[n] \subseteq registered
        /\ \A i \in Lists(n) : 1 < i => peers'[n] \subseteq inbox[n][i].peers
    BY <1>2, <1>4 DEF OrderInv
  <2>2. \A k \in Nodes : peers[k] \subseteq peers'[k] /\ peers'[k] \subseteq registered
    BY <1>2, <1>4, <2>1 DEF OrderInv
  <2>3. ASSUME NEW k \in Nodes, NEW i \in Lists(k)'
        PROVE  /\ peers'[k] \subseteq inbox'[k][i].peers /\ inbox'[k][i].peers \subseteq registered
               /\ \A j \in Lists(k)' : i < j => inbox'[k][i].peers \subseteq inbox'[k][j].peers
    <3>1. CASE k # n
      BY <1>1, <1>2, <1>4, <2>3, <3>1 DEF OrderInv
    <3>2. CASE k = n
      <4>1. i + 1 \in Lists(n) /\ 1 < i + 1 /\ inbox'[n][i] = inbox[n][i + 1] /\ i \in Nat
        BY <1>1, <2>3, <3>2
      <4>2. peers'[n] \subseteq inbox'[n][i].peers /\ inbox'[n][i].peers \subseteq registered
        BY <1>4, <2>1, <4>1 DEF OrderInv
      <4>3. ASSUME NEW j \in Lists(n)', i < j PROVE inbox'[n][i].peers \subseteq inbox'[n][j].peers
        <5>1. j \in Nat /\ j + 1 \in Lists(n) /\ inbox'[n][j] = inbox[n][j + 1]
          BY <1>1, <4>3
        <5>2. i + 1 < j + 1
          BY <4>1, <4>3, <5>1
        <5>3. inbox[n][i + 1].peers \subseteq inbox[n][j + 1].peers
          BY <1>4, <4>1, <5>1, <5>2, Zenon DEF OrderInv
        <5> QED
          BY <4>1, <5>1, <5>3
      <4> QED
        BY <3>2, <4>2, <4>3
    <3> QED
      BY <3>1, <3>2
  <2> QED
    BY <1>4, <2>2, <2>3 DEF OrderInv
<1> QED
  BY <1>3, <1>4

\* The provider's list, or another message, put at the end of a mailbox.
LEMMA OrderAppend ==
  ASSUME ProviderAssumption, BaseInv, OrderInv, NEW n \in Nodes, NEW m,
         inbox' = [inbox EXCEPT ![n] = Append(inbox[n], m)], m.type = "PeerList" => m.peers = registered,
         UNCHANGED <<peers, late, registered>>
  PROVE  OrderInv'
<1>1. inbox \in [Nodes -> Seq(Notice)] /\ Len(inbox[n]) \in Nat /\ inbox[n] \in Seq(Notice)
  BY DEF BaseInv, TypeOK
<1>2. /\ Len(inbox'[n]) = Len(inbox[n]) + 1 /\ inbox'[n][Len(inbox[n]) + 1] = m
      /\ \A i \in 1..Len(inbox[n]) : inbox'[n][i] = inbox[n][i]
  <2>1. inbox'[n] = Append(inbox[n], m)
    BY <1>1
  <2> QED
    BY <1>1, <2>1, QueueFacts
<1>3. \A k \in Nodes : k # n => inbox'[k] = inbox[k] /\ Lists(k)' = Lists(k)
  BY <1>1 DEF Lists
<1>4. \A i \in Lists(n)' : \/ i \in Lists(n) /\ inbox'[n][i] = inbox[n][i] /\ i <= Len(inbox[n])
                           \/ i = Len(inbox[n]) + 1 /\ inbox'[n][i].peers = registered
  <2> SUFFICES ASSUME NEW i \in Lists(n)'
               PROVE  \/ i \in Lists(n) /\ inbox'[n][i] = inbox[n][i] /\ i <= Len(inbox[n])
                      \/ i = Len(inbox[n]) + 1 /\ inbox'[n][i].peers = registered
    OBVIOUS
  <2>1. i \in 1..(Len(inbox[n]) + 1) /\ inbox'[n][i].type = "PeerList"
    BY <1>2 DEF Lists
  <2>2. CASE i \in 1..Len(inbox[n])
    BY <1>1, <1>2, <2>1, <2>2 DEF Lists
  <2>3. CASE i = Len(inbox[n]) + 1
    BY <1>2, <2>1, <2>3
  <2> QED
    BY <1>1, <2>1, <2>2, <2>3
<1>5. ASSUME NEW k \in Nodes, NEW i \in Lists(k)'
      PROVE  /\ peers[k] \subseteq inbox'[k][i].peers /\ inbox'[k][i].peers \subseteq registered
             /\ \A j \in Lists(k)' : i < j => inbox'[k][i].peers \subseteq inbox'[k][j].peers
  <2>1. CASE k # n
    BY <1>3, <1>5, <2>1 DEF OrderInv
  <2>2. CASE k = n
    <3>1. peers[n] \subseteq inbox'[n][i].peers /\ inbox'[n][i].peers \subseteq registered
      BY <1>4, <1>5, <2>2 DEF OrderInv
    <3>2. ASSUME NEW j \in Lists(n)', i < j PROVE inbox'[n][i].peers \subseteq inbox'[n][j].peers
      <4>1. CASE j = Len(inbox[n]) + 1 /\ inbox'[n][j].peers = registered
        BY <3>1, <4>1
      <4>2. CASE j \in Lists(n) /\ inbox'[n][j] = inbox[n][j] /\ j <= Len(inbox[n])
        <5>1. i # Len(inbox[n]) + 1
          BY <1>1, <3>2, <4>2 DEF Lists
        <5>2. i \in Lists(n) /\ inbox'[n][i] = inbox[n][i]
          BY <1>4, <1>5, <2>2, <5>1
        <5> QED
          BY <3>2, <4>2, <5>2 DEF OrderInv
      <4> QED
        BY <1>4, <3>2, <4>1, <4>2
    <3> QED
      BY <2>2, <3>1, <3>2
  <2> QED
    BY <2>1, <2>2
<1> QED
  BY <1>5 DEF OrderInv

\* Nobody but the provider registers, and who joins discovers only afterwards:
\* the steps of a client and of its process.
LEMMA ListsClient ==
  ASSUME ProviderAssumption, ListsInv, NEW n \in Nodes,
         SpawnClient(n) \/ OnStartReturns(n) \/ Handling(n) \/ AskDiscoverNow(n) \/ Die(n)
  PROVE  ListsInv'
<1>1. BaseInv /\ DeadInv /\ (NoCause => AskInv /\ NamedInv) /\ (NoCause /\ NoLate => OrderInv)
  BY DEF ListsInv
<1>2. BaseInv'
  BY <1>1, BaseClient
<1>3. /\ client \in [Nodes -> {"unspawned", "starting", "running", "dead"}]
      /\ sending \in [Nodes -> Seq(Request)] /\ inbox \in [Nodes -> Seq(Notice)]
      /\ peers \in [Nodes -> SUBSET Nodes]
  BY <1>1 DEF BaseInv, TypeOK
<1>4. \A c : RegisterAndDiscover(n, c) # <<Discover(n)>>
  <2>1. <<>> # <<Discover(n)>> /\ <<Join(n), Discover(n)>> # <<Discover(n)>>
    OBVIOUS
  <2> QED
    BY <2>1 DEF RegisterAndDiscover
<1>5. ASSUME UNCHANGED <<provider, requests, registered>>, late' \subseteq late,
             \A m \in Nodes : sending'[m] = <<Discover(m)>> => sending[m] = <<Discover(m)>>
      PROVE  AskInv => AskInv'
  BY <1>1, <1>5, AskKeep
<1>6. CASE SpawnClient(n)
  <2>1. /\ UNCHANGED <<provider, requests, registered, inbox, peers, late>>
        /\ client' = [client EXCEPT ![n] = "starting"]
        /\ sending' = [sending EXCEPT ![n] = RegisterAndDiscover(n, n \in dialed')]
        /\ UNCHANGED faults \/ Fault("error") \/ Fault("dial") \/ Fault("late")
    BY <1>6 DEF SpawnClient, NewRef, providerVars
  <2>2. \A m \in Nodes : sending'[m] = <<Discover(m)>> => sending[m] = <<Discover(m)>>
    BY <1>3, <1>4, <2>1
  <2>3. (NoCause' => NoCause) /\ (NoLate' => NoLate)
    BY <1>1, <2>1, CauseFacts
  <2>4. AskInv => AskInv'
    BY <1>5, <2>1, <2>2
  <2>5. (NamedInv => NamedInv') /\ (OrderInv => OrderInv')
    BY <2>1, NamedSame, OrderSame
  <2>6. DeadInv'
    BY <1>1, <1>3, <2>1 DEF DeadInv
  <2> QED
    BY <1>1, <1>2, <2>3, <2>4, <2>5, <2>6 DEF ListsInv
<1>7. CASE OnStartReturns(n)
  <2>1. /\ UNCHANGED <<provider, requests, registered, sending, inbox, peers, late, faults>>
        /\ client' = [client EXCEPT ![n] = "running"]
    BY <1>7 DEF OnStartReturns, providerVars
  <2>2. AskInv => AskInv'
    BY <1>5, <2>1
  <2>3. (NamedInv => NamedInv') /\ (OrderInv => OrderInv')
    BY <2>1, NamedSame, OrderSame
  <2>4. DeadInv'
    BY <1>1, <1>3, <2>1 DEF DeadInv
  <2> QED
    BY <1>1, <1>2, <2>1, <2>2, <2>3, <2>4 DEF ListsInv, NoCause, NoLate
<1>8. CASE Handling(n)
  <2>1. /\ UNCHANGED <<provider, requests, registered, client, late, faults>>
        /\ client[n] = "running" /\ inbox[n] # <<>>
        /\ inbox' = [inbox EXCEPT ![n] = Tail(inbox[n])]
        /\ \/ UNCHANGED peers
           \/ Head(inbox[n]).type = "PeerList" /\ peers' = [peers EXCEPT ![n] = Head(inbox[n]).peers]
        /\ \/ UNCHANGED sending
           \/ sending' = [sending EXCEPT ![n] = RegisterAndDiscover(n, n \in dialed)]
    BY <1>8 DEF Handling, HandlePeerList, HandleDiscoverNow, Receives, providerVars
  <2>2. \A m \in Nodes : sending'[m] = <<Discover(m)>> => sending[m] = <<Discover(m)>>
    <3>1. CASE sending' = [sending EXCEPT ![n] = RegisterAndDiscover(n, n \in dialed)]
      BY <1>3, <1>4, <3>1
    <3> QED
      BY <2>1, <3>1
  <2>3. AskInv => AskInv'
    BY <1>5, <2>1, <2>2
  <2>4. UNCHANGED <<late, registered>>
    BY <2>1
  <2>5. (NamedInv => NamedInv') /\ (OrderInv => OrderInv')
    BY <1>1, <2>1, <2>4, ListsTake
  <2>6. DeadInv'
    BY <1>1, <1>3, <2>1 DEF DeadInv
  <2> QED
    BY <1>1, <1>2, <2>1, <2>3, <2>5, <2>6 DEF ListsInv, NoCause, NoLate
<1>9. CASE AskDiscoverNow(n)
  <2>1. /\ UNCHANGED <<provider, requests, registered, client, sending, peers, late, faults>>
        /\ inbox' = [inbox EXCEPT ![n] = Append(inbox[n], DiscoverNow)]
        /\ DiscoverNow.type # "PeerList"
    BY <1>9, Requests DEF AskDiscoverNow, providerVars
  <2>2. AskInv => AskInv'
    BY <1>5, <2>1
  <2>3. UNCHANGED <<peers, late, registered>> /\ late' \subseteq late
    BY <2>1
  <2>4. NamedInv => NamedInv'
    BY <1>1, <2>1, <2>3, NamedAppend
  <2>5. OrderInv => OrderInv'
    BY <1>1, <2>1, <2>3, OrderAppend
  <2>6. DeadInv'
    BY <1>1, <2>1 DEF DeadInv
  <2> QED
    BY <1>1, <1>2, <2>1, <2>2, <2>4, <2>5, <2>6 DEF ListsInv, NoCause, NoLate
<1>10. CASE Die(n)
  <2>1. /\ UNCHANGED <<provider, requests, registered, faults>> /\ late' \subseteq late
        /\ client' = [client EXCEPT ![n] = "dead"] /\ sending' = [sending EXCEPT ![n] = <<>>]
        /\ inbox' = [inbox EXCEPT ![n] = <<>>] /\ peers' = [peers EXCEPT ![n] = {}]
    BY <1>10 DEF Die, providerVars
  <2>2. \A m \in Nodes : sending'[m] = <<Discover(m)>> => sending[m] = <<Discover(m)>>
    BY <1>3, <2>1
  <2>3. AskInv => AskInv'
    BY <1>5, <2>1, <2>2
  <2>4. /\ \A k \in Nodes : k # n => Lists(k)' = Lists(k) /\ inbox'[k] = inbox[k] /\ peers'[k] = peers[k]
        /\ Lists(n)' = {} /\ peers'[n] = {}
    BY <1>3, <2>1 DEF Lists
  <2>5. NamedInv => NamedInv'
    BY <2>1, <2>4 DEF NamedInv
  <2>6. OrderInv => OrderInv'
    BY <2>1, <2>4 DEF OrderInv
  <2>7. DeadInv'
    BY <1>1, <1>3, <2>1 DEF DeadInv
  <2> QED
    BY <1>1, <1>2, <2>1, <2>3, <2>5, <2>6, <2>7 DEF ListsInv, NoCause, NoLate
<1> QED
  BY <1>6, <1>7, <1>8, <1>9, <1>10

\* The provider's steps. A crash or a leave ends the premises; a new provider
\* knows as little as the first one did before it.
LEMMA ListsProvider ==
  ASSUME ProviderAssumption, ListsInv,
         SpawnProvider \/ ProviderCrashes \/ \E n \in Nodes : Provides(n) \/ OperatorLeaves(n)
  PROVE  ListsInv'
<1>1. BaseInv /\ DeadInv /\ (NoCause => AskInv /\ NamedInv) /\ (NoCause /\ NoLate => OrderInv)
  BY DEF ListsInv
<1>2. BaseInv'
  BY <1>1, BaseProvider
<1>3. TypeOK /\ requests \in Seq(Request)
  BY <1>1 DEF BaseInv, TypeOK
<1>4. DeadInv'
  BY <1>1 DEF DeadInv, SpawnProvider, ProviderCrashes, Provides, HandleJoin, HandleLeave, HandleDiscover,
              OperatorLeaves, clientVars
<1>5. CASE SpawnProvider
  <2>1. /\ ~provider /\ provider' /\ registered' = {}
        /\ UNCHANGED <<requests, sending, inbox, peers, late, faults>>
    BY <1>5 DEF SpawnProvider, clientVars
  <2>2. ASSUME AskInv PROVE AskInv' /\ registered' = registered
    <3>1. registered' = registered
      BY <2>1, <2>2 DEF AskInv
    <3> QED
      BY <1>1, <2>1, <2>2, <3>1, AskKeep
  <2>3. NamedInv => NamedInv'
    BY <2>1, NamedSame
  <2>4. registered' = registered => (OrderInv => OrderInv')
    BY <2>1, OrderSame
  <2> QED
    BY <1>1, <1>2, <1>4, <2>1, <2>2, <2>3, <2>4 DEF ListsInv, NoCause, NoLate
<1>6. CASE ProviderCrashes \/ \E n \in Nodes : OperatorLeaves(n)
  <2>1. Fault("crash") \/ Fault("leave")
    BY <1>6 DEF ProviderCrashes, OperatorLeaves
  <2>2. faults'["crash"] > 0 \/ faults'["leave"] > 0
    BY <1>3, <2>1, FaultFacts DEF FaultKinds
  <2> QED
    BY <1>2, <1>4, <2>2 DEF ListsInv, NoCause
<1>7. ASSUME NEW n \in Nodes, HandleJoin(n)
      PROVE  ListsInv'
  <2>1. /\ provider /\ requests # <<>> /\ Head(requests) = Join(n) /\ requests' = Tail(requests)
        /\ registered' = registered \cup {n}
        /\ UNCHANGED <<provider, sending, inbox, peers, late, faults>>
    BY <1>7 DEF HandleJoin, Handles, clientVars
  <2>2. AskInv => AskInv'
    <3>1. \A m \in Nodes : Head(requests) = Join(m) => m \in registered'
      BY <2>1, Requests
    <3> QED
      BY <1>1, <2>1, <3>1, AskTail
  <2>3. (NamedInv => NamedInv') /\ (OrderInv => OrderInv')
    BY <2>1, NamedSame, OrderSame
  <2> QED
    BY <1>1, <1>2, <1>4, <2>1, <2>2, <2>3 DEF ListsInv, NoCause, NoLate
<1>8. ASSUME NEW n \in Nodes, HandleLeave(n)
      PROVE  ListsInv'
  <2>1. requests # <<>> /\ Head(requests) = Leave(n) /\ UNCHANGED faults
    BY <1>8 DEF HandleLeave, Handles
  <2>2. requests[1].type = "LeaveCluster" /\ 1 \in 1..Len(requests)
    <3>1. Head(requests) = requests[1] /\ Len(requests) \in Nat /\ Len(requests) >= 1
      BY <1>3, <2>1, QueueFacts
    <3> QED
      BY <2>1, <3>1, Requests
  <2>3. ~AskInv
    BY <2>2 DEF AskInv
  <2> QED
    BY <1>1, <1>2, <1>4, <2>1, <2>3 DEF ListsInv, NoCause
<1>9. ASSUME NEW n \in Nodes, HandleDiscover(n)
      PROVE  ListsInv'
  <2>1. /\ provider /\ provider' /\ requests # <<>> /\ Head(requests) = Discover(n) /\ requests' = Tail(requests)
        /\ UNCHANGED <<registered, sending, peers>>
        /\ UNCHANGED faults \/ Fault("error") \/ Fault("dial") \/ Fault("late")
    BY <1>9 DEF HandleDiscover, Handles
  <2>2. \/ inbox' = [inbox EXCEPT ![n] = Append(inbox[n], PeerList)] /\ UNCHANGED late
        \/ UNCHANGED <<inbox, late>>
        \/ Fault("late") /\ late' = late \cup {[n |-> Happened, to |-> n, msg |-> PeerList]} /\ UNCHANGED inbox
    BY <1>9 DEF HandleDiscover
  <2>3. (NoCause' => NoCause) /\ (NoLate' => NoLate /\ ~Fault("late"))
    BY <1>1, <2>1, CauseFacts
  <2>4. PeerList.type = "PeerList" /\ PeerList.peers = registered
    BY DEF PeerList
  <2>5. AskInv => n \in registered
    <3> SUFFICES ASSUME AskInv PROVE n \in registered
      OBVIOUS
    <3>1. Head(requests) = requests[1] /\ 1 \in 1..Len(requests)
      BY <1>3, <2>1, QueueFacts
    <3>2. Known(n, 1)
      BY <2>1, <3>1 DEF AskInv
    <3> QED
      BY <3>2 DEF Known
  <2>6. AskInv => AskInv'
    <3>1. \A m \in Nodes : Head(requests) # Join(m)
      BY <2>1, Requests
    <3>2. \A e \in late' : e.to = "provider" => e \in late
      BY <2>2 DEF ProviderAssumption
    <3> QED
      BY <1>1, <2>1, <3>1, <3>2, AskTail
  <2>7. ASSUME AskInv, NamedInv PROVE NamedInv'
    <3>1. CASE inbox' = [inbox EXCEPT ![n] = Append(inbox[n], PeerList)] /\ UNCHANGED late
      <4>1. UNCHANGED peers /\ late' \subseteq late /\ n \in PeerList.peers
        BY <2>1, <2>4, <2>5, <2>7, <3>1
      <4>2. PICK m : m = PeerList
        OBVIOUS
      <4> QED
        BY <1>1, <2>7, <3>1, <4>1, <4>2, NamedAppend
    <3>2. CASE UNCHANGED <<inbox, late>>
      BY <2>1, <2>7, <3>2, NamedSame
    <3>3. CASE late' = late \cup {[n |-> Happened, to |-> n, msg |-> PeerList]} /\ UNCHANGED inbox
      <4>1. \A k \in Nodes : Lists(k)' = Lists(k)
        BY <3>3 DEF Lists
      <4> QED
        BY <2>1, <2>4, <2>5, <2>7, <3>3, <4>1 DEF NamedInv
    <3> QED
      BY <2>2, <3>1, <3>2, <3>3
  <2>8. OrderInv /\ ~Fault("late") => OrderInv'
    <3> SUFFICES ASSUME OrderInv, ~Fault("late") PROVE OrderInv'
      OBVIOUS
    <3>1. CASE inbox' = [inbox EXCEPT ![n] = Append(inbox[n], PeerList)] /\ UNCHANGED late
      <4>1. UNCHANGED <<peers, late, registered>>
        BY <2>1, <3>1
      <4>2. PICK m : m = PeerList
        OBVIOUS
      <4> QED
        BY <1>1, <2>4, <3>1, <4>1, <4>2, OrderAppend
    <3>2. CASE UNCHANGED <<inbox, late>>
      BY <2>1, <3>2, OrderSame
    <3> QED
      BY <2>2, <3>1, <3>2
  <2> QED
    BY <1>1, <1>2, <1>4, <2>3, <2>6, <2>7, <2>8 DEF ListsInv
<1> QED
  BY <1>5, <1>6, <1>7, <1>8, <1>9 DEF Provides

\* Every step keeps the lists as they should be.
LEMMA ListsNext ==
  ASSUME ProviderAssumption, ListsInv, [Next]_vars
  PROVE  ListsInv'
<1>1. CASE UNCHANGED vars
  <2>1. BaseInv' /\ UNCHANGED <<provider, requests, registered, client, sending, inbox, peers, late, faults>>
    BY <1>1, BaseNext DEF vars, ListsInv
  <2>2. \A n \in Nodes : Lists(n)' = Lists(n)
    BY <2>1 DEF Lists
  <2> QED
    BY <2>1, <2>2 DEF ListsInv, DeadInv, NoCause, NoLate, AskInv, Known, Allowed, NamedInv, OrderInv
<1>2. CASE Step
  BY <1>2, ListsTells, ListsLate, ListsClient, ListsProvider DEF Step
<1>3. CASE \E n \in Nodes : SpawnClient(n) \/ Die(n)
  BY <1>3, ListsClient
<1> QED
  BY <1>1, <1>2, <1>3 DEF Next

\* Nobody has asked yet, and nobody has a list.
LEMMA ListsInit ==
  ASSUME ProviderAssumption, Init
  PROVE  ListsInv
<1>1. BaseInv
  BY BaseInit
<1>2. /\ requests = <<>> /\ registered = {} /\ late = {}
      /\ \A n \in Nodes : peers[n] = {} /\ inbox[n] = <<>> /\ sending[n] = <<>> /\ client[n] = "unspawned"
  BY DEF Init
<1>3. \A n \in Nodes : Lists(n) = {}
  BY <1>2 DEF Lists
<1>4. AskInv
  BY <1>2 DEF AskInv
<1>5. NamedInv /\ OrderInv /\ DeadInv
  BY <1>2, <1>3 DEF NamedInv, OrderInv, DeadInv
<1> QED
  BY <1>1, <1>4, <1>5 DEF ListsInv

\* While lists are in order, a client takes only ones that name all its peers.
LEMMA KeepsPeers ==
  ASSUME ProviderAssumption, ListsInv, [Next]_vars, NoCause, NoLate,
         NEW n \in Nodes, client[n] = client'[n]
  PROVE  peers[n] \subseteq peers'[n]
<1>1. BaseInv /\ DeadInv /\ OrderInv
  BY DEF ListsInv
<1>2. /\ client \in [Nodes -> {"unspawned", "starting", "running", "dead"}]
      /\ peers \in [Nodes -> SUBSET Nodes]
  BY <1>1 DEF BaseInv, TypeOK
<1>3. CASE UNCHANGED peers
  BY <1>3
<1>4. ASSUME NEW m \in Nodes, HandlePeerList(m) PROVE peers[n] \subseteq peers'[n]
  <2>1. /\ inbox[m] # <<>> /\ inbox' = [inbox EXCEPT ![m] = Tail(inbox[m])]
        /\ Head(inbox[m]).type = "PeerList" /\ peers' = [peers EXCEPT ![m] = Head(inbox[m]).peers]
        /\ UNCHANGED <<late, registered>>
    BY <1>4 DEF HandlePeerList, Receives, providerVars
  <2> QED
    BY <1>1, <2>1, ListsTake
<1>5. ASSUME NEW m \in Nodes, Die(m) PROVE peers[n] \subseteq peers'[n]
  <2>1. client' = [client EXCEPT ![m] = "dead"] /\ peers' = [peers EXCEPT ![m] = {}]
    BY <1>5 DEF Die
  <2>2. CASE m = n
    <3>1. client[n] = "dead"
      BY <1>2, <2>1, <2>2
    <3> QED
      BY <1>1, <3>1 DEF DeadInv
  <2>3. CASE m # n
    BY <1>2, <2>1, <2>3
  <2> QED
    BY <2>2, <2>3
<1>6. UNCHANGED peers \/ \E m \in Nodes : HandlePeerList(m) \/ Die(m)
  <2>1. CASE UNCHANGED vars \/ LateArrives \/ SpawnProvider \/ ProviderCrashes
    BY <2>1 DEF vars, LateArrives, SpawnProvider, ProviderCrashes, clientVars
  <2>2. ASSUME NEW m \in Nodes,
               Tells(m) \/ OnStartReturns(m) \/ HandleDiscoverNow(m) \/ AskDiscoverNow(m) \/ SpawnClient(m)
        PROVE  UNCHANGED peers
    BY <2>2 DEF Tells, TellOk, TellRefused, TellError, TellLate, OnStartReturns, HandleDiscoverNow,
                AskDiscoverNow, SpawnClient
  <2>3. ASSUME NEW m \in Nodes, Provides(m) \/ OperatorLeaves(m)
        PROVE  UNCHANGED peers
    BY <2>3 DEF Provides, HandleJoin, HandleLeave, HandleDiscover, OperatorLeaves, clientVars
  <2> QED
    BY <2>1, <2>2, <2>3 DEF Next, Step, Handling
<1> QED
  BY <1>3, <1>4, <1>5, <1>6

\* The invariant behind both properties.
THEOREM ListsStayInOrder == ProviderAssumption => (Spec => []ListsInv)
<1> SUFFICES ASSUME ProviderAssumption PROVE Spec => []ListsInv
  OBVIOUS
<1>1. Init => ListsInv
  BY ListsInit
<1>2. ListsInv /\ [Next]_vars => ListsInv'
  BY ListsNext
<1> QED
  BY <1>1, <1>2, PTL DEF Spec

\* A list of peers names the node it is for, as that joined before it asked;
\* unless the provider has crashed in between, or the node was taken out.
THEOREM ListsItselfHolds == ProviderAssumption => (Spec => []ListsItself)
<1> SUFFICES ASSUME ProviderAssumption PROVE Spec => []ListsItself
  OBVIOUS
<1>1. ListsInv => ListsItself
  <2> SUFFICES ASSUME ListsInv, NoCause
               PROVE  \A n \in Nodes :
                        /\ peers[n] # {} => n \in peers[n]
                        /\ \A i \in DOMAIN inbox[n] : inbox[n][i].type = "PeerList" => n \in inbox[n][i].peers
    BY DEF ListsItself, NoCause
  <2>1. NamedInv
    BY DEF ListsInv
  <2>2. \A n \in Nodes : DOMAIN inbox[n] = 1..Len(inbox[n])
    BY DEF ListsInv, BaseInv, TypeOK
  <2> QED
    BY <2>1, <2>2 DEF NamedInv, Lists
<1> QED
  BY <1>1, ListsStayInOrder, PTL

\* A client forgets a peer only because of a crash, a leave, or a list that
\* comes late: the provider answers one request after the other.
THEOREM ForgetsWithCauseHolds == ProviderAssumption => (Spec => ForgetsWithCause)
<1> SUFFICES ASSUME ProviderAssumption PROVE Spec => ForgetsWithCause
  OBVIOUS
<1>1. ListsInv /\ [Next]_vars =>
        [(\A kind \in {"crash", "leave", "late"} : faults[kind] = 0) =>
           \A n \in Nodes : client[n] = client'[n] => peers[n] \subseteq peers'[n]]_vars
  BY KeepsPeers DEF NoCause, NoLate
<1>2. Spec => []ListsInv
  BY ListsStayInOrder
<1> QED
  BY <1>1, <1>2, PTL DEF Spec, ForgetsWithCause
=============================================================================
