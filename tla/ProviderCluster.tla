--------------------------- MODULE ProviderCluster ---------------------------
(***************************************************************************)
(* Provider mode (internal/cluster: provider.go, provider_client.go): a    *)
(* client registers with the provider and asks for the peers, once while   *)
(* it is spawned and then whenever it is told DiscoverNow; the provider    *)
(* dials back to deliver its answer. Every Tell crosses the network: it    *)
(* is accepted, refused because nobody is there, or fails although the     *)
(* message arrives, at once or late. A peer is its id: its address is in   *)
(* the same message and never changes. QueryPeers only reads.              *)
(***************************************************************************)
EXTENDS Naturals, Sequences, FiniteSets

CONSTANTS Nodes,       \* ids of the clients
          Attempts,    \* attempts of tellWithRetry (10 in the code)
          MaxFaults,   \* bound: faults in a behaviour
          MaxPolls     \* bound: messages of one client under way when it is polled

FaultKinds == {"error", "late", "crash", "dial", "leave"}

ProviderAssumption ==
  Attempts \in Nat \ {0} /\ MaxFaults \in Nat /\ MaxPolls \in Nat \ {0} /\ "provider" \notin Nodes

VARIABLES
  provider,    \* is there a ProviderActor?
  requests,    \* its mailbox
  registered,  \* ProviderActor.peers
  client,      \* per node: "unspawned", "starting" (in OnStart), "running", "dead"
  dialed,      \* nodes whose c.provider is not nil
  sending,     \* per node, what registerAndDiscover has yet to send
  tries,       \* per node, failed attempts to send the first of these
  inbox,       \* mailboxes of the clients
  peers,       \* ProviderClientActor.peers
  late,        \* messages whose Tell failed and that will arrive all the same
  faults       \* faults of each kind so far
vars == <<provider, requests, registered, client, dialed, sending, tries, inbox, peers, late, faults>>

Join(n)     == [type |-> "JoinCluster", node |-> n]
Leave(n)    == [type |-> "LeaveCluster", node |-> n]
Discover(n) == [type |-> "DiscoverPeers", node |-> n]
DiscoverNow == [type |-> "DiscoverNow"]
PeerList    == [type |-> "PeerList", peers |-> registered]

Init ==
  /\ provider = FALSE
  /\ requests = <<>>
  /\ registered = {}
  /\ client = [n \in Nodes |-> "unspawned"]
  /\ dialed = {}
  /\ sending = [n \in Nodes |-> <<>>]
  /\ tries = [n \in Nodes |-> 0]
  /\ inbox = [n \in Nodes |-> <<>>]
  /\ peers = [n \in Nodes |-> {}]
  /\ late = {}
  /\ faults = [kind \in FaultKinds |-> 0]

Happened == faults["error"] + faults["late"] + faults["crash"] + faults["dial"] + faults["leave"]
Fault(kind) == Happened < MaxFaults /\ faults' = [faults EXCEPT ![kind] = @ + 1]

providerVars == <<provider, requests, registered>>
clientVars == <<client, dialed, sending, tries, inbox, peers>>

Alive(n) == client[n] \in {"starting", "running"}

-----------------------------------------------------------------------------
(* Plausible bugs, used by no specification: registerAndDiscover that goes *)
(* on after a failed join, or without joining again; retries without end   *)
(* or one too many; a provider that drops a peer it cannot answer.         *)
OnlyDiscover(n, connected) ==
  IF ~connected THEN <<>>
  ELSE IF client[n] = "running" THEN <<Discover(n)>> ELSE <<Join(n), Discover(n)>>

SkipMessage(n) ==
  IF tries[n] + 1 < Attempts
  THEN tries' = [tries EXCEPT ![n] = @ + 1] /\ UNCHANGED sending
  ELSE tries' = [tries EXCEPT ![n] = 0] /\ sending' = [sending EXCEPT ![n] = Tail(@)]

RetryForever(n) == UNCHANGED <<sending, tries>>

FailOnceMore(n) ==
  IF tries[n] < Attempts
  THEN tries' = [tries EXCEPT ![n] = @ + 1] /\ UNCHANGED sending
  ELSE tries' = [tries EXCEPT ![n] = 0] /\ sending' = [sending EXCEPT ![n] = <<>>]

EvictUnreachable(n) ==
  /\ provider
  /\ requests # <<>> /\ Head(requests) = Discover(n)
  /\ requests' = Tail(requests)
  /\ \/ /\ Alive(n)
        /\ inbox' = [inbox EXCEPT ![n] = Append(@, PeerList)]
        /\ UNCHANGED <<registered, faults>>
     \/ /\ IF Alive(n) THEN Fault("error") ELSE UNCHANGED faults
        /\ registered' = registered \ {n}
        /\ UNCHANGED inbox
  /\ UNCHANGED <<provider, client, dialed, sending, tries, peers, late>>

-----------------------------------------------------------------------------
(* tellWithRetry, on the first message of sending.                         *)

\* After the last attempt registerAndDiscover logs the error and returns.
Fail(n) ==
  IF tries[n] + 1 < Attempts
  THEN tries' = [tries EXCEPT ![n] = @ + 1] /\ UNCHANGED sending
  ELSE tries' = [tries EXCEPT ![n] = 0] /\ sending' = [sending EXCEPT ![n] = <<>>]

\* registerAndDiscover stops at once without a connection.
RegisterAndDiscover(n, connected) == IF connected THEN <<Join(n), Discover(n)>> ELSE <<>>

Sends(n) == Alive(n) /\ sending[n] # <<>>

TellOk(n) ==
  /\ Sends(n)
  /\ provider
  /\ requests' = Append(requests, Head(sending[n]))
  /\ sending' = [sending EXCEPT ![n] = Tail(@)]
  /\ tries' = [tries EXCEPT ![n] = 0]
  /\ UNCHANGED <<provider, registered, client, dialed, inbox, peers, late, faults>>

\* No provider process, or it has not spawned its actor yet.
TellRefused(n) ==
  /\ Sends(n)
  /\ ~provider
  /\ Fail(n)
  /\ UNCHANGED <<providerVars, client, dialed, inbox, peers, late, faults>>

TellError(n) ==
  /\ Fault("error")
  /\ Sends(n)
  /\ Fail(n)
  /\ UNCHANGED <<providerVars, client, dialed, inbox, peers, late>>

TellLate(n) ==
  /\ Fault("late")
  /\ Sends(n)
  /\ provider
  /\ late' = late \cup {[n |-> Happened, to |-> "provider", msg |-> Head(sending[n])]}
  /\ Fail(n)
  /\ UNCHANGED <<providerVars, client, dialed, inbox, peers>>

LateArrives ==
  \E e \in late :
    /\ late' = late \ {e}
    /\ IF e.to = "provider"
       THEN requests' = Append(requests, e.msg) /\ UNCHANGED inbox
       ELSE inbox' = [inbox EXCEPT ![e.to] = Append(@, e.msg)] /\ UNCHANGED requests
    /\ UNCHANGED <<provider, registered, client, dialed, sending, tries, peers, faults>>

-----------------------------------------------------------------------------
(* ProviderClientActor.                                                    *)

\* It fails for an address that cannot be parsed; nobody has to be there.
NewRef(n) ==
  \/ dialed' = dialed \cup {n} /\ UNCHANGED faults
  \/ Fault("dial") /\ UNCHANGED dialed

\* Spawn registers the actor and runs OnStart in the caller's goroutine.
SpawnClient(n) ==
  /\ client[n] = "unspawned"
  /\ client' = [client EXCEPT ![n] = "starting"]
  /\ NewRef(n)
  /\ sending' = [sending EXCEPT ![n] = RegisterAndDiscover(n, n \in dialed')]
  /\ UNCHANGED <<providerVars, tries, inbox, peers, late>>

OnStartReturns(n) ==
  /\ client[n] = "starting"
  /\ sending[n] = <<>>
  /\ client' = [client EXCEPT ![n] = "running"]
  /\ UNCHANGED <<providerVars, dialed, sending, tries, inbox, peers, late, faults>>

Receives(n, type) ==
  /\ client[n] = "running"
  /\ sending[n] = <<>>
  /\ inbox[n] # <<>> /\ Head(inbox[n]).type = type
  /\ inbox' = [inbox EXCEPT ![n] = Tail(@)]

HandlePeerList(n) ==
  /\ Receives(n, "PeerList")
  /\ peers' = [peers EXCEPT ![n] = Head(inbox[n]).peers]
  /\ UNCHANGED <<providerVars, client, dialed, sending, tries, late, faults>>

HandleDiscoverNow(n) ==
  /\ Receives(n, "DiscoverNow")
  /\ sending' = [sending EXCEPT ![n] = RegisterAndDiscover(n, n \in dialed)]
  /\ UNCHANGED <<providerVars, client, dialed, tries, peers, late, faults>>

\* What is under way from, to or about a client, but for what is late.
Backlog(n) ==
  Len(sending[n]) + Len(inbox[n]) + Cardinality({i \in DOMAIN requests : requests[i].node = n})

\* No program polls a client; a test does, again whether or not it was answered.
AskDiscoverNow(n) ==
  /\ client[n] = "running" /\ n \in dialed
  /\ Backlog(n) < MaxPolls
  /\ inbox' = [inbox EXCEPT ![n] = Append(@, DiscoverNow)]
  /\ UNCHANGED <<providerVars, client, dialed, sending, tries, peers, late, faults>>

\* The node's process ends; it does not tell the provider.
Die(n) ==
  /\ client' = [client EXCEPT ![n] = "dead"]
  /\ sending' = [sending EXCEPT ![n] = <<>>]
  /\ tries' = [tries EXCEPT ![n] = 0]
  /\ inbox' = [inbox EXCEPT ![n] = <<>>]
  /\ peers' = [peers EXCEPT ![n] = {}]
  /\ late' = {e \in late : e.to # n}
  /\ UNCHANGED <<providerVars, dialed, faults>>

-----------------------------------------------------------------------------
(* ProviderActor.                                                          *)

\* runProvider, in a new process after a crash: it knows nobody.
SpawnProvider ==
  /\ ~provider
  /\ provider' = TRUE
  /\ registered' = {}
  /\ UNCHANGED <<requests, clientVars, late, faults>>

ProviderCrashes ==
  /\ Fault("crash")
  /\ provider
  /\ provider' = FALSE
  /\ requests' = <<>>
  /\ late' = {e \in late : e.to # "provider"}
  /\ UNCHANGED <<registered, clientVars>>

Handles(request) == provider /\ requests # <<>> /\ Head(requests) = request /\ requests' = Tail(requests)

HandleJoin(n) ==
  /\ Handles(Join(n))
  /\ registered' = registered \cup {n}
  /\ UNCHANGED <<provider, clientVars, late, faults>>

HandleLeave(n) ==
  /\ Handles(Leave(n))
  /\ registered' = registered \ {n}
  /\ UNCHANGED <<provider, clientVars, late, faults>>

\* Nothing in src/ sends LeaveCluster; an operator may.
OperatorLeaves(n) ==
  /\ Fault("leave")
  /\ provider
  /\ requests' = Append(requests, Leave(n))
  /\ UNCHANGED <<provider, registered, clientVars, late>>

\* replyPeerList dials the client and tells it once; an error is only logged.
HandleDiscover(n) ==
  /\ Handles(Discover(n))
  /\ \/ /\ Alive(n)
        /\ inbox' = [inbox EXCEPT ![n] = Append(@, PeerList)]
        /\ UNCHANGED <<late, faults>>
     \/ /\ IF Alive(n) THEN Fault("error") ELSE UNCHANGED faults
        /\ UNCHANGED <<inbox, late>>
     \/ /\ Alive(n)
        /\ Fault("late")
        /\ late' = late \cup {[n |-> Happened, to |-> n, msg |-> PeerList]}
        /\ UNCHANGED inbox
  /\ UNCHANGED <<provider, registered, client, dialed, sending, tries, peers>>

-----------------------------------------------------------------------------
Tells(n) == TellOk(n) \/ TellRefused(n) \/ TellError(n) \/ TellLate(n)
Provides(n) == HandleJoin(n) \/ HandleLeave(n) \/ HandleDiscover(n)
Handling(n) == HandlePeerList(n) \/ HandleDiscoverNow(n)

\* Everything but the spawning and the death of the clients.
Step ==
  \/ \E n \in Nodes : \/ Tells(n) \/ OnStartReturns(n) \/ Handling(n)
                      \/ AskDiscoverNow(n) \/ Provides(n) \/ OperatorLeaves(n)
  \/ LateArrives \/ SpawnProvider \/ ProviderCrashes

\* All that a cluster does whose clients are spawned once and die at any time.
Next == Step \/ \E n \in Nodes : SpawnClient(n) \/ Die(n)

Spec == Init /\ [][Next]_vars

(* Goroutines that can run do, and what is late arrives. Nobody has to     *)
(* start a provider, and nothing has to fail.                              *)
Fairness ==
  /\ \A n \in Nodes : /\ WF_vars(Tells(n)) /\ WF_vars(OnStartReturns(n))
                      /\ WF_vars(Handling(n)) /\ WF_vars(Provides(n))
  /\ WF_vars(LateArrives)

(* The environment's part, as in the tests: every client is polled.        *)
Polling == \A n \in Nodes : WF_vars(AskDiscoverNow(n))

-----------------------------------------------------------------------------
Request == [type : {"JoinCluster", "LeaveCluster", "DiscoverPeers"}, node : Nodes]
Notice == {DiscoverNow} \cup [type : {"PeerList"}, peers : SUBSET Nodes]

TypeOK ==
  /\ provider \in BOOLEAN
  /\ requests \in Seq(Request)
  /\ registered \subseteq Nodes
  /\ client \in [Nodes -> {"unspawned", "starting", "running", "dead"}]
  /\ dialed \subseteq Nodes
  /\ sending \in [Nodes -> Seq(Request)]
  /\ tries \in [Nodes -> 0..(Attempts - 1)]
  /\ inbox \in [Nodes -> Seq(Notice)]
  /\ peers \in [Nodes -> SUBSET Nodes]
  /\ faults \in [FaultKinds -> Nat] /\ Happened <= MaxFaults

(* A list of peers names the node it is for, as that joined before it      *)
(* asked; unless the provider has crashed in between, or the node was      *)
(* taken out.                                                              *)
ListsItself ==
  faults["crash"] = 0 /\ faults["leave"] = 0 =>
    \A n \in Nodes :
      /\ peers[n] # {} => n \in peers[n]
      /\ \A i \in DOMAIN inbox[n] : inbox[n][i].type = "PeerList" => n \in inbox[n][i].peers

(* A client forgets a peer only because of a crash, a leave, or a list     *)
(* that comes late, after a newer one: the provider answers one request    *)
(* after the other.                                                        *)
ForgetsWithCause ==
  [][(\A kind \in {"crash", "leave", "late"} : faults[kind] = 0) =>
       \A n \in Nodes : client[n] = client'[n] => peers[n] \subseteq peers'[n]]_vars

(* With a provider that stays up, every running client that is polled      *)
(* learns of all others, also after a crash that emptied the provider, and *)
(* although lists may be lost, late or stale in between.                   *)
Connected == {n \in Nodes : client[n] = "running" /\ n \in dialed}
PeersComplete ==
  (<>[]provider) => <>[](\A n \in Connected : Connected \subseteq peers[n])
=============================================================================
