----------------------------- MODULE ClusterNode -----------------------------
(***************************************************************************)
(* cmd/cluster-node: main starts the transport, joins the cluster in one   *)
(* of the modes and only then runs the node's role. Joining spawns the     *)
(* cluster actor, whose OnStart runs in main's goroutine: what OnStart     *)
(* waits for, the role waits for. A provider node has no part in joining;  *)
(* its process is ProviderCluster's provider.                              *)
(***************************************************************************)
EXTENDS Naturals, Sequences, FiniteSets

CONSTANTS Nodes,         \* nodes with a role other than provider
          Coordinators,  \* those with -role=coordinator
          Modes,         \* cluster modes considered, of "none", "provider", "p2p"
          Seeds, MailboxSize, Attempts, MaxFaults, MaxPolls, MaxFlaps, None


VARIABLES
  mode,  \* -cluster-mode, the same for all nodes
  main,  \* per node: "down", "listening", "joining", "joined", "serving" for
         \* ever, "waiting" for a round, "dead"
  \* provider mode
  provider, requests, registered, client, dialed, sending, tells, mail, list, late, faults,
  \* p2p mode
  actor, listed, joins, inbox, calling, peers, known, links, flaps

providerVars == <<provider, requests, registered, client, dialed, sending, tells, mail, list, late, faults>>
p2pVars == <<actor, listed, joins, inbox, calling, peers, known, links, flaps>>
vars == <<mode, main, providerVars, p2pVars>>

Provider == INSTANCE ProviderCluster WITH tries <- tells, inbox <- mail, peers <- list
P2P == INSTANCE P2PMembership WITH tries <- joins

ASSUME NodeAssumption ==
  /\ Coordinators \subseteq Nodes /\ Modes \subseteq {"none", "provider", "p2p"}
  /\ Provider!ProviderAssumption
  /\ P2P!MembershipAssumption

Init ==
  /\ mode \in Modes
  /\ main = [n \in Nodes |-> "down"]
  /\ Provider!Init
  /\ P2P!Init

Moves(n, from, to) == main[n] = from /\ main' = [main EXCEPT ![n] = to]

-----------------------------------------------------------------------------
\* The port may be in use.
StartTransport(n) ==
  /\ Moves(n, "down", "listening") \/ Moves(n, "down", "dead")
  /\ UNCHANGED <<mode, providerVars, p2pVars>>

\* joinCluster up to OnStart.
JoinCluster(n) ==
  \/ /\ mode = "none"
     /\ Moves(n, "listening", "joined")
     /\ UNCHANGED <<mode, providerVars, p2pVars>>
  \/ /\ mode = "provider"
     /\ Moves(n, "listening", "joining")
     /\ Provider!SpawnClient(n)
     /\ UNCHANGED <<mode, p2pVars>>
  \/ /\ mode = "p2p"
     /\ Moves(n, "listening", "joining")
     /\ P2P!SpawnP2P(n) \/ P2P!CreateFails(n)
     /\ UNCHANGED <<mode, providerVars>>

\* -cluster-mode=provider without -provider-addr.
CannotJoin(n) ==
  /\ mode = "provider"
  /\ Moves(n, "listening", "dead")
  /\ UNCHANGED <<mode, providerVars, p2pVars>>

Spawned(n) == IF mode = "provider" THEN client[n] = "running" ELSE actor[n] # "joined" /\ actor[n] # "starting"

JoinReturns(n) ==
  /\ Spawned(n)
  /\ Moves(n, "joining", "joined")
  /\ UNCHANGED <<mode, providerVars, p2pVars>>

\* -role is read here. The role's actor is spawned; a worker and an aggregator
\* then serve it for ever, a coordinator waits for the round it has started.
RunWorker(n) ==
  /\ n \notin Coordinators
  /\ Moves(n, "joined", "serving")
  /\ UNCHANGED <<mode, providerVars, p2pVars>>

RunAggregator(n) ==
  /\ n \notin Coordinators
  /\ Moves(n, "joined", "serving")
  /\ UNCHANGED <<mode, providerVars, p2pVars>>

RunCoordinator(n) ==
  /\ n \in Coordinators
  /\ Moves(n, "joined", "waiting")
  /\ UNCHANGED <<mode, providerVars, p2pVars>>

\* The process ends, and with it the actor that joined the cluster; nothing
\* stops the actor before.
Ends(n) ==
  /\ CASE mode = "none"     -> UNCHANGED <<providerVars, p2pVars>>
       [] mode = "provider" -> Provider!Die(n) /\ UNCHANGED p2pVars
       [] mode = "p2p"      -> P2P!Die(n) /\ UNCHANGED providerVars
  /\ UNCHANGED mode

\* Unknown -role, a missing or wrong flag, a data set that cannot be read:
\* main finds out after it has joined.
RoleFatal(n) == Moves(n, "joined", "dead") /\ Ends(n)

\* The round is over, or timed out.
RoundEnds(n) == Moves(n, "waiting", "dead") /\ Ends(n)

-----------------------------------------------------------------------------
ClusterStep ==
  \/ mode = "provider" /\ Provider!Step /\ UNCHANGED p2pVars
  \/ mode = "p2p" /\ P2P!Step /\ UNCHANGED providerVars

RunsRole(n) == RunWorker(n) \/ RunAggregator(n) \/ RunCoordinator(n) \/ RoleFatal(n)

MainStep(n) ==
  \/ StartTransport(n) \/ JoinCluster(n) \/ CannotJoin(n) \/ JoinReturns(n)
  \/ RunsRole(n) \/ RoundEnds(n)

Next ==
  \/ \E n \in Nodes : MainStep(n)
  \/ ClusterStep /\ UNCHANGED <<mode, main>>

(* A started process runs: main goes on when it can. Nobody has to start   *)
(* one, and a round does not have to end.                                  *)
Fairness ==
  /\ \A n \in Nodes : /\ WF_vars(JoinCluster(n) \/ CannotJoin(n))
                      /\ WF_vars(JoinReturns(n))
                      /\ WF_vars(RunsRole(n))
  /\ Provider!Fairness
  /\ Provider!Polling
  /\ P2P!Fairness

Spec == Init /\ [][Next]_vars /\ Fairness

-----------------------------------------------------------------------------
TypeOK ==
  /\ mode \in Modes
  /\ main \in [Nodes -> {"down", "listening", "joining", "joined", "serving", "waiting", "dead"}]
  /\ Provider!TypeOK
  /\ P2P!TypeOK

(* See ProviderCluster: whoever gets a list of peers is on it.             *)
ListsItself == Provider!ListsItself

(* See ProviderCluster: lists are replaced by newer ones.                  *)
ForgetsWithCause == Provider!ForgetsWithCause

(* See ProviderCluster: polled clients learn of each other.                *)
ClientsComplete == Provider!PeersComplete

(* See P2PMembership: callbacks and mailbox keep the peers in step.        *)
PeersFollowMembership == P2P!PeersFollowMembership

(* See P2PMembership: two slots per other member are room enough.          *)
RoomSuffices == P2P!RoomSuffices

(* See P2PMembership: gossiping nodes learn of each other.                 *)
GossipComplete == P2P!PeersComplete

(* A node that was started gets to its role, whether or not a provider or  *)
(* a seed is there: both retries of OnStart give up ("doesn't permanently  *)
(* block this node"). Only in gossip, and when more members announce       *)
(* themselves than the mailbox holds before its loop has begun, main waits *)
(* for ever for a callback that waits for room.                            *)
Serves ==
  \A n \in Nodes :
    main[n] = "listening" ~> main[n] \in {"serving", "waiting", "dead"} \/ P2P!Stuck(n)
=============================================================================
