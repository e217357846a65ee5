-------------------------- MODULE ClusterNodeProofs --------------------------
(***************************************************************************)
(* A cluster of nodes spawns and ends each client as ProviderCluster says  *)
(* and each actor of the gossip as P2PMembership says, so that what holds  *)
(* there holds of the nodes.                                               *)
(***************************************************************************)
EXTENDS ClusterNode, TLAPS

ProviderProofs == INSTANCE ProviderClusterProofs WITH tries <- tells, inbox <- mail, peers <- list
P2PProofs == INSTANCE P2PMembershipProofs WITH tries <- joins

ModeOK == mode \in Modes
MainOK == main \in [Nodes -> {"down", "listening", "joining", "joined", "serving", "waiting", "dead"}]

\* -cluster-mode is read once, and main goes from one of its states to another.
LEMMA MainNext ==
  ASSUME ModeOK, MainOK, [Next]_vars
  PROVE  ModeOK' /\ MainOK'
<1>1. UNCHANGED mode
  <2>1. CASE UNCHANGED vars
    BY <2>1 DEF vars
  <2>2. CASE ClusterStep /\ UNCHANGED <<mode, main>>
    BY <2>2
  <2>3. ASSUME NEW n \in Nodes, MainStep(n) PROVE UNCHANGED mode
    BY <2>3 DEF MainStep, StartTransport, JoinCluster, CannotJoin, JoinReturns, RunsRole, RunWorker,
                RunAggregator, RunCoordinator, RoleFatal, RoundEnds, Ends
  <2> QED
    BY <2>1, <2>2, <2>3 DEF Next
<1>2. MainOK'
  <2>1. CASE UNCHANGED main
    BY <2>1 DEF MainOK
  <2>2. ASSUME NEW n \in Nodes, NEW from,
               NEW next \in {"listening", "joining", "joined", "serving", "waiting", "dead"}, Moves(n, from, next)
        PROVE  MainOK'
    BY <2>2 DEF Moves, MainOK
  <2>3. UNCHANGED main \/ \E n \in Nodes : MainStep(n)
    BY DEF Next, vars
  <2>4. ASSUME NEW n \in Nodes, MainStep(n) PROVE MainOK'
    BY <2>2, <2>4 DEF MainStep, StartTransport, JoinCluster, CannotJoin, JoinReturns, RunsRole, RunWorker,
                      RunAggregator, RunCoordinator, RoleFatal, RoundEnds
  <2> QED
    BY <2>1, <2>3, <2>4
<1> QED
  BY <1>1, <1>2 DEF ModeOK

\* The provider and the clients that the nodes run are those of the proofs.
LEMMA SameProvider ==
  /\ Provider!Init <=> ProviderProofs!Init
  /\ Provider!Step <=> ProviderProofs!Step
  /\ \A n \in Nodes : /\ Provider!SpawnClient(n) <=> ProviderProofs!SpawnClient(n)
                      /\ Provider!Die(n) <=> ProviderProofs!Die(n)
<1>1. Provider!Init <=> ProviderProofs!Init
  BY DEF Provider!Init, ProviderProofs!Init, Provider!FaultKinds, ProviderProofs!FaultKinds
<1>2. Provider!Step <=> ProviderProofs!Step
  <2>1. \A n \in Nodes : Provider!AskDiscoverNow(n) <=> ProviderProofs!AskDiscoverNow(n)
    <3>1. \A n \in Nodes : Provider!Backlog(n) = ProviderProofs!Backlog(n)
      BY Zenon DEF Provider!Backlog, ProviderProofs!Backlog, Provider!Cardinality, ProviderProofs!Cardinality
    <3> QED
      BY <3>1, Zenon DEF Provider!AskDiscoverNow, ProviderProofs!AskDiscoverNow, Provider!DiscoverNow,
                         ProviderProofs!DiscoverNow, Provider!providerVars, ProviderProofs!providerVars
  <2>2. \A n \in Nodes : Provider!Tells(n) <=> ProviderProofs!Tells(n)
    BY Zenon DEF Provider!Tells, ProviderProofs!Tells, Provider!TellOk, ProviderProofs!TellOk,
                 Provider!TellRefused, ProviderProofs!TellRefused, Provider!TellError,
                 ProviderProofs!TellError, Provider!TellLate, ProviderProofs!TellLate, Provider!Sends,
                 ProviderProofs!Sends, Provider!Alive, ProviderProofs!Alive, Provider!Fail,
                 ProviderProofs!Fail, Provider!Fault, ProviderProofs!Fault, Provider!Happened,
                 ProviderProofs!Happened, Provider!providerVars, ProviderProofs!providerVars
  <2>3. \A n \in Nodes : /\ Provider!OnStartReturns(n) <=> ProviderProofs!OnStartReturns(n)
                         /\ Provider!Handling(n) <=> ProviderProofs!Handling(n)
    BY Zenon DEF Provider!OnStartReturns, ProviderProofs!OnStartReturns, Provider!Handling,
                 ProviderProofs!Handling, Provider!HandlePeerList, ProviderProofs!HandlePeerList,
                 Provider!HandleDiscoverNow, ProviderProofs!HandleDiscoverNow, Provider!Receives,
                 ProviderProofs!Receives, Provider!RegisterAndDiscover, ProviderProofs!RegisterAndDiscover,
                 Provider!Join, ProviderProofs!Join, Provider!Discover, ProviderProofs!Discover,
                 Provider!providerVars, ProviderProofs!providerVars
  <2>4. \A n \in Nodes : /\ Provider!Provides(n) <=> ProviderProofs!Provides(n)
                         /\ Provider!OperatorLeaves(n) <=> ProviderProofs!OperatorLeaves(n)
    BY Zenon DEF Provider!Provides, ProviderProofs!Provides, Provider!HandleJoin, ProviderProofs!HandleJoin,
                 Provider!HandleLeave, ProviderProofs!HandleLeave, Provider!HandleDiscover,
                 ProviderProofs!HandleDiscover, Provider!Handles, ProviderProofs!Handles, Provider!Alive,
                 ProviderProofs!Alive, Provider!Fault, ProviderProofs!Fault, Provider!Happened,
                 ProviderProofs!Happened, Provider!Join, ProviderProofs!Join, Provider!Leave,
                 ProviderProofs!Leave, Provider!Discover, ProviderProofs!Discover, Provider!PeerList,
                 ProviderProofs!PeerList, Provider!OperatorLeaves, ProviderProofs!OperatorLeaves,
                 Provider!clientVars, ProviderProofs!clientVars
  <2>5. /\ Provider!LateArrives <=> ProviderProofs!LateArrives
        /\ Provider!SpawnProvider <=> ProviderProofs!SpawnProvider
        /\ Provider!ProviderCrashes <=> ProviderProofs!ProviderCrashes
    BY Zenon DEF Provider!LateArrives, ProviderProofs!LateArrives, Provider!SpawnProvider,
                 ProviderProofs!SpawnProvider, Provider!ProviderCrashes, ProviderProofs!ProviderCrashes,
                 Provider!Fault, ProviderProofs!Fault, Provider!Happened, ProviderProofs!Happened,
                 Provider!clientVars, ProviderProofs!clientVars
  <2> QED
    BY <2>1, <2>2, <2>3, <2>4, <2>5, Zenon DEF Provider!Step, ProviderProofs!Step
<1>3. \A n \in Nodes : Provider!SpawnClient(n) <=> ProviderProofs!SpawnClient(n)
  BY Zenon DEF Provider!SpawnClient, ProviderProofs!SpawnClient, Provider!NewRef, ProviderProofs!NewRef,
               Provider!Fault, ProviderProofs!Fault, Provider!Happened, ProviderProofs!Happened,
               Provider!RegisterAndDiscover, ProviderProofs!RegisterAndDiscover, Provider!Join,
               ProviderProofs!Join, Provider!Discover, ProviderProofs!Discover, Provider!providerVars,
               ProviderProofs!providerVars
<1>4. \A n \in Nodes : Provider!Die(n) <=> ProviderProofs!Die(n)
  BY Zenon DEF Provider!Die, ProviderProofs!Die, Provider!providerVars, ProviderProofs!providerVars
<1> QED
  BY <1>1, <1>2, <1>3, <1>4

\* The actors of the gossip that the nodes run are those of the proofs.
LEMMA SameGossip ==
  /\ P2P!Init <=> P2PProofs!Init
  /\ P2P!Step <=> P2PProofs!Step
  /\ \A n \in Nodes : /\ P2P!SpawnP2P(n) <=> P2PProofs!SpawnP2P(n)
                      /\ P2P!CreateFails(n) <=> P2PProofs!CreateFails(n)
                      /\ P2P!Die(n) <=> P2PProofs!Die(n)
<1>1. P2P!Init <=> P2PProofs!Init
  BY DEF P2P!Init, P2PProofs!Init
<1>2. P2P!Step <=> P2PProofs!Step
  BY Zenon DEF P2P!Step, P2PProofs!Step, P2P!Starts, P2PProofs!Starts, P2P!NoSeeds,
               P2PProofs!NoSeeds, P2P!JoinFails, P2PProofs!JoinFails, P2P!JoinSeed,
               P2PProofs!JoinSeed, P2P!OnStartReturns, P2PProofs!OnStartReturns, P2P!TellSelf,
               P2PProofs!TellSelf, P2P!Stop, P2PProofs!Stop, P2P!Stops, P2PProofs!Stops,
               P2P!HandleEvent, P2PProofs!HandleEvent, P2P!OnStop, P2PProofs!OnStop, P2P!Learn,
               P2PProofs!Learn, P2P!Lose, P2PProofs!Lose, P2P!Update, P2PProofs!Update, P2P!Idle,
               P2PProofs!Idle, P2P!Stuck, P2PProofs!Stuck, P2P!Notify, P2PProofs!Notify,
               P2P!Joined, P2PProofs!Joined, P2P!Left, P2PProofs!Left, P2P!Flap, P2PProofs!Flap,
               P2P!Apply, P2PProofs!Apply, P2P!Reaches, P2PProofs!Reaches
<1>3. \A n \in Nodes : P2P!SpawnP2P(n) <=> P2PProofs!SpawnP2P(n)
  BY Zenon DEF P2P!SpawnP2P, P2PProofs!SpawnP2P, P2P!Notify, P2PProofs!Notify, P2P!Joined,
               P2PProofs!Joined
<1>4. \A n \in Nodes : P2P!CreateFails(n) <=> P2PProofs!CreateFails(n)
  BY Zenon DEF P2P!CreateFails, P2PProofs!CreateFails
<1>5. \A n \in Nodes : P2P!Die(n) <=> P2PProofs!Die(n)
  BY Zenon DEF P2P!Die, P2PProofs!Die
<1> QED
  BY <1>1, <1>2, <1>3, <1>4, <1>5

\* A node is a client that is spawned when it joins and dies with its process.
LEMMA NodeIsClient ==
  ASSUME ModeOK, [Next]_vars
  PROVE  [ProviderProofs!Next]_providerVars
<1> USE DEF ProviderProofs!Next
<1>1. CASE UNCHANGED vars
  BY <1>1 DEF vars
<1>2. CASE ClusterStep
  BY <1>2, SameProvider DEF ClusterStep
<1>3. ASSUME NEW n \in Nodes, Ends(n) PROVE [ProviderProofs!Next]_providerVars
  <2>1. mode \in {"none", "provider", "p2p"}
    BY NodeAssumption DEF NodeAssumption, ModeOK
  <2> QED
    BY <1>3, <2>1, SameProvider DEF Ends
<1>4. ASSUME NEW n \in Nodes, JoinCluster(n) PROVE [ProviderProofs!Next]_providerVars
  BY <1>4, SameProvider DEF JoinCluster
<1>5. ASSUME NEW n \in Nodes,
             StartTransport(n) \/ CannotJoin(n) \/ JoinReturns(n) \/ RunWorker(n) \/ RunAggregator(n)
               \/ RunCoordinator(n)
      PROVE  UNCHANGED providerVars
  BY <1>5 DEF StartTransport, CannotJoin, JoinReturns, RunWorker, RunAggregator, RunCoordinator
<1> QED
  BY <1>1, <1>2, <1>3, <1>4, <1>5 DEF Next, MainStep, RunsRole, RoleFatal, RoundEnds

\* A node is an actor of the gossip that is spawned, if memberlist can be
\* created, when it joins, and dies with its process.
LEMMA NodeGossips ==
  ASSUME ModeOK, [Next]_vars
  PROVE  [P2PProofs!Next]_p2pVars
<1> USE DEF P2PProofs!Next
<1>1. CASE UNCHANGED vars
  BY <1>1 DEF vars
<1>2. CASE ClusterStep
  BY <1>2, SameGossip DEF ClusterStep
<1>3. ASSUME NEW n \in Nodes, Ends(n) PROVE [P2PProofs!Next]_p2pVars
  <2>1. mode \in {"none", "provider", "p2p"}
    BY NodeAssumption DEF NodeAssumption, ModeOK
  <2> QED
    BY <1>3, <2>1, SameGossip DEF Ends
<1>4. ASSUME NEW n \in Nodes, JoinCluster(n) PROVE [P2PProofs!Next]_p2pVars
  BY <1>4, SameGossip DEF JoinCluster
<1>5. ASSUME NEW n \in Nodes,
             StartTransport(n) \/ CannotJoin(n) \/ JoinReturns(n) \/ RunWorker(n) \/ RunAggregator(n)
               \/ RunCoordinator(n)
      PROVE  UNCHANGED p2pVars
  BY <1>5 DEF StartTransport, CannotJoin, JoinReturns, RunWorker, RunAggregator, RunCoordinator
<1> QED
  BY <1>1, <1>2, <1>3, <1>4, <1>5 DEF Next, MainStep, RunsRole, RoleFatal, RoundEnds

\* A cluster of nodes behaves as ProviderCluster and P2PMembership say, one
\* mode or the other, and main keeps its types.
THEOREM NodesImplementModes == Spec => ProviderProofs!Spec /\ P2PProofs!Spec /\ [](ModeOK /\ MainOK)
<1>1. Init => ModeOK /\ MainOK /\ ProviderProofs!Init /\ P2PProofs!Init
  BY SameProvider, SameGossip DEF Init, ModeOK, MainOK
<1>2. ModeOK /\ MainOK /\ [Next]_vars => ModeOK' /\ MainOK'
  BY MainNext
<1>3. ModeOK /\ [Next]_vars => [ProviderProofs!Next]_(ProviderProofs!vars)
  BY NodeIsClient DEF ProviderProofs!vars, providerVars
<1>4. ModeOK /\ [Next]_vars => [P2PProofs!Next]_(P2PProofs!vars)
  BY NodeGossips DEF P2PProofs!vars, p2pVars
<1> QED
  BY <1>1, <1>2, <1>3, <1>4, PTL DEF Spec, ProviderProofs!Spec, P2PProofs!Spec

\* The assumptions of the parts are among those of the whole.
LEMMA Assumptions ==
  ProviderProofs!ProviderAssumption /\ P2PProofs!MembershipAssumption
BY NodeAssumption
DEF NodeAssumption, Provider!ProviderAssumption, ProviderProofs!ProviderAssumption,
    P2P!MembershipAssumption, P2PProofs!MembershipAssumption, P2P!Event, P2PProofs!Event

\* Nodes, provider, clients, actors of the gossip, their mailboxes and
\* messages keep their types.
THEOREM TypeCorrect == Spec => []TypeOK
<1>1. ProviderProofs!Spec => []ProviderProofs!TypeOK
  BY Assumptions, ProviderProofs!TypeCorrect
<1>2. P2PProofs!Spec => []P2PProofs!TypeOK
  BY Assumptions, P2PProofs!TypeCorrect
<1>3. ProviderProofs!TypeOK => Provider!TypeOK
  BY DEF Provider!TypeOK, ProviderProofs!TypeOK, Provider!Request, ProviderProofs!Request, Provider!Notice,
         ProviderProofs!Notice, Provider!DiscoverNow, ProviderProofs!DiscoverNow, Provider!FaultKinds,
         ProviderProofs!FaultKinds, Provider!Happened, ProviderProofs!Happened
<1>4. P2PProofs!TypeOK => P2P!TypeOK
  BY DEF P2P!TypeOK, P2PProofs!TypeOK, P2P!Event, P2PProofs!Event
<1>5. ModeOK /\ MainOK /\ Provider!TypeOK /\ P2P!TypeOK => TypeOK
  BY DEF TypeOK, ModeOK, MainOK
<1> QED
  BY <1>1, <1>2, <1>3, <1>4, <1>5, NodesImplementModes, PTL

\* A list of peers that a node gets names the node, unless the provider has
\* crashed or somebody was taken out.
THEOREM ListsItselfHolds == Spec => []ListsItself
<1>1. ProviderProofs!Spec => []ProviderProofs!ListsItself
  BY Assumptions, ProviderProofs!ListsItselfHolds
<1>2. ProviderProofs!ListsItself => ListsItself
  BY DEF ListsItself, Provider!ListsItself, ProviderProofs!ListsItself
<1> QED
  BY <1>1, <1>2, NodesImplementModes, PTL

\* A node that stays up forgets a peer only because of a crash, a leave or a
\* list that comes late.
THEOREM ForgetsWithCauseHolds == Spec => ForgetsWithCause
<1>1. ProviderProofs!Spec => ProviderProofs!ForgetsWithCause
  BY Assumptions, ProviderProofs!ForgetsWithCauseHolds
<1> QED
  BY <1>1, NodesImplementModes, PTL
  DEF ForgetsWithCause, Provider!ForgetsWithCause, ProviderProofs!ForgetsWithCause,
      Provider!vars, ProviderProofs!vars

\* A gossiping node's peers, with the events it has yet to handle, are the
\* members its memberlist knows, from before its mailbox is read to its stop.
THEOREM PeersFollowHolds == Spec => []PeersFollowMembership
<1>1. P2PProofs!Spec => []P2PProofs!PeersFollowMembership
  BY Assumptions, P2PProofs!PeersFollow
<1>2. P2PProofs!PeersFollowMembership => PeersFollowMembership
  BY DEF PeersFollowMembership, P2P!PeersFollowMembership, P2PProofs!PeersFollowMembership,
         P2P!LastWord, P2PProofs!LastWord, P2P!Pending, P2PProofs!Pending, P2P!Joined, P2PProofs!Joined
<1> QED
  BY <1>1, <1>2, NodesImplementModes, PTL

\* With two slots of its mailbox for each other node, no actor of the gossip
\* waits in OnStart for its own mailbox unless memberships have flapped.
THEOREM RoomSufficesHolds == IsFiniteSet(Nodes) => (Spec => []RoomSuffices)
<1>1. P2PProofs!IsFiniteSet(Nodes) => (P2PProofs!Spec => []P2PProofs!RoomSuffices)
  BY Assumptions, P2PProofs!RoomSufficesHolds
<1>2. IsFiniteSet(Nodes) <=> P2PProofs!IsFiniteSet(Nodes)
  BY Zenon DEF IsFiniteSet, P2PProofs!IsFiniteSet
<1>3. P2PProofs!RoomSuffices => RoomSuffices
  BY Zenon DEF RoomSuffices, P2P!RoomSuffices, P2PProofs!RoomSuffices, P2P!Stuck, P2PProofs!Stuck,
               P2P!Cardinality, P2PProofs!Cardinality
<1> QED
  BY <1>1, <1>2, <1>3, NodesImplementModes, PTL
=============================================================================
