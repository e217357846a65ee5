---------------------------- MODULE P2PMembership ----------------------------
(***************************************************************************)
(* P2P mode (internal/cluster/p2p.go): an actor per node, and the library  *)
(* memberlist, external, which tells it who joins and leaves by callbacks. *)
(* A callback sends to the actor's own mailbox, and memberlist holds its   *)
(* lock meanwhile: one callback at a time. The actor's loop begins only    *)
(* when OnStart has returned, and OnStart waits for memberlist. A peer is  *)
(* its id, its address is metadata of the same event. QueryPeers only      *)
(* reads.                                                                  *)
(***************************************************************************)
EXTENDS Naturals, Sequences, FiniteSets

CONSTANTS Nodes,
          Seeds,       \* per node, the nodes it joins through
          MailboxSize, \* 128 in the code
          Attempts,    \* attempts of joinWithRetry (10 in the code)
          MaxFlaps,    \* bound: false suspicions, failed joins and updates
          None

Event == [type : {"peerJoined", "peerLeft"}, node : Nodes]

MembershipAssumption ==
  /\ None \notin Event
  /\ Seeds \in [Nodes -> SUBSET Nodes]
  /\ \A n \in Nodes : n \notin Seeds[n]
  /\ MailboxSize \in Nat \ {0} /\ Attempts \in Nat \ {0} /\ MaxFlaps \in Nat

VARIABLES
  actor,    \* "unspawned", "starting", "joined" (OnStart is done but for pending
            \* callbacks), "running", "closing", "stopped", "dead"
  listed,   \* nodes whose p.list gossips
  tries,    \* failed attempts of joinWithRetry
  inbox,    \* mailboxes of the actors
  calling,  \* per node, the event whose callback has not returned, or None
  peers,    \* P2PActor.peers
  known,    \* memberlist: the other members a node knows
  links,    \* memberlist: pairs of nodes that have exchanged their members
  flaps     \* false suspicions, failed joins and updates so far
vars == <<actor, listed, tries, inbox, calling, peers, known, links, flaps>>

Joined(m) == [type |-> "peerJoined", node |-> m]
Left(m)   == [type |-> "peerLeft", node |-> m]

Init ==
  /\ actor = [n \in Nodes |-> "unspawned"]
  /\ listed = {}
  /\ tries = [n \in Nodes |-> 0]
  /\ inbox = [n \in Nodes |-> <<>>]
  /\ calling = [n \in Nodes |-> None]
  /\ peers = [n \in Nodes |-> {}]
  /\ known = [n \in Nodes |-> {}]
  /\ links = {}
  /\ flaps = 0

Flap == flaps < MaxFlaps /\ flaps' = flaps + 1

-----------------------------------------------------------------------------
(* Plausible bugs, used by no specification: no comparison with SelfID; a  *)
(* callback that gives up on a full mailbox; a peerLeft that is ignored;   *)
(* joins without end.                                                      *)
NotifyAll(n, event) == calling' = [calling EXCEPT ![n] = event]

DropIfFull(n) ==
  /\ calling[n] # None
  /\ calling' = [calling EXCEPT ![n] = None]
  /\ inbox' = [inbox EXCEPT ![n] = IF Len(@) < MailboxSize THEN Append(@, calling[n]) ELSE @]
  /\ UNCHANGED <<actor, listed, tries, peers, known, links, flaps>>

OnlyAdd(n) ==
  /\ actor[n] \in {"running", "closing"}
  /\ inbox[n] # <<>>
  /\ inbox' = [inbox EXCEPT ![n] = Tail(@)]
  /\ peers' = [peers EXCEPT ![n] = @ \cup {Head(inbox[n]).node}]
  /\ UNCHANGED <<actor, listed, tries, calling, known, links, flaps>>

JoinForever(n) ==
  /\ actor[n] = "starting" /\ n \in listed
  /\ Seeds[n] # {} /\ Seeds[n] \cap listed = {}
  /\ UNCHANGED vars

-----------------------------------------------------------------------------
(* p2pEvents. NotifyUpdate is NotifyJoin.                                  *)

Notify(n, event) ==
  IF event = Joined(n) THEN UNCHANGED calling
  ELSE calling' = [calling EXCEPT ![n] = event]

Idle(n) == n \in listed /\ calling[n] = None

\* The callback waits for room, and memberlist for the callback.
Stuck(n) == calling[n] # None /\ Len(inbox[n]) = MailboxSize

\* self.Tell waits for room; a closed mailbox refuses the event, or takes it
\* when the callback was waiting already.
TellSelf(n) ==
  /\ calling[n] # None
  /\ calling' = [calling EXCEPT ![n] = None]
  /\ \/ actor[n] \in {"closing", "stopped"} /\ UNCHANGED inbox
     \/ /\ actor[n] # "stopped" /\ Len(inbox[n]) < MailboxSize
        /\ inbox' = [inbox EXCEPT ![n] = Append(@, calling[n])]
  /\ UNCHANGED <<actor, listed, tries, peers, known, links, flaps>>

-----------------------------------------------------------------------------
(* P2PActor.                                                               *)

\* OnStart up to memberlist.Create, which announces the node to itself.
SpawnP2P(n) ==
  /\ actor[n] = "unspawned"
  /\ actor' = [actor EXCEPT ![n] = "starting"]
  /\ listed' = listed \cup {n}
  /\ Notify(n, Joined(n))
  /\ UNCHANGED <<tries, inbox, peers, known, links, flaps>>

\* A bad address, or a port in use: OnStart returns without a list, and the
\* actor runs on without peers.
CreateFails(n) ==
  /\ actor[n] = "unspawned"
  /\ actor' = [actor EXCEPT ![n] = "joined"]
  /\ UNCHANGED <<listed, tries, inbox, calling, peers, known, links, flaps>>

\* list.Join exchanges members with a seed and learns of it before it returns.
JoinSeed(n, s) ==
  /\ actor[n] = "starting" /\ Idle(n)
  /\ s \in Seeds[n] /\ Idle(s)
  /\ actor' = [actor EXCEPT ![n] = "joined"]
  /\ links' = links \cup {<<n, s>>, <<s, n>>}
  /\ IF s \in known[n] THEN UNCHANGED <<known, calling>>
     ELSE known' = [known EXCEPT ![n] = @ \cup {s}] /\ Notify(n, Joined(s))
  /\ UNCHANGED <<listed, tries, inbox, peers, flaps>>

\* No seed answers, or not in time. After the last attempt OnStart returns.
JoinFails(n) ==
  /\ actor[n] = "starting" /\ Idle(n)
  /\ Seeds[n] # {}
  /\ IF \A s \in Seeds[n] : s \notin listed \/ Stuck(s) THEN UNCHANGED flaps ELSE Flap
  /\ IF tries[n] + 1 < Attempts
     THEN tries' = [tries EXCEPT ![n] = @ + 1] /\ UNCHANGED actor
     ELSE tries' = [tries EXCEPT ![n] = 0] /\ actor' = [actor EXCEPT ![n] = "joined"]
  /\ UNCHANGED <<listed, inbox, calling, peers, known, links>>

\* The first node has no seeds.
NoSeeds(n) ==
  /\ actor[n] = "starting"
  /\ Seeds[n] = {}
  /\ actor' = [actor EXCEPT ![n] = "joined"]
  /\ UNCHANGED <<listed, tries, inbox, calling, peers, known, links, flaps>>

OnStartReturns(n) ==
  /\ actor[n] = "joined"
  /\ calling[n] = None
  /\ actor' = [actor EXCEPT ![n] = "running"]
  /\ UNCHANGED <<listed, tries, inbox, calling, peers, known, links, flaps>>

Apply(set, event) == IF event.type = "peerJoined" THEN set \cup {event.node} ELSE set \ {event.node}

HandleEvent(n) ==
  /\ actor[n] \in {"running", "closing"}
  /\ inbox[n] # <<>>
  /\ inbox' = [inbox EXCEPT ![n] = Tail(@)]
  /\ peers' = [peers EXCEPT ![n] = Apply(@, Head(inbox[n]))]
  /\ UNCHANGED <<actor, listed, tries, calling, known, links, flaps>>

\* ActorSystem.Stop, as in the tests, closes the mailbox; what is in it is
\* still handled.
Stop(n) ==
  /\ actor[n] = "running"
  /\ actor' = [actor EXCEPT ![n] = "closing"]
  /\ UNCHANGED <<listed, tries, inbox, calling, peers, known, links, flaps>>

\* OnStop: Leave, which announces the node's own leave to it, and Shutdown.
OnStop(n) ==
  /\ actor[n] = "closing" /\ inbox[n] = <<>>
  /\ IF n \in listed
     THEN /\ calling[n] = None
          /\ Notify(n, Left(n))
     ELSE UNCHANGED calling
  /\ actor' = [actor EXCEPT ![n] = "stopped"]
  /\ listed' = listed \ {n}
  /\ UNCHANGED <<tries, inbox, peers, known, links, flaps>>

\* The process ends without OnStop.
Die(n) ==
  /\ actor' = [actor EXCEPT ![n] = "dead"]
  /\ listed' = listed \ {n}
  /\ tries' = [tries EXCEPT ![n] = 0]
  /\ inbox' = [inbox EXCEPT ![n] = <<>>]
  /\ calling' = [calling EXCEPT ![n] = None]
  /\ peers' = [peers EXCEPT ![n] = {}]
  /\ known' = [known EXCEPT ![n] = {}]
  /\ UNCHANGED <<links, flaps>>

-----------------------------------------------------------------------------
(* memberlist, as far as its callbacks show it.                            *)

Reaches(n, m) == <<n, m>> \in links \/ \E k \in known[n] : m \in known[k]

Learn(n, m) ==
  /\ Idle(n)
  /\ m \in listed \ ({n} \cup known[n])
  /\ Reaches(n, m)
  /\ known' = [known EXCEPT ![n] = @ \cup {m}]
  /\ Notify(n, Joined(m))
  /\ UNCHANGED <<actor, listed, tries, inbox, peers, links, flaps>>

\* A member that left, died, or, by mistake, does not answer in time.
Lose(n, m) ==
  /\ Idle(n)
  /\ m \in known[n]
  /\ IF m \in listed THEN Flap ELSE UNCHANGED flaps
  /\ known' = [known EXCEPT ![n] = @ \ {m}]
  /\ Notify(n, Left(m))
  /\ UNCHANGED <<actor, listed, tries, inbox, peers, links>>

Update(n, m) ==
  /\ Idle(n)
  /\ m \in known[n] \cap listed
  /\ Flap
  /\ Notify(n, Joined(m))
  /\ UNCHANGED <<actor, listed, tries, inbox, peers, known, links>>

-----------------------------------------------------------------------------
Starts(n) == NoSeeds(n) \/ JoinFails(n) \/ (\E s \in Nodes : JoinSeed(n, s)) \/ OnStartReturns(n)
Stops(n) == HandleEvent(n) \/ OnStop(n)

\* Everything but the spawning and the death of the actors.
Step ==
  \E n \in Nodes :
    \/ Starts(n) \/ TellSelf(n) \/ Stop(n) \/ Stops(n)
    \/ \E m \in Nodes : Learn(n, m) \/ Lose(n, m) \/ Update(n, m)

\* All that nodes do which are spawned once and die at any time.
Next == Step \/ \E n \in Nodes : SpawnP2P(n) \/ CreateFails(n) \/ Die(n)

Spec == Init /\ [][Next]_vars

(* Goroutines that can run do, and gossip spreads: a member that is there  *)
(* is learned of in the end, one that is not is noticed.                   *)
Fairness ==
  \A n \in Nodes :
    /\ WF_vars(Starts(n)) /\ WF_vars(TellSelf(n)) /\ WF_vars(Stops(n))
    /\ \A m \in Nodes : WF_vars(Learn(n, m)) /\ WF_vars(m \notin listed /\ Lose(n, m))

-----------------------------------------------------------------------------
TypeOK ==
  /\ actor \in [Nodes -> {"unspawned", "starting", "joined", "running", "closing", "stopped", "dead"}]
  /\ listed \subseteq Nodes
  /\ tries \in [Nodes -> 0..(Attempts - 1)]
  /\ inbox \in [Nodes -> Seq(Event)] /\ \A n \in Nodes : Len(inbox[n]) <= MailboxSize
  /\ calling \in [Nodes -> Event \cup {None}]
  /\ peers \in [Nodes -> SUBSET Nodes]
  /\ known \in [Nodes -> SUBSET Nodes]
  /\ links \subseteq Nodes \X Nodes
  /\ flaps \in 0..MaxFlaps

\* What an actor that knows set makes of the events: the last about a node counts.
LastWord(set, events) ==
  {m \in Nodes :
     \/ m \in set /\ \A i \in DOMAIN events : events[i].node # m
     \/ \E i \in DOMAIN events :
          events[i] = Joined(m) /\ \A j \in DOMAIN events : i < j => events[j].node # m}

\* What the actor has not handled yet.
Pending(n) == IF calling[n] = None THEN inbox[n] ELSE Append(inbox[n], calling[n])

(* The actor's peers, with the events in its mailbox and in the callback   *)
(* that waits for room in it, are the members memberlist knows: no event   *)
(* is lost or overtaken, and the node is not its own peer.                 *)
PeersFollowMembership ==
  \A n \in listed :
    actor[n] \in {"starting", "joined", "running"} => known[n] = LastWord(peers[n], Pending(n))

(* Each other member is announced once and taken back once: a mailbox with *)
(* room for both cannot fill up while OnStart keeps its loop from reading, *)
(* and no callback blocks memberlist; unless there are false suspicions.   *)
RoomSuffices ==
  flaps = 0 /\ MailboxSize >= 2 * (Cardinality(Nodes) - 1) => \A n \in Nodes : ~Stuck(n)

(* Nodes that run and can reach each other through their seeds have each   *)
(* other as peers in the end, and those that are gone are no peers.        *)
Running == {n \in listed : actor[n] = "running"}
PeersComplete ==
  <>[](\A n \in Running :
         /\ \A m \in Running \ {n} : <<n, m>> \in links => m \in peers[n]
         /\ peers[n] \subseteq listed)
=============================================================================
