---------------------------- MODULE RegistryGossip ----------------------------
(***************************************************************************)
(* Replicas of RegistryActor (internal/registry). Each node reports the    *)
(* rounds it completes, and whether it is there, to one of them, its home: *)
(* "a node must never increment any component but its own", so no second   *)
(* replica may count for it. Replicas are asked for their state, and the   *)
(* answer is sent to another as a MergeRequest. Messages arrive in any     *)
(* order; those of a Tell that failed after delivery arrive twice, others  *)
(* not at all. No program in cmd/ spawns a registry yet: who sends is      *)
(* taken from its tests.                                                   *)
(***************************************************************************)
EXTENDS GCounter

CONSTANTS Registries,
          Home,          \* the registry a node reports to
          Movers,        \* nodes that announce that they join and leave
          MaxRounds,     \* bound: rounds of a node
          MaxFaults,     \* bound: messages lost or repeated
          MaxInFlight    \* bound: MergeRequests from one replica to another

ASSUME GossipAssumption ==
  /\ Home \in [Nodes -> Registries]
  /\ Movers \subseteq Nodes
  /\ MaxRounds \in Nat /\ MaxFaults \in Nat /\ MaxInFlight \in Nat

VARIABLES
  counter,   \* RegistryActor.counter of each replica
  active,    \* RegistryActor.active
  reports,   \* per node, the numbers of its RoundComplete messages in flight
  news,      \* NodeJoin and NodeLeave messages in flight
  merges,    \* MergeRequests in flight
  done,      \* rounds each node has completed and reported
  lost, repeated   \* RoundComplete messages of each node lost, and delivered once more
vars == <<counter, active, reports, news, merges, done, lost, repeated>>

Init ==
  /\ counter = [r \in Registries |-> NewGCounter]
  /\ active = [r \in Registries |-> {}]
  /\ reports = [n \in Nodes |-> {}]
  /\ news = {}
  /\ merges = {}
  /\ done = [n \in Nodes |-> 0]
  /\ lost = [n \in Nodes |-> 0]
  /\ repeated = [n \in Nodes |-> 0]

Faults == Value(lost) + Value(repeated)

-----------------------------------------------------------------------------
(* A plausible bug, used by no specification: the counter is replaced.     *)
ReplaceCounter(m) ==
  /\ m \in merges
  /\ merges' = merges \ {m}
  /\ counter' = [counter EXCEPT ![m.to] = m.counter]
  /\ UNCHANGED <<active, reports, news, done, lost, repeated>>

-----------------------------------------------------------------------------
(* The senders.                                                            *)

CompleteRound(n) ==
  /\ done[n] < MaxRounds
  /\ done' = [done EXCEPT ![n] = @ + 1]
  /\ reports' = [reports EXCEPT ![n] = @ \cup {done[n] + 1}]
  /\ UNCHANGED <<counter, active, news, merges, lost, repeated>>

Announce(n) ==
  /\ \E type \in {"NodeJoin", "NodeLeave"} : news' = news \cup {[type |-> type, node |-> n]}
  /\ UNCHANGED <<counter, active, reports, merges, done, lost, repeated>>

\* QueryState to from, and its answer's counter to another replica.
Gossip(from, to) ==
  /\ Cardinality({m \in merges : m.from = from /\ m.to = to}) < MaxInFlight
  /\ merges' = merges \cup {[from |-> from, to |-> to, counter |-> counter[from]]}
  /\ UNCHANGED <<counter, active, reports, news, done, lost, repeated>>

-----------------------------------------------------------------------------
(* RegistryActor.Receive.                                                  *)

HandleJoin(n) ==
  /\ [type |-> "NodeJoin", node |-> n] \in news
  /\ news' = news \ {[type |-> "NodeJoin", node |-> n]}
  /\ active' = [active EXCEPT ![Home[n]] = @ \cup {n}]
  /\ UNCHANGED <<counter, reports, merges, done, lost, repeated>>

HandleLeave(n) ==
  /\ [type |-> "NodeLeave", node |-> n] \in news
  /\ news' = news \ {[type |-> "NodeLeave", node |-> n]}
  /\ active' = [active EXCEPT ![Home[n]] = @ \ {n}]
  /\ UNCHANGED <<counter, reports, merges, done, lost, repeated>>

CountRound(n) ==
  /\ counter' = [counter EXCEPT ![Home[n]] = Increment(@, n, 1)]
  /\ UNCHANGED <<active, news, merges, done, lost>>

HandleRoundComplete(n) ==
  \E k \in reports[n] :
    /\ CountRound(n)
    /\ reports' = [reports EXCEPT ![n] = @ \ {k}]
    /\ UNCHANGED repeated

HandleMerge(m) ==
  /\ m \in merges
  /\ merges' = merges \ {m}
  /\ counter' = [counter EXCEPT ![m.to] = Merge(@, m.counter)]
  /\ UNCHANGED <<active, reports, news, done, lost, repeated>>

-----------------------------------------------------------------------------
(* The network.                                                            *)

\* The Tell failed, but its message is counted, and another copy is sent.
RepeatRoundComplete(n) ==
  /\ Faults < MaxFaults
  /\ reports[n] # {}
  /\ CountRound(n)
  /\ repeated' = [repeated EXCEPT ![n] = @ + 1]
  /\ UNCHANGED reports

LoseRoundComplete(n) ==
  /\ Faults < MaxFaults
  /\ \E k \in reports[n] : reports' = [reports EXCEPT ![n] = @ \ {k}]
  /\ lost' = [lost EXCEPT ![n] = @ + 1]
  /\ UNCHANGED <<counter, active, news, merges, done, repeated>>

LoseMerge ==
  /\ \E m \in merges : merges' = merges \ {m}
  /\ UNCHANGED <<counter, active, reports, news, done, lost, repeated>>

MergeArrives(from, to) ==
  \E m \in merges : m.from = from /\ m.to = to /\ HandleMerge(m)

Next ==
  \/ \E n \in Nodes : \/ CompleteRound(n) \/ HandleRoundComplete(n)
                      \/ RepeatRoundComplete(n) \/ LoseRoundComplete(n)
  \/ \E n \in Movers : Announce(n) \/ HandleJoin(n) \/ HandleLeave(n)
  \/ \E r, s \in Registries : r # s /\ (Gossip(r, s) \/ MergeArrives(r, s))
  \/ LoseMerge

Spec == Init /\ [][Next]_vars

(* The replicas gossip for ever, and not all of it is lost.                *)
Fairness ==
  /\ \A n \in Nodes : WF_vars(HandleRoundComplete(n))
  /\ \A r, s \in Registries : r # s => WF_vars(Gossip(r, s)) /\ SF_vars(MergeArrives(r, s))
FairSpec == Spec /\ Fairness

-----------------------------------------------------------------------------
MergeRequest == [from : Registries, to : Registries, counter : Counter]

TypeOK ==
  /\ counter \in [Registries -> Counter]
  /\ active \in [Registries -> SUBSET Nodes]
  /\ reports \in [Nodes -> SUBSET (Nat \ {0})]
  /\ news \subseteq [type : {"NodeJoin", "NodeLeave"}, node : Movers]
  /\ merges \subseteq MergeRequest
  /\ done \in [Nodes -> 0..MaxRounds]
  /\ lost \in Counter
  /\ repeated \in Counter

(* No replica, and no snapshot on its way to one, is ahead of a node's     *)
(* home in counting that node's rounds: merging the same data repeatedly,  *)
(* late or in any order invents nothing.                                   *)
NeverAhead ==
  \A n \in Nodes :
    /\ \A r \in Registries : counter[r][n] <= counter[Home[n]][n]
    /\ \A m \in merges : m.counter[n] <= counter[Home[n]][n]

(* What a node's home has counted are the rounds reported to it, each      *)
(* once, except for those lost or repeated on the way.                     *)
EachCountedOnce ==
  \A n \in Nodes :
    counter[Home[n]][n] + Cardinality(reports[n]) + lost[n] = done[n] + repeated[n]

(* A counter only grows, at every replica, whatever arrives.               *)
Grows == [][\A r \in Registries : Below(counter[r], counter'[r])]_vars

(* "Eventual consistency regardless of merge order": in the end all        *)
(* replicas report the same CompletedRounds, that of the rounds counted.   *)
Converges ==
  <>[](\A r \in Registries : Value(counter[r]) + Value(lost) = Value(done) + Value(repeated))
=============================================================================
