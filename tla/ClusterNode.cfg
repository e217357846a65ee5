CONSTANTS
  a = a
  b = b
  Nodes = {a, b}
  Coordinators = {b}
  Modes = {"none", "provider", "p2p"}
  Seeds <- ThroughFirst
  MailboxSize = 2
  Attempts = 2
  MaxFaults = 1
  MaxPolls = 1
  MaxFlaps = 1
  None = None
SPECIFICATION Spec
INVARIANTS TypeOK ListsItself PeersFollowMembership RoomSuffices
CHECK_DEADLOCK FALSE
PROPERTIES ForgetsWithCause ClientsComplete GossipComplete Serves
