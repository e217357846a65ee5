CONSTANTS
  Ids = {a, b}
  a = a
  b = b
  d = d
  Clients = {u}
  MailboxSize = 1
  HandlerOps = {"spawn", "panic"}
  Knows <- Nobody
  MaxSpawns = 2
  MaxSteps = 1
  None = None
SPECIFICATION FairSpec
CHECK_DEADLOCK FALSE
PROPERTY StopReturns
