CONSTANTS
  Ids = {a, b, d}
  a = a
  b = b
  d = d
  Clients = {u}
  MailboxSize = 1
  HandlerOps = {"tell"}
  Knows <- Beside
  MaxSpawns = 3
  MaxSteps = 1
  None = None
SPECIFICATION FairSpec
CHECK_DEADLOCK FALSE
PROPERTY StopReturns
