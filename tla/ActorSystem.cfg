CONSTANTS
  Ids = {a, b}
  a = a
  b = b
  d = d
  Clients = {u, v}
  MailboxSize = 1
  HandlerOps = {"spawn", "tell", "stop", "shutdown", "panic"}
  Knows <- Everybody
  MaxSpawns = 2
  MaxSteps = 1
  None = None
SPECIFICATION FairSpec
INVARIANTS TypeOK OneStopper RegisteredIsOpen
PROPERTIES Reaped StopBlockedByCycle TellReturns
CHECK_DEADLOCK FALSE
