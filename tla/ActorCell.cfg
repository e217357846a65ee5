CONSTANTS
  Msgs = {m1, m2, m3}
  Behaviors = {receive, quiet}
  Receive = receive
  MailboxSize = 2
  StopSignal = StopSignal
  None = None
SPECIFICATION FairSpec
INVARIANTS TypeOK EarlyDelivered SentOrder LossOnlyByRace
PROPERTIES QuietAfterJoin TellReturns StopReturns EarlyHandled ImplementsContract
