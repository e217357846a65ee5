CONSTANTS
  Msgs = {m1, m2, m3}
  Behaviors = {receive, quiet}
  Receive = receive
  MailboxSize = 2
  StopSignal = StopSignal
  None = None
SPECIFICATION Spec
INVARIANT AcceptedDelivered
