SPECIFICATION CorrelationSpec
CONSTANTS
  None = None
  Senders = {s1, s2}
  Idlers = {i1, i2}
  Closers = {k1}
  Clients = {c1, c2}
  Cmds = {b1, b2}
  Retry = 2
  MayCancel = FALSE
  DisconnectMayFail = FALSE
  LateSubscribeAck = FALSE
INVARIANT AnswersThisCall
