SPECIFICATION FairSpec
CONSTANTS
  None = None
  Senders = {s1, s2}
  Idlers = {i1}
  Closers = {k1}
  Clients = {c1}
  Cmds = {b1}
  Retry = 2
  MayCancel = FALSE
  DisconnectMayFail = FALSE
  LateSubscribeAck = TRUE
PROPERTIES
  CallsEnd
  LinkIsReleased
