SPECIFICATION Spec
CONSTANTS
  None = None
  Senders = {s1, s2}
  Idlers = {i1, i2}
  Closers = {k1}
  Clients = {c1, c2}
  Cmds = {b1}
  Retry = 2
  MayCancel = TRUE
  DisconnectMayFail = TRUE
  LateSubscribeAck = TRUE
SYMMETRY Symmetry
INVARIANTS
  LockDiscipline
  ClientIsLive
PROPERTIES
  ImplementsChannel
  CallsGetShorter
