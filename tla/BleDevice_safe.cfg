SPECIFICATION Spec
CONSTANTS
  None = None
  Senders = {s1, s2}
  Idlers = {i1, i2}
  Closers = {k1}
  Clients = {c1, c2}
  Cmds = {b1, b2}
  Retry = 3
  MayCancel = FALSE
  DisconnectMayFail = FALSE
  LateSubscribeAck = FALSE
SYMMETRY Symmetry
INVARIANTS
  TypeOK
  RequestIsPending
  OneLink
  ListensWhileWaiting
  LinkIsWatched
