\* The first connection that is closed.
SPECIFICATION Spec
CONSTANTS
  c1 = c1
  c2 = c2
  IOThreads = 1
  Conns = {c1}
  MaxRequests <- MCOneRequest
  AcceptMayFail = FALSE
  ReplySize = 2
  SocketSize = 3
  Readers = {c1}
  NoConn = none
INVARIANT LoopOutlivesThread
