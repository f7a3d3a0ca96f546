\* Two IO threads, two clients that come, send, leave or break off.
SPECIFICATION Spec
CONSTANTS
  c1 = c1
  c2 = c2
  IOThreads = 2
  Conns = {c1, c2}
  MaxRequests <- MCMaxRequests
  AcceptMayFail = TRUE
  ReplySize = 2
  SocketSize = 3
  Readers = {c1}
  NoConn = none
INVARIANT AcceptedIsListenedTo
PROPERTY RequestsAreRead
 
PROPERTY LeftIsCollected
