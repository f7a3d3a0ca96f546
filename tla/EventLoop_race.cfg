\* The second unlock of ScopeMutex lets two threads touch the queue at once.
SPECIFICATION Spec
CONSTANTS
  LoopThread = loop
  Callers = {c1}
  Fds = {f1}
  WakeupFd = wake
  EpollMaxEvent = 2
  MaxCalls = 1
INVARIANT QueueIsLocked
