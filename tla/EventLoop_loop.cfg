\* One caller with two calls, against the loop: everything that is claimed.
SPECIFICATION Spec
CONSTANTS
  LoopThread = loop
  Callers = {c1}
  Fds = {f1}
  WakeupFd = wake
  EpollMaxEvent = 2
  MaxCalls = 2
INVARIANT TypeOK
INVARIANT PendingTaskHasWakeup
INVARIANT HandlerQueuedOnce
PROPERTY RefinesTaskExecutor
PROPERTY EveryTaskRuns
PROPERTY StopEndsLoop
