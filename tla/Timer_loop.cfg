\* Everything happens on the loop thread, as in the servers and clients.
SPECIFICATION Spec
CONSTANTS
  LoopThread = loop
  Adders = {}
  e1 = e1
  e2 = e2
  e3 = e3
  TimerEvents <- MCTimerEvents
  Interval <- MCInterval
  Repeated <- MCRepeated
  Deletable = {e3}
  RetryInterval = 2
  MaxTime = 6
  NoEvent = none
INVARIANT TypeOK
INVARIANT MapMatchesEvents
INVARIANT NeverEarly
INVARIANT TimerfdCoversMap
INVARIANT DeletedStaysOut
PROPERTY EveryTimerFires
