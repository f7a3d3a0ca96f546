\* Two threads, two lines of each kind, and a signal before more than one is begun.
SPECIFICATION Spec
CONSTANTS
  Threads = {t1, t2}
  Main = t1
  Handler = h
  NoThread = none
  MaxLines = 2
  SignalLines = 1
  QueueSize = 2
INVARIANT LinesKept
PROPERTY LinesAreHanded
PROPERTY HandsOverUnlessHolding
