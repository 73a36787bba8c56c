SPECIFICATION RelayFairSpec
CONSTANTS
  w1 = w1
  w2 = w2
  a = a
  b = b
  main = main
  io = io
  Workers = {w1,w2}
  Callers = {w1,w2}
  Tasks = {a,b}
  NoTask = NoTask
  h1 = h1
  Main = main
  Handles = {h1}
  NoHandle = NoHandle
  MaxCalls = 1
  Io = io
  MaxSignals = 2
INVARIANTS TypeOK NoIdleHands HandlesKept AllClosed NoIdleHandle
PROPERTIES FifoQueue JobsEnd StopEnds
