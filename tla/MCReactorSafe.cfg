SPECIFICATION Spec
CONSTANTS
  c1 = c1
  c2 = c2
  t1 = t1
  Conns = {c1,c2}
  Senders = {t1}
  Payloads = {"m"}
  NoConn = NoConn
  NoFd = NoFd
  threadnum = 1
  Fds = {5}
  MaxFrames = 1
  MaxTasks = 2
SYMMETRY Symmetry
INVARIANTS TypeOK WakePending FdExclusive MapsAgree
PROPERTIES CallbackOrder EvictsOnlyFinished
