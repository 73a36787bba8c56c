SPECIFICATION CastSpec
CONSTANTS
  c1 = c1
  c2 = c2
  w1 = w1
  Conns = {c1,c2}
  Talkers = {c1}
  Workers = {w1}
  Fds = {5,6}
  threadnum = 1
  Kinds = {"report"}
  NoConn = NoConn
  NoFd = NoFd
  NoJob = NoJob
  MaxFrames = 1
  MaxTasks = 4
  MaxJobs = 1
INVARIANTS TypeOK
PROPERTIES Framework SkipsOnlySender EvictsOwnEntry
