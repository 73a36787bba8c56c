SPECIFICATION Spec
CONSTANTS
  c1 = c1
  t1 = t1
  Conns = {c1}
  Senders = {t1}
  Payloads = {"m"}
  NoConn = NoConn
  NoFd = NoFd
  threadnum = 1
  Fds = {5}
  MaxFrames = 1
  MaxTasks = 1
INVARIANTS SendSurvivesClose
