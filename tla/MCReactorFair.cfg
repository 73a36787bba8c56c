SPECIFICATION FairSpec
CONSTANTS
  c1 = c1
  t1 = t1
  t2 = t2
  Conns = {c1}
  Senders = {t1,t2}
  Payloads = {"m"}
  NoConn = NoConn
  NoFd = NoFd
  threadnum = 1
  Fds = {5}
  MaxFrames = 1
  MaxTasks = 2
PROPERTIES ImplementsMailbox ClosedReaped
