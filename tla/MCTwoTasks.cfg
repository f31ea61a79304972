\* The comment on _is_processing says a connection has one task at a time
SPECIFICATION Spec
CONSTANTS
  c1 = c1
  c2 = c2
  c3 = c3
  Conn = {c1}
  Worker = {w1, w2}
  None = None
  Scenario <- ShortThenDownload
  HandleSize = 2
  RingCapacity = 1
  PipeCapacity = 8
  Quitter = {}
  ListenFd = 3
  PipeFd = 4
  NetFd <- Descriptors
  UseTimes = 10000
  ReadSize = 2
  SocketRoom = 1
INVARIANT OneTaskPerConnection
CHECK_DEADLOCK FALSE
