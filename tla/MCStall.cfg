\* One piece fits into the socket: the second write finds it full at once
SPECIFICATION Spec
CONSTANTS
  c1 = c1
  c2 = c2
  c3 = c3
  Conn = {c1}
  Worker = {w1}
  None = None
  Scenario <- LongDownload
  HandleSize = 2
  RingCapacity = 1
  PipeCapacity = 8
  Quitter = {}
  ListenFd = 3
  PipeFd = 4
  NetFd <- Descriptors
  UseTimes = 10000
  ReadSize = 2
  SocketRoom = 1
PROPERTY EverythingIsSent
CHECK_DEADLOCK FALSE
