\* Two workers, a ring of one slot so that push blocks and try_push fails, and
\* sockets that hold one piece so that writes are cut.  Every behaviour comes
\* to rest: the clients have a bounded number of requests.
SPECIFICATION Spec
CONSTANTS
  c1 = c1
  c2 = c2
  c3 = c3
  Conn = {c1, c2, c3}
  Worker = {w1, w2}
  None = None
  Scenario <- Clients
  HandleSize = 2
  RingCapacity = 1
  PipeCapacity = 1
  Quitter = {c2}
  ListenFd = 3
  PipeFd = 4
  NetFd <- Descriptors
  UseTimes = 2
  ReadSize = 2
  SocketRoom = 1
INVARIANTS
  TypeOK
  ProcessingMeansOneTask
  BufferedDataHasATask
  ResponsesInOrder
  ResponsesAreAnnounced
  ClosesAreAsked
PROPERTIES
  EveryRequestIsAnswered
CHECK_DEADLOCK FALSE
