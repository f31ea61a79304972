\* A file is deleted and uploaded again between the two steps of a cache miss.
SPECIFICATION Spec
CONSTANTS
  Conn = {c1}
  File = {f1}
  Node = {n1, n2}
  Guard = Guard
  Null = Null
  Capacity = 1
  Absent = Absent
  Pending = Pending
  NoFile = NoFile
  PieceSize = 1
  ReadSize = 1
  MaxLen = 2
INVARIANT
  CachedContentIsTheBeginning
\* When every node has been used and deleted, nothing happens any more
CHECK_DEADLOCK FALSE
