\* A file of two bytes is cached, and its first byte asked for.
SPECIFICATION Spec
CONSTANTS
  Conn = {c1}
  File = {f1}
  Node = {n1, n2}
  Guard = Guard
  Null = Null
  Capacity = 1
  Absent = Absent
  Pending = Pending
  NoFile = NoFile
  PieceSize = 2
  ReadSize = 2
  MaxLen = 2
PROPERTY
  LengthIsAsPromised
\* When every node has been used and deleted, nothing happens any more
CHECK_DEADLOCK FALSE
