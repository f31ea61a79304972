\* Two names and two uploads of two bytes, a cache of one node and one byte:
\* hits, misses, evictions, ranges and re-uploads under downloads.
SPECIFICATION Spec
CONSTANTS
  Conn = {c1, c2}
  File = {f1, f2}
  Node = {n1, n2}
  Guard = Guard
  Null = Null
  Capacity = 1
  Absent = Absent
  Pending = Pending
  NoFile = NoFile
  PieceSize = 1
  ReadSize = 1
  MaxLen = 2
INVARIANTS
  TypeOK
  LinkedNodesAreOwned
  BodiesAreExact
PROPERTIES
  ResponsesAreWhole
  DownloadEnds
\* When every node has been used and deleted, nothing happens any more
CHECK_DEADLOCK FALSE
