\* A crash while the index file is empty.
SPECIFICATION MCSpec
CONSTANTS
  File = {f1}
  Conn = {c1, c2}
  b = b
  Byte <- MCByte
  Chunk <- MCChunk
  Time = {0}
  MaxLen = 1
  Absent = Absent
  Pending = Pending
  NoFile = NoFile
  Empty = Empty
  Torn = Torn
  NoUpload = NoUpload
  NoSize = NoSize
INVARIANT
  SavedBackupsSurvive
\* The server may fail to start, and then nothing happens any more
CHECK_DEADLOCK FALSE
