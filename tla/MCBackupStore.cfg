\* One name is uploaded, deleted and uploaded again by two connections, with
\* other sizes and times.
SPECIFICATION Spec
CONSTANTS
  File = {f1}
  Conn = {c1, c2}
  b = b
  Byte <- MCByte
  Chunk <- MCChunk
  Time = {0, 1}
  MaxLen = 2
  Absent = Absent
  Pending = Pending
  NoFile = NoFile
  Empty = Empty
  Torn = Torn
  NoUpload = NoUpload
  NoSize = NoSize
INVARIANTS
  TypeOK
  UploadExclusive
  DirectoryMatchesRegistry
  QuietIndexRecoversAll
PROPERTIES
  PublishedSizeIsRight
  ImplementsCatalog
  EveryChangeIsStored
\* The server may fail to start, and then nothing happens any more
CHECK_DEADLOCK FALSE
