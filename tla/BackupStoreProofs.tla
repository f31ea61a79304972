------------------------- MODULE BackupStoreProofs -------------------------
(***************************************************************************)
(* Proofs about BackupStore for any sets of files, connections, contents   *)
(* and times.  The invariant is built in layers, each inductive relative   *)
(* to the ones before it: types, the process being down, exclusive names,  *)
(* the directory against the registry, sizes, and the index.               *)
(***************************************************************************)
EXTENDS BackupStore, TLAPS

\* Contents are closed under what AppendContent and Clear do to a file.
LEMMA ContentFacts ==
  /\ << >> \in Content
  /\ \A s \in Content : Len(s) \in Nat
  /\ \A s, t \in Content : s \o t \in Content
  /\ \A s \in Content : \A n \in 0 .. Len(s) : SubSeq(s, 1, n) \in Content
BY DEF Content

\* What a piece leaves in a file, however much of it is written, is a content.
LEMMA AppendedIsContent ==
  ASSUME TypeOK, NEW f \in File, NEW chunk \in Chunk, NEW n \in 0 .. Len(chunk)
  PROVE  BytesOf(f) \o SubSeq(chunk, 1, n) \in Content
<1>1. BytesOf(f) \in Content
  BY ContentFacts DEF BytesOf, TypeOK, DMTypeOK
<1>2. SubSeq(chunk, 1, n) \in Content
  BY ContentFacts, UploadConstants
<1> QED
  BY <1>1, <1>2, ContentFacts

\* The states the actions of Next are split into, one disjunct per action, so
\* that each proof below has one case for each.
LEMMA NextCases ==
  ASSUME [Next]_vars
  PROVE  \/ \E c \in Conn :
              \/ \E f \in File : BeginPart(c, f)
              \/ \E chunk \in Chunk : AppendPart(c, chunk)
              \/ AppendFails(c)
              \/ MeasurePart(c)
              \/ InsertPart(c)
              \/ NewMessage(c)
              \/ CloseConn(c)
         \/ \E f \in File : DeleteFile(f)
         \/ StoreSleep /\ UNCHANGED connVars
         \/ StoreWakesUp /\ UNCHANGED connVars
         \/ StoreSnapshot /\ UNCHANGED connVars
         \/ StoreClear /\ UNCHANGED connVars
         \/ StoreAppend /\ UNCHANGED connVars
         \/ StoreDone /\ UNCHANGED connVars
         \/ StoreFails /\ UNCHANGED connVars
         \/ Crash
         \/ Restart /\ UNCHANGED connVars
         \/ RestartDies /\ UNCHANGED connVars
         \/ RestartFails /\ UNCHANGED connVars
         \/ UNCHANGED vars
BY DEF Next, ConnStep, StorageThread, StoreProgress

\* What a decoded index is: records, whatever the text.
LEMMA LoadType ==
  ASSUME index \in Records \cup {Empty}
  PROVE  Load(index) \in Records
BY DEF Load, Records, NoRecords

-----------------------------------------------------------------------------
(* Types                                                                   *)

LEMMA InitTypeOK == Init => TypeOK
BY DEF Init, TypeOK, DMInit, DMTypeOK, NoRecords, Records

\* Every action keeps the types.
LEMMA NextTypeOK == TypeOK /\ [Next]_vars => TypeOK'
<1> SUFFICES ASSUME TypeOK, [Next]_vars PROVE TypeOK'
  OBVIOUS
<1> USE DEF TypeOK, DMTypeOK, Serving
<1>1. ASSUME NEW c \in Conn, NEW f \in File, BeginPart(c, f) PROVE TypeOK'
  BY <1>1, ContentFacts DEF BeginPart, Register
<1>2. ASSUME NEW c \in Conn, NEW chunk \in Chunk, AppendPart(c, chunk) PROVE TypeOK'
  <2>1. cur[c] \in File
    BY <1>2 DEF AppendPart, Uploading
  <2>2. PICK n \in 0 .. Len(chunk) :
          disk' = [disk EXCEPT ![cur[c]] = BytesOf(cur[c]) \o SubSeq(chunk, 1, n)]
    BY <1>2 DEF AppendPart
  <2>3. BytesOf(cur[c]) \o SubSeq(chunk, 1, n) \in Content
    BY <2>1, AppendedIsContent
  <2> QED
    BY <1>2, <2>1, <2>2, <2>3 DEF AppendPart, connVars
<1>3. ASSUME NEW c \in Conn, Uploading(c), Deregister(cur[c]), EndPart(c), Serving
      PROVE TypeOK'
  BY <1>3 DEF Uploading, Deregister, Forget, Unlink, EndPart
<1>4. ASSUME NEW c \in Conn, MeasurePart(c) PROVE TypeOK'
  <2>1. /\ cur[c] \in File
        /\ disk[cur[c]] # NoFile => Len(disk[cur[c]]) \in Int
    BY <1>4, ContentFacts DEF MeasurePart, Uploading
  <2>2. PICK n \in Int : measured' = [measured EXCEPT ![c] = n]
    BY <1>4, <2>1, -1 \in Int DEF MeasurePart
  <2>3. ioFailed' \subseteq {"store", "stat"}
    BY <1>4 DEF MeasurePart
  <2> QED
    BY <1>4, <2>2, <2>3 DEF MeasurePart
<1>5. ASSUME NEW c \in Conn, InsertPart(c) PROVE TypeOK'
  <2>1. cur[c] \in File /\ measured[c] \in Int
    BY <1>5 DEF InsertPart, Uploading
  <2>2. PICK t \in Time : Insert(cur[c], measured[c], t)
    BY <1>5 DEF InsertPart
  <2>3. [size |-> measured[c], time |-> t] \in Info
    BY <2>1 DEF Info
  <2> QED
    BY <1>5, <2>1, <2>2, <2>3 DEF InsertPart, EndPart, Insert, NotifyAll
<1>6. ASSUME NEW c \in Conn, NewMessage(c) PROVE TypeOK'
  BY <1>6 DEF NewMessage, EndPart
<1>7. ASSUME NEW f \in File, DeleteFile(f) PROVE TypeOK'
  BY <1>7 DEF DeleteFile, Delete, Forget, Unlink, NotifyAll, connVars
<1>8. ASSUME StoreSnapshot, UNCHANGED connVars PROVE TypeOK'
  <2>1. Listing \in Records
    BY DEF Listing, IsValidFile, Records
  <2> QED
    BY <1>8, <2>1 DEF StoreSnapshot, connVars
<1>9. ASSUME StoreSleep \/ StoreWakesUp \/ StoreClear \/ StoreAppend \/ StoreDone \/ StoreFails,
             UNCHANGED connVars
      PROVE TypeOK'
  BY <1>9 DEF StoreSleep, StoreWakesUp, StoreClear, StoreAppend, StoreDone, StoreFails, connVars
<1>10. ASSUME Crash PROVE TypeOK'
  BY <1>10 DEF Crash, DMCrash, NoRecords, Records
<1>11. ASSUME Restart, UNCHANGED connVars PROVE TypeOK'
  <2>1. Recovered \in [File -> {Absent, Pending} \cup Info]
    BY <1>11, LoadType DEF Recovered, Restart, Records
  <2> QED
    BY <1>11, <2>1 DEF Restart, DiskWithout, connVars
<1>12. ASSUME RestartFails \/ RestartDies, UNCHANGED connVars PROVE TypeOK'
  BY <1>12 DEF RestartFails, RestartDies, DiskWithout, connVars
<1>13. ASSUME UNCHANGED vars PROVE TypeOK'
  BY <1>13 DEF vars, dmVars, connVars
<1> QED
  BY NextCases, <1>1, <1>2, <1>3, <1>4, <1>5, <1>6, <1>7, <1>8, <1>9, <1>10,
     <1>11, <1>12, <1>13 DEF AppendFails, CloseConn

\* Every reachable state has the types the code's declarations give it.
THEOREM TypeCorrect == Spec => []TypeOK
BY InitTypeOK, NextTypeOK, PTL DEF Spec

-----------------------------------------------------------------------------
(* A server that is not running has no uploads and an idle storage thread  *)

DownIsIdle ==
  status # "up" =>
    /\ hash = NoRecords
    /\ ~dirty
    /\ storePc = "wait"
    /\ \A c \in Conn : ~Uploading(c)

LEMMA InitDownIsIdle == Init => DownIsIdle
BY DEF Init, DMInit, DownIsIdle

\* Only Crash stops the server, and nothing moves until Restart.
LEMMA NextDownIsIdle == TypeOK /\ DownIsIdle /\ [Next]_vars => DownIsIdle'
<1> SUFFICES ASSUME TypeOK, DownIsIdle, [Next]_vars PROVE DownIsIdle'
  OBVIOUS
<1> USE DEF DownIsIdle, Uploading
<1>1. ASSUME Serving, status' = status PROVE DownIsIdle'
  BY <1>1 DEF Serving
<1>2. ASSUME Crash PROVE DownIsIdle'
  BY <1>2 DEF Crash, DMCrash
<1>3. ASSUME Restart \/ RestartFails \/ RestartDies, UNCHANGED connVars PROVE DownIsIdle'
  BY <1>3 DEF Restart, RestartFails, RestartDies, connVars
<1>4. ASSUME StoreSleep \/ StoreWakesUp \/ StoreSnapshot \/ StoreClear \/ StoreAppend
               \/ StoreDone \/ StoreFails,
             UNCHANGED connVars
      PROVE DownIsIdle'
  BY <1>4 DEF StoreSleep, StoreWakesUp, StoreSnapshot, StoreClear, StoreAppend, StoreDone, StoreFails, connVars
<1>5. ASSUME UNCHANGED vars PROVE DownIsIdle'
  BY <1>5 DEF vars, dmVars, connVars
<1> QED
  BY NextCases, <1>1, <1>2, <1>3, <1>4, <1>5
  DEF Serving, BeginPart, AppendPart, AppendFails, MeasurePart, InsertPart,
      NewMessage, CloseConn, DeleteFile

-----------------------------------------------------------------------------
(* A name is uploaded by one connection at a time                          *)

LEMMA InitUploadExclusive == Init => UploadExclusive
BY DEF Init, UploadExclusive, Uploading

\* A connection that ends its part touches no name another one holds.
LEMMA EndPartExclusive ==
  ASSUME TypeOK, UploadExclusive, NEW c \in Conn, Uploading(c), EndPart(c),
         \A f \in File : f # cur[c] => hash'[f] = hash[f]
  PROVE  UploadExclusive'
BY DEF TypeOK, UploadExclusive, Uploading, EndPart

LEMMA NextUploadExclusive ==
  TypeOK /\ DownIsIdle /\ UploadExclusive /\ [Next]_vars => UploadExclusive'
<1> SUFFICES ASSUME TypeOK, DownIsIdle, UploadExclusive, [Next]_vars
             PROVE  UploadExclusive'
  OBVIOUS
<1> USE DEF UploadExclusive, Uploading
<1>1. ASSUME NEW c \in Conn, NEW f \in File, BeginPart(c, f) PROVE UploadExclusive'
  BY <1>1, ConstantsDiffer DEF BeginPart, Register, TypeOK, DMTypeOK
<1>2. ASSUME NEW c \in Conn, NEW chunk \in Chunk, AppendPart(c, chunk)
      PROVE UploadExclusive'
  BY <1>2 DEF AppendPart, connVars
<1>3. ASSUME NEW c \in Conn, Uploading(c), Deregister(cur[c]), EndPart(c)
      PROVE UploadExclusive'
  <2>1. \A f \in File : f # cur[c] => hash'[f] = hash[f]
    BY <1>3 DEF Deregister, Forget, TypeOK, DMTypeOK
  <2> QED
    BY <1>3, <2>1, EndPartExclusive
<1>4. ASSUME NEW c \in Conn, MeasurePart(c) PROVE UploadExclusive'
  BY <1>4 DEF MeasurePart
<1>5. ASSUME NEW c \in Conn, InsertPart(c) PROVE UploadExclusive'
  <2>1. \A f \in File : f # cur[c] => hash'[f] = hash[f]
    BY <1>5 DEF InsertPart, Insert, TypeOK, DMTypeOK
  <2> QED
    BY <1>5, <2>1, EndPartExclusive DEF InsertPart
<1>6. ASSUME NEW c \in Conn, NewMessage(c) PROVE UploadExclusive'
  BY <1>6, EndPartExclusive DEF NewMessage
<1>7. ASSUME NEW f \in File, DeleteFile(f) PROVE UploadExclusive'
  BY <1>7 DEF DeleteFile, Delete, IsValidFile, Forget, connVars, TypeOK, DMTypeOK
<1>8. ASSUME StoreSleep \/ StoreWakesUp \/ StoreSnapshot \/ StoreClear \/ StoreAppend
               \/ StoreDone \/ StoreFails,
             UNCHANGED connVars
      PROVE UploadExclusive'
  BY <1>8 DEF StoreSleep, StoreWakesUp, StoreSnapshot, StoreClear, StoreAppend, StoreDone, StoreFails, connVars
<1>9. ASSUME Crash PROVE UploadExclusive'
  BY <1>9 DEF Crash
<1>10. ASSUME Restart \/ RestartFails \/ RestartDies, UNCHANGED connVars
       PROVE  UploadExclusive'
  BY <1>10 DEF DownIsIdle, Restart, RestartFails, RestartDies, connVars
<1>11. ASSUME UNCHANGED vars PROVE UploadExclusive'
  BY <1>11 DEF vars, dmVars, connVars
<1> QED
  BY NextCases, <1>1, <1>2, <1>3, <1>4, <1>5, <1>6, <1>7, <1>8, <1>9, <1>10, <1>11
  DEF AppendFails, CloseConn

-----------------------------------------------------------------------------
(* The backup directory holds the files of the registry                    *)

LEMMA InitDirectory == Init => DirectoryMatchesRegistry
BY DEF Init, DMInit, NoRecords, DirectoryMatchesRegistry

\* Giving up or deleting a file leaves the two sides in step.
LEMMA ForgetKeepsDirectory ==
  ASSUME TypeOK, DirectoryMatchesRegistry, status = "up",
         NEW f \in File, Forget(f), Unlink(f)
  PROVE  DirectoryMatchesRegistry'
BY DEF TypeOK, DMTypeOK, DirectoryMatchesRegistry, Forget, Unlink

LEMMA NextDirectory ==
  TypeOK /\ DownIsIdle /\ UploadExclusive /\ DirectoryMatchesRegistry /\ [Next]_vars
    => DirectoryMatchesRegistry'
<1> SUFFICES ASSUME TypeOK, DownIsIdle, UploadExclusive, DirectoryMatchesRegistry,
                    [Next]_vars
             PROVE  DirectoryMatchesRegistry'
  OBVIOUS
<1>1. ASSUME NEW c \in Conn, NEW f \in File, BeginPart(c, f)
      PROVE  DirectoryMatchesRegistry'
  <2>1. << >> # NoFile /\ Pending # Absent
    BY ConstantsDiffer, ContentFacts
  <2>2. /\ hash' = [hash EXCEPT ![f] = Pending]
        /\ disk' = [disk EXCEPT ![f] = << >>]
        /\ status = "up" /\ UNCHANGED <<status, ioFailed>>
    BY <1>1 DEF BeginPart, Register, Serving
  <2> QED
    BY <2>1, <2>2 DEF DirectoryMatchesRegistry, TypeOK, DMTypeOK
<1>2. ASSUME NEW c \in Conn, NEW chunk \in Chunk, AppendPart(c, chunk)
      PROVE  DirectoryMatchesRegistry'
  <2>1. /\ cur[c] \in File
        /\ hash[cur[c]] # Absent
    BY <1>2, ConstantsDiffer DEF AppendPart, UploadExclusive, Uploading, TypeOK
  <2>2. PICK n \in 0 .. Len(chunk) :
          disk' = [disk EXCEPT ![cur[c]] = BytesOf(cur[c]) \o SubSeq(chunk, 1, n)]
    BY <1>2 DEF AppendPart
  <2>3. BytesOf(cur[c]) \o SubSeq(chunk, 1, n) # NoFile
    BY <2>1, AppendedIsContent, ConstantsDiffer
  <2>4. status = "up" /\ UNCHANGED <<hash, status>>
    BY <1>2 DEF AppendPart, Serving
  <2> QED
    BY <2>1, <2>2, <2>3, <2>4 DEF DirectoryMatchesRegistry, TypeOK, DMTypeOK
<1>3. ASSUME NEW c \in Conn, Uploading(c), Deregister(cur[c]), Serving
      PROVE  DirectoryMatchesRegistry'
  BY <1>3, ForgetKeepsDirectory DEF Deregister, Serving, Uploading, TypeOK
<1>4. ASSUME NEW c \in Conn, MeasurePart(c) PROVE DirectoryMatchesRegistry'
  BY <1>4 DEF MeasurePart, Serving, DirectoryMatchesRegistry
<1>5. ASSUME NEW c \in Conn, InsertPart(c) PROVE DirectoryMatchesRegistry'
  <2>1. cur[c] \in File /\ hash[cur[c]] = Pending /\ measured[c] \in Int
    BY <1>5 DEF InsertPart, UploadExclusive, Uploading, TypeOK
  <2>2. PICK t \in Time : hash' = [hash EXCEPT ![cur[c]] = [size |-> measured[c], time |-> t]]
    BY <1>5, <2>1 DEF InsertPart, Insert
  <2>3. /\ [size |-> measured[c], time |-> t] # Absent
        /\ Pending # Absent
    BY <2>1, ConstantsDiffer DEF Info
  <2>4. status = "up" /\ UNCHANGED <<disk, status, ioFailed>>
    BY <1>5 DEF InsertPart, Insert, Serving
  <2> QED
    BY <2>1, <2>2, <2>3, <2>4 DEF DirectoryMatchesRegistry, TypeOK, DMTypeOK
<1>6. ASSUME NEW c \in Conn, NewMessage(c) PROVE DirectoryMatchesRegistry'
  BY <1>6 DEF NewMessage, Serving, DirectoryMatchesRegistry
<1>7. ASSUME NEW f \in File, DeleteFile(f) PROVE DirectoryMatchesRegistry'
  BY <1>7, ForgetKeepsDirectory DEF DeleteFile, Delete, Serving
<1>8. ASSUME StoreSleep \/ StoreWakesUp \/ StoreSnapshot \/ StoreClear \/ StoreAppend
               \/ StoreDone \/ StoreFails
      PROVE  DirectoryMatchesRegistry'
  BY <1>8 DEF StoreSleep, StoreWakesUp, StoreSnapshot, StoreClear, StoreAppend, StoreDone, StoreFails,
              DirectoryMatchesRegistry
<1>9. ASSUME Crash \/ RestartFails \/ RestartDies PROVE DirectoryMatchesRegistry'
  BY <1>9 DEF Crash, DMCrash, RestartFails, RestartDies, DirectoryMatchesRegistry
<1>10. ASSUME Restart PROVE DirectoryMatchesRegistry'
  BY <1>10 DEF Restart, Recovered, Unknown, DiskWithout, DirectoryMatchesRegistry
<1>11. ASSUME UNCHANGED vars PROVE DirectoryMatchesRegistry'
  BY <1>11 DEF vars, dmVars, DirectoryMatchesRegistry
<1> QED
  BY NextCases, <1>1, <1>2, <1>3, <1>4, <1>5, <1>6, <1>7, <1>8, <1>9, <1>10, <1>11
  DEF AppendFails, CloseConn

-----------------------------------------------------------------------------
(* The sizes connections and records hold                                  *)

MeasuredWhileUploading == \A c \in Conn : measured[c] # NoSize => Uploading(c)

LEMMA InitMeasured == Init => MeasuredWhileUploading
BY DEF Init, MeasuredWhileUploading

LEMMA NextMeasured ==
  TypeOK /\ MeasuredWhileUploading /\ [Next]_vars => MeasuredWhileUploading'
<1> SUFFICES ASSUME TypeOK, MeasuredWhileUploading, [Next]_vars
             PROVE  MeasuredWhileUploading'
  OBVIOUS
<1> USE DEF MeasuredWhileUploading, Uploading, TypeOK
<1>1. ASSUME NEW c \in Conn, NEW f \in File, BeginPart(c, f)
      PROVE  MeasuredWhileUploading'
  BY <1>1, UploadConstants DEF BeginPart
<1>2. ASSUME NEW c \in Conn, EndPart(c) PROVE MeasuredWhileUploading'
  BY <1>2 DEF EndPart
<1>3. ASSUME NEW c \in Conn, MeasurePart(c) PROVE MeasuredWhileUploading'
  BY <1>3 DEF MeasurePart
<1>4. ASSUME UNCHANGED connVars PROVE MeasuredWhileUploading'
  BY <1>4 DEF connVars
<1>5. ASSUME Crash PROVE MeasuredWhileUploading'
  BY <1>5 DEF Crash
<1> QED
  BY NextCases, <1>1, <1>2, <1>3, <1>4, <1>5
  DEF AppendPart, AppendFails, InsertPart, NewMessage, CloseConn, DeleteFile, vars

\* A measurement is still right when Insert is called: no other connection
\* writes the file meanwhile.  Unless the measurement itself has failed.
SizesAreRight ==
  status = "up" /\ "stat" \notin ioFailed =>
    /\ \A c \in Conn :
         Uploading(c) /\ measured[c] # NoSize => measured[c] = Len(disk[cur[c]])
    /\ \A f \in File : IsValidFile(f) => hash[f].size >= 0

LEMMA InitSizes == Init => SizesAreRight
BY DEF Init, DMInit, NoRecords, SizesAreRight, Uploading, IsValidFile

LEMMA NextSizes ==
  TypeOK /\ DownIsIdle /\ UploadExclusive /\ DirectoryMatchesRegistry
    /\ MeasuredWhileUploading /\ SizesAreRight /\ [Next]_vars => SizesAreRight'
<1> SUFFICES ASSUME TypeOK, DownIsIdle, UploadExclusive, DirectoryMatchesRegistry,
                    MeasuredWhileUploading, SizesAreRight, [Next]_vars
             PROVE  SizesAreRight'
  OBVIOUS
<1> USE DEF SizesAreRight, Uploading, IsValidFile
<1>1. ASSUME NEW c \in Conn, NEW f \in File, BeginPart(c, f) PROVE SizesAreRight'
  <2>1. \A d \in Conn : Uploading(d) => cur[d] # f
    BY <1>1, ConstantsDiffer DEF BeginPart, Register, UploadExclusive
  <2>2. /\ hash' = [hash EXCEPT ![f] = Pending]
        /\ disk' = [disk EXCEPT ![f] = << >>]
        /\ cur' = [cur EXCEPT ![c] = f]
        /\ status = "up" /\ UNCHANGED <<status, ioFailed, measured>>
    BY <1>1 DEF BeginPart, Register, Serving
  <2>3. measured[c] = NoSize
    BY <1>1 DEF BeginPart, MeasuredWhileUploading
  <2> QED
    BY <2>1, <2>2, <2>3 DEF TypeOK, DMTypeOK
<1>2. ASSUME NEW c \in Conn, NEW chunk \in Chunk, AppendPart(c, chunk)
      PROVE  SizesAreRight'
  <2>1. \A d \in Conn : Uploading(d) /\ d # c => cur[d] # cur[c]
    BY <1>2 DEF AppendPart, UploadExclusive
  <2> QED
    BY <1>2, <2>1 DEF AppendPart, Serving, connVars, TypeOK, DMTypeOK
<1>3. ASSUME NEW c \in Conn, Uploading(c), Deregister(cur[c]), EndPart(c), Serving
      PROVE  SizesAreRight'
  <2>1. \A d \in Conn : Uploading(d) /\ d # c => cur[d] # cur[c]
    BY <1>3 DEF UploadExclusive
  <2> QED
    BY <1>3, <2>1 DEF Deregister, Forget, Unlink, EndPart, Serving, TypeOK, DMTypeOK
<1>4. ASSUME NEW c \in Conn, MeasurePart(c) PROVE SizesAreRight'
  BY <1>4 DEF MeasurePart, Serving, TypeOK
<1>5. ASSUME NEW c \in Conn, InsertPart(c) PROVE SizesAreRight'
  <2>1. cur[c] \in File /\ hash[cur[c]] = Pending /\ disk[cur[c]] \in Content
    BY <1>5, ConstantsDiffer
    DEF InsertPart, UploadExclusive, TypeOK, DMTypeOK, DirectoryMatchesRegistry, Serving
  <2>2. "stat" \notin ioFailed => measured[c] >= 0
    BY <1>5, <2>1, ContentFacts DEF InsertPart, Serving
  <2> QED
    BY <1>5, <2>1, <2>2 DEF InsertPart, Insert, EndPart, Serving, TypeOK, DMTypeOK
<1>6. ASSUME NEW c \in Conn, NewMessage(c) PROVE SizesAreRight'
  BY <1>6 DEF NewMessage, EndPart, Serving, TypeOK
<1>7. ASSUME NEW f \in File, DeleteFile(f) PROVE SizesAreRight'
  <2>1. \A d \in Conn : Uploading(d) => cur[d] # f
    BY <1>7 DEF DeleteFile, Delete, UploadExclusive
  <2> QED
    BY <1>7, <2>1 DEF DeleteFile, Delete, Forget, Unlink, Serving, connVars, TypeOK, DMTypeOK
<1>8. ASSUME StoreSleep \/ StoreWakesUp \/ StoreSnapshot \/ StoreClear \/ StoreAppend
               \/ StoreDone \/ StoreFails,
             UNCHANGED connVars
      PROVE SizesAreRight'
  BY <1>8 DEF StoreSleep, StoreWakesUp, StoreSnapshot, StoreClear, StoreAppend, StoreDone, StoreFails, connVars
<1>9. ASSUME Crash \/ RestartFails \/ RestartDies PROVE SizesAreRight'
  BY <1>9 DEF Crash, DMCrash, RestartFails, RestartDies
<1>10. ASSUME Restart, UNCHANGED connVars PROVE SizesAreRight'
  <2>1. \A f \in File : Recovered[f] # Absent => Recovered[f].size >= 0
    BY <1>10 DEF Recovered, Load, NoRecords
  <2> QED
    BY <1>10, <2>1 DEF Restart, DownIsIdle, connVars
<1>11. ASSUME UNCHANGED vars PROVE SizesAreRight'
  BY <1>11 DEF vars, dmVars, connVars
<1> QED
  BY NextCases, <1>1, <1>2, <1>3, <1>4, <1>5, <1>6, <1>7, <1>8, <1>9, <1>10, <1>11
  DEF AppendFails, CloseConn

-----------------------------------------------------------------------------
(* The index                                                               *)

\* With nothing left to store, the index says what is published; with a write
\* under way and nothing changed since the snapshot, the snapshot does.  This
\* is stronger than QuietIndexRecoversAll, which a new registration over an
\* outdated record would break.
IndexFollows ==
  status = "up" /\ ~dirty /\ ioFailed = {}
    => IF storePc \in {"wait", "asleep"}
                           THEN index # Torn /\ Load(index) = Listing
                           ELSE root = Listing

LEMMA InitIndex == Init => IndexFollows
<1>1. NoRecords \in Records
  BY DEF NoRecords, Records
<1>2. Init => Load(index) = Listing
  BY <1>1, ConstantsDiffer DEF Init, DMInit, Load, Listing, IsValidFile, NoRecords
<1> QED
  BY <1>1, <1>2, ConstantsDiffer DEF Init, DMInit, IndexFollows

\* A step that changes neither the listing nor the storage thread's state.
LEMMA SameListing ==
  ASSUME IndexFollows, Listing' = Listing, UNCHANGED <<dirty, index, storePc, root, status>>,
         ioFailed \subseteq ioFailed'
  PROVE  IndexFollows'
<1>1. Load(index)' = Load(index)
  BY DEF Load, NoRecords
<1> QED
  BY <1>1 DEF IndexFollows

\* Uploads in progress do not show in the listing.
LEMMA ListingHidesUploads ==
  ASSUME TypeOK, NEW f \in File, ~IsValidFile(f), NEW h \in {Absent, Pending},
         hash' = [hash EXCEPT ![f] = h]
  PROVE  Listing' = Listing
BY DEF TypeOK, DMTypeOK, Listing, IsValidFile

LEMMA NextIndex ==
  TypeOK /\ DownIsIdle /\ UploadExclusive /\ SizesAreRight /\ IndexFollows /\ [Next]_vars
    => IndexFollows'
<1> SUFFICES ASSUME TypeOK, DownIsIdle, UploadExclusive, SizesAreRight, IndexFollows,
                    [Next]_vars
             PROVE  IndexFollows'
  OBVIOUS
<1>1. ASSUME NEW c \in Conn, NEW f \in File, BeginPart(c, f) PROVE IndexFollows'
  <2>1. Listing' = Listing
    BY <1>1, ListingHidesUploads DEF BeginPart, Register, IsValidFile
  <2> QED
    BY <1>1, <2>1, SameListing DEF BeginPart, Register, Serving
<1>2. ASSUME NEW c \in Conn, Uploading(c), Deregister(cur[c]), Serving
      PROVE  IndexFollows'
  <2>1. Listing' = Listing
    BY <1>2, ListingHidesUploads
    DEF Deregister, Forget, IsValidFile, UploadExclusive, Uploading, TypeOK
  <2>2. ioFailed \subseteq ioFailed'
    BY <1>2 DEF Deregister
  <2> QED
    BY <1>2, <2>1, <2>2, SameListing DEF Deregister, Serving
<1>3. ASSUME NEW c \in Conn, InsertPart(c) PROVE IndexFollows'
  <2>1. hash[cur[c]] = Pending
    BY <1>3 DEF InsertPart, UploadExclusive
  <2> QED
    BY <1>3, <2>1 DEF InsertPart, Insert, IndexFollows
<1>4. ASSUME UNCHANGED <<hash, dirty, storePc>>, Serving, ioFailed \subseteq ioFailed'
      PROVE  IndexFollows'
  <2>1. Listing' = Listing
    BY <1>4 DEF Listing, IsValidFile
  <2> QED
    BY <1>4, <2>1, SameListing DEF Serving
<1>5. ASSUME NEW f \in File, DeleteFile(f) PROVE IndexFollows'
  BY <1>5 DEF DeleteFile, Delete, IndexFollows
<1>6. ASSUME StoreSnapshot PROVE IndexFollows'
  BY <1>6 DEF StoreSnapshot, IndexFollows, Listing, IsValidFile
<1>7. ASSUME StoreSleep \/ StoreWakesUp \/ StoreClear \/ StoreAppend PROVE IndexFollows'
  BY <1>7 DEF StoreSleep, StoreWakesUp, StoreClear, StoreAppend, IndexFollows, Listing,
              IsValidFile, Load, NoRecords
<1>8. ASSUME StoreDone PROVE IndexFollows'
  <2> SUFFICES ASSUME status = "up", ~dirty, ioFailed = {}
               PROVE  index' # Torn /\ Load(index)' = Listing'
    BY <1>8 DEF StoreDone, IndexFollows
  <2>1. index' = Listing /\ Listing' = Listing
    BY <1>8 DEF StoreDone, IndexFollows, Listing, IsValidFile
  <2>2. Listing \in Records
    BY DEF Listing, IsValidFile, Records, TypeOK, DMTypeOK
  <2>3. \A f \in File : Listing[f] # Absent => Listing[f].size >= 0
    BY DEF Listing, SizesAreRight
  <2>4. Load(index)' = Listing
    BY <2>1, <2>2, <2>3, ConstantsDiffer DEF Load, Records
  <2> QED
    BY <2>1, <2>2, <2>4, ConstantsDiffer
<1>9. ASSUME StoreFails PROVE IndexFollows'
  BY <1>9 DEF StoreFails, IndexFollows
<1>10. ASSUME Crash \/ RestartFails \/ RestartDies PROVE IndexFollows'
  BY <1>10 DEF Crash, DMCrash, RestartFails, RestartDies, DownIsIdle, IndexFollows
<1>11. ASSUME Restart PROVE IndexFollows'
  <2> SUFFICES ASSUME ~dirty' PROVE storePc' = "wait" /\ index' # Torn /\ Load(index)' = Listing'
    BY DEF IndexFollows
  <2>1. storePc' = "wait" /\ index' = index /\ index # Torn
    BY <1>11 DEF Restart, DownIsIdle
  <2>2. hash' = Load(index) /\ Load(index)' = Load(index)
    BY <1>11 DEF Restart, Load, NoRecords
  <2>3. Load(index) \in Records
    BY <2>1, LoadType DEF TypeOK, DMTypeOK
  <2>4. Listing' = hash'
    BY <2>2, <2>3, ConstantsDiffer DEF Listing, IsValidFile, Records
  <2> QED
    BY <2>1, <2>2, <2>4
<1>12. ASSUME UNCHANGED vars PROVE IndexFollows'
  BY <1>12 DEF vars, dmVars, IndexFollows, Listing, IsValidFile, Load, NoRecords
<1> QED
  BY NextCases, <1>1, <1>2, <1>3, <1>4, <1>5, <1>6, <1>7, <1>8, <1>9, <1>10, <1>11, <1>12
  DEF AppendPart, AppendFails, MeasurePart, NewMessage, CloseConn, connVars

LEMMA IndexFollowsIsEnough ==
  TypeOK /\ DirectoryMatchesRegistry /\ IndexFollows => QuietIndexRecoversAll
<1> SUFFICES ASSUME TypeOK, DirectoryMatchesRegistry, IndexFollows,
                    AtRest, ioFailed = {}
             PROVE  index # Torn /\ Recovered = Listing
  BY DEF QuietIndexRecoversAll
<1>1. index # Torn /\ Load(index) = Listing
  BY DEF IndexFollows, AtRest
<1>2. \A f \in File : disk[f] = NoFile => Listing[f] = Absent
  BY DEF DirectoryMatchesRegistry, Listing, IsValidFile, AtRest
<1> QED
  BY <1>1, <1>2 DEF Recovered, Listing

-----------------------------------------------------------------------------
(* The whole invariant and its consequences                                *)

Inv ==
  /\ TypeOK
  /\ DownIsIdle
  /\ UploadExclusive
  /\ DirectoryMatchesRegistry
  /\ MeasuredWhileUploading
  /\ SizesAreRight
  /\ IndexFollows

\* The inductive invariant: each layer relies on the ones above it.
THEOREM Invariance == Spec => []Inv
<1>1. Init => Inv
  BY InitTypeOK, InitDownIsIdle, InitUploadExclusive, InitDirectory, InitMeasured,
     InitSizes, InitIndex DEF Inv
<1>2. Inv /\ [Next]_vars => Inv'
  BY NextTypeOK, NextDownIsIdle, NextUploadExclusive, NextDirectory, NextMeasured,
     NextSizes, NextIndex DEF Inv
<1> QED
  BY <1>1, <1>2, PTL DEF Spec

\* Two connections never upload under the same name, and the name stays
\* registered for the one that does.
THEOREM UploadsAreExclusive == Spec => []UploadExclusive
BY Invariance, PTL DEF Inv

\* The directory and the registry never drift apart while the server runs.
THEOREM DirectoryIsRegistered == Spec => []DirectoryMatchesRegistry
BY Invariance, PTL DEF Inv

\* Whenever the storage thread is at rest and no write has failed, a restart
\* would recover exactly what is published.
THEOREM QuietIndexIsComplete == Spec => []QuietIndexRecoversAll
BY Invariance, IndexFollowsIsEnough, PTL DEF Inv

\* The size measured before Insert is the size of the file it publishes.
THEOREM PublishedSizesAreRight == Spec => PublishedSizeIsRight
<1> DEFINE Right == \A f \in File :
      hash[f] = Pending /\ hash'[f] \in Info /\ "stat" \notin ioFailed
        => hash'[f].size = Len(disk'[f])
<1>1. Inv /\ [Next]_vars => [Right]_vars
  <2> SUFFICES ASSUME Inv, [Next]_vars, NEW f \in File, hash[f] = Pending,
                      hash'[f] \in Info, "stat" \notin ioFailed
               PROVE  hash'[f].size = Len(disk'[f])
    OBVIOUS
  <2> USE ConstantsDiffer DEF Inv, TypeOK, DMTypeOK
  <2>1. hash'[f] # hash[f] /\ hash'[f] # Absent /\ hash'[f] # Pending
    OBVIOUS
  <2>2. ASSUME NEW c \in Conn, InsertPart(c) PROVE hash'[f].size = Len(disk'[f])
    <3>1. PICK t \in Time : Insert(cur[c], measured[c], t)
      BY <2>2 DEF InsertPart
    <3>2. /\ f = cur[c]
          /\ hash'[f] = [size |-> measured[c], time |-> t]
          /\ disk' = disk
      BY <2>1, <2>2, <3>1 DEF InsertPart, Uploading, Insert
    <3> QED
      BY <2>2, <3>2 DEF InsertPart, SizesAreRight, Serving
  <2>3. ASSUME NEW c \in Conn, NEW g \in File, BeginPart(c, g) PROVE FALSE
    BY <2>1, <2>3 DEF BeginPart, Register
  <2>4. ASSUME NEW c \in Conn, Uploading(c), Deregister(cur[c]) PROVE FALSE
    BY <2>1, <2>4 DEF Deregister, Forget, Uploading
  <2>5. ASSUME NEW g \in File, DeleteFile(g) PROVE FALSE
    BY <2>1, <2>5 DEF DeleteFile, Delete, Forget
  <2>6. ASSUME Crash \/ Restart PROVE FALSE
    BY <2>6 DEF Crash, DMCrash, Restart, DownIsIdle, NoRecords
  <2> QED
    BY NextCases, <2>1, <2>2, <2>3, <2>4, <2>5, <2>6
    DEF AppendPart, AppendFails, MeasurePart, NewMessage, CloseConn, StoreSnapshot,
        StoreSleep, StoreWakesUp, StoreClear, StoreAppend, StoreDone, StoreFails, RestartFails,
        RestartDies, vars, dmVars
<1> QED
  BY <1>1, Invariance, PTL DEF Spec, PublishedSizeIsRight

-----------------------------------------------------------------------------
(* Refinement of BackupCatalog                                             *)

LEMMA InitCatalog == Init => Catalog!Init
BY ConstantsDiffer DEF Init, DMInit, NoRecords, Catalog!Init, CatalogView, IsValidFile

\* What happens to a file that is not published does not show.
LEMMA UnpublishedIsHidden ==
  ASSUME Inv, UNCHANGED <<hash, status>>,
         \A f \in File : IsValidFile(f) => disk'[f] = disk[f]
  PROVE  UNCHANGED Catalog!vars
BY DEF Catalog!vars, CatalogView, IsValidFile

\* A change of one name's entry and file shows for that name alone.
LEMMA CatalogChange ==
  ASSUME TypeOK, NEW f \in File, NEW h, hash' = [hash EXCEPT ![f] = h],
         \A g \in File : g # f => disk'[g] = disk[g]
  PROVE  CatalogView' = [CatalogView EXCEPT ![f] = IF h \in {Absent, Pending} THEN h ELSE disk'[f]]
BY DEF TypeOK, DMTypeOK, CatalogView, IsValidFile

\* Every step of the store is a step of the catalog or does not show in it.
LEMMA NextCatalog == Inv /\ [Next]_vars => [Catalog!Next]_(Catalog!vars)
<1> SUFFICES ASSUME Inv, [Next]_vars PROVE [Catalog!Next]_(Catalog!vars)
  OBVIOUS
<1>0. TypeOK /\ UploadExclusive /\ DirectoryMatchesRegistry
  BY DEF Inv
<1>1. ASSUME NEW c \in Conn, NEW f \in File, BeginPart(c, f) PROVE Catalog!Claim(f)
  <2>1. CatalogView' = [CatalogView EXCEPT ![f] = Pending]
    BY <1>0, <1>1, CatalogChange DEF BeginPart, Register, TypeOK, DMTypeOK
  <2> QED
    BY <1>1, <2>1 DEF BeginPart, Register, Serving, Catalog!Claim, CatalogView, IsValidFile
<1>2. ASSUME NEW c \in Conn, NEW chunk \in Chunk, AppendPart(c, chunk)
      PROVE  UNCHANGED Catalog!vars
  BY <1>0, <1>2, UnpublishedIsHidden
  DEF AppendPart, Serving, UploadExclusive, IsValidFile, TypeOK, DMTypeOK
<1>3. ASSUME NEW c \in Conn, Uploading(c), Deregister(cur[c]), Serving
      PROVE  \E f \in File : Catalog!Withdraw(f)
  <2>1. cur[c] \in File /\ hash[cur[c]] = Pending
    BY <1>0, <1>3 DEF UploadExclusive, Uploading, TypeOK
  <2>2. CatalogView' = [CatalogView EXCEPT ![cur[c]] = Absent]
    BY <1>0, <1>3, <2>1, CatalogChange DEF Deregister, Forget, Unlink, TypeOK, DMTypeOK
  <2>3. Catalog!Withdraw(cur[c])
    BY <1>3, <2>1, <2>2 DEF Serving, Catalog!Withdraw, CatalogView, IsValidFile
  <2> QED
    BY <2>1, <2>3
<1>4. ASSUME NEW c \in Conn, InsertPart(c) PROVE \E f \in File : Catalog!Publish(f)
  <2>1. cur[c] \in File /\ hash[cur[c]] = Pending /\ measured[c] \in Int
    BY <1>0, <1>4 DEF InsertPart, UploadExclusive, Uploading, TypeOK
  <2>2. disk[cur[c]] \in Content
    BY <1>0, <1>4, <2>1, ConstantsDiffer
    DEF InsertPart, Serving, DirectoryMatchesRegistry, TypeOK, DMTypeOK
  <2>3. PICK t \in Time : hash' = [hash EXCEPT ![cur[c]] = [size |-> measured[c], time |-> t]]
    BY <1>4, <2>1 DEF InsertPart, Insert
  <2>4. [size |-> measured[c], time |-> t] \notin {Absent, Pending}
    BY <2>1, ConstantsDiffer DEF Info
  <2>5. disk' = disk
    BY <1>4 DEF InsertPart, Insert
  <2>6. CatalogView' = [CatalogView EXCEPT ![cur[c]] = disk[cur[c]]]
    BY <1>0, <2>1, <2>3, <2>4, <2>5, CatalogChange
  <2>7. Catalog!Publish(cur[c])
    BY <1>4, <2>1, <2>2, <2>6
    DEF InsertPart, Serving, Catalog!Publish, CatalogView, IsValidFile
  <2> QED
    BY <2>1, <2>7
<1>5. ASSUME NEW f \in File, DeleteFile(f) PROVE Catalog!Remove(f)
  <2>1. CatalogView' = [CatalogView EXCEPT ![f] = Absent]
    BY <1>0, <1>5, CatalogChange DEF DeleteFile, Delete, Forget, Unlink, TypeOK, DMTypeOK
  <2>2. CatalogView[f] \in Content
    BY <1>0, <1>5, ConstantsDiffer
    DEF DeleteFile, Delete, Serving, IsValidFile, CatalogView, DirectoryMatchesRegistry,
        TypeOK, DMTypeOK
  <2> QED
    BY <1>5, <2>1, <2>2 DEF DeleteFile, Serving, Catalog!Remove
<1>6. ASSUME UNCHANGED <<hash, disk, status>> PROVE UNCHANGED Catalog!vars
  BY <1>6, UnpublishedIsHidden
<1>7. ASSUME Crash PROVE Catalog!Stop
  BY <1>7 DEF Crash, DMCrash, NoRecords, Catalog!Stop, CatalogView, IsValidFile
<1>8. ASSUME Restart PROVE Catalog!Resume
  <2>1. \A f \in File : hash'[f] \in {Absent} \cup Info
    BY <1>0, <1>8, LoadType DEF Restart, Recovered, Records, TypeOK, DMTypeOK
  <2>2. \A f \in File : hash'[f] \in Info => disk'[f] \in Content
    BY <1>0, <1>8, ConstantsDiffer DEF Restart, Recovered, Unknown, DiskWithout, TypeOK, DMTypeOK
  <2>3. CatalogView' \in [File -> {Absent} \cup Content]
    BY <2>1, <2>2, ConstantsDiffer DEF CatalogView, IsValidFile
  <2> QED
    BY <1>8, <2>3 DEF Restart, Catalog!Resume
<1>9. ASSUME RestartFails \/ RestartDies PROVE UNCHANGED Catalog!vars
  BY <1>0, <1>9 DEF RestartFails, RestartDies, Inv, DownIsIdle, NoRecords, Catalog!vars,
                    CatalogView, IsValidFile
<1> QED
  BY NextCases, <1>1, <1>2, <1>3, <1>4, <1>5, <1>6, <1>7, <1>8, <1>9
  DEF AppendFails, MeasurePart, NewMessage, CloseConn, Serving, StoreSleep, StoreWakesUp,
      StoreSnapshot, StoreClear, StoreAppend, StoreDone, StoreFails, Catalog!Next, vars, dmVars

\* The store implements the catalog: exclusive claims, one publication per
\* claim, and contents that never change while they are published.
THEOREM StoreImplementsCatalog == Spec => ImplementsCatalog
BY InitCatalog, NextCatalog, Invariance, PTL DEF Spec, ImplementsCatalog, Catalog!Spec
=============================================================================
