---------------------------- MODULE BackupStore ----------------------------
(***************************************************************************)
(* The server seen from its data: connections that upload files part by    *)
(* part (process_upload_body of src/HTTPconnection.hpp), delete requests,  *)
(* the storage thread, crashes and restarts, all on one DataManager.       *)
(*                                                                         *)
(* A worker thread serves one connection at a time and calls DataManager   *)
(* between file operations of its own: registering a name, appending each  *)
(* piece of the part, measuring the file and inserting the node are        *)
(* separate steps of the connection, and the steps of different            *)
(* connections interleave.                                                 *)
(***************************************************************************)
EXTENDS DataManager

CONSTANTS
  Conn,      \* client connections
  Chunk,     \* the pieces of content one AppendContent call may be given
  MaxLen,    \* bound on the length of a file
  NoUpload,  \* _cur_upload_file is ""
  NoSize     \* GetFileSize has not been called for this part

ASSUME UploadConstants ==
  /\ Chunk \subseteq Content \ {<< >>}
  /\ NoUpload \notin File
  /\ NoSize \notin Int
  /\ MaxLen \in Nat

VARIABLES
  cur,       \* _head_info._cur_upload_file of each connection
  measured   \* target_file.GetFileSize(), evaluated before Insert is entered

connVars == <<cur, measured>>

vars == <<dmVars, connVars>>

Uploading(c) == cur[c] # NoUpload

EndPart(c) ==
  /\ cur' = [cur EXCEPT ![c] = NoUpload]
  /\ measured' = [measured EXCEPT ![c] = NoSize]

\* What any handler of a running server leaves alone
Serving == status = "up" /\ UNCHANGED <<index, root, status>>

-----------------------------------------------------------------------------
(* One connection's upload                                                 *)

\* The header of a part is complete and Register accepts its name.  When it is
\* refused the part is skipped, and neither the store nor _cur_upload_file is
\* any different.
BeginPart(c, f) ==
  /\ ~Uploading(c)
  /\ Register(f)
  /\ cur' = [cur EXCEPT ![c] = f]
  /\ Serving
  /\ UNCHANGED measured

\* std::ios::app creates the file when it is missing
BytesOf(f) == IF disk[f] = NoFile THEN << >> ELSE disk[f]

\* Mutant: content still arrives after the file has been measured
AppendAfterMeasure(c, chunk) ==
  /\ Uploading(c)
  /\ Len(BytesOf(cur[c]) \o chunk) <= MaxLen
  /\ disk' = [disk EXCEPT ![cur[c]] = BytesOf(cur[c]) \o chunk]
  /\ Serving
  /\ UNCHANGED <<hash, dirty, storePc, ioFailed, connVars>>

\* AppendContent returns true.  It tests the stream before the bytes leave its
\* buffer, so on a full disk only the beginning of the chunk, or nothing, is in
\* the file.
AppendPart(c, chunk) ==
  /\ Uploading(c) /\ measured[c] = NoSize
  /\ Len(BytesOf(cur[c]) \o chunk) <= MaxLen
  /\ \E n \in 0 .. Len(chunk) :
       disk' = [disk EXCEPT ![cur[c]] = BytesOf(cur[c]) \o SubSeq(chunk, 1, n)]
  /\ Serving
  /\ UNCHANGED <<hash, dirty, storePc, ioFailed, connVars>>

\* Mutant: the connection goes on with the part after deregistering it
AppendFailsGoesOn(c) ==
  /\ Uploading(c) /\ measured[c] = NoSize
  /\ Deregister(cur[c])
  /\ Serving
  /\ UNCHANGED connVars

\* AppendContent returns false: the part is given up
AppendFails(c) ==
  /\ Uploading(c) /\ measured[c] = NoSize
  /\ Deregister(cur[c])
  /\ EndPart(c)
  /\ Serving

\* The closing boundary has arrived.  The argument of Insert is evaluated
\* first: the length of the file, or -1 when it cannot be had.
MeasurePart(c) ==
  /\ Uploading(c) /\ measured[c] = NoSize
  /\ \/ /\ disk[cur[c]] # NoFile
        /\ measured' = [measured EXCEPT ![c] = Len(disk[cur[c]])]
        /\ UNCHANGED ioFailed
     \/ /\ measured' = [measured EXCEPT ![c] = -1]
        /\ ioFailed' = ioFailed \cup {"stat"}
  /\ Serving
  /\ UNCHANGED <<hash, disk, dirty, storePc, cur>>

\* The result of Insert is not looked at
InsertPart(c) ==
  /\ Uploading(c) /\ measured[c] # NoSize
  /\ \E t \in Time : Insert(cur[c], measured[c], t)
  /\ EndPart(c)
  /\ Serving

\* A message that ended in the middle of a part left _cur_upload_file set:
\* on_message_begin of the next one clears it, and nobody calls Deregister
NewMessage(c) ==
  /\ Uploading(c) /\ measured[c] = NoSize
  /\ EndPart(c)
  /\ Serving
  /\ UNCHANGED <<hash, disk, dirty, storePc, ioFailed>>

\* ~HTTPMessageInfo: the last reference to the connection goes
CloseConn(c) ==
  /\ Uploading(c) /\ measured[c] = NoSize
  /\ Deregister(cur[c])
  /\ EndPart(c)
  /\ Serving

-----------------------------------------------------------------------------
(* Deletion, and the life of the process                                   *)

DeleteFile(f) ==
  /\ Delete(f)
  /\ Serving
  /\ UNCHANGED connVars

Crash ==
  /\ DMCrash
  /\ cur' = [c \in Conn |-> NoUpload]
  /\ measured' = [c \in Conn |-> NoSize]

Init ==
  /\ DMInit
  /\ cur = [c \in Conn |-> NoUpload]
  /\ measured = [c \in Conn |-> NoSize]

ConnStep(c) ==
  \/ \E f \in File : BeginPart(c, f)
  \/ \E chunk \in Chunk : AppendPart(c, chunk)
  \/ AppendFails(c)
  \/ MeasurePart(c)
  \/ InsertPart(c)
  \/ NewMessage(c)
  \/ CloseConn(c)

Next ==
  \/ \E c \in Conn : ConnStep(c)
  \/ \E f \in File : DeleteFile(f)
  \/ StorageThread /\ UNCHANGED connVars
  \/ Crash
  \/ Restart /\ UNCHANGED connVars
  \/ RestartDies /\ UNCHANGED connVars
  \/ RestartFails /\ UNCHANGED connVars

\* The operating system runs the storage thread; nobody has to send requests,
\* and nothing has to crash or be restarted
Fairness == WF_vars(StoreProgress /\ UNCHANGED connVars)

Spec == Init /\ [][Next]_vars /\ Fairness

-----------------------------------------------------------------------------
(* Properties                                                              *)

TypeOK ==
  /\ DMTypeOK
  /\ cur \in [Conn -> File \cup {NoUpload}]
  /\ measured \in [Conn -> Int \cup {NoSize}]

\* A name being uploaded belongs to one connection, and its entry in _hash
\* stays nullptr until that connection ends the part: no interleaving of
\* Register, Deregister, Insert and Delete lets two connections write one file.
UploadExclusive ==
  \A c \in Conn : Uploading(c) =>
    /\ hash[cur[c]] = Pending
    /\ \A d \in Conn : cur[d] = cur[c] => d = c

\* While the server runs, the names in _hash are the names of the files in the
\* backup directory: across uploads given up half-way, deletions, crashes (one
\* of which is a removal the system refuses) and restarts, neither side drifts
\* from the other.
DirectoryMatchesRegistry ==
  status = "up" => \A f \in File : hash[f] # Absent <=> disk[f] # NoFile

\* The server runs and the storage thread has nothing to do
AtRest == status = "up" /\ ~dirty /\ storePc \in {"wait", "asleep"}

\* Once the storage thread has nothing to do, a restart would find exactly the
\* files that are published now: no change made while it was writing is lost.
\* This is only so while no write of the index and no measurement has failed:
\* a failed write is not tried again until the next change.
QuietIndexRecoversAll ==
  AtRest /\ ioFailed = {} => index # Torn /\ Recovered = Listing

\* The size recorded for a file when its upload ends is the length the file has
\* at that moment, although it was measured in an earlier step.
PublishedSizeIsRight ==
  [][ \A f \in File :
        hash[f] = Pending /\ hash'[f] \in Info /\ "stat" \notin ioFailed
          => hash'[f].size = Len(disk'[f]) ]_vars

\* What the outside sees of a name: its registration, or the file's content
CatalogView == [f \in File |-> IF IsValidFile(f) THEN disk[f] ELSE hash[f]]

Catalog == INSTANCE BackupCatalog WITH
  Free <- Absent, Claimed <- Pending,
  catalog <- CatalogView, serving <- (status = "up")

\* One server run is a catalog: names are claimed by one upload, published
\* once, and the bytes of a published file never change until it is deleted.
ImplementsCatalog == Catalog!Spec

StoredAs(f, r) == index # Torn /\ Load(index)[f] = r

\* Every change of what is published reaches the index file, unless it is
\* undone first, the server stops or a write of the index fails: the storage
\* thread is never left asleep with something to store.
EveryChangeIsStored ==
  \A f \in File :
    \A r \in {Absent} \cup [size : 0 .. MaxLen, time : Time] :
      (status = "up" /\ Listing[f] = r)
        ~> (StoredAs(f, r) \/ Listing[f] # r \/ status # "up" \/ "store" \in ioFailed)

\* What VerifyFileLegality is said to ensure (src/data_manager.hpp:385): after a
\* restart the saved information and the stored files are both legal, so no
\* record has another size than its file.  It compares names only.
RecordsFitTheirFiles ==
  status = "up" /\ ioFailed = {} =>
    \A f \in File : IsValidFile(f) => hash[f].size = Len(disk[f])
=============================================================================
