---------------------------- MODULE DataManager ----------------------------
(***************************************************************************)
(* The DataManager singleton of src/data_manager.hpp: the registry of      *)
(* backup files, the backup directory it creates and unlinks files in, and *)
(* the index file the storage thread rewrites asynchronously.              *)
(*                                                                         *)
(* Register, Deregister, Insert and Delete each hold _rwlock exclusively   *)
(* from the first line to the last, so each is one action on the shared    *)
(* state.  The storage thread holds the lock only while it takes its       *)
(* snapshot; its file operations are separate steps.  A crash keeps `disk' *)
(* and `index' and loses everything else.                                  *)
(*                                                                         *)
(* A file's content is a sequence over Byte; the JSON text of the index is *)
(* the map of records it encodes, with two further values: Empty (the text *)
(* is "") and Torn (a proper prefix of the JSON text, unparsable).         *)
(*                                                                         *)
(* RemoveRegularFile (src/util.hpp:205) removes the file or throws, and    *)
(* nobody catches it: a removal the system refuses ends the process, which *)
(* is the action DMCrash (RestartDies at start-up), not a branch here.     *)
(***************************************************************************)
EXTENDS Integers, Sequences

CONSTANTS
  File,     \* the names clients may upload (all pass check_filename)
  Byte,     \* the alphabet of file contents
  Time,     \* the values time(nullptr) may return
  Absent,   \* no entry for a name in _hash
  Pending,  \* a nullptr entry: registered, upload not finished
  NoFile,   \* no such file in the backup directory
  Empty,    \* the index file is empty
  Torn      \* the index file holds a truncated JSON text

\* BackupInfoNode, without the name it is filed under
Info == [size : Int, time : Time]

Content == Seq(Byte)

\* What an index text decodes to
Records == [File -> {Absent} \cup Info]

NoRecords == [f \in File |-> Absent]

ASSUME ConstantsDiffer ==
  /\ Absent # Pending
  /\ Absent \notin Info
  /\ Pending \notin Info
  /\ NoFile \notin Content
  /\ Empty # Torn
  /\ Empty \notin Records
  /\ Torn \notin Records

VARIABLES
  hash,      \* _hash: Absent, Pending (nullptr) or the node's info
  disk,      \* the backup directory: NoFile or the bytes of the file
  dirty,     \* _is_dirty
  index,     \* the content of _file, the index file
  storePc,   \* where FileStorageThread is in its loop
  root,      \* the Json::Value it has built and not yet written
  status,    \* "up", "down" (crashed) or "failed" (exited at start-up)
  ioFailed   \* history: the kinds of file operation that have failed so far:
             \* "store", a write of the index; "stat", a measurement

dmVars == <<hash, disk, dirty, index, storePc, root, status, ioFailed>>

-----------------------------------------------------------------------------
(* The registry                                                            *)

IsValidFile(f) == hash[f] \notin {Absent, Pending}

Forget(f) == hash' = [hash EXCEPT ![f] = Absent]

\* if (target_file.Exists() && target_file.RemoveRegularFile() == false): false
\* only says that the file is gone already
Unlink(f) == disk' = [disk EXCEPT ![f] = NoFile]

\* _file_storage_cond.notify_all()
NotifyAll == IF storePc = "asleep" THEN "wait" ELSE storePc

\* Mutant: a name already in _hash is registered again
RegisterTwice(f) ==
  /\ hash' = [hash EXCEPT ![f] = Pending]
  /\ disk' = [disk EXCEPT ![f] = << >>]
  /\ UNCHANGED <<dirty, storePc, ioFailed>>

\* The accepted outcome: the file is created, or cleared if it is a leftover.
\* A refused name (already in _hash) or a failed Clear/AppendContent returns
\* false and changes nothing.
Register(f) ==
  /\ hash[f] = Absent
  /\ hash' = [hash EXCEPT ![f] = Pending]
  /\ disk' = [disk EXCEPT ![f] = << >>]
  /\ UNCHANGED <<dirty, storePc, ioFailed>>

\* Mutant: the registry forgets the name and the file stays
DeregisterKeepsFile(f) ==
  /\ Forget(f)
  /\ UNCHANGED <<disk, dirty, storePc, ioFailed>>

\* A name that is not in _hash only earns a warning: the file goes anyway
Deregister(f) ==
  /\ Forget(f)
  /\ Unlink(f)
  /\ UNCHANGED <<dirty, storePc, ioFailed>>

\* Mutant: the storage thread is not told
InsertQuietly(f, size, time) ==
  /\ hash' = IF hash[f] = Pending
             THEN [hash EXCEPT ![f] = [size |-> size, time |-> time]]
             ELSE hash
  /\ dirty' = (dirty \/ hash[f] = Pending)
  /\ UNCHANGED <<disk, storePc, ioFailed>>

Insert(f, size, time) ==
  /\ hash' = IF hash[f] = Pending
             THEN [hash EXCEPT ![f] = [size |-> size, time |-> time]]
             ELSE hash
  /\ dirty' = (dirty \/ hash[f] = Pending)
  /\ storePc' = IF hash[f] = Pending THEN NotifyAll ELSE storePc
  /\ UNCHANGED <<disk, ioFailed>>

Delete(f) ==
  /\ IsValidFile(f)
  /\ Forget(f)
  /\ Unlink(f)
  /\ dirty' = TRUE
  /\ storePc' = NotifyAll
  /\ UNCHANGED ioFailed

-----------------------------------------------------------------------------
(* The storage thread: snapshot under the lock, then Clear, then Append.   *)
(* At "wait" it is about to look at _is_dirty; "asleep" it is inside the   *)
(* condition variable, which it leaves only when notified or spuriously.   *)

Listing == [f \in File |-> IF IsValidFile(f) THEN hash[f] ELSE Absent]

\* Mutant: uploads in progress are written to the index too
SnapshotEverything ==
  /\ storePc = "wait" /\ dirty
  /\ root' = hash
  /\ dirty' = FALSE
  /\ storePc' = "clear"
  /\ UNCHANGED <<hash, disk, index, status, ioFailed>>

\* The predicate of the wait is false
StoreSleep ==
  /\ status = "up" /\ storePc = "wait" /\ ~dirty
  /\ storePc' = "asleep"
  /\ UNCHANGED <<hash, disk, dirty, index, root, status, ioFailed>>

\* A wake-up nobody asked for, which the standard allows
StoreWakesUp ==
  /\ storePc = "asleep"
  /\ storePc' = "wait"
  /\ UNCHANGED <<hash, disk, dirty, index, root, status, ioFailed>>

StoreSnapshot ==
  /\ storePc = "wait" /\ dirty
  /\ root' = Listing
  /\ dirty' = FALSE
  /\ storePc' = "clear"
  /\ UNCHANGED <<hash, disk, index, status, ioFailed>>

StoreClear ==
  /\ storePc = "clear"
  /\ index' = Empty
  /\ storePc' = "append"
  /\ UNCHANGED <<hash, disk, dirty, root, status, ioFailed>>

StoreAppend ==
  /\ storePc = "append"
  /\ index' = Torn
  /\ storePc' = "writing"
  /\ UNCHANGED <<hash, disk, dirty, root, status, ioFailed>>

\* Mutant: changes made while the thread was writing are taken as stored
StoreDoneClearsDirty ==
  /\ storePc = "writing"
  /\ index' = root
  /\ storePc' = "wait"
  /\ dirty' = FALSE
  /\ UNCHANGED <<hash, disk, root, status, ioFailed>>

StoreDone ==
  /\ storePc = "writing"
  /\ index' = root
  /\ storePc' = "wait"
  /\ UNCHANGED <<hash, disk, dirty, root, status, ioFailed>>

\* Clear or AppendContent returns false, `continue'; or it returns true though
\* its text was lost when the file was closed (src/util.hpp:129 looks at nothing).
\* Either way the index stays as the previous step left it and _is_dirty false.
StoreFails ==
  /\ storePc \in {"clear", "append", "writing"}
  /\ storePc' = "wait"
  /\ ioFailed' = ioFailed \cup {"store"}
  /\ UNCHANGED <<hash, disk, dirty, index, root, status>>

StoreProgress == StoreSleep \/ StoreSnapshot \/ StoreClear \/ StoreAppend \/ StoreDone

StorageThread == StoreProgress \/ StoreFails \/ StoreWakesUp

-----------------------------------------------------------------------------
(* Start-up: LoadFromFile, then VerifyFileLegality                         *)

Load(text) ==
  IF text = Empty
  THEN NoRecords
  ELSE [f \in File |-> IF text[f] # Absent /\ text[f].size >= 0
                       THEN text[f]
                       ELSE Absent]

\* _hash after both: a record whose file is missing is dropped
Recovered ==
  [f \in File |-> IF disk[f] = NoFile THEN Absent ELSE Load(index)[f]]

Unknown == {f \in File : disk[f] # NoFile /\ Load(index)[f] = Absent}

DiskWithout(gone) == [f \in File |-> IF f \in gone THEN NoFile ELSE disk[f]]

\* A constructor run.  Files no record names are removed from the directory.
Restart ==
  /\ status = "down" /\ index # Torn
  /\ hash' = Recovered
  /\ dirty' = (Recovered # Load(index))
  /\ disk' = DiskWithout(Unknown)
  /\ status' = "up"
  /\ UNCHANGED <<index, storePc, root, ioFailed>>

\* The process dies in its constructor, with some of those files removed: a
\* removal is refused, or any other crash
RestartDies ==
  /\ status = "down" /\ index # Torn
  /\ \E gone \in SUBSET Unknown : disk' = DiskWithout(gone)
  /\ UNCHANGED <<hash, dirty, index, storePc, root, status, ioFailed>>

\* Deserialize fails: exit(DATA_MANAGER_INIT_ERROR)
RestartFails ==
  /\ status = "down" /\ index = Torn
  /\ status' = "failed"
  /\ UNCHANGED <<hash, disk, dirty, index, storePc, root, ioFailed>>

\* The process dies: memory goes, files stay
DMCrash ==
  /\ status = "up"
  /\ status' = "down"
  /\ hash' = NoRecords
  /\ dirty' = FALSE
  /\ storePc' = "wait"
  /\ root' = NoRecords
  /\ UNCHANGED <<disk, index, ioFailed>>

\* First start: no index file, so AppendContent("null"), and no backup files
DMInit ==
  /\ hash = NoRecords
  /\ disk = [f \in File |-> NoFile]
  /\ dirty = FALSE
  /\ index = NoRecords
  /\ storePc = "wait"
  /\ root = NoRecords
  /\ status = "up"
  /\ ioFailed = {}

DMTypeOK ==
  /\ hash \in [File -> {Absent, Pending} \cup Info]
  /\ disk \in [File -> {NoFile} \cup Content]
  /\ dirty \in BOOLEAN
  /\ index \in Records \cup {Empty, Torn}
  /\ storePc \in {"wait", "asleep", "clear", "append", "writing"}
  /\ root \in Records
  /\ status \in {"up", "down", "failed"}
  /\ ioFailed \subseteq {"store", "stat"}
=============================================================================
