------------------------------ MODULE Download ------------------------------
(***************************************************************************)
(* Downloads: process_download_request and sendFile of                     *)
(* src/HTTPconnection.hpp, on the registry and the cache of DataManager,   *)
(* while files are uploaded and deleted.                                   *)
(*                                                                         *)
(* A download holds a shared_ptr to the node it was requested for and      *)
(* comes back to the cache and to the directory by the file's NAME, piece  *)
(* by piece.  Between two pieces the name may be deleted and uploaded      *)
(* again.  Each call of DataManager is one action: it holds _rwlock, and   *)
(* _list_mutex where it touches the list.                                  *)
(*                                                                         *)
(* A byte is <<n, i>>: the i-th byte stored by the upload that ends with   *)
(* node n.                                                                 *)
(***************************************************************************)
EXTENDS DataManagerList

CONSTANTS
  Conn,        \* client connections
  File,        \* the names
  Absent,      \* no entry for a name in _hash
  Pending,     \* a nullptr entry: upload in progress
  NoFile,      \* no such file in the backup directory
  PieceSize,   \* LRU_file_content_size of the configuration
  ReadSize,    \* max_file_read_size of the configuration
  MaxLen       \* bound on the length of a file

ASSUME DownloadConstants ==
  /\ Absent # Pending
  /\ {Absent, Pending} \cap Node = {}
  /\ NoFile \notin Seq(Node \X Nat)
  /\ PieceSize \in Nat \ {0}
  /\ ReadSize \in Nat \ {0}
  /\ MaxLen \in Nat

VARIABLES
  hash,     \* _hash: Absent, Pending or the node
  size,     \* _info._size of each node
  disk,     \* the backup directory
  writer,   \* the node each upload in progress will end with
  used,     \* history: the nodes that exist or existed
  removed,  \* history: the names that have been deleted so far
  pc,       \* where each connection is in sendFile
  node,     \* file_info_node
  file,     \* file_info_node->_info._filename
  first,    \* history: start_pos of the request
  from,     \* start_pos
  to,       \* end_pos
  piece,    \* file_content
  body      \* history: what the response body consists of so far

store == <<hash, size, disk, writer, used, removed>>
request == <<node, file, first, to>>
vars == <<list, store, request, pc, from, piece, body>>

IsValidFile(f) == hash[f] \in Node

Goto(c, label) == pc' = [pc EXCEPT ![c] = label]

Smaller(a, b) == IF a < b THEN a ELSE b

-----------------------------------------------------------------------------
(* Uploads and deletions, as in BackupStore, with the nodes they make      *)

BeginUpload(f, n) ==
  /\ hash[f] = Absent
  /\ n \notin used
  /\ hash' = [hash EXCEPT ![f] = Pending]
  /\ disk' = [disk EXCEPT ![f] = << >>]
  /\ writer' = [writer EXCEPT ![f] = n]
  /\ used' = used \cup {n}
  /\ UNCHANGED <<list, size, removed, request, pc, from, piece, body>>

AppendUpload(f) ==
  /\ hash[f] = Pending
  /\ Len(disk[f]) < MaxLen
  /\ disk' = [disk EXCEPT ![f] = Append(@, <<writer[f], Len(@) + 1>>)]
  /\ UNCHANGED <<list, hash, size, writer, used, removed, request, pc, from, piece, body>>

EndUpload(f) ==
  /\ hash[f] = Pending
  /\ hash' = [hash EXCEPT ![f] = writer[f]]
  /\ size' = [size EXCEPT ![writer[f]] = Len(disk[f])]
  /\ writer' = [writer EXCEPT ![f] = Null]
  /\ UNCHANGED <<list, disk, used, removed, request, pc, from, piece, body>>

\* Deregister
AbandonUpload(f) ==
  /\ hash[f] = Pending
  /\ hash' = [hash EXCEPT ![f] = Absent]
  /\ disk' = [disk EXCEPT ![f] = NoFile]
  /\ writer' = [writer EXCEPT ![f] = Null]
  /\ UNCHANGED <<list, size, used, removed, request, pc, from, piece, body>>

\* Mutant: the node is left in the list
DeleteKeepsCached(f) ==
  /\ IsValidFile(f)
  /\ hash' = [hash EXCEPT ![f] = Absent]
  /\ disk' = [disk EXCEPT ![f] = NoFile]
  /\ removed' = removed \cup {f}
  /\ UNCHANGED <<list, size, writer, used, request, pc, from, piece, body>>

Delete(f) ==
  /\ IsValidFile(f)
  /\ list' = Remove(list, hash[f])
  /\ hash' = [hash EXCEPT ![f] = Absent]
  /\ disk' = [disk EXCEPT ![f] = NoFile]
  /\ removed' = removed \cup {f}
  /\ UNCHANGED <<size, writer, used, request, pc, from, piece, body>>

-----------------------------------------------------------------------------
(* A download                                                              *)

Idle(c) ==
  /\ Goto(c, "idle")
  /\ node' = [node EXCEPT ![c] = Null]
  /\ file' = [file EXCEPT ![c] = NoFile]
  /\ first' = [first EXCEPT ![c] = 0]
  /\ from' = [from EXCEPT ![c] = 0]
  /\ to' = [to EXCEPT ![c] = 0]
  /\ piece' = [piece EXCEPT ![c] = << >>]
  /\ body' = [body EXCEPT ![c] = << >>]

\* Mutant: end_pos is the position of the last byte
RequestLastByte(c, f, begin, end) ==
  /\ pc[c] = "idle"
  /\ IsValidFile(f)
  /\ Goto(c, "send")
  /\ node' = [node EXCEPT ![c] = hash[f]]
  /\ file' = [file EXCEPT ![c] = f]
  /\ first' = [first EXCEPT ![c] = begin]
  /\ from' = [from EXCEPT ![c] = begin]
  /\ to' = [to EXCEPT ![c] = Smaller(end + 1, size[hash[f]]) - 1]
  /\ UNCHANGED <<list, store, piece, body>>

\* The range asked for is [begin, end]; it counts only when the client has the
\* node's ETag.  The whole file is the range [0, size - 1].
Request(c, f, begin, end) ==
  /\ pc[c] = "idle"
  /\ IsValidFile(f)
  /\ Goto(c, "send")
  /\ node' = [node EXCEPT ![c] = hash[f]]
  /\ file' = [file EXCEPT ![c] = f]
  /\ first' = [first EXCEPT ![c] = begin]
  /\ from' = [from EXCEPT ![c] = begin]
  /\ to' = [to EXCEPT ![c] = Smaller(end + 1, size[hash[f]])]
  /\ UNCHANGED <<list, store, piece, body>>

\* start_pos >= end_pos: a warning, and no body
NothingToSend(c) ==
  /\ pc[c] = "send" /\ from[c] >= to[c]
  /\ Idle(c)
  /\ UNCHANGED <<list, store>>

\* Mutant: the cached beginning is taken for any piece of the file
CacheHitAnywhere(c) ==
  /\ pc[c] = "send" /\ from[c] < to[c]
  /\ IsValidFile(file[c]) /\ Linked(list, hash[file[c]])
  /\ list' = MoveToHead(list, hash[file[c]])
  /\ piece' = [piece EXCEPT ![c] = list.content[hash[file[c]]]]
  /\ Goto(c, IF list.content[hash[file[c]]] = << >> THEN "read" ELSE "respond")
  /\ UNCHANGED <<store, request, from, body>>

\* GetFilePreContent finds the node the name has NOW in the list
CacheHit(c) ==
  /\ pc[c] = "send" /\ from[c] < to[c] /\ from[c] = 0
  /\ IsValidFile(file[c]) /\ Linked(list, hash[file[c]])
  /\ list' = MoveToHead(list, hash[file[c]])
  /\ piece' = [piece EXCEPT ![c] = list.content[hash[file[c]]]]
  /\ Goto(c, IF list.content[hash[file[c]]] = << >> THEN "read" ELSE "respond")
  /\ UNCHANGED <<store, request, from, body>>

\* No call of GetFilePreContent, or it returns ""
CacheMiss(c) ==
  /\ pc[c] = "send" /\ from[c] < to[c]
  /\ from[c] = 0 => ~(IsValidFile(file[c]) /\ Linked(list, hash[file[c]]))
  /\ Goto(c, "read")
  /\ UNCHANGED <<list, store, request, from, piece, body>>

\* GetContent: the file that has the name now, from start_pos on
Read(c) ==
  LET bytes == disk[file[c]]
      length == Smaller(ReadSize, to[c] - from[c])
  IN  /\ pc[c] = "read"
      /\ bytes # NoFile
      /\ piece' = [piece EXCEPT
           ![c] = SubSeq(bytes, from[c] + 1, Smaller(from[c] + length, Len(bytes)))]
      /\ Goto(c, IF from[c] = 0 THEN "put" ELSE "respond")
      /\ UNCHANGED <<list, store, request, from, body>>

\* Mutant: the piece is tried again
ReadAgain(c) ==
  /\ pc[c] = "read"
  /\ Goto(c, "send")
  /\ UNCHANGED <<list, store, request, from, piece, body>>

\* GetContent fails: the connection is closed
ReadFails(c) ==
  /\ pc[c] = "read"
  /\ Idle(c)
  /\ UNCHANGED <<list, store>>

\* PutFilePreContent, for the node the name has NOW
Put(c) ==
  LET n == hash[file[c]]
      content == SubSeq(piece[c], 1, Smaller(PieceSize, Len(piece[c])))
  IN  /\ pc[c] = "put"
      /\ IsValidFile(file[c])
      /\ list' = IF Linked(list, n) THEN MoveToHead(list, n)
                                    ELSE PushToHead(list, n, content)
      /\ Goto(c, "respond")
      /\ UNCHANGED <<store, request, from, piece, body>>

\* PutFilePreContent returns false: the connection is closed
PutFails(c) ==
  /\ pc[c] = "put" /\ ~IsValidFile(file[c])
  /\ Idle(c)
  /\ UNCHANGED <<list, store>>

\* Mutant: one piece is taken for the whole of what was asked for
RespondOnce(c) ==
  /\ pc[c] = "respond"
  /\ Idle(c)
  /\ UNCHANGED <<list, store>>

\* The piece goes into _response_buffer, the download is over or goes on
Respond(c) ==
  /\ pc[c] = "respond"
  /\ IF from[c] + Len(piece[c]) < to[c]
     THEN /\ body' = [body EXCEPT ![c] = @ \o piece[c]]
          /\ from' = [from EXCEPT ![c] = @ + Len(piece[c])]
          /\ piece' = [piece EXCEPT ![c] = << >>]
          /\ Goto(c, "send")
          /\ UNCHANGED request
     ELSE Idle(c)
  /\ UNCHANGED <<list, store>>

\* The client is gone: _is_closed, looked at when a task starts
Closed(c) ==
  /\ pc[c] = "send"
  /\ Idle(c)
  /\ UNCHANGED <<list, store>>

-----------------------------------------------------------------------------

Init ==
  /\ list = EmptyList
  /\ hash = [f \in File |-> Absent]
  /\ size = [n \in Node |-> 0]
  /\ disk = [f \in File |-> NoFile]
  /\ writer = [f \in File |-> Null]
  /\ used = {}
  /\ removed = {}
  /\ pc = [c \in Conn |-> "idle"]
  /\ node = [c \in Conn |-> Null]
  /\ file = [c \in Conn |-> NoFile]
  /\ first = [c \in Conn |-> 0]
  /\ from = [c \in Conn |-> 0]
  /\ to = [c \in Conn |-> 0]
  /\ piece = [c \in Conn |-> << >>]
  /\ body = [c \in Conn |-> << >>]

SendFile(c) ==
  \/ NothingToSend(c) \/ CacheHit(c) \/ CacheMiss(c) \/ Read(c) \/ ReadFails(c)
  \/ Put(c) \/ PutFails(c) \/ Respond(c)

\* A range that starts behind the end of the file is worth one example
Next ==
  \/ \E f \in File :
       \/ \E n \in Node : BeginUpload(f, n)
       \/ AppendUpload(f)
       \/ EndUpload(f)
       \/ AbandonUpload(f)
       \/ Delete(f)
       \/ \E c \in Conn, begin, end \in 0 .. MaxLen : Request(c, f, begin, end)
  \/ \E c \in Conn : SendFile(c) \/ Closed(c)

\* sendFile queues itself, and the pool serves what is queued
Fairness == \A c \in Conn : WF_vars(SendFile(c))

Spec == Init /\ [][Next]_vars /\ Fairness

-----------------------------------------------------------------------------
(* Properties                                                              *)

Bytes == Seq(Node \X Nat)

TypeOK ==
  /\ list \in ListType(Bytes)
  /\ hash \in [File -> {Absent, Pending} \cup Node]
  /\ size \in [Node -> Nat]
  /\ disk \in [File -> {NoFile} \cup Bytes]
  /\ writer \in [File -> {Null} \cup Node]
  /\ used \subseteq Node
  /\ removed \subseteq File
  /\ pc \in [Conn -> {"idle", "send", "read", "put", "respond"}]
  /\ node \in [Conn -> {Null} \cup Node]
  /\ file \in [Conn -> {NoFile} \cup File]
  /\ first \in [Conn -> Nat]
  /\ from \in [Conn -> Nat]
  /\ to \in [Conn -> Nat]
  /\ piece \in [Conn -> Bytes]
  /\ body \in [Conn -> Bytes]

\* The list holds raw pointers.  Every node in it is owned by an entry of _hash,
\* so none of them is destroyed while it is linked.
LinkedNodesAreOwned ==
  \A n \in Node : Linked(list, n) => \E f \in File : hash[f] = n

\* What a download has for the response so far, with the piece in hand
Handed(c) == body[c] \o piece[c]

\* All of it is the first piece of the file, which the cache hands out uncut
OneCachedPiece(c) ==
  first[c] = 0 /\ body[c] = << >> /\ Len(piece[c]) <= PieceSize

\* While no file of its name has been deleted, a response consists of the bytes
\* of the file that was asked for, from the first one asked for on, without a
\* gap or a repetition, wherever each piece came from.  It never goes beyond
\* the last one asked for, unless it is one cached beginning.
BodiesAreExact ==
  \A c \in Conn : pc[c] # "idle" /\ file[c] \notin removed =>
    /\ \A i \in 1 .. Len(Handed(c)) : Handed(c)[i] = <<node[c], first[c] + i>>
    /\ \/ Handed(c) = << >>
       \/ first[c] + Len(Handed(c)) <= to[c]
       \/ OneCachedPiece(c)

\* The last piece of a response
EndsWithPiece(c) == pc[c] = "respond" /\ pc'[c] = "idle"

\* While no file of its name has been deleted, a response that is sent to its
\* end has exactly as many bytes as were asked for; the one exception is a
\* cached beginning that is longer than that.
ResponsesAreWhole ==
  [][ \A c \in Conn : EndsWithPiece(c) /\ file[c] \notin removed =>
        \/ first[c] + Len(Handed(c)) = to[c]
        \/ OneCachedPiece(c) /\ Len(Handed(c)) > to[c] ]_vars

\* What sendFile is said to do (src/HTTPconnection.hpp:625): what it adds is the
\* body of the response whose header is in the buffer already.  That header
\* gives the length, end_pos - start_pos (src/HTTPconnection.hpp:476).
LengthIsAsPromised ==
  [][ \A c \in Conn : EndsWithPiece(c) /\ file[c] \notin removed =>
        Len(Handed(c)) = to[c] - first[c] ]_vars

\* Every download ends while no file of its name is deleted.
DownloadEnds ==
  \A c \in Conn : pc[c] = "send" ~> (pc[c] = "idle" \/ file[c] \in removed)

\* What _file_pre_content is said to be (src/data_manager.hpp:28): the beginning
\* of the node's file.
CachedContentIsTheBeginning ==
  \A f \in File : IsValidFile(f) /\ disk[f] # NoFile =>
    LET content == list.content[hash[f]]
    IN  /\ Len(content) <= Len(disk[f])
        /\ \A i \in 1 .. Len(content) : content[i] = disk[f][i]
=============================================================================
