--------------------------- MODULE DownloadProofs ---------------------------
(***************************************************************************)
(* Safety of Download for any number of connections, names, uploads and    *)
(* bytes.  The invariant is built in layers, each inductive relative to    *)
(* the ones before it: types and the ring of cached nodes, the nodes of    *)
(* the entries, the owners of linked nodes, the files; the cached contents *)
(* and the downloads rest on each other.                                   *)
(***************************************************************************)
EXTENDS Download, DataManagerListProofs, SequenceTheorems

\* Types, and what they rest on: what a removal leaves in _size is a number only
\* because of the ring, an upload in progress has a node and a file, and a
\* download has a name.
Typed ==
  /\ TypeOK
  /\ Ring(list) /\ list.size <= Capacity
  /\ \A f \in File : hash[f] = Pending => writer[f] \in Node /\ disk[f] # NoFile
  /\ \A c \in Conn : pc[c] # "idle" => file[c] \in File

\* The node an upload will end with is its own, and nobody else's.
WritersAreNew ==
  \A f \in File :
    /\ writer[f] \in Node <=> hash[f] = Pending
    /\ hash[f] \in Node => hash[f] \in used
    /\ writer[f] \in Node => writer[f] \in used
    /\ \A g \in File :
         /\ g # f /\ hash[f] \in Node => hash[g] # hash[f]
         /\ g # f /\ writer[f] \in Node => writer[g] # writer[f]
         /\ writer[f] \in Node => hash[g] # writer[f]

\* The bytes at `s' are those of the upload of n that follow its first k.
Exact(s, n, k) == \A i \in 1 .. Len(s) : s[i] = <<n, k + i>>

\* A registered file holds the bytes of its upload, and a published one as many
\* as its record says.
FilesAreExact ==
  \A f \in File :
    /\ hash[f] = Pending => disk[f] # NoFile /\ Exact(disk[f], writer[f], 0)
    /\ hash[f] \in Node => /\ disk[f] # NoFile
                           /\ Exact(disk[f], hash[f], 0)

\* While no file of the name has been deleted, what is cached for its node is the
\* beginning of its file.
CacheIsExact ==
  \A f \in File :
    hash[f] \in Node /\ f \notin removed => Exact(list.content[hash[f]], hash[f], 0)

\* No more than the beginning of a file is cached.
CacheIsShort == \A n \in Node : Len(list.content[n]) <= PieceSize

\* What is known of a download in each of its steps, while no file of its name
\* has been deleted.
DownloadIsExact(c) ==
  /\ node[c] \in Node /\ node[c] = hash[file[c]]
  /\ from[c] = first[c] + Len(body[c])
  /\ Exact(body[c], node[c], first[c])
  /\ Exact(piece[c], node[c], from[c])
  /\ pc[c] \in {"send", "read"} => piece[c] = << >>
  /\ pc[c] \in {"read", "put", "respond"} => from[c] < to[c]
  /\ pc[c] = "put" => from[c] = 0
  /\ \/ piece[c] = << >> /\ body[c] = << >>
     \/ from[c] + Len(piece[c]) <= to[c]
     \/ OneCachedPiece(c)

DownloadsAreExact ==
  \A c \in Conn :
    /\ pc[c] = "idle" => piece[c] = << >> /\ body[c] = << >>
    /\ pc[c] # "idle" /\ file[c] \notin removed => DownloadIsExact(c)

Inv ==
  /\ Typed
  /\ LinkedNodesAreOwned
  /\ WritersAreNew
  /\ FilesAreExact
  /\ CacheIsExact
  /\ CacheIsShort
  /\ DownloadsAreExact

-----------------------------------------------------------------------------
(* Sequences of bytes                                                      *)

LEMMA PiecesOf ==
  ASSUME NEW s \in Bytes, NEW a \in Nat, NEW b \in Nat, b <= Len(s)
  PROVE  /\ SubSeq(s, a + 1, b) \in Bytes
         /\ Len(SubSeq(s, a + 1, b)) = IF a < b THEN b - a ELSE 0
         /\ \A i \in 1 .. Len(SubSeq(s, a + 1, b)) : SubSeq(s, a + 1, b)[i] = s[a + i]
<1>1. \A i \in a + 1 .. b : s[i] \in Node \X Nat
  BY DEF Bytes
<1>2. a + 1 \in Int /\ b \in Int
  OBVIOUS
<1>3. /\ SubSeq(s, a + 1, b) \in Seq(Node \X Nat)
      /\ Len(SubSeq(s, a + 1, b)) = IF a + 1 <= b THEN b - (a + 1) + 1 ELSE 0
      /\ \A i \in 1 .. b - (a + 1) + 1 : SubSeq(s, a + 1, b)[i] = s[(a + 1) + i - 1]
  BY <1>1, <1>2, SubSeqProperties
<1> QED BY <1>3 DEF Bytes

\* A piece of a file that is exact is exact from where it starts.
LEMMA ExactPiece ==
  ASSUME NEW s \in Bytes, NEW n, Exact(s, n, 0), NEW a \in Nat, NEW b \in Nat, b <= Len(s)
  PROVE  Exact(SubSeq(s, a + 1, b), n, a)
<1> SUFFICES ASSUME NEW i \in 1 .. Len(SubSeq(s, a + 1, b))
             PROVE  SubSeq(s, a + 1, b)[i] = <<n, a + i>>
  BY DEF Exact
<1>1. a + i \in 1 .. Len(s) /\ SubSeq(s, a + 1, b)[i] = s[a + i]
  <2>1. Len(s) \in Nat
    BY DEF Bytes
  <2> QED BY <2>1, PiecesOf
<1>2. s[a + i] = <<n, 0 + (a + i)>>
  BY <1>1 DEF Exact
<1> QED BY <1>1, <1>2

\* Two pieces that follow each other.
LEMMA ExactConcat ==
  ASSUME NEW s \in Bytes, NEW t \in Bytes, NEW n, NEW k \in Nat,
         Exact(s, n, k), Exact(t, n, k + Len(s))
  PROVE  /\ s \o t \in Bytes /\ Len(s \o t) = Len(s) + Len(t)
         /\ Exact(s \o t, n, k)
<1>1. /\ s \o t \in Bytes
      /\ Len(s \o t) = Len(s) + Len(t)
      /\ \A i \in 1 .. Len(s) + Len(t) : (s \o t)[i] = IF i <= Len(s) THEN s[i] ELSE t[i - Len(s)]
  BY ConcatProperties DEF Bytes
<1>2. Len(s) \in Nat /\ Len(t) \in Nat
  BY DEF Bytes
<1>3. ASSUME NEW i \in 1 .. Len(s) + Len(t) PROVE (s \o t)[i] = <<n, k + i>>
  <2>1. CASE i <= Len(s)
    <3>1. i \in 1 .. Len(s)
      BY <1>2, <2>1
    <3> QED BY <1>1, <2>1, <3>1 DEF Exact
  <2>2. CASE ~(i <= Len(s))
    <3>1. i - Len(s) \in 1 .. Len(t) /\ k + Len(s) + (i - Len(s)) = k + i
      BY <1>2, <2>2
    <3>2. t[i - Len(s)] = <<n, k + Len(s) + (i - Len(s))>>
      BY <3>1 DEF Exact
    <3> QED BY <1>1, <2>2, <3>1, <3>2
  <2> QED BY <2>1, <2>2
<1> QED BY <1>1, <1>3 DEF Exact

LEMMA ExactEmpty == \A n, k : Exact(<< >>, n, k)
BY DEF Exact

-----------------------------------------------------------------------------
(* Types and the ring                                                      *)

\* The actions one by one.
LEMMA NextCases ==
  ASSUME [Next]_vars
  PROVE  \/ \E f \in File : \E n \in Node : BeginUpload(f, n)
         \/ \E f \in File : AppendUpload(f)
         \/ \E f \in File : EndUpload(f)
         \/ \E f \in File : AbandonUpload(f)
         \/ \E f \in File : Delete(f)
         \/ \E f \in File, c \in Conn : \E begin, end \in Nat : Request(c, f, begin, end)
         \/ \E c \in Conn : NothingToSend(c)
         \/ \E c \in Conn : CacheHit(c)
         \/ \E c \in Conn : CacheMiss(c)
         \/ \E c \in Conn : Read(c)
         \/ \E c \in Conn : ReadFails(c)
         \/ \E c \in Conn : Put(c)
         \/ \E c \in Conn : PutFails(c)
         \/ \E c \in Conn : Respond(c)
         \/ \E c \in Conn : Closed(c)
         \/ UNCHANGED vars
BY DownloadConstants DEF Next, SendFile

\* What an action may do to the list.
ListStep ==
  \/ list' = list
  \/ \E n \in Node : list' = Remove(list, n)
  \/ \E n \in Node : Linked(list, n) /\ list' = MoveToHead(list, n)
  \/ \E n \in Node, v \in Bytes : ~Linked(list, n) /\ list' = PushToHead(list, n, v)

LEMMA EmptyIsBytes == << >> \in Bytes
BY DEF Bytes

LEMMA ListKept ==
  ASSUME Typed, ListStep
  PROVE  list' \in ListType(Bytes) /\ Ring(list') /\ list'.size <= Capacity
<1>1. list \in ListType(Bytes) /\ Ring(list) /\ list.size <= Capacity /\ list.size \in Nat
  BY DEF Typed, TypeOK, ListType
<1>2. CASE list' = list
  BY <1>1, <1>2
<1>3. ASSUME NEW n \in Node, list' = Remove(list, n)
      PROVE  list' \in ListType(Bytes) /\ Ring(list') /\ list'.size <= Capacity
  <2>1. /\ Remove(list, n) \in ListType(Bytes) /\ Ring(Remove(list, n))
        /\ Remove(list, n).size = IF Linked(list, n) THEN list.size - 1 ELSE list.size
    BY <1>1, EmptyIsBytes, RemoveFacts
  <2> QED BY <1>1, <1>3, <2>1, CacheConstants
<1>4. ASSUME NEW n \in Node, Linked(list, n), list' = MoveToHead(list, n)
      PROVE  list' \in ListType(Bytes) /\ Ring(list') /\ list'.size <= Capacity
  BY <1>1, <1>4, EmptyIsBytes, MoveFacts
<1>5. ASSUME NEW n \in Node, NEW v \in Bytes, ~Linked(list, n), list' = PushToHead(list, n, v)
      PROVE  list' \in ListType(Bytes) /\ Ring(list') /\ list'.size <= Capacity
  BY <1>1, <1>5, EmptyIsBytes, PushFacts
<1> QED BY <1>2, <1>3, <1>4, <1>5 DEF ListStep

LEMMA InitTyped == Init => Typed
<1>1. /\ EmptyList \in ListType(Bytes) /\ EmptyList.size = 0 /\ Ring(EmptyList)
  BY EmptyIsBytes, EmptyFacts
<1> QED BY <1>1, EmptyIsBytes, CacheConstants, DownloadConstants DEF Init, Typed, TypeOK

\* What PutFilePreContent takes of the piece.
LEMMA PutContent ==
  ASSUME TypeOK, NEW c \in Conn
  PROVE  /\ SubSeq(piece[c], 1, Smaller(PieceSize, Len(piece[c]))) \in Bytes
         /\ piece[c] \in Bytes /\ Len(piece[c]) \in Nat
<1>1. piece[c] \in Bytes /\ Len(piece[c]) \in Nat
  BY DEF TypeOK, Bytes
<1>2. /\ Smaller(PieceSize, Len(piece[c])) \in Nat
      /\ Smaller(PieceSize, Len(piece[c])) <= Len(piece[c])
  BY <1>1, DownloadConstants DEF Smaller
<1>3. SubSeq(piece[c], 0 + 1, Smaller(PieceSize, Len(piece[c]))) \in Bytes
  BY <1>1, <1>2, PiecesOf
<1> QED BY <1>1, <1>3

\* Every action treats the list as one of its operations.
LEMMA NextIsListStep == Typed /\ [Next]_vars => ListStep
<1> SUFFICES ASSUME Typed, [Next]_vars PROVE ListStep
  OBVIOUS
<1>1. ASSUME NEW f \in File, Delete(f) PROVE ListStep
  BY <1>1 DEF Delete, ListStep, IsValidFile
<1>2. ASSUME NEW c \in Conn, CacheHit(c) PROVE ListStep
  BY <1>2 DEF CacheHit, ListStep, IsValidFile
<1>3. ASSUME NEW c \in Conn, Put(c) PROVE ListStep
  <2>1. SubSeq(piece[c], 1, Smaller(PieceSize, Len(piece[c]))) \in Bytes
    BY PutContent DEF Typed
  <2> QED BY <1>3, <2>1 DEF Put, ListStep, IsValidFile
<1>4. CASE UNCHANGED list
  BY <1>4 DEF ListStep
<1> QED
  BY <1>1, <1>2, <1>3, <1>4, NextCases
  DEF BeginUpload, AppendUpload, EndUpload, AbandonUpload, Request, NothingToSend, CacheMiss,
      Read, ReadFails, PutFails, Respond, Closed, vars

LEMMA NextTyped == Typed /\ [Next]_vars => Typed'
<1> SUFFICES ASSUME Typed, [Next]_vars PROVE Typed'
  OBVIOUS
<1>1. list' \in ListType(Bytes) /\ Ring(list') /\ list'.size <= Capacity
  BY NextIsListStep, ListKept
<1> USE EmptyIsBytes, DownloadConstants DEF Typed, TypeOK
<1>2. ASSUME NEW f \in File, NEW n \in Node, BeginUpload(f, n) PROVE Typed'
  <2>1. << >> # NoFile
    BY DEF Bytes
  <2> QED BY <1>1, <1>2, <2>1 DEF BeginUpload, request
<1>3. ASSUME NEW f \in File, AppendUpload(f) PROVE Typed'
  <2>1. /\ disk[f] \in Bytes /\ writer[f] \in Node
        /\ Append(disk[f], <<writer[f], Len(disk[f]) + 1>>) \in Bytes
    BY <1>3 DEF AppendUpload, Bytes
  <2>2. Append(disk[f], <<writer[f], Len(disk[f]) + 1>>) # NoFile
    BY <2>1 DEF Bytes
  <2> QED BY <1>1, <1>3, <2>1, <2>2 DEF AppendUpload, request
<1>4. ASSUME NEW f \in File, EndUpload(f) PROVE Typed'
  <2>1. writer[f] \in Node /\ Len(disk[f]) \in Nat
    BY <1>4 DEF EndUpload, Bytes
  <2> QED BY <1>1, <1>4, <2>1 DEF EndUpload, request
<1>5. ASSUME NEW f \in File, AbandonUpload(f) PROVE Typed'
  BY <1>1, <1>5 DEF AbandonUpload, request
<1>6. ASSUME NEW f \in File, Delete(f) PROVE Typed'
  BY <1>1, <1>6 DEF Delete, IsValidFile, request
<1>7. ASSUME NEW c \in Conn, NEW f \in File, NEW begin \in Nat, NEW end \in Nat,
             Request(c, f, begin, end)
      PROVE  Typed'
  <2>1. Smaller(end + 1, size[hash[f]]) \in Nat
    BY <1>7 DEF Request, IsValidFile, Smaller
  <2> QED BY <1>1, <1>7, <2>1 DEF Request, IsValidFile, Goto, store
<1>8. ASSUME NEW c \in Conn, Idle(c), UNCHANGED store PROVE Typed'
  BY <1>1, <1>8 DEF Idle, Goto, store
<1>9. ASSUME NEW c \in Conn, CacheHit(c) PROVE Typed'
  <2>1. list.content[hash[file[c]]] \in Bytes
    BY <1>9 DEF CacheHit, IsValidFile, ListType
  <2> QED BY <1>1, <1>9, <2>1 DEF CacheHit, Goto, store, request
<1>10. ASSUME NEW c \in Conn, CacheMiss(c) PROVE Typed'
  BY <1>1, <1>10 DEF CacheMiss, Goto, store, request
<1>11. ASSUME NEW c \in Conn, Read(c) PROVE Typed'
  <2> DEFINE bytes == disk[file[c]]
             end == Smaller(from[c] + Smaller(ReadSize, to[c] - from[c]), Len(bytes))
  <2>1. bytes \in Bytes /\ Len(bytes) \in Nat
    BY <1>11 DEF Read, Bytes
  <2>2. end \in Nat /\ end <= Len(bytes)
    <3>1. Smaller(ReadSize, to[c] - from[c]) \in Int
      BY DEF Smaller
    <3> QED BY <2>1, <3>1 DEF Smaller
  <2>3. SubSeq(bytes, from[c] + 1, end) \in Bytes
    BY <2>1, <2>2, PiecesOf
  <2> QED BY <1>1, <1>11, <2>3 DEF Read, Goto, store, request
<1>12. ASSUME NEW c \in Conn, Put(c) PROVE Typed'
  BY <1>1, <1>12 DEF Put, Goto, store, request
<1>13. ASSUME NEW c \in Conn, Respond(c) PROVE Typed'
  <2>1. CASE from[c] + Len(piece[c]) < to[c]
    <3>1. /\ body[c] \o piece[c] \in Bytes
          /\ from[c] + Len(piece[c]) \in Nat
      BY DEF Bytes
    <3>2. /\ body' = [body EXCEPT ![c] = body[c] \o piece[c]]
          /\ from' = [from EXCEPT ![c] = from[c] + Len(piece[c])]
          /\ piece' = [piece EXCEPT ![c] = << >>]
          /\ pc' = [pc EXCEPT ![c] = "send"] /\ pc[c] = "respond"
          /\ UNCHANGED <<list, store, request>>
      BY <1>13, <2>1 DEF Respond, Goto
    <3> QED BY <1>1, <3>1, <3>2 DEF store, request
  <2> QED BY <1>8, <1>13, <2>1 DEF Respond
<1>14. CASE UNCHANGED vars
  BY <1>1, <1>14 DEF vars, store, request
<1> QED
  BY <1>2, <1>3, <1>4, <1>5, <1>6, <1>7, <1>8, <1>9, <1>10, <1>11, <1>12, <1>13, <1>14, NextCases
  DEF NothingToSend, ReadFails, PutFails, Closed

-----------------------------------------------------------------------------
(* The nodes of the entries                                                *)

\* Only an upload and a deletion change an entry.
LEMMA EntriesChange ==
  ASSUME [Next]_vars
  PROVE  \/ \E f \in File, n \in Node : BeginUpload(f, n)
         \/ \E f \in File : EndUpload(f)
         \/ \E f \in File : AbandonUpload(f)
         \/ \E f \in File : Delete(f)
         \/ UNCHANGED <<hash, writer, used>>
BY NextCases
DEF AppendUpload, Request, NothingToSend, CacheHit, CacheMiss, Read, ReadFails, Put, PutFails,
    Respond, Closed, vars, store

LEMMA NextWriters == Typed /\ WritersAreNew /\ [Next]_vars => WritersAreNew'
<1> SUFFICES ASSUME Typed, WritersAreNew, [Next]_vars PROVE WritersAreNew'
  OBVIOUS
<1>1. /\ hash \in [File -> {Absent, Pending} \cup Node]
      /\ writer \in [File -> {Null} \cup Node]
  BY DEF Typed, TypeOK
<1> USE <1>1, CacheConstants, DownloadConstants DEF WritersAreNew
<1>2. ASSUME NEW f \in File, NEW n \in Node, BeginUpload(f, n) PROVE WritersAreNew'
  BY <1>2 DEF BeginUpload
<1>3. ASSUME NEW f \in File, EndUpload(f) PROVE WritersAreNew'
  BY <1>3 DEF EndUpload
<1>4. ASSUME NEW f \in File, AbandonUpload(f) PROVE WritersAreNew'
  BY <1>4 DEF AbandonUpload
<1>5. ASSUME NEW f \in File, Delete(f) PROVE WritersAreNew'
  BY <1>5 DEF Delete, IsValidFile
<1>6. CASE UNCHANGED <<hash, writer, used>>
  BY <1>6
<1> QED BY <1>2, <1>3, <1>4, <1>5, <1>6, EntriesChange

-----------------------------------------------------------------------------
(* The owners of linked nodes                                              *)

LEMMA NextOwned ==
  Typed /\ WritersAreNew /\ LinkedNodesAreOwned /\ [Next]_vars => LinkedNodesAreOwned'
<1> SUFFICES ASSUME Typed, WritersAreNew, LinkedNodesAreOwned, [Next]_vars
             PROVE  LinkedNodesAreOwned'
  OBVIOUS
<1>1. /\ list \in ListType(Bytes) /\ Ring(list) /\ list.size <= Capacity
      /\ hash \in [File -> {Absent, Pending} \cup Node]
  BY DEF Typed, TypeOK
<1>2. \A f, g \in File : hash[f] \in Node /\ g # f => hash[g] # hash[f]
  BY DEF WritersAreNew
<1> USE DEF LinkedNodesAreOwned
<1>3. ASSUME NEW f \in File, Delete(f) PROVE LinkedNodesAreOwned'
  <2>1. hash[f] \in Node /\ list' = Remove(list, hash[f]) /\ hash' = [hash EXCEPT ![f] = Absent]
    BY <1>3 DEF Delete, IsValidFile
  <2>2. \A a \in Node : Linked(Remove(list, hash[f]), a) => Linked(list, a) /\ a # hash[f]
    <3>1. PICK n \in Node : n = hash[f]
      BY <2>1
    <3>2. \A a \in Node : Linked(Remove(list, n), a) => Linked(list, a) /\ a # n
      BY <1>1, EmptyIsBytes, RemoveFacts
    <3> QED BY <3>1, <3>2
  <2> QED BY <1>1, <2>1, <2>2
<1>4. ASSUME NEW c \in Conn, CacheHit(c) PROVE LinkedNodesAreOwned'
  <2>1. /\ hash[file[c]] \in Node /\ Linked(list, hash[file[c]])
        /\ list' = MoveToHead(list, hash[file[c]]) /\ hash' = hash
    BY <1>4 DEF CacheHit, IsValidFile, store
  <2>2. \A a \in Node : Linked(MoveToHead(list, hash[file[c]]), a) => Linked(list, a)
    BY <1>1, <2>1, EmptyIsBytes, MoveFacts
  <2> QED BY <2>1, <2>2
<1>5. ASSUME NEW c \in Conn, Put(c) PROVE LinkedNodesAreOwned'
  <2> DEFINE n == hash[file[c]]
             v == SubSeq(piece[c], 1, Smaller(PieceSize, Len(piece[c])))
  <2>1. /\ n \in Node /\ file[c] \in File /\ hash' = hash
        /\ list' = IF Linked(list, n) THEN MoveToHead(list, n) ELSE PushToHead(list, n, v)
    BY <1>5 DEF Put, IsValidFile, store, Typed
  <2>2. Linked(list, n) => \A a \in Node : Linked(MoveToHead(list, n), a) => Linked(list, a)
    BY <1>1, <2>1, EmptyIsBytes, MoveFacts
  <2>3. v \in Bytes
    BY PutContent DEF Typed
  <2> HIDE DEF v
  <2>4. ~Linked(list, n) => \A a \in Node : Linked(PushToHead(list, n, v), a) => a = n \/ Linked(list, a)
    BY <1>1, <2>1, <2>3, EmptyIsBytes, PushFacts
  <2> QED BY <2>1, <2>2, <2>4
<1>6. ASSUME UNCHANGED list,
             \A f \in File : hash[f] \in Node => hash'[f] = hash[f]
      PROVE  LinkedNodesAreOwned'
  BY <1>6
<1>7. ASSUME NEW f \in File, hash[f] \notin Node, NEW e, hash' = [hash EXCEPT ![f] = e]
      PROVE  \A g \in File : hash[g] \in Node => hash'[g] = hash[g]
  BY <1>1, <1>7
<1>8. ASSUME NEW f \in File, NEW n \in Node, BeginUpload(f, n) PROVE LinkedNodesAreOwned'
  BY <1>6, <1>7, <1>8, DownloadConstants DEF BeginUpload
<1>9. ASSUME NEW f \in File, EndUpload(f) PROVE LinkedNodesAreOwned'
  BY <1>6, <1>7, <1>9, DownloadConstants DEF EndUpload
<1>10. ASSUME NEW f \in File, AbandonUpload(f) PROVE LinkedNodesAreOwned'
  BY <1>6, <1>7, <1>10, DownloadConstants DEF AbandonUpload
<1>11. CASE UNCHANGED <<list, hash>>
  BY <1>6, <1>11
<1> QED
  BY <1>3, <1>4, <1>5, <1>8, <1>9, <1>10, <1>11, NextCases
  DEF AppendUpload, Request, NothingToSend, CacheMiss, Read, ReadFails, PutFails, Respond,
      Closed, vars, store

-----------------------------------------------------------------------------
(* The files                                                               *)

LEMMA NextFiles ==
  Typed /\ WritersAreNew /\ FilesAreExact /\ [Next]_vars => FilesAreExact'
<1> SUFFICES ASSUME Typed, WritersAreNew, FilesAreExact, [Next]_vars PROVE FilesAreExact'
  OBVIOUS
<1>1. /\ hash \in [File -> {Absent, Pending} \cup Node]
      /\ writer \in [File -> {Null} \cup Node]
      /\ disk \in [File -> {NoFile} \cup Bytes]
      /\ \A f \in File : hash[f] = Pending => writer[f] \in Node /\ disk[f] # NoFile
  BY DEF Typed, TypeOK
<1> USE <1>1, DownloadConstants DEF FilesAreExact
<1>2. ASSUME NEW f \in File, NEW n \in Node, BeginUpload(f, n) PROVE FilesAreExact'
  <2>1. << >> # NoFile
    BY EmptyIsBytes DEF Bytes
  <2>2. Exact(<< >>, n, 0)
    BY ExactEmpty
  <2> QED BY <1>2, <2>1, <2>2 DEF BeginUpload
<1>3. ASSUME NEW f \in File, AppendUpload(f) PROVE FilesAreExact'
  <2> DEFINE s == disk[f]
             t == Append(s, <<writer[f], Len(s) + 1>>)
  <2>1. s \in Bytes /\ Len(s) \in Nat /\ writer[f] \in Node /\ Exact(s, writer[f], 0)
    BY <1>3 DEF AppendUpload, Bytes
  <2>2. /\ t \in Bytes /\ Len(t) = Len(s) + 1
        /\ \A i \in 1 .. Len(s) : t[i] = s[i]
        /\ t[Len(s) + 1] = <<writer[f], Len(s) + 1>>
    BY <2>1 DEF Bytes
  <2> HIDE DEF s, t
  <2>3. t # NoFile
    BY <2>2 DEF Bytes
  <2>4. ASSUME NEW i \in 1 .. Len(t) PROVE t[i] = <<writer[f], 0 + i>>
    <3>1. i \in 1 .. Len(s) \/ i = Len(s) + 1
      BY <2>1, <2>2
    <3> QED BY <2>1, <2>2, <3>1 DEF Exact
  <2>5. Exact(t, writer[f], 0)
    BY <2>4 DEF Exact
  <2>6. hash' = hash /\ writer' = writer /\ hash[f] = Pending /\ disk' = [disk EXCEPT ![f] = t]
    BY <1>3 DEF AppendUpload, s, t
  <2> QED BY <2>3, <2>5, <2>6
<1>4. ASSUME NEW f \in File, EndUpload(f) PROVE FilesAreExact'
  BY <1>4 DEF EndUpload
<1>5. ASSUME NEW f \in File, AbandonUpload(f) PROVE FilesAreExact'
  BY <1>5 DEF AbandonUpload
<1>6. ASSUME NEW f \in File, Delete(f) PROVE FilesAreExact'
  BY <1>6 DEF Delete, IsValidFile
<1>7. CASE UNCHANGED <<hash, writer, disk>>
  BY <1>7
<1> QED
  BY <1>2, <1>3, <1>4, <1>5, <1>6, <1>7, NextCases
  DEF Request, NothingToSend, CacheHit, CacheMiss, Read, ReadFails, Put, PutFails, Respond,
      Closed, vars, store

-----------------------------------------------------------------------------
(* The cached contents                                                     *)

\* Nothing is cached for a node that is not linked.
LEMMA UnlinkedIsEmpty ==
  ASSUME Typed, NEW n \in Node, ~Linked(list, n)
  PROVE  list.content[n] = << >>
<1>1. list.size \in Nat /\ Ring(list)
  BY DEF Typed, TypeOK, ListType
<1>2. PICK s \in [1 .. list.size -> Node] : RingOf(list, s)
  BY <1>1 DEF Ring
<1>3. ~ \E p \in 1 .. list.size : s[p] = n
  BY <1>1, <1>2, LinkedInRing
<1> QED BY <1>2, <1>3 DEF RingOf

LEMMA NextCache ==
  /\ Typed /\ WritersAreNew /\ LinkedNodesAreOwned /\ CacheIsExact /\ DownloadsAreExact
  /\ [Next]_vars
  => CacheIsExact'
<1> SUFFICES ASSUME Typed, WritersAreNew, LinkedNodesAreOwned, CacheIsExact, DownloadsAreExact,
                    [Next]_vars
             PROVE  CacheIsExact'
  OBVIOUS
<1>1. /\ list \in ListType(Bytes) /\ Ring(list) /\ list.size <= Capacity
      /\ list.content \in [Node -> Bytes]
      /\ hash \in [File -> {Absent, Pending} \cup Node]
  BY DEF Typed, TypeOK, ListType
<1>2. \A f, g \in File : hash[f] \in Node /\ g # f => hash[g] # hash[f]
  BY DEF WritersAreNew
<1> USE DEF CacheIsExact
<1>3. ASSUME NEW f \in File, EndUpload(f) PROVE CacheIsExact'
  <2>1. /\ writer[f] \in Node /\ hash' = [hash EXCEPT ![f] = writer[f]]
        /\ list' = list /\ removed' = removed
    BY <1>3 DEF EndUpload, Typed
  <2>2. ~Linked(list, writer[f])
    BY <2>1 DEF WritersAreNew, LinkedNodesAreOwned
  <2>3. Exact(list.content[writer[f]], writer[f], 0)
    BY <2>1, <2>2, UnlinkedIsEmpty, ExactEmpty
  <2> QED BY <1>1, <2>1, <2>3
<1>4. ASSUME NEW f \in File, Delete(f) PROVE CacheIsExact'
  <2>1. /\ hash[f] \in Node /\ list' = Remove(list, hash[f])
        /\ hash' = [hash EXCEPT ![f] = Absent] /\ removed' = removed \cup {f}
    BY <1>4 DEF Delete, IsValidFile
  <2>2. Remove(list, hash[f]).content = IF Linked(list, hash[f])
                                        THEN [list.content EXCEPT ![hash[f]] = << >>]
                                        ELSE list.content
    BY <1>1, <2>1, EmptyIsBytes, RemoveFacts
  <2> QED BY <1>1, <1>2, <2>1, <2>2, DownloadConstants
<1>5. ASSUME NEW c \in Conn, CacheHit(c) PROVE CacheIsExact'
  <2>1. /\ hash[file[c]] \in Node /\ Linked(list, hash[file[c]])
        /\ list' = MoveToHead(list, hash[file[c]]) /\ UNCHANGED <<hash, removed>>
    BY <1>5 DEF CacheHit, IsValidFile, store
  <2>2. MoveToHead(list, hash[file[c]]).content = list.content
    BY <1>1, <2>1, EmptyIsBytes, MoveFacts
  <2> QED BY <2>1, <2>2
<1>6. ASSUME NEW c \in Conn, Put(c) PROVE CacheIsExact'
  <2> DEFINE n == hash[file[c]]
             v == SubSeq(piece[c], 1, Smaller(PieceSize, Len(piece[c])))
  <2>1. /\ n \in Node /\ file[c] \in File /\ UNCHANGED <<hash, removed>>
        /\ list' = IF Linked(list, n) THEN MoveToHead(list, n) ELSE PushToHead(list, n, v)
    BY <1>6 DEF Put, IsValidFile, store, Typed
  <2>2. Linked(list, n) => MoveToHead(list, n).content = list.content
    BY <1>1, <2>1, EmptyIsBytes, MoveFacts
  <2>3. v \in Bytes
    BY PutContent DEF Typed
  <2>4. file[c] \notin removed => Exact(v, n, 0)
    <3> SUFFICES ASSUME file[c] \notin removed PROVE Exact(v, n, 0)
      OBVIOUS
    <3>1. Exact(piece[c], n, 0)
      BY <1>6 DEF Put, DownloadsAreExact, DownloadIsExact
    <3>2. /\ piece[c] \in Bytes /\ Smaller(PieceSize, Len(piece[c])) \in Nat
          /\ Smaller(PieceSize, Len(piece[c])) <= Len(piece[c])
      BY PutContent, DownloadConstants DEF Typed, Smaller
    <3> HIDE DEF n
    <3>3. Exact(SubSeq(piece[c], 0 + 1, Smaller(PieceSize, Len(piece[c]))), n, 0)
      BY <3>1, <3>2, ExactPiece
    <3> QED BY <3>3
  <2> HIDE DEF v
  <2>5. ~Linked(list, n) => \A a \in Node : PushToHead(list, n, v).content[a]
                                              \in {<< >>, IF a = n THEN v ELSE list.content[a]}
    BY <1>1, <2>1, <2>3, EmptyIsBytes, PushFacts
  <2>6. ASSUME NEW g \in File, hash[g] \in Node, g \notin removed
        PROVE  Exact(list'.content[hash[g]], hash[g], 0)
    <3>1. CASE Linked(list, n)
      BY <2>1, <2>2, <2>6, <3>1
    <3>2. CASE ~Linked(list, n) /\ g = file[c]
      BY <2>1, <2>4, <2>5, <2>6, <3>2, ExactEmpty
    <3>3. CASE ~Linked(list, n) /\ g # file[c]
      <4>1. hash[g] # n
        BY <1>2, <2>1, <3>3
      <4>2. list'.content[hash[g]] \in {<< >>, list.content[hash[g]]}
        BY <2>1, <2>5, <2>6, <3>3, <4>1
      <4> QED BY <2>6, <4>2, ExactEmpty
    <3> QED BY <3>1, <3>2, <3>3
  <2> QED BY <2>1, <2>6
<1>7. ASSUME NEW f \in File, NEW e, e \notin Node, hash' = [hash EXCEPT ![f] = e],
             UNCHANGED <<list, removed>>
      PROVE  CacheIsExact'
  BY <1>1, <1>7
<1>8. ASSUME NEW f \in File, NEW n \in Node, BeginUpload(f, n) PROVE CacheIsExact'
  BY <1>7, <1>8, DownloadConstants DEF BeginUpload
<1>9. ASSUME NEW f \in File, AbandonUpload(f) PROVE CacheIsExact'
  BY <1>7, <1>9, DownloadConstants DEF AbandonUpload
<1>10. CASE UNCHANGED <<list, hash, removed>>
  BY <1>10
<1> QED
  BY <1>3, <1>4, <1>5, <1>6, <1>8, <1>9, <1>10, NextCases
  DEF AppendUpload, Request, NothingToSend, CacheMiss, Read, ReadFails, PutFails, Respond,
      Closed, vars, store

\* PutFilePreContent keeps no more than PieceSize bytes of a piece, and nothing
\* else puts anything into the cache.
LEMMA NextShort == Typed /\ CacheIsShort /\ [Next]_vars => CacheIsShort'
<1> SUFFICES ASSUME Typed, CacheIsShort, [Next]_vars PROVE CacheIsShort'
  OBVIOUS
<1>1. /\ list \in ListType(Bytes) /\ Ring(list) /\ list.size <= Capacity
      /\ list.content \in [Node -> Bytes]
  BY DEF Typed, TypeOK, ListType
<1>2. Len(<< >>) <= PieceSize
  BY DownloadConstants
<1> USE DEF CacheIsShort
<1>3. ASSUME NEW n \in Node, list' = Remove(list, n) PROVE CacheIsShort'
  <2>1. Remove(list, n).content = IF Linked(list, n)
                                  THEN [list.content EXCEPT ![n] = << >>]
                                  ELSE list.content
    BY <1>1, EmptyIsBytes, RemoveFacts
  <2> QED BY <1>1, <1>2, <1>3, <2>1
<1>4. ASSUME NEW n \in Node, Linked(list, n), list' = MoveToHead(list, n) PROVE CacheIsShort'
  <2>1. MoveToHead(list, n).content = list.content
    BY <1>1, <1>4, EmptyIsBytes, MoveFacts
  <2> QED BY <1>4, <2>1
<1>5. ASSUME NEW n \in Node, NEW v \in Bytes, Len(v) <= PieceSize, ~Linked(list, n),
             list' = PushToHead(list, n, v)
      PROVE  CacheIsShort'
  <2>1. \A a \in Node : PushToHead(list, n, v).content[a]
                           \in {<< >>, IF a = n THEN v ELSE list.content[a]}
    BY <1>1, <1>5, EmptyIsBytes, PushFacts
  <2> QED BY <1>2, <1>5, <2>1
<1>6. ASSUME NEW f \in File, Delete(f) PROVE CacheIsShort'
  BY <1>3, <1>6 DEF Delete, IsValidFile
<1>7. ASSUME NEW c \in Conn, CacheHit(c) PROVE CacheIsShort'
  BY <1>4, <1>7 DEF CacheHit, IsValidFile
<1>8. ASSUME NEW c \in Conn, Put(c) PROVE CacheIsShort'
  <2> DEFINE v == SubSeq(piece[c], 1, Smaller(PieceSize, Len(piece[c])))
  <2>1. v \in Bytes /\ piece[c] \in Bytes /\ Len(piece[c]) \in Nat
    BY PutContent DEF Typed
  <2>2. Len(v) <= PieceSize
    <3>1. PICK m \in Nat : m = Smaller(PieceSize, Len(piece[c]))
      BY <2>1, DownloadConstants DEF Smaller
    <3>2. m <= PieceSize /\ m <= Len(piece[c])
      BY <2>1, <3>1, DownloadConstants DEF Smaller
    <3>3. Len(SubSeq(piece[c], 0 + 1, m)) = IF 0 < m THEN m - 0 ELSE 0
      BY <2>1, <3>2, PiecesOf
    <3>4. v = SubSeq(piece[c], 0 + 1, m)
      BY <3>1
    <3> HIDE DEF v
    <3> QED BY <3>2, <3>3, <3>4, DownloadConstants
  <2> HIDE DEF v
  <2>3. /\ hash[file[c]] \in Node
        /\ list' = IF Linked(list, hash[file[c]]) THEN MoveToHead(list, hash[file[c]])
                                                   ELSE PushToHead(list, hash[file[c]], v)
    BY <1>8 DEF Put, IsValidFile, v
  <2> QED BY <1>4, <1>5, <2>1, <2>2, <2>3
<1>9. CASE UNCHANGED list
  BY <1>9
<1> QED
  BY <1>6, <1>7, <1>8, <1>9, NextCases
  DEF BeginUpload, AppendUpload, EndUpload, AbandonUpload, Request, NothingToSend, CacheMiss,
      Read, ReadFails, PutFails, Respond, Closed, vars

-----------------------------------------------------------------------------
(* The downloads                                                           *)

\* A download whose step it is not.
LEMMA NotItsStep ==
  ASSUME NEW c \in Conn, DownloadsAreExact,
         UNCHANGED <<pc[c], node[c], file[c], first[c], from[c], to[c], piece[c], body[c]>>,
         removed \subseteq removed',
         pc[c] # "idle" /\ file[c] \notin removed' /\ hash[file[c]] \in Node
           => hash'[file[c]] = hash[file[c]]
  PROVE  /\ pc'[c] = "idle" => piece'[c] = << >> /\ body'[c] = << >>
         /\ pc'[c] # "idle" /\ file'[c] \notin removed' => DownloadIsExact(c)'
BY DEF DownloadsAreExact, DownloadIsExact, OneCachedPiece

\* A step of one download, when it leaves the entries alone.
LEMMA OwnStep ==
  ASSUME NEW c \in Conn, DownloadsAreExact, Typed, UNCHANGED <<hash, removed>>,
         \A d \in Conn \ {c} :
           UNCHANGED <<pc[d], node[d], file[d], first[d], from[d], to[d], piece[d], body[d]>>,
         pc'[c] = "idle" => piece'[c] = << >> /\ body'[c] = << >>,
         pc'[c] # "idle" /\ file'[c] \notin removed => DownloadIsExact(c)'
  PROVE  DownloadsAreExact'
<1> SUFFICES ASSUME NEW d \in Conn
             PROVE  /\ pc'[d] = "idle" => piece'[d] = << >> /\ body'[d] = << >>
                    /\ pc'[d] # "idle" /\ file'[d] \notin removed' => DownloadIsExact(d)'
  BY DEF DownloadsAreExact
<1>1. CASE d = c
  BY <1>1
<1>2. CASE d # c
  BY <1>2, NotItsStep
<1> QED BY <1>1, <1>2

LEMMA NextDownloads == Inv /\ [Next]_vars => DownloadsAreExact'
<1> SUFFICES ASSUME Inv, [Next]_vars PROVE DownloadsAreExact'
  OBVIOUS
<1>1. /\ Typed /\ WritersAreNew /\ FilesAreExact /\ CacheIsExact /\ DownloadsAreExact
      /\ \A c \in Conn : pc[c] # "idle" => file[c] \in File
      /\ \A n \in Node : Len(list.content[n]) <= PieceSize
  BY DEF Inv, Typed, CacheIsShort
<1>2. /\ hash \in [File -> {Absent, Pending} \cup Node] /\ size \in [Node -> Nat]
      /\ disk \in [File -> {NoFile} \cup Bytes]
      /\ list.content \in [Node -> Bytes]
      /\ pc \in [Conn -> {"idle", "send", "read", "put", "respond"}]
      /\ node \in [Conn -> {Null} \cup Node] /\ file \in [Conn -> {NoFile} \cup File]
      /\ first \in [Conn -> Nat] /\ from \in [Conn -> Nat] /\ to \in [Conn -> Nat]
      /\ piece \in [Conn -> Bytes] /\ body \in [Conn -> Bytes]
  BY <1>1 DEF Typed, TypeOK, ListType
\* The entries change under the downloads.
<1>3. ASSUME UNCHANGED <<pc, node, file, first, from, to, piece, body>>,
             removed \subseteq removed',
             \A f \in File : f \notin removed' /\ hash[f] \in Node => hash'[f] = hash[f]
      PROVE  DownloadsAreExact'
  BY <1>1, <1>3, NotItsStep DEF DownloadsAreExact
<1>4. ASSUME NEW f \in File, NEW n \in Node, BeginUpload(f, n) PROVE DownloadsAreExact'
  BY <1>2, <1>3, <1>4, DownloadConstants DEF BeginUpload, request
<1>5. ASSUME NEW f \in File, EndUpload(f) PROVE DownloadsAreExact'
  BY <1>2, <1>3, <1>5, DownloadConstants DEF EndUpload, request
<1>6. ASSUME NEW f \in File, AbandonUpload(f) PROVE DownloadsAreExact'
  BY <1>2, <1>3, <1>6, DownloadConstants DEF AbandonUpload, request
<1>7. ASSUME NEW f \in File, Delete(f) PROVE DownloadsAreExact'
  BY <1>2, <1>3, <1>7 DEF Delete, request
\* One download changes under the entries.
<1>8. ASSUME NEW c \in Conn, NEW f \in File, NEW begin \in Nat, NEW end \in Nat,
             Request(c, f, begin, end)
      PROVE  DownloadsAreExact'
  <2>1. /\ pc[c] = "idle" /\ hash[f] \in Node /\ pc'[c] = "send" /\ node'[c] = hash[f]
        /\ file'[c] = f /\ first'[c] = begin /\ from'[c] = begin
        /\ UNCHANGED <<piece, body, hash, removed>>
    BY <1>2, <1>8 DEF Request, IsValidFile, Goto, store
  <2>2. piece[c] = << >> /\ body[c] = << >>
    BY <1>1, <2>1 DEF DownloadsAreExact
  <2>3. DownloadIsExact(c)'
    BY <2>1, <2>2, ExactEmpty DEF DownloadIsExact
  <2>4. \A d \in Conn \ {c} :
          UNCHANGED <<pc[d], node[d], file[d], first[d], from[d], to[d], piece[d], body[d]>>
    BY <1>2, <1>8 DEF Request, Goto
  <2> QED BY <1>1, <2>1, <2>3, <2>4, OwnStep
<1>9. ASSUME NEW c \in Conn, Idle(c), UNCHANGED store PROVE DownloadsAreExact'
  <2>1. pc'[c] = "idle" /\ piece'[c] = << >> /\ body'[c] = << >> /\ UNCHANGED <<hash, removed>>
    BY <1>2, <1>9 DEF Idle, Goto, store
  <2>2. \A d \in Conn \ {c} :
          UNCHANGED <<pc[d], node[d], file[d], first[d], from[d], to[d], piece[d], body[d]>>
    BY <1>2, <1>9 DEF Idle, Goto
  <2> QED BY <1>1, <2>1, <2>2, OwnStep
<1>10. ASSUME NEW c \in Conn, CacheHit(c) PROVE DownloadsAreExact'
  <2> DEFINE content == list.content[hash[file[c]]]
  <2>1. /\ pc[c] = "send" /\ from[c] = 0 /\ from[c] < to[c] /\ hash[file[c]] \in Node
        /\ piece'[c] = content /\ pc'[c] = IF content = << >> THEN "read" ELSE "respond"
        /\ UNCHANGED <<node, file, first, from, to, body, hash, removed>>
    BY <1>2, <1>10 DEF CacheHit, IsValidFile, Goto, store, request
  <2>2. ASSUME file[c] \notin removed PROVE DownloadIsExact(c)'
    <3>1. DownloadIsExact(c) /\ Exact(content, node[c], 0)
      BY <1>1, <2>1, <2>2 DEF DownloadsAreExact, DownloadIsExact, CacheIsExact
    <3>2. first[c] = 0 /\ body[c] = << >>
      <4>1. first[c] \in Nat /\ Len(body[c]) \in Nat /\ body[c] \in Seq(Node \X Nat)
        BY <1>2 DEF Bytes
      <4>2. first[c] = 0 /\ Len(body[c]) = 0
        BY <2>1, <3>1, <4>1 DEF DownloadIsExact
      <4> QED BY <4>1, <4>2, EmptySeq
    <3>3. Len(content) <= PieceSize
      BY <1>1, <2>1
    <3> HIDE DEF content
    <3>4. OneCachedPiece(c)'
      BY <2>1, <3>2, <3>3 DEF OneCachedPiece
    <3> QED BY <1>2, <2>1, <3>1, <3>2, <3>4 DEF DownloadIsExact
  <2>3. \A d \in Conn \ {c} :
          UNCHANGED <<pc[d], node[d], file[d], first[d], from[d], to[d], piece[d], body[d]>>
    BY <1>2, <1>10 DEF CacheHit, Goto, request
  <2> QED BY <1>1, <2>1, <2>2, <2>3, OwnStep
<1>11. ASSUME NEW c \in Conn, CacheMiss(c) PROVE DownloadsAreExact'
  <2>1. /\ pc[c] = "send" /\ pc'[c] = "read" /\ from[c] < to[c]
        /\ UNCHANGED <<node, file, first, from, to, piece, body, hash, removed>>
    BY <1>2, <1>11 DEF CacheMiss, Goto, store, request
  <2>2. file[c] \notin removed => DownloadIsExact(c)'
    BY <1>1, <2>1 DEF DownloadsAreExact, DownloadIsExact, OneCachedPiece
  <2>3. \A d \in Conn \ {c} :
          UNCHANGED <<pc[d], node[d], file[d], first[d], from[d], to[d], piece[d], body[d]>>
    BY <1>2, <1>11 DEF CacheMiss, Goto, request
  <2> QED BY <1>1, <2>1, <2>2, <2>3, OwnStep
<1>12. ASSUME NEW c \in Conn, Read(c) PROVE DownloadsAreExact'
  <2> DEFINE bytes == disk[file[c]]
             length == Smaller(ReadSize, to[c] - from[c])
             end == Smaller(from[c] + length, Len(bytes))
             new == SubSeq(bytes, from[c] + 1, end)
  <2>1. /\ pc[c] = "read" /\ bytes \in Bytes /\ file[c] \in File
        /\ piece'[c] = new /\ pc'[c] = IF from[c] = 0 THEN "put" ELSE "respond"
        /\ UNCHANGED <<node, file, first, from, to, body, hash, removed>>
    BY <1>1, <1>2, <1>12 DEF Read, Goto, store, request
  <2>2. ASSUME file[c] \notin removed PROVE DownloadIsExact(c)'
    <3>1. /\ DownloadIsExact(c) /\ from[c] < to[c] /\ from[c] \in Nat /\ to[c] \in Nat
          /\ node[c] = hash[file[c]] /\ node[c] \in Node
      BY <1>1, <1>2, <2>1, <2>2 DEF DownloadsAreExact, DownloadIsExact
    <3>2. Exact(bytes, node[c], 0)
      BY <1>1, <2>1, <3>1 DEF FilesAreExact
    <3> HIDE DEF bytes
    <3>3. Len(bytes) \in Nat
      BY <2>1 DEF Bytes
    <3>4. /\ end \in Nat /\ end <= Len(bytes) /\ end <= to[c]
      <4>1. length \in Nat /\ length <= to[c] - from[c]
        BY <3>1, DownloadConstants DEF Smaller
      <4> HIDE DEF length
      <4> QED BY <3>1, <3>3, <4>1 DEF Smaller
    <3> HIDE DEF end
    <3>5. Exact(new, node[c], from[c])
      BY <2>1, <3>1, <3>2, <3>4, ExactPiece
    <3>6. from[c] + Len(new) <= to[c]
      <4>1. Len(new) = IF from[c] < end THEN end - from[c] ELSE 0
        BY <2>1, <3>1, <3>4, PiecesOf
      <4> HIDE DEF new
      <4> QED BY <3>1, <3>4, <4>1
    <3> HIDE DEF new
    <3> QED BY <2>1, <3>1, <3>5, <3>6 DEF DownloadIsExact
  <2>3. \A d \in Conn \ {c} :
          UNCHANGED <<pc[d], node[d], file[d], first[d], from[d], to[d], piece[d], body[d]>>
    BY <1>2, <1>12 DEF Read, Goto, request
  <2> QED BY <1>1, <2>1, <2>2, <2>3, OwnStep
<1>13. ASSUME NEW c \in Conn, Put(c) PROVE DownloadsAreExact'
  <2>1. /\ pc[c] = "put" /\ pc'[c] = "respond"
        /\ UNCHANGED <<node, file, first, from, to, piece, body, hash, removed>>
    BY <1>2, <1>13 DEF Put, Goto, store, request
  <2>2. file[c] \notin removed => DownloadIsExact(c)'
    BY <1>1, <2>1 DEF DownloadsAreExact, DownloadIsExact, OneCachedPiece
  <2>3. \A d \in Conn \ {c} :
          UNCHANGED <<pc[d], node[d], file[d], first[d], from[d], to[d], piece[d], body[d]>>
    BY <1>2, <1>13 DEF Put, Goto, request
  <2> QED BY <1>1, <2>1, <2>2, <2>3, OwnStep
<1>14. ASSUME NEW c \in Conn, Respond(c), from[c] + Len(piece[c]) < to[c]
       PROVE  DownloadsAreExact'
  <2>1. /\ pc[c] = "respond" /\ pc'[c] = "send"
        /\ body'[c] = body[c] \o piece[c] /\ piece'[c] = << >>
        /\ from'[c] = from[c] + Len(piece[c])
        /\ UNCHANGED <<node, file, first, to, hash, removed>>
    BY <1>2, <1>14 DEF Respond, Goto, store, request
  <2>2. ASSUME file[c] \notin removed PROVE DownloadIsExact(c)'
    <3>1. DownloadIsExact(c) /\ first[c] \in Nat /\ body[c] \in Bytes /\ piece[c] \in Bytes
      BY <1>1, <1>2, <2>1, <2>2 DEF DownloadsAreExact
    <3>2. /\ from[c] = first[c] + Len(body[c])
          /\ Exact(body[c], node[c], first[c]) /\ Exact(piece[c], node[c], from[c])
          /\ Len(body[c]) \in Nat /\ Len(piece[c]) \in Nat
      BY <3>1 DEF DownloadIsExact, Bytes
    <3>3. /\ Len(body[c] \o piece[c]) = Len(body[c]) + Len(piece[c])
          /\ Exact(body[c] \o piece[c], node[c], first[c])
      BY <3>1, <3>2, ExactConcat
    <3>4. /\ node'[c] \in Node /\ node'[c] = hash'[file'[c]]
          /\ from'[c] = first'[c] + Len(body'[c])
          /\ Exact(body'[c], node'[c], first'[c])
          /\ Exact(piece'[c], node'[c], from'[c])
      <4>1. node[c] \in Node /\ node[c] = hash[file[c]]
        BY <3>1 DEF DownloadIsExact
      <4>2. Exact(piece'[c], node'[c], from'[c])
        BY <2>1, ExactEmpty
      <4>3. Len(body'[c]) = Len(body[c]) + Len(piece[c])
        BY <2>1, <3>3
      <4>4. from'[c] = first'[c] + Len(body'[c])
        <5> DEFINE a == first[c]
                   b == Len(body[c])
                   d == Len(piece[c])
        <5>1. a \in Nat /\ b \in Nat /\ d \in Nat /\ from[c] = a + b
          BY <3>1, <3>2
        <5>2. from'[c] = from[c] + d /\ first'[c] = a /\ Len(body'[c]) = b + d
          BY <2>1, <4>3
        <5> HIDE DEF a, b, d
        <5> QED BY <5>1, <5>2
      <4> QED BY <2>1, <3>3, <4>1, <4>2, <4>4
    <3>5. from'[c] + Len(piece'[c]) <= to'[c]
      BY <1>2, <1>14, <2>1, <3>2
    <3> QED BY <2>1, <3>4, <3>5 DEF DownloadIsExact
  <2>3. \A d \in Conn \ {c} :
          UNCHANGED <<pc[d], node[d], file[d], first[d], from[d], to[d], piece[d], body[d]>>
    BY <1>2, <1>14 DEF Respond, Goto, request
  <2> QED BY <1>1, <2>1, <2>2, <2>3, OwnStep
<1>15. CASE UNCHANGED <<hash, removed, pc, node, file, first, from, to, piece, body>>
  BY <1>3, <1>15
<1>16. ASSUME NEW c \in Conn, Respond(c) PROVE DownloadsAreExact'
  BY <1>9, <1>14, <1>16 DEF Respond
<1> QED
  BY <1>4, <1>5, <1>6, <1>7, <1>8, <1>9, <1>10, <1>11, <1>12, <1>13, <1>15, <1>16, NextCases
  DEF AppendUpload, NothingToSend, ReadFails, PutFails, Closed, vars, store, request

-----------------------------------------------------------------------------
(* The theorems                                                            *)

LEMMA InitInv == Init => Inv
<1> SUFFICES ASSUME Init PROVE Inv
  OBVIOUS
<1>1. Typed
  BY InitTyped
<1>2. \A n \in Node : ~Linked(list, n) /\ list.content[n] = << >>
  BY EmptyIsBytes, EmptyFacts DEF Init, EmptyList
<1> QED
  BY <1>1, <1>2, CacheConstants, DownloadConstants
  DEF Init, Inv, LinkedNodesAreOwned, WritersAreNew, FilesAreExact, CacheIsExact, CacheIsShort,
      DownloadsAreExact

LEMMA InvIsInvariant == Spec => []Inv
<1>1. Inv /\ [Next]_vars => Inv'
  BY NextTyped, NextOwned, NextWriters, NextFiles, NextCache, NextShort, NextDownloads DEF Inv
<1> QED BY <1>1, InitInv, PTL DEF Spec

\* TypeOK always holds, for any number of connections, names, nodes and bytes.
THEOREM TypeCorrect == Spec => []TypeOK
<1>1. Inv => TypeOK
  BY DEF Inv, Typed
<1> QED BY <1>1, InvIsInvariant, PTL

\* LinkedNodesAreOwned: no node is destroyed while the list points at it.
THEOREM LinkedNodesStayOwned == Spec => []LinkedNodesAreOwned
<1>1. Inv => LinkedNodesAreOwned
  BY DEF Inv
<1> QED BY <1>1, InvIsInvariant, PTL

\* What a download has handed over, in numbers and bytes.
LEMMA HandedIsExact ==
  ASSUME Inv, NEW c \in Conn, pc[c] # "idle", file[c] \notin removed
  PROVE  /\ first[c] \in Nat /\ from[c] \in Nat /\ to[c] \in Nat
         /\ Len(piece[c]) \in Nat /\ Len(Handed(c)) \in Nat
         /\ first[c] + Len(Handed(c)) = from[c] + Len(piece[c])
         /\ Exact(Handed(c), node[c], first[c])
         /\ OneCachedPiece(c) => first[c] = 0
         /\ \/ piece[c] = << >> /\ Handed(c) = << >>
            \/ first[c] + Len(Handed(c)) <= to[c]
            \/ OneCachedPiece(c)
<1>1. /\ DownloadIsExact(c)
      /\ first[c] \in Nat /\ from[c] \in Nat /\ to[c] \in Nat
      /\ body[c] \in Bytes /\ piece[c] \in Bytes
      /\ Len(body[c]) \in Nat /\ Len(piece[c]) \in Nat
  BY DEF Inv, DownloadsAreExact, Typed, TypeOK, Bytes
<1>2. /\ from[c] = first[c] + Len(body[c])
      /\ Exact(body[c], node[c], first[c]) /\ Exact(piece[c], node[c], from[c])
  BY <1>1 DEF DownloadIsExact
<1>3. Len(Handed(c)) = Len(body[c]) + Len(piece[c]) /\ Exact(Handed(c), node[c], first[c])
  BY <1>1, <1>2, ExactConcat DEF Handed
<1>4. piece[c] = << >> /\ body[c] = << >> => Handed(c) = << >>
  <2>1. << >> \o << >> = << >>
    BY EmptyIsBytes, ConcatEmptySeq DEF Bytes
  <2> QED BY <2>1 DEF Handed
<1>5. first[c] + Len(Handed(c)) = from[c] + Len(piece[c]) /\ Len(Handed(c)) \in Nat
  <2> DEFINE a == first[c]
             b == Len(body[c])
             d == Len(piece[c])
             e == Len(Handed(c))
  <2>1. a \in Nat /\ b \in Nat /\ d \in Nat /\ from[c] = a + b /\ e = b + d
    BY <1>1, <1>2, <1>3
  <2>2. a + e = from[c] + d /\ e \in Nat
    <3> HIDE DEF a, b, d, e
    <3> QED BY <2>1
  <2> QED BY <2>2
<1>6. \/ piece[c] = << >> /\ body[c] = << >>
      \/ from[c] + Len(piece[c]) <= to[c]
      \/ OneCachedPiece(c)
  BY <1>1 DEF DownloadIsExact
<1>7. OneCachedPiece(c) => first[c] = 0
  BY DEF OneCachedPiece
<1> QED BY <1>1, <1>3, <1>4, <1>5, <1>6, <1>7

\* BodiesAreExact: as long as no file of its name is deleted, what is sent are
\* the bytes that were asked for, from the cache or from the disk, and none
\* beyond them but those of one cached beginning.
THEOREM BodiesStayExact == Spec => []BodiesAreExact
<1>1. ASSUME Inv, NEW c \in Conn, pc[c] # "idle", file[c] \notin removed
      PROVE  /\ \A i \in 1 .. Len(Handed(c)) : Handed(c)[i] = <<node[c], first[c] + i>>
             /\ \/ Handed(c) = << >>
                \/ first[c] + Len(Handed(c)) <= to[c]
                \/ OneCachedPiece(c)
  BY <1>1, HandedIsExact DEF Exact
<1>2. Inv => BodiesAreExact
  BY <1>1 DEF BodiesAreExact
<1> QED BY <1>2, InvIsInvariant, PTL

\* Only Respond ends a download that has its piece, and only when nothing is
\* left to send.
LEMMA OnlyRespondEnds ==
  ASSUME Inv, [Next]_vars, NEW c \in Conn, EndsWithPiece(c)
  PROVE  from[c] + Len(piece[c]) >= to[c]
<1>1. pc[c] = "respond" /\ pc'[c] = "idle" /\ pc \in [Conn -> {"idle", "send", "read", "put", "respond"}]
  BY DEF EndsWithPiece, Inv, Typed, TypeOK
<1>2. ASSUME NEW d \in Conn, NEW label, Goto(d, label), d # c PROVE FALSE
  BY <1>1, <1>2 DEF Goto
<1>3. ASSUME NEW d \in Conn, Respond(d) PROVE from[c] + Len(piece[c]) >= to[c]
  <2>1. d = c
    BY <1>2, <1>3 DEF Respond, Idle
  <2>2. ~(from[c] + Len(piece[c]) < to[c])
    <3>1. Goto(c, "send") => pc'[c] = "send"
      BY <1>1 DEF Goto
    <3> QED BY <1>1, <1>3, <2>1, <3>1 DEF Respond
  <2>3. from[c] \in Nat /\ to[c] \in Nat /\ Len(piece[c]) \in Nat
    BY DEF Inv, Typed, TypeOK, Bytes
  <2> QED BY <2>2, <2>3
<1>4. ASSUME NEW f \in File, NEW d \in Conn, NEW begin, NEW end, Request(d, f, begin, end)
      PROVE  FALSE
  BY <1>1, <1>2, <1>4 DEF Request
<1>5. ASSUME NEW d \in Conn, NothingToSend(d) \/ Closed(d) PROVE FALSE
  BY <1>1, <1>2, <1>5 DEF NothingToSend, Closed, Idle
<1>6. ASSUME NEW d \in Conn, CacheHit(d) \/ CacheMiss(d) PROVE FALSE
  BY <1>1, <1>2, <1>6 DEF CacheHit, CacheMiss
<1>7. ASSUME NEW d \in Conn, Read(d) \/ ReadFails(d) PROVE FALSE
  BY <1>1, <1>2, <1>7 DEF Read, ReadFails, Idle
<1>8. ASSUME NEW d \in Conn, Put(d) \/ PutFails(d) PROVE FALSE
  BY <1>1, <1>2, <1>8 DEF Put, PutFails, Idle
<1>9. CASE UNCHANGED pc
  BY <1>1, <1>9
<1> QED
  BY <1>3, <1>4, <1>5, <1>6, <1>7, <1>8, <1>9, NextCases
  DEF BeginUpload, AppendUpload, EndUpload, AbandonUpload, Delete, vars

\* ResponsesAreWhole: a response that is sent to its end has exactly as many
\* bytes as were asked for, or is one cached beginning longer than that.
THEOREM ResponsesStayWhole == Spec => ResponsesAreWhole
<1> DEFINE Whole == \A c \in Conn : EndsWithPiece(c) /\ file[c] \notin removed =>
             \/ first[c] + Len(Handed(c)) = to[c]
             \/ OneCachedPiece(c) /\ Len(Handed(c)) > to[c]
<1>1. ASSUME Inv, [Next]_vars, NEW c \in Conn, EndsWithPiece(c), file[c] \notin removed
      PROVE  \/ first[c] + Len(Handed(c)) = to[c]
             \/ OneCachedPiece(c) /\ Len(Handed(c)) > to[c]
  <2>1. pc[c] = "respond" /\ from[c] + Len(piece[c]) >= to[c]
    BY <1>1, OnlyRespondEnds DEF EndsWithPiece
  <2>2. from[c] < to[c]
    BY <1>1, <2>1 DEF Inv, DownloadsAreExact, DownloadIsExact
  <2>3. piece[c] = << >> => Len(piece[c]) = 0
    OBVIOUS
  <2>4. /\ first[c] \in Nat /\ from[c] \in Nat /\ to[c] \in Nat
        /\ Len(piece[c]) \in Nat /\ Len(Handed(c)) \in Nat
        /\ first[c] + Len(Handed(c)) = from[c] + Len(piece[c])
        /\ OneCachedPiece(c) => first[c] = 0
        /\ \/ piece[c] = << >>
           \/ first[c] + Len(Handed(c)) <= to[c]
           \/ OneCachedPiece(c)
    BY <1>1, <2>1, HandedIsExact
  <2>5. Len(piece[c]) # 0
    BY <2>1, <2>2, <2>4
  <2>6. first[c] + Len(Handed(c)) <= to[c] \/ OneCachedPiece(c)
    BY <2>3, <2>4, <2>5
  <2> QED BY <2>1, <2>4, <2>6
<1>2. Inv /\ [Next]_vars => [Whole]_vars
  BY <1>1
<1> QED BY <1>2, InvIsInvariant, PTL DEF Spec, ResponsesAreWhole
=============================================================================
