----------------------------- MODULE FileCache -----------------------------
(***************************************************************************)
(* The list of DataManagerList under the calls DataManager makes:          *)
(* GetFilePreContent moves a node that is in the list to its head,         *)
(* PutFilePreContent does so or pushes one that is not, Delete removes.    *)
(* Each call holds _list_mutex, so each is one action.                     *)
(***************************************************************************)
EXTENDS DataManagerList

CONSTANT Content  \* the beginnings of files

ASSUME ContentConstants == << >> \in Content

VARIABLE last  \* history: the node of the last call, Null after a removal

vars == <<list, last>>

GetFilePreContent(n) ==
  /\ Linked(list, n)
  /\ list' = MoveToHead(list, n)
  /\ last' = n

PutFilePreContent(n, content) ==
  /\ list' = IF Linked(list, n) THEN MoveToHead(list, n) ELSE PushToHead(list, n, content)
  /\ last' = n

Delete(n) ==
  /\ list' = Remove(list, n)
  /\ last' = Null

Init == list = EmptyList /\ last = Null

Next ==
  \E n \in Node :
    \/ GetFilePreContent(n)
    \/ \E content \in Content : PutFilePreContent(n, content)
    \/ Delete(n)

Spec == Init /\ [][Next]_vars

-----------------------------------------------------------------------------
(* Properties                                                              *)

TypeOK == list \in ListType(Content) /\ last \in Node \cup {Null}

\* The list is one ring of at most Capacity nodes through the guard, the same
\* in both directions, _size counts it, and every other node has null links and
\* no content: whatever sequence of pushes, moves, evictions and removals.
ListIsSound == Sound(list)

Recent ==
  LET s == CHOOSE t \in [1 .. list.size -> Node] : RingOf(list, t)
  IN  [i \in 1 .. list.size |-> [node |-> s[i], content |-> list.content[s[i]]]]

Cache == INSTANCE LRUCache WITH recent <- Recent, None <- Null

\* The list is a least-recently-used cache: what is evicted is always the node that
\* was not used for the longest time, and the others keep their contents.
ImplementsLRU == Cache!Spec
=============================================================================
