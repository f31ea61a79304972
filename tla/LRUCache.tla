------------------------------ MODULE LRUCache ------------------------------
(***************************************************************************)
(* What the cache of file beginnings promises: it holds the contents given *)
(* to it for the nodes used last, at most Capacity of them, and lets the   *)
(* one that was not used for the longest time go first.                    *)
(***************************************************************************)
EXTENDS Integers, SequencesExt

CONSTANTS
  Node,     \* what contents are kept for
  Content,  \* the contents
  None,     \* no node
  Capacity  \* how many nodes the cache holds

VARIABLES
  recent,  \* the nodes held, each with its content, the last used first
  last     \* the node that was last asked for or given, None after a removal

vars == <<recent, last>>

AtMost(k, s) == IF Len(s) > k THEN SubSeq(s, 1, k) ELSE s

Init == recent = << >> /\ last = None

Use(n) ==
  \E i \in DOMAIN recent :
    /\ recent[i].node = n
    /\ recent' = <<recent[i]>> \o RemoveAt(recent, i)
    /\ last' = n

Put(n, content) ==
  /\ \A i \in DOMAIN recent : recent[i].node # n
  /\ recent' = AtMost(Capacity, <<[node |-> n, content |-> content]>> \o recent)
  /\ last' = n

Drop(n) ==
  /\ \/ \E i \in DOMAIN recent : recent[i].node = n /\ recent' = RemoveAt(recent, i)
     \/ (\A i \in DOMAIN recent : recent[i].node # n) /\ UNCHANGED recent
  /\ last' = None

Next == \E n \in Node : Use(n) \/ (\E content \in Content : Put(n, content)) \/ Drop(n)

Spec == Init /\ [][Next]_vars
=============================================================================
