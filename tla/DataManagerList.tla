-------------------------- MODULE DataManagerList --------------------------
(***************************************************************************)
(* DataManagerList of src/data_manager.hpp: the doubly linked list of the  *)
(* nodes whose file beginnings are cached.  The links are raw pointers in  *)
(* the nodes themselves; a node that is not in the list has null links.    *)
(* An operation is a function from the list to the list, applied to the    *)
(* variable under _list_mutex.                                             *)
(***************************************************************************)
EXTENDS Integers, Sequences, Functions

CONSTANTS
  Node,      \* DataManagerNode objects
  Guard,     \* _guard
  Null,      \* nullptr
  Capacity   \* _capacity, LRU_file_capacity of the configuration

ASSUME CacheConstants ==
  /\ Guard \notin Node
  /\ Null \notin Node \cup {Guard}
  /\ Capacity \in Nat

VARIABLE list  \* _next and _prev of every node, _file_pre_content, _size

Link == Node \cup {Guard, Null}

EmptyList ==
  [next |-> [m \in Node \cup {Guard} |-> IF m = Guard THEN Guard ELSE Null],
   prev |-> [m \in Node \cup {Guard} |-> IF m = Guard THEN Guard ELSE Null],
   content |-> [n \in Node |-> << >>],
   size |-> 0]

Linked(l, n) == l.next[n] # Null /\ l.prev[n] # Null

\* node->_prev->_next = node->_next; node->_next->_prev = node->_prev
Bypass(l, n) ==
  [l EXCEPT !.next[l.prev[n]] = l.next[n],
            !.prev[l.next[n]] = l.prev[n]]

\* Between the guard and the node that is first now
LinkFirst(l, n) ==
  [l EXCEPT !.next = [@ EXCEPT ![n] = l.next[Guard], ![Guard] = n],
            !.prev = [@ EXCEPT ![n] = Guard, ![l.next[Guard]] = n]]

\* Mutant: the node stays where it is
StayPut(l, n) == l

MoveToHead(l, n) == LinkFirst(Bypass(l, n), n)

Unlinked(l, n) ==
  [Bypass(l, n) EXCEPT !.content[n] = << >>,
                       !.next[n] = Null,
                       !.prev[n] = Null,
                       !.size = @ - 1]

\* Mutant: a node that is not in the list is counted out of it too
RemoveCountsAlways(l, n) == IF Linked(l, n) THEN Unlinked(l, n) ELSE [l EXCEPT !.size = @ - 1]

Remove(l, n) == IF Linked(l, n) THEN Unlinked(l, n) ELSE l

RemoveTail(l) == IF l.prev[Guard] = Guard THEN l ELSE Remove(l, l.prev[Guard])

Pushed(l, n, content) ==
  [LinkFirst(l, n) EXCEPT !.content[n] = content, !.size = @ + 1]

\* Mutant: the list may grow by one node more
PushPastCapacity(l, n, content) ==
  IF l.size > Capacity THEN RemoveTail(Pushed(l, n, content)) ELSE Pushed(l, n, content)

PushToHead(l, n, content) ==
  LET pushed == Pushed(l, n, content)
  IN  IF pushed.size > Capacity THEN RemoveTail(pushed) ELSE pushed

-----------------------------------------------------------------------------
(* What the list stands for                                                *)

\* The i-th node of `s', and the guard before the first and behind the last
At(s, i) == IF i \in DOMAIN s THEN s[i] ELSE Guard

\* The nodes at `s', in that order and each once, and no others are linked in a
\* ring through the guard, the same one in both directions.
RingOf(l, s) ==
  /\ IsInjective(s)
  /\ \A i \in 0 .. l.size : l.next[At(s, i)] = At(s, i + 1) /\ l.prev[At(s, i + 1)] = At(s, i)
  /\ \A n \in Node : (\A i \in DOMAIN s : s[i] # n) =>
       l.next[n] = Null /\ l.prev[n] = Null /\ l.content[n] = << >>

\* A ring of _size nodes, _capacity at most
Sound(l) ==
  /\ l.size <= Capacity
  /\ \E s \in [1 .. l.size -> Node] : RingOf(l, s)

ListType(C) ==
  [next : [Node \cup {Guard} -> Link],
   prev : [Node \cup {Guard} -> Link],
   content : [Node -> C],
   size : Nat]
=============================================================================
