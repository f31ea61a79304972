----------------------- MODULE DataManagerListProofs -----------------------
(***************************************************************************)
(* Lemmas about the operations of DataManagerList, for any set of nodes    *)
(* and any capacity: each keeps a list that is a ring of its _size nodes   *)
(* (Ring), and what it does to the nodes linked and their contents.        *)
(*                                                                         *)
(* Every operation is a removal of a node, an insertion behind the guard,  *)
(* or one after the other, so the work is in UnlinkRing and LinkRing.      *)
(***************************************************************************)
EXTENDS DataManagerList, TLAPS

Ring(l) == \E s \in [1 .. l.size -> Node] : RingOf(l, s)

\* Positions 0 to k hold different nodes, and so do 1 to k + 1: the guard is at
\* the two ends only.
LEMMA AtFacts ==
  ASSUME NEW k \in Nat, NEW s \in [1 .. k -> Node],
         IsInjective(s)
  PROVE  /\ At(s, 0) = Guard /\ At(s, k + 1) = Guard
         /\ \A i \in 1 .. k : At(s, i) = s[i] /\ s[i] \in Node
         /\ \A i \in Int : At(s, i) \in Node \cup {Guard}
         /\ \A i, j \in 0 .. k : At(s, i) = At(s, j) => i = j
         /\ \A i, j \in 1 .. k + 1 : At(s, i) = At(s, j) => i = j
BY CacheConstants DEF At, IsInjective

\* A node is linked exactly when the ring goes through it.
LEMMA LinkedInRing ==
  ASSUME NEW l, l.size \in Nat, NEW s \in [1 .. l.size -> Node], RingOf(l, s),
         NEW n \in Node
  PROVE  Linked(l, n) <=> \E p \in 1 .. l.size : s[p] = n
<1>1. ASSUME NEW p \in 1 .. l.size, s[p] = n PROVE Linked(l, n)
  <2>1. l.next[At(s, p)] = At(s, p + 1) /\ l.prev[At(s, (p - 1) + 1)] = At(s, p - 1)
    <3>1. p \in 0 .. l.size /\ p - 1 \in 0 .. l.size
      OBVIOUS
    <3> QED BY <3>1 DEF RingOf
  <2>2. At(s, p + 1) # Null /\ At(s, p - 1) # Null /\ At(s, p) = n
    BY <1>1, CacheConstants DEF At
  <2> QED BY <2>1, <2>2 DEF Linked
<1>2. ASSUME \A p \in 1 .. l.size : s[p] # n PROVE ~Linked(l, n)
  BY <1>2 DEF RingOf, Linked
<1> QED BY <1>1, <1>2

\* The node behind the guard is linked, if there is one.
LEMMA FirstInRing ==
  ASSUME NEW C, NEW l \in ListType(C), Ring(l)
  PROVE  /\ l.next[Guard] \in Node \cup {Guard}
         /\ l.next[Guard] \in Node => Linked(l, l.next[Guard])
<1>0. l.size \in Nat
  BY DEF ListType
<1>1. PICK s \in [1 .. l.size -> Node] : RingOf(l, s)
  BY DEF Ring
<1>2. At(s, 0) = Guard /\ At(s, 1) \in Node \cup {Guard}
  BY <1>0 DEF At
<1>3. l.next[Guard] = At(s, 1)
  <2>1. 0 \in 0 .. l.size /\ 0 + 1 = 1
    BY <1>0
  <2> QED BY <1>1, <1>2, <2>1 DEF RingOf
<1>4. ASSUME At(s, 1) \in Node PROVE Linked(l, At(s, 1))
  <2>1. 1 \in 1 .. l.size /\ At(s, 1) = s[1]
    BY <1>0, <1>4, CacheConstants DEF At
  <2> QED BY <2>1, <1>0, <1>1, <1>4, LinkedInRing
<1> QED BY <1>2, <1>3, <1>4

\* The neighbours of a linked node are linked or the guard.
LEMMA NeighboursInRing ==
  ASSUME NEW C, NEW l \in ListType(C), Ring(l), NEW n \in Node, Linked(l, n)
  PROVE  /\ l.size >= 1
         /\ l.next[n] \in Node \cup {Guard} /\ l.prev[n] \in Node \cup {Guard}
         /\ l.prev[n] \in Node => Linked(l, l.prev[n])
         /\ l.next[n] \in Node => Linked(l, l.next[n])
<1>0. l.size \in Nat
  BY DEF ListType
<1>1. PICK s \in [1 .. l.size -> Node] : RingOf(l, s)
  BY DEF Ring
<1>2. PICK p \in 1 .. l.size : s[p] = n
  BY <1>0, <1>1, LinkedInRing
<1>3. l.prev[n] = At(s, p - 1) /\ l.next[n] = At(s, p + 1)
  <2>1. p \in 0 .. l.size /\ p - 1 \in 0 .. l.size /\ (p - 1) + 1 = p /\ At(s, p) = n
    BY <1>0, <1>1, <1>2 DEF At
  <2>2. /\ l.next[At(s, p)] = At(s, p + 1)
        /\ l.prev[At(s, (p - 1) + 1)] = At(s, p - 1)
    BY <2>1, <1>1 DEF RingOf
  <2> QED BY <2>1, <2>2
<1>4. At(s, p - 1) \in Node \cup {Guard} /\ At(s, p + 1) \in Node \cup {Guard}
  BY <1>0, <1>1 DEF At
<1>5. /\ At(s, p - 1) \in Node => Linked(l, At(s, p - 1))
      /\ At(s, p + 1) \in Node => Linked(l, At(s, p + 1))
  <2>1. At(s, p - 1) \in Node => p - 1 \in 1 .. l.size /\ s[p - 1] = At(s, p - 1)
    BY <1>0, <1>1, CacheConstants DEF At
  <2>2. At(s, p + 1) \in Node => p + 1 \in 1 .. l.size /\ s[p + 1] = At(s, p + 1)
    BY <1>0, <1>1, CacheConstants DEF At
  <2> QED BY <2>1, <2>2, <1>0, <1>1, LinkedInRing
<1>6. l.size >= 1
  BY <1>0, <1>2
<1> QED BY <1>3, <1>4, <1>5, <1>6

-----------------------------------------------------------------------------
(* The fields of the lists the operations build                            *)

LEMMA LinkFirstFields ==
  ASSUME NEW C, NEW l \in ListType(C), NEW n \in Node, l.next[Guard] \in Node \cup {Guard}
  PROVE  /\ LinkFirst(l, n) \in ListType(C)
         /\ LinkFirst(l, n).size = l.size
         /\ LinkFirst(l, n).content = l.content
         /\ LinkFirst(l, n).next = [[l.next EXCEPT ![n] = l.next[Guard]] EXCEPT ![Guard] = n]
         /\ LinkFirst(l, n).prev = [[l.prev EXCEPT ![n] = Guard] EXCEPT ![l.next[Guard]] = n]
BY DEF LinkFirst, ListType, Link

LEMMA PushedFields ==
  ASSUME NEW C, NEW l \in ListType(C), NEW n \in Node, l.next[Guard] \in Node \cup {Guard}, NEW v \in C
  PROVE  /\ Pushed(l, n, v) \in ListType(C)
         /\ Pushed(l, n, v).size = l.size + 1
         /\ Pushed(l, n, v).content = [l.content EXCEPT ![n] = v]
         /\ Pushed(l, n, v).next = [[l.next EXCEPT ![n] = l.next[Guard]] EXCEPT ![Guard] = n]
         /\ Pushed(l, n, v).prev = [[l.prev EXCEPT ![n] = Guard] EXCEPT ![l.next[Guard]] = n]
<1> DEFINE b == LinkFirst(l, n)
<1>1. /\ b \in ListType(C) /\ b.size = l.size /\ b.content = l.content
      /\ b.next = [[l.next EXCEPT ![n] = l.next[Guard]] EXCEPT ![Guard] = n]
      /\ b.prev = [[l.prev EXCEPT ![n] = Guard] EXCEPT ![l.next[Guard]] = n]
  BY LinkFirstFields
<1>2. Pushed(l, n, v) = [b EXCEPT !.content[n] = v, !.size = @ + 1]
  BY DEF Pushed
<1> DEFINE m == Pushed(l, n, v)
<1> HIDE DEF b, m
<1>3. /\ b.content \in [Node -> C] /\ b.size \in Nat
      /\ b.next \in [Node \cup {Guard} -> Link] /\ b.prev \in [Node \cup {Guard} -> Link]
  BY <1>1 DEF ListType
<1>4. m = [next |-> b.next, prev |-> b.prev,
           content |-> [b.content EXCEPT ![n] = v], size |-> b.size + 1]
  BY <1>1, <1>2 DEF ListType, m
<1>5. m \in ListType(C)
  BY <1>3, <1>4 DEF ListType
<1>6. /\ m.size = b.size + 1 /\ m.content = [b.content EXCEPT ![n] = v]
      /\ m.next = b.next /\ m.prev = b.prev
  BY <1>4
<1> QED BY <1>1, <1>5, <1>6 DEF m

LEMMA UnlinkedFields ==
  ASSUME NEW C, << >> \in C, NEW l \in ListType(C), NEW n \in Node, l.size >= 1,
         l.next[n] \in Node \cup {Guard}, l.prev[n] \in Node \cup {Guard}
  PROVE  /\ Unlinked(l, n) \in ListType(C)
         /\ Unlinked(l, n).size = l.size - 1
         /\ Unlinked(l, n).content = [l.content EXCEPT ![n] = << >>]
         /\ Unlinked(l, n).next = [[l.next EXCEPT ![l.prev[n]] = l.next[n]] EXCEPT ![n] = Null]
         /\ Unlinked(l, n).prev = [[l.prev EXCEPT ![l.next[n]] = l.prev[n]] EXCEPT ![n] = Null]
<1> DEFINE b == Bypass(l, n)
<1>1. /\ b \in ListType(C) /\ b.size = l.size /\ b.content = l.content
      /\ b.next = [l.next EXCEPT ![l.prev[n]] = l.next[n]]
      /\ b.prev = [l.prev EXCEPT ![l.next[n]] = l.prev[n]]
  BY DEF Bypass, ListType, Link
<1>2. Unlinked(l, n) = [b EXCEPT !.content[n] = << >>, !.next[n] = Null, !.prev[n] = Null, !.size = @ - 1]
  BY DEF Unlinked
<1> DEFINE m == Unlinked(l, n)
<1> HIDE DEF b, m
<1>3. /\ b.content \in [Node -> C] /\ b.size - 1 \in Nat
      /\ b.next \in [Node \cup {Guard} -> Link] /\ b.prev \in [Node \cup {Guard} -> Link]
  BY <1>1 DEF ListType
<1>4. m = [next |-> [b.next EXCEPT ![n] = Null], prev |-> [b.prev EXCEPT ![n] = Null],
           content |-> [b.content EXCEPT ![n] = << >>], size |-> b.size - 1]
  BY <1>1, <1>2 DEF ListType, m
<1>5. m \in ListType(C)
  BY <1>3, <1>4 DEF ListType, Link
<1>6. /\ m.size = b.size - 1 /\ m.content = [b.content EXCEPT ![n] = << >>]
      /\ m.next = [b.next EXCEPT ![n] = Null] /\ m.prev = [b.prev EXCEPT ![n] = Null]
  BY <1>4
<1> QED BY <1>1, <1>5, <1>6 DEF m

-----------------------------------------------------------------------------
(* Removal                                                                 *)

\* The ring without its p-th node, and with a node more in front
OutAt(s, p, k) == [i \in 1 .. k - 1 |-> IF i < p THEN s[i] ELSE s[i + 1]]

InFront(n, s, k) == [i \in 1 .. k + 1 |-> IF i = 1 THEN n ELSE s[i - 1]]

\* Taking a node out of a ring leaves a ring of the others, in their order.
LEMMA UnlinkRingOf ==
  ASSUME NEW C, << >> \in C, NEW l \in ListType(C), NEW s \in [1 .. l.size -> Node],
         RingOf(l, s), NEW p \in 1 .. l.size
  PROVE  /\ Unlinked(l, s[p]) \in ListType(C)
         /\ OutAt(s, p, l.size) \in [1 .. l.size - 1 -> Node]
         /\ RingOf(Unlinked(l, s[p]), OutAt(s, p, l.size))
<1> DEFINE m == Unlinked(l, s[p])
<1>k. PICK k \in Nat : l.size = k
  BY DEF ListType
<1>s. s \in [1 .. k -> Node] /\ RingOf(l, s) /\ p \in 1 .. k
  BY <1>k
<1>p. Linked(l, s[p]) /\ s[p] \in Node /\ Ring(l)
  BY <1>k, LinkedInRing DEF Ring
<1>m. /\ m \in ListType(C) /\ m.size = k - 1
      /\ m.content = [l.content EXCEPT ![s[p]] = << >>]
      /\ m.next = [[l.next EXCEPT ![l.prev[s[p]]] = l.next[s[p]]] EXCEPT ![s[p]] = Null]
      /\ m.prev = [[l.prev EXCEPT ![l.next[s[p]]] = l.prev[s[p]]] EXCEPT ![s[p]] = Null]
  <2>1. PICK n \in Node : n = s[p]
    BY <1>p
  <2>2. l.size >= 1 /\ l.next[n] \in Node \cup {Guard} /\ l.prev[n] \in Node \cup {Guard}
    BY <1>p, <2>1, NeighboursInRing
  <2>3. /\ Unlinked(l, n) \in ListType(C)
        /\ Unlinked(l, n).size = l.size - 1
        /\ Unlinked(l, n).content = [l.content EXCEPT ![n] = << >>]
        /\ Unlinked(l, n).next = [[l.next EXCEPT ![l.prev[n]] = l.next[n]] EXCEPT ![n] = Null]
        /\ Unlinked(l, n).prev = [[l.prev EXCEPT ![l.next[n]] = l.prev[n]] EXCEPT ![n] = Null]
    BY <2>2, UnlinkedFields
  <2> QED BY <1>k, <2>1, <2>3
<1> HIDE DEF m
<1> USE <1>k, <1>s, <1>m
<1> DEFINE t == OutAt(s, p, k)
<1>0. k - 1 \in Nat
  OBVIOUS
<1>t. /\ DOMAIN t = 1 .. k - 1
      /\ \A i \in 1 .. k - 1 : t[i] = IF i < p THEN s[i] ELSE s[i + 1]
  BY DEF OutAt
<1>u. t \in [1 .. k - 1 -> Node]
  BY DEF OutAt
<1> HIDE DEF t
<1>1. l.prev[s[p]] = At(s, p - 1) /\ l.next[s[p]] = At(s, p + 1)
  <2>1. l.next[At(s, p)] = At(s, p + 1) /\ l.prev[At(s, (p - 1) + 1)] = At(s, p - 1)
    <3>1. p \in 0 .. k /\ p - 1 \in 0 .. k
      BY <1>0
    <3> QED BY <3>1 DEF RingOf
  <2> QED BY <2>1, <1>0 DEF At
<1>2. \A i \in 0 .. k - 1 + 1 : At(t, i) = IF i < p THEN At(s, i) ELSE At(s, i + 1)
  BY <1>0, <1>t DEF At
<1>3. /\ \A i \in Int : At(s, i) \in Node \cup {Guard}
      /\ \A i, j \in 0 .. k : At(s, i) = At(s, j) => i = j
      /\ \A i, j \in 1 .. k + 1 : At(s, i) = At(s, j) => i = j
      /\ At(s, p) = s[p]
  <2>1. IsInjective(s)
    BY DEF RingOf
  <2>2. /\ \A i \in 1 .. k : At(s, i) = s[i] /\ s[i] \in Node
        /\ \A i \in Int : At(s, i) \in Node \cup {Guard}
        /\ \A i, j \in 0 .. k : At(s, i) = At(s, j) => i = j
        /\ \A i, j \in 1 .. k + 1 : At(s, i) = At(s, j) => i = j
    BY <2>1, AtFacts
  <2> QED BY <2>2
<1>4. \A i \in 0 .. k : l.next[At(s, i)] = At(s, i + 1) /\ l.prev[At(s, i + 1)] = At(s, i)
  BY DEF RingOf
<1>5. /\ \A a \in Node \cup {Guard} :
           m.next[a] = IF a = At(s, p) THEN Null
                       ELSE IF a = At(s, p - 1) THEN At(s, p + 1) ELSE l.next[a]
      /\ \A a \in Node \cup {Guard} :
           m.prev[a] = IF a = At(s, p) THEN Null
                       ELSE IF a = At(s, p + 1) THEN At(s, p - 1) ELSE l.prev[a]
  <2>1. /\ m.next = [[l.next EXCEPT ![At(s, p - 1)] = At(s, p + 1)] EXCEPT ![At(s, p)] = Null]
        /\ m.prev = [[l.prev EXCEPT ![At(s, p + 1)] = At(s, p - 1)] EXCEPT ![At(s, p)] = Null]
    BY <1>1, <1>3
  <2>2. /\ l.next \in [Node \cup {Guard} -> Link] /\ l.prev \in [Node \cup {Guard} -> Link]
    BY DEF ListType
  <2>3. {At(s, p - 1), At(s, p), At(s, p + 1)} \subseteq Node \cup {Guard}
    BY <1>0, <1>3
  <2> QED BY <2>1, <2>2, <2>3
<1>6. IsInjective(t)
  <2> SUFFICES ASSUME NEW i \in 1 .. k - 1, NEW j \in 1 .. k - 1, t[i] = t[j] PROVE i = j
    BY <1>t DEF IsInjective
  <2> DEFINE of(x) == IF x < p THEN x ELSE x + 1
  <2>1. of(i) \in 1 .. k /\ of(j) \in 1 .. k /\ (of(i) = of(j) => i = j)
    BY <1>0
  <2>2. t[i] = s[of(i)] /\ t[j] = s[of(j)]
    BY <1>t
  <2>3. of(i) = of(j)
    <3>1. IsInjective(s) /\ DOMAIN s = 1 .. k
      BY DEF RingOf
    <3> HIDE DEF of
    <3> QED BY <2>1, <2>2, <3>1 DEF IsInjective
  <2> QED BY <2>1, <2>3
<1>7. ASSUME NEW i \in 0 .. k - 1
      PROVE  m.next[At(t, i)] = At(t, i + 1) /\ m.prev[At(t, i + 1)] = At(t, i)
  <2>1. CASE i < p - 1
    <3>1. At(t, i) = At(s, i) /\ At(t, i + 1) = At(s, i + 1)
      <4>1. i \in 0 .. k - 1 + 1 /\ i + 1 \in 0 .. k - 1 + 1 /\ i < p /\ i + 1 < p /\ (i + 1) + 1 = i + 2
        BY <2>1, <1>0
      <4> QED BY <4>1, <1>2
    <3>2. At(s, i) # At(s, p) /\ At(s, i) # At(s, p - 1)
      BY <2>1, <1>0, <1>3
    <3>3. At(s, i + 1) # At(s, p) /\ At(s, i + 1) # At(s, p + 1)
      BY <2>1, <1>0, <1>3
    <3>4. l.next[At(s, i)] = At(s, i + 1) /\ l.prev[At(s, i + 1)] = At(s, i)
      BY <2>1, <1>0, <1>4
    <3>5. At(t, i) \in Node \cup {Guard} /\ At(t, i + 1) \in Node \cup {Guard}
      BY <3>1, <1>0, <1>3
    <3> QED BY <3>1, <3>2, <3>3, <3>4, <3>5, <1>5
  <2>2. CASE i = p - 1
    <3>1. At(t, i) = At(s, p - 1) /\ At(t, i + 1) = At(s, p + 1)
      BY <2>2, <1>0, <1>2
    <3>2. At(s, p - 1) # At(s, p) /\ At(s, p + 1) # At(s, p)
      BY <2>2, <1>0, <1>3
    <3>3. At(t, i) \in Node \cup {Guard} /\ At(t, i + 1) \in Node \cup {Guard}
      BY <3>1, <1>0, <1>3
    <3>4. m.next[At(t, i)] = At(t, i + 1)
      BY <3>1, <3>2, <3>3, <1>5
    <3>5. m.prev[At(t, i + 1)] = At(t, i)
      BY <3>1, <3>2, <3>3, <1>5
    <3> QED BY <3>4, <3>5
  <2>3. CASE i > p - 1
    <3>1. At(t, i) = At(s, i + 1) /\ At(t, i + 1) = At(s, i + 2)
      <4>1. i \in 0 .. k - 1 + 1 /\ i + 1 \in 0 .. k - 1 + 1 /\ ~(i < p) /\ ~(i + 1 < p) /\ (i + 1) + 1 = i + 2
        BY <2>3, <1>0
      <4> QED BY <4>1, <1>2
    <3>2. At(s, i + 1) # At(s, p) /\ At(s, i + 1) # At(s, p - 1)
      BY <2>3, <1>0, <1>3
    <3>3. At(s, i + 2) # At(s, p) /\ At(s, i + 2) # At(s, p + 1)
      BY <2>3, <1>0, <1>3
    <3>4. l.next[At(s, i + 1)] = At(s, i + 2) /\ l.prev[At(s, i + 2)] = At(s, i + 1)
      BY <2>3, <1>0, <1>4
    <3>5. At(t, i) \in Node \cup {Guard} /\ At(t, i + 1) \in Node \cup {Guard}
      BY <3>1, <1>0, <1>3
    <3> QED BY <3>1, <3>2, <3>3, <3>4, <3>5, <1>5
  <2> QED BY <2>1, <2>2, <2>3, <1>0
<1>8. ASSUME NEW a \in Node, \A i \in DOMAIN t : t[i] # a
      PROVE  m.next[a] = Null /\ m.prev[a] = Null /\ m.content[a] = << >>
  <2>1. CASE a = s[p]
    BY <2>1, <1>3, <1>5 DEF ListType
  <2>2. CASE a # s[p]
    <3>1. ASSUME NEW i \in 1 .. k PROVE s[i] # a
      <4>1. CASE i < p
        <5>1. i \in DOMAIN t /\ t[i] = s[i]
          BY <4>1, <1>0, <1>t
        <5> QED BY <5>1, <1>8
      <4>2. CASE i > p
        <5>1. i - 1 \in DOMAIN t /\ t[i - 1] = s[i]
          BY <4>2, <1>0, <1>t
        <5> QED BY <5>1, <1>8
      <4> QED BY <4>1, <4>2, <2>2, <1>0
    <3>2. l.next[a] = Null /\ l.prev[a] = Null /\ l.content[a] = << >>
      BY <3>1 DEF RingOf
    <3>3. a # At(s, p - 1) /\ a # At(s, p + 1)
      BY <3>1, CacheConstants, <1>0 DEF At
    <3> QED BY <2>2, <3>2, <3>3, <1>3, <1>5 DEF ListType
  <2> QED BY <2>1, <2>2
<1>9. RingOf(m, t)
  BY <1>6, <1>7, <1>8 DEF RingOf
<1> QED BY <1>u, <1>9 DEF m, t

LEMMA UnlinkRing ==
  ASSUME NEW C, << >> \in C, NEW l \in ListType(C), Ring(l), NEW n \in Node, Linked(l, n)
  PROVE  Unlinked(l, n) \in ListType(C) /\ Ring(Unlinked(l, n))
<1>k. l.size \in Nat
  BY DEF ListType
<1>s. PICK s \in [1 .. l.size -> Node] : RingOf(l, s)
  BY DEF Ring
<1>p. PICK p \in 1 .. l.size : s[p] = n
  BY <1>k, <1>s, LinkedInRing
<1>1. Unlinked(l, n) \in ListType(C) /\ Unlinked(l, n).size = l.size - 1
  <2>1. /\ l.size >= 1
        /\ l.next[n] \in Node \cup {Guard} /\ l.prev[n] \in Node \cup {Guard}
    BY NeighboursInRing
  <2> QED BY <2>1, UnlinkedFields, ZenonT(40)
<1> QED BY <1>s, <1>p, <1>1, UnlinkRingOf DEF Ring

-----------------------------------------------------------------------------
(* Insertion                                                               *)

LEMMA PushedInRing ==
  ASSUME NEW C, NEW l \in ListType(C), Ring(l), NEW n \in Node, NEW v \in C
  PROVE  /\ Pushed(l, n, v) \in ListType(C)
         /\ Pushed(l, n, v).size = l.size + 1
         /\ Pushed(l, n, v).content = [l.content EXCEPT ![n] = v]
         /\ Pushed(l, n, v).next = [[l.next EXCEPT ![n] = l.next[Guard]] EXCEPT ![Guard] = n]
         /\ Pushed(l, n, v).prev = [[l.prev EXCEPT ![n] = Guard] EXCEPT ![l.next[Guard]] = n]
<1>1. l.next[Guard] \in Node \cup {Guard}
  BY FirstInRing
<1> QED BY <1>1, PushedFields

\* Linking a node between the guard and the first node makes a ring with it.
LEMMA LinkRingOf ==
  ASSUME NEW C, NEW l \in ListType(C), NEW s \in [1 .. l.size -> Node], RingOf(l, s),
         NEW n \in Node, ~Linked(l, n), NEW v \in C
  PROVE  /\ Pushed(l, n, v) \in ListType(C)
         /\ InFront(n, s, l.size) \in [1 .. l.size + 1 -> Node]
         /\ RingOf(Pushed(l, n, v), InFront(n, s, l.size))
<1> DEFINE m == Pushed(l, n, v)
<1>f. /\ m \in ListType(C)
      /\ m.size = l.size + 1
      /\ m.content = [l.content EXCEPT ![n] = v]
      /\ m.next = [[l.next EXCEPT ![n] = l.next[Guard]] EXCEPT ![Guard] = n]
      /\ m.prev = [[l.prev EXCEPT ![n] = Guard] EXCEPT ![l.next[Guard]] = n]
  <2>1. Ring(l)
    BY DEF Ring
  <2> QED BY <2>1, PushedInRing
<1> HIDE DEF m
<1>k. PICK k \in Nat : l.size = k
  BY DEF ListType
<1>s. s \in [1 .. k -> Node] /\ RingOf(l, s)
  BY <1>k
<1>n. \A i \in 1 .. k : s[i] # n
  BY <1>k, <1>s, LinkedInRing
<1>m. m.size = k + 1
  BY <1>f, <1>k
<1> USE <1>f, <1>k, <1>s, <1>n, <1>m
<1> DEFINE t == InFront(n, s, k)
<1>t. /\ DOMAIN t = 1 .. k + 1
      /\ \A i \in 1 .. k + 1 : t[i] = IF i = 1 THEN n ELSE s[i - 1]
  BY DEF InFront
<1>u. t \in [1 .. k + 1 -> Node]
  BY DEF InFront
<1> HIDE DEF t
<1>1. IsInjective(s) /\ DOMAIN s = 1 .. k
  BY DEF RingOf
<1>2. /\ At(t, 0) = Guard /\ At(t, 1) = n
      /\ \A i \in 2 .. k + 2 : At(t, i) = At(s, i - 1)
  BY <1>t, <1>1 DEF At
<1>3. /\ \A i \in Int : At(s, i) \in Node \cup {Guard}
      /\ \A i, j \in 0 .. k : At(s, i) = At(s, j) => i = j
      /\ \A i, j \in 1 .. k + 1 : At(s, i) = At(s, j) => i = j
      /\ At(s, 0) = Guard
  BY <1>1, AtFacts
<1>4. \A i \in 0 .. k : l.next[At(s, i)] = At(s, i + 1) /\ l.prev[At(s, i + 1)] = At(s, i)
  BY DEF RingOf
<1>5. l.next[Guard] = At(s, 1)
  <2>1. 0 \in 0 .. k /\ 0 + 1 = 1
    OBVIOUS
  <2> QED BY <2>1, <1>3, <1>4
<1>6. \A i \in 0 .. k + 1 : At(s, i) # n
  BY <1>1, CacheConstants DEF At
<1>7. /\ \A a \in Node \cup {Guard} :
           m.next[a] = IF a = Guard THEN n ELSE IF a = n THEN At(s, 1) ELSE l.next[a]
      /\ \A a \in Node \cup {Guard} :
           m.prev[a] = IF a = At(s, 1) THEN n ELSE IF a = n THEN Guard ELSE l.prev[a]
  <2>1. /\ m.next = [[l.next EXCEPT ![n] = At(s, 1)] EXCEPT ![Guard] = n]
        /\ m.prev = [[l.prev EXCEPT ![n] = Guard] EXCEPT ![At(s, 1)] = n]
    BY <1>5
  <2>2. /\ l.next \in [Node \cup {Guard} -> Link] /\ l.prev \in [Node \cup {Guard} -> Link]
    BY DEF ListType
  <2> QED BY <2>1, <2>2, <1>3
<1>8. IsInjective(t)
  <2> SUFFICES ASSUME NEW i \in 1 .. k + 1, NEW j \in 1 .. k + 1, t[i] = t[j] PROVE i = j
    BY <1>t DEF IsInjective
  <2>1. CASE i = 1 \/ j = 1
    BY <2>1, <1>t
  <2>2. CASE i # 1 /\ j # 1
    <3>1. i - 1 \in 1 .. k /\ j - 1 \in 1 .. k /\ s[i - 1] = s[j - 1]
      BY <2>2, <1>t
    <3>2. i - 1 = j - 1
      BY <3>1, <1>1 DEF IsInjective
    <3> QED BY <3>2
  <2> QED BY <2>1, <2>2
<1>9. ASSUME NEW i \in 0 .. k + 1
      PROVE  m.next[At(t, i)] = At(t, i + 1) /\ m.prev[At(t, i + 1)] = At(t, i)
  <2>1. CASE i = 0
    <3>1. m.next[Guard] = n /\ m.prev[n] = Guard
      <4>1. At(s, 1) # n
        BY <1>6
      <4> QED BY <4>1, <1>7
    <3> QED BY <3>1, <2>1, <1>2
  <2>2. CASE i = 1
    <3>1. At(t, i) = n /\ At(t, i + 1) = At(s, 1)
      BY <2>2, <1>2
    <3>2. m.next[n] = At(s, 1) /\ m.prev[At(s, 1)] = n
      BY <1>3, <1>7, CacheConstants, SMTT(25)
    <3> QED BY <3>1, <3>2
  <2>3. CASE i > 1
    <3>1. i - 1 \in 1 .. k /\ (i - 1) + 1 = i /\ i \in 2 .. k + 1
      BY <2>3
    <3>2. At(t, i) = At(s, i - 1) /\ At(t, i + 1) = At(s, i)
      BY <3>1, <1>2
    <3>3. At(s, i - 1) # Guard /\ At(s, i - 1) # n /\ At(s, i) # At(s, 1) /\ At(s, i) # n
      BY <3>1, <1>3, <1>6
    <3>4. l.next[At(s, i - 1)] = At(s, i) /\ l.prev[At(s, i)] = At(s, i - 1)
      BY <3>1, <1>4
    <3>5. At(s, i - 1) \in Node \cup {Guard} /\ At(s, i) \in Node \cup {Guard}
      BY <3>1, <1>3
    <3> QED BY <3>2, <3>3, <3>4, <3>5, <1>7
  <2> QED BY <2>1, <2>2, <2>3
<1>10. ASSUME NEW a \in Node, \A i \in DOMAIN t : t[i] # a
       PROVE  m.next[a] = Null /\ m.prev[a] = Null /\ m.content[a] = << >>
  <2>1. a # n
    BY <1>t, <1>10
  <2>2. ASSUME NEW i \in 1 .. k PROVE s[i] # a
    <3>1. i + 1 \in DOMAIN t /\ t[i + 1] = s[i]
      BY <1>t
    <3> QED BY <3>1, <1>10
  <2>3. l.next[a] = Null /\ l.prev[a] = Null /\ l.content[a] = << >>
    BY <2>2, <1>1 DEF RingOf
  <2>4. a # At(s, 1) /\ a # Guard
    BY <2>2, <1>1, CacheConstants DEF At
  <2> QED BY <2>1, <2>3, <2>4, <1>7 DEF ListType
<1>11. RingOf(m, t)
  BY <1>t, <1>8, <1>9, <1>10 DEF RingOf
<1> QED BY <1>u, <1>11 DEF m, t

LEMMA LinkRing ==
  ASSUME NEW C, NEW l \in ListType(C), Ring(l), NEW n \in Node, ~Linked(l, n), NEW v \in C
  PROVE  Pushed(l, n, v) \in ListType(C) /\ Ring(Pushed(l, n, v))
<1>1. Pushed(l, n, v).size = l.size + 1 /\ Pushed(l, n, v).content = [l.content EXCEPT ![n] = v]
  <2> DEFINE m == Pushed(l, n, v)
  <2>1. /\ m \in ListType(C)
        /\ m.size = l.size + 1
        /\ m.content = [l.content EXCEPT ![n] = v]
        /\ m.next = [[l.next EXCEPT ![n] = l.next[Guard]] EXCEPT ![Guard] = n]
        /\ m.prev = [[l.prev EXCEPT ![n] = Guard] EXCEPT ![l.next[Guard]] = n]
    BY PushedInRing
  <2> QED BY <2>1
<1>2. PICK s \in [1 .. l.size -> Node] : RingOf(l, s)
  BY DEF Ring
<1> QED BY <1>1, <1>2, LinkRingOf DEF Ring

-----------------------------------------------------------------------------
(* The operations                                                          *)

LEMMA EmptyFacts ==
  ASSUME NEW C, << >> \in C
  PROVE  /\ EmptyList \in ListType(C) /\ EmptyList.size = 0
         /\ Ring(EmptyList)
         /\ \A n \in Node : ~Linked(EmptyList, n)
<1>1. EmptyList \in ListType(C) /\ EmptyList.size = 0
  BY DEF EmptyList, ListType, Link
<1>2. \A n \in Node : EmptyList.next[n] = Null /\ EmptyList.prev[n] = Null /\ EmptyList.content[n] = << >>
  BY CacheConstants DEF EmptyList
<1>3. EmptyList.next[Guard] = Guard /\ EmptyList.prev[Guard] = Guard
  BY DEF EmptyList
<1>4. PICK s : s \in [1 .. 0 -> Node]
  <2>1. [i \in 1 .. 0 |-> CHOOSE n \in Node : TRUE] \in [1 .. 0 -> Node]
    OBVIOUS
  <2> QED BY <2>1
<1>5. \A i \in Int : At(s, i) = Guard
  BY <1>4 DEF At
<1>6. RingOf(EmptyList, s)
  BY <1>1, <1>2, <1>3, <1>4, <1>5 DEF RingOf, IsInjective
<1> QED BY <1>1, <1>2, <1>4, <1>6 DEF Ring, Linked

\* Remove takes its node out, whether it was in or not, and nothing else.
LEMMA RemoveFacts ==
  ASSUME NEW C, << >> \in C, NEW l \in ListType(C), Ring(l), NEW n \in Node
  PROVE  /\ Remove(l, n) \in ListType(C)
         /\ Ring(Remove(l, n))
         /\ Remove(l, n).size = IF Linked(l, n) THEN l.size - 1 ELSE l.size
         /\ \A a \in Node : Linked(Remove(l, n), a) => Linked(l, a) /\ a # n
         /\ Remove(l, n).content = IF Linked(l, n) THEN [l.content EXCEPT ![n] = << >>]
                                                  ELSE l.content
<1> DEFINE m == Remove(l, n)
<1>1. CASE ~Linked(l, n)
  BY <1>1 DEF Remove
<1>2. CASE Linked(l, n)
  <2>1. m = Unlinked(l, n)
    BY <1>2 DEF Remove
  <2> HIDE DEF m
  <2>2. l.size >= 1 /\ l.next[n] \in Node \cup {Guard} /\ l.prev[n] \in Node \cup {Guard}
    BY <1>2, NeighboursInRing
  <2>3. m \in ListType(C) /\ Ring(m)
    BY <1>2, <2>1, UnlinkRing
  <2>4. /\ m.size = l.size - 1
        /\ m.content = [l.content EXCEPT ![n] = << >>]
        /\ m.next = [[l.next EXCEPT ![l.prev[n]] = l.next[n]] EXCEPT ![n] = Null]
        /\ m.prev = [[l.prev EXCEPT ![l.next[n]] = l.prev[n]] EXCEPT ![n] = Null]
    BY <2>1, <2>2, UnlinkedFields
  <2>6. ASSUME NEW a \in Node, Linked(m, a) PROVE Linked(l, a) /\ a # n
    <3>1. m.next[a] # Null /\ m.prev[a] # Null
      BY <2>6 DEF Linked
    <3>2. l.next \in [Node \cup {Guard} -> Link] /\ l.prev \in [Node \cup {Guard} -> Link]
      BY DEF ListType
    <3>3. a # n
      BY <3>1, <3>2, <2>4
    <3>4. a = l.prev[n] \/ l.next[a] = m.next[a]
      BY <3>2, <3>3, <2>4
    <3>5. a = l.next[n] \/ l.prev[a] = m.prev[a]
      BY <3>2, <3>3, <2>4
    <3>6. /\ l.prev[n] \in Node => Linked(l, l.prev[n])
          /\ l.next[n] \in Node => Linked(l, l.next[n])
      BY <1>2, NeighboursInRing
    <3>7. CASE a = l.prev[n] \/ a = l.next[n]
      BY <3>3, <3>6, <3>7
    <3>8. CASE ~(a = l.prev[n] \/ a = l.next[n])
      BY <3>1, <3>3, <3>4, <3>5, <3>8 DEF Linked
    <3> QED BY <3>7, <3>8
  <2> QED BY <1>2, <2>3, <2>4, <2>6 DEF m
<1> QED BY <1>1, <1>2

\* RemoveTail, on a list that is not empty, removes the last node.
LEMMA RemoveTailOf ==
  ASSUME NEW C, NEW l \in ListType(C), NEW s \in [1 .. l.size -> Node], RingOf(l, s), l.size >= 1
  PROVE  /\ s[l.size] \in Node /\ Linked(l, s[l.size])
         /\ RemoveTail(l) = Remove(l, s[l.size])
<1>0. l.size \in Nat
  BY DEF ListType
<1>1. RingOf(l, s)
  OBVIOUS
<1>2. At(s, l.size + 1) = Guard /\ At(s, l.size) = s[l.size] /\ s[l.size] \in Node
  BY <1>0, <1>1 DEF At
<1>3. l.prev[Guard] = s[l.size]
  <2>1. l.size \in 0 .. l.size
    BY <1>0
  <2>2. l.prev[At(s, l.size + 1)] = At(s, l.size)
    BY <2>1, <1>1 DEF RingOf
  <2> QED BY <2>2, <1>2
<1>4. Linked(l, s[l.size])
  <2>1. l.size \in 1 .. l.size
    BY <1>0
  <2> QED BY <2>1, <1>0, <1>1, <1>2, LinkedInRing
<1> QED BY <1>2, <1>3, <1>4, CacheConstants DEF RemoveTail

LEMMA RemoveTailFacts ==
  ASSUME NEW C, << >> \in C, NEW l \in ListType(C), Ring(l), l.size >= 1
  PROVE  \E n \in Node : Linked(l, n) /\ RemoveTail(l) = Remove(l, n)
<1>1. PICK s \in [1 .. l.size -> Node] : RingOf(l, s)
  BY DEF Ring
<1> QED BY <1>1, RemoveTailOf

\* Linking a node behind the guard links no other node.
LEMMA LinkedByLinkFirst ==
  ASSUME NEW C, NEW D, NEW l \in ListType(C), Ring(l), NEW n \in Node,
         NEW m \in ListType(D), NEW a \in Node, Linked(m, a),
         m.next = [[l.next EXCEPT ![n] = l.next[Guard]] EXCEPT ![Guard] = n],
         m.prev = [[l.prev EXCEPT ![n] = Guard] EXCEPT ![l.next[Guard]] = n]
  PROVE  a = n \/ Linked(l, a)
<1>1. m.next[a] # Null /\ m.prev[a] # Null
  BY DEF Linked
<1>2. l.next \in [Node \cup {Guard} -> Link] /\ l.prev \in [Node \cup {Guard} -> Link]
  BY DEF ListType
<1>3. a = n \/ l.next[a] = m.next[a]
  BY <1>2, CacheConstants
<1>4. a = n \/ a = l.next[Guard] \/ l.prev[a] = m.prev[a]
  BY <1>2, CacheConstants
<1>5. a = l.next[Guard] => Linked(l, a)
  BY FirstInRing
<1> QED BY <1>1, <1>3, <1>4, <1>5 DEF Linked

\* MoveToHead is a removal and an insertion, and keeps the nodes, their contents
\* and their number.
LEMMA MoveFacts ==
  ASSUME NEW C, << >> \in C, NEW l \in ListType(C), Ring(l), NEW n \in Node, Linked(l, n)
  PROVE  /\ MoveToHead(l, n) \in ListType(C)
         /\ Ring(MoveToHead(l, n))
         /\ MoveToHead(l, n).size = l.size
         /\ \A a \in Node : Linked(MoveToHead(l, n), a) => Linked(l, a)
         /\ MoveToHead(l, n).content = l.content
         /\ MoveToHead(l, n) = Pushed(Unlinked(l, n), n, l.content[n])
         /\ ~Linked(Unlinked(l, n), n)
<1> DEFINE m == MoveToHead(l, n)
           r == Unlinked(l, n)
           b == Bypass(l, n)
           q == Pushed(r, n, l.content[n])
<1>1. l.content \in [Node -> C] /\ l.content[n] \in C
  BY DEF ListType
<1>2. l.size >= 1 /\ l.next[n] \in Node \cup {Guard} /\ l.prev[n] \in Node \cup {Guard}
  BY NeighboursInRing
<1>3. /\ r \in ListType(C) /\ r.size = l.size - 1
      /\ r.content = [l.content EXCEPT ![n] = << >>]
      /\ r.next = [[l.next EXCEPT ![l.prev[n]] = l.next[n]] EXCEPT ![n] = Null]
      /\ r.prev = [[l.prev EXCEPT ![l.next[n]] = l.prev[n]] EXCEPT ![n] = Null]
  BY <1>2, UnlinkedFields
<1>4. Ring(r)
  BY UnlinkRing
<1>5. /\ b \in ListType(C) /\ b.size = l.size /\ b.content = l.content
      /\ b.next = [l.next EXCEPT ![l.prev[n]] = l.next[n]]
      /\ b.prev = [l.prev EXCEPT ![l.next[n]] = l.prev[n]]
  BY <1>2 DEF Bypass, ListType, Link
<1>6. m = LinkFirst(b, n)
  BY DEF MoveToHead
<1>7. \A a \in Node : Linked(r, a) => Linked(l, a) /\ a # n
  <2>1. r = Remove(l, n)
    BY DEF Remove
  <2> HIDE DEF r
  <2> QED BY <2>1, RemoveFacts
<1> HIDE DEF m, r, b
<1>8. b.next \in [Node \cup {Guard} -> Link] /\ b.prev \in [Node \cup {Guard} -> Link]
  BY <1>5 DEF ListType
<1>9. r.next = [b.next EXCEPT ![n] = Null] /\ r.prev = [b.prev EXCEPT ![n] = Null]
  BY <1>3, <1>5
<1>10. r.next[Guard] = b.next[Guard]
  BY <1>8, <1>9, CacheConstants
<1>11. r.next[Guard] \in Node \cup {Guard}
  BY <1>3, <1>4, FirstInRing
<1>12. /\ m \in ListType(C) /\ m.size = l.size /\ m.content = l.content
       /\ m.next = [[b.next EXCEPT ![n] = b.next[Guard]] EXCEPT ![Guard] = n]
       /\ m.prev = [[b.prev EXCEPT ![n] = Guard] EXCEPT ![b.next[Guard]] = n]
  <2>1. b \in ListType(C) /\ b.next[Guard] \in Node \cup {Guard}
    BY <1>5, <1>10, <1>11
  <2>2. /\ LinkFirst(b, n) \in ListType(C) /\ LinkFirst(b, n).size = b.size
        /\ LinkFirst(b, n).content = b.content
        /\ LinkFirst(b, n).next = [[b.next EXCEPT ![n] = b.next[Guard]] EXCEPT ![Guard] = n]
        /\ LinkFirst(b, n).prev = [[b.prev EXCEPT ![n] = Guard] EXCEPT ![b.next[Guard]] = n]
    BY <2>1, LinkFirstFields
  <2> QED BY <1>5, <1>6, <2>2
<1>13. /\ m.next = [[r.next EXCEPT ![n] = r.next[Guard]] EXCEPT ![Guard] = n]
       /\ m.prev = [[r.prev EXCEPT ![n] = Guard] EXCEPT ![r.next[Guard]] = n]
  <2>1. /\ [[b.next EXCEPT ![n] = Null] EXCEPT ![n] = b.next[Guard]] = [b.next EXCEPT ![n] = b.next[Guard]]
        /\ [[b.prev EXCEPT ![n] = Null] EXCEPT ![n] = Guard] = [b.prev EXCEPT ![n] = Guard]
    BY <1>8
  <2> QED BY <2>1, <1>9, <1>10, <1>12
<1>14. /\ q \in ListType(C) /\ q.size = r.size + 1
       /\ q.content = [r.content EXCEPT ![n] = l.content[n]]
       /\ q.next = [[r.next EXCEPT ![n] = r.next[Guard]] EXCEPT ![Guard] = n]
       /\ q.prev = [[r.prev EXCEPT ![n] = Guard] EXCEPT ![r.next[Guard]] = n]
  <2>1. r \in ListType(C) /\ l.content[n] \in C
    BY <1>1, <1>3
  <2> QED BY <2>1, <1>11, PushedFields
<1>15. Ring(q)
  <2>1. ~Linked(r, n)
    BY <1>7
  <2> QED BY <2>1, <1>1, <1>3, <1>4, LinkRing
<1> HIDE DEF q
<1>16. q.content = l.content /\ q.size = l.size
  <2>1. l.size \in Nat
    BY DEF ListType
  <2> QED BY <2>1, <1>1, <1>3, <1>14
<1>17. m = q
  BY <1>12, <1>13, <1>14, <1>16 DEF ListType
<1>18. ASSUME NEW a \in Node, Linked(m, a) PROVE Linked(l, a)
  <2>1. a = n \/ Linked(r, a)
    <3>1. r \in ListType(C) /\ m \in ListType(C) /\ Ring(r)
      BY <1>3, <1>4, <1>12
    <3> QED BY <1>18, <3>1, <1>13, LinkedByLinkFirst
  <2> QED BY <2>1, <1>7
<1> QED BY <1>7, <1>12, <1>15, <1>17, <1>18 DEF m, q, r

\* PushToHead links its node with its content, and leaves one out when the list
\* was full.
LEMMA PushFacts ==
  ASSUME NEW C, << >> \in C, NEW l \in ListType(C), Ring(l), NEW n \in Node,
         ~Linked(l, n), NEW v \in C, l.size <= Capacity
  PROVE  /\ PushToHead(l, n, v) \in ListType(C)
         /\ Ring(PushToHead(l, n, v))
         /\ PushToHead(l, n, v).size <= Capacity
         /\ \A a \in Node : Linked(PushToHead(l, n, v), a) => a = n \/ Linked(l, a)
         /\ \A a \in Node : PushToHead(l, n, v).content[a]
                              \in {<< >>, IF a = n THEN v ELSE l.content[a]}
<1> DEFINE m == Pushed(l, n, v)
<1>0. l.size \in Nat /\ l.content \in [Node -> C]
  BY DEF ListType
<1>1. m \in ListType(C) /\ Ring(m)
  BY LinkRing
<1>2. l.next[Guard] \in Node \cup {Guard}
  BY FirstInRing
<1>3. /\ m.size = l.size + 1
      /\ m.content = [l.content EXCEPT ![n] = v]
      /\ m.next = [[l.next EXCEPT ![n] = l.next[Guard]] EXCEPT ![Guard] = n]
      /\ m.prev = [[l.prev EXCEPT ![n] = Guard] EXCEPT ![l.next[Guard]] = n]
  BY <1>2, PushedFields
<1>4. PushToHead(l, n, v) = IF m.size > Capacity THEN RemoveTail(m) ELSE m
  BY DEF PushToHead
<1> HIDE DEF m
<1>5. \A a \in Node : Linked(m, a) => a = n \/ Linked(l, a)
  BY <1>1, <1>3, LinkedByLinkFirst
<1>6. \A a \in Node : m.content[a] = IF a = n THEN v ELSE l.content[a]
  BY <1>0, <1>3
<1>7. CASE ~(m.size > Capacity)
  BY <1>0, <1>1, <1>3, <1>4, <1>5, <1>6, <1>7, CacheConstants
<1>8. CASE m.size > Capacity
  <2>1. m.size >= 1
    BY <1>0, <1>3
  <2>2. PICK e \in Node : Linked(m, e) /\ RemoveTail(m) = Remove(m, e)
    BY <1>1, <2>1, RemoveTailFacts
  <2> DEFINE z == Remove(m, e)
  <2>3. /\ z \in ListType(C) /\ Ring(z)
        /\ z.size = IF Linked(m, e) THEN m.size - 1 ELSE m.size
        /\ \A a \in Node : Linked(z, a) => Linked(m, a) /\ a # e
        /\ z.content = IF Linked(m, e) THEN [m.content EXCEPT ![e] = << >>] ELSE m.content
    BY <1>1, RemoveFacts
  <2>4. PushToHead(l, n, v) = z
    BY <1>4, <1>8, <2>2
  <2> HIDE DEF z
  <2>5. z.size <= Capacity
    BY <1>0, <1>3, <2>2, <2>3, CacheConstants
  <2>6. \A a \in Node : z.content[a] \in {<< >>, m.content[a]}
    BY <1>1, <2>2, <2>3 DEF ListType
  <2> QED BY <1>5, <1>6, <2>3, <2>4, <2>5, <2>6
<1> QED BY <1>7, <1>8
=============================================================================
