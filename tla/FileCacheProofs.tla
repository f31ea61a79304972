-------------------------- MODULE FileCacheProofs --------------------------
(***************************************************************************)
(* The list keeps its shape under the calls of DataManager, for any number *)
(* of nodes, any contents and any capacity.  The invariant is the type and *)
(* the ring together: Remove counts down, which is only right for a node   *)
(* that the ring goes through.                                             *)
(***************************************************************************)
EXTENDS FileCache, DataManagerListProofs, SequenceTheorems, WellFoundedInduction

IInv == TypeOK /\ ListIsSound

LEMMA InitIInv == Init => IInv
BY EmptyFacts, CacheConstants, ContentConstants DEF Init, IInv, TypeOK, ListIsSound, Sound, Ring

\* Every call keeps the type and the ring.
LEMMA NextIInv == IInv /\ [Next]_vars => IInv'
<1> SUFFICES ASSUME IInv, [Next]_vars PROVE IInv'
  OBVIOUS
<1>1. list \in ListType(Content) /\ Ring(list) /\ list.size <= Capacity /\ last \in Node \cup {Null}
  BY DEF IInv, TypeOK, ListIsSound, Sound, Ring
<1> DEFINE Kept == /\ list' \in ListType(Content) /\ Ring(list') /\ list'.size <= Capacity
                   /\ last' \in Node \cup {Null}
<1>2. Kept => IInv'
  BY DEF IInv, TypeOK, ListIsSound, Sound, Ring
<1>3. ASSUME NEW n \in Node, Linked(list, n), list' = MoveToHead(list, n)
      PROVE  list' \in ListType(Content) /\ Ring(list') /\ list'.size <= Capacity
  BY <1>1, <1>3, ContentConstants, MoveFacts
<1>4. ASSUME NEW n \in Node, GetFilePreContent(n) PROVE Kept
  BY <1>3, <1>4 DEF GetFilePreContent
<1>5. ASSUME NEW n \in Node, NEW content \in Content, PutFilePreContent(n, content) PROVE Kept
  <2>1. CASE Linked(list, n)
    BY <1>3, <1>5, <2>1 DEF PutFilePreContent
  <2>2. CASE ~Linked(list, n)
    <3>1. list' = PushToHead(list, n, content) /\ last' = n
      BY <1>5, <2>2 DEF PutFilePreContent
    <3> QED BY <1>1, <2>2, <3>1, ContentConstants, PushFacts
  <2> QED BY <2>1, <2>2
<1>6. ASSUME NEW n \in Node, Delete(n) PROVE Kept
  <2>1. list' = Remove(list, n) /\ last' = Null
    BY <1>6 DEF Delete
  <2>2. /\ Remove(list, n) \in ListType(Content) /\ Ring(Remove(list, n))
        /\ Remove(list, n).size = IF Linked(list, n) THEN list.size - 1 ELSE list.size
    BY <1>1, ContentConstants, RemoveFacts
  <2>3. list.size \in Nat
    BY <1>1 DEF ListType
  <2> QED BY <1>1, <2>1, <2>2, <2>3, CacheConstants
<1>7. ASSUME UNCHANGED vars PROVE Kept
  BY <1>1, <1>7 DEF vars
<1> QED BY <1>2, <1>4, <1>5, <1>6, <1>7 DEF Next

LEMMA Invariance == Spec => []IInv
BY InitIInv, NextIInv, PTL DEF Spec

\* The links, contents and size of the list always have their types: in particular
\* _size, an unsigned counter that Remove decrements, never falls below zero.
THEOREM TypeCorrect == Spec => []TypeOK
<1>1. IInv => TypeOK
  BY DEF IInv
<1> QED BY <1>1, Invariance, PTL

\* The list of DataManagerList is at every time one ring of _size nodes through
\* the guard, _capacity at most, the same forwards and backwards.
THEOREM ListStaysSound == Spec => []ListIsSound
<1>1. IInv => ListIsSound
  BY DEF IInv
<1> QED BY <1>1, Invariance, PTL

-----------------------------------------------------------------------------
(* A list stands for one sequence only                                     *)

\* A set of natural numbers has a least element.
LEMMA NatMin ==
  ASSUME NEW T, T \subseteq Nat, T # {}
  PROVE  \E n \in T : \A m \in T : n <= m
<1> DEFINE R == OpToRel(<, Nat)
<1>1. IsWellFoundedOn(R, Nat)
  BY NatLessThanWellFounded
<1>2. \A a, b \in Nat : a < b => <<a, b>> \in R
  BY DEF OpToRel
<1> HIDE DEF R
<1>3. PICK x \in T : \A y \in T : ~ (<<y, x>> \in R)
  BY <1>1, WFMin
<1>4. ASSUME NEW m \in T PROVE x <= m
  <2>1. ~ (m < x)
    BY <1>2, <1>3
  <2> QED BY <2>1
<1> QED BY <1>4

\* Going along the links from the guard, two rings of one list can never part.
LEMMA RingIsUnique ==
  ASSUME NEW l, l.size \in Nat,
         NEW s \in [1 .. l.size -> Node], RingOf(l, s),
         NEW t \in [1 .. l.size -> Node], RingOf(l, t)
  PROVE  s = t
<1>1. PICK k \in Nat : l.size = k
  OBVIOUS
<1>2. s \in [1 .. k -> Node] /\ t \in [1 .. k -> Node]
  BY <1>1
<1>3. \A i \in 0 .. k : l.next[At(s, i)] = At(s, i + 1) /\ l.next[At(t, i)] = At(t, i + 1)
  BY <1>1 DEF RingOf
<1> DEFINE D == {i \in 0 .. k + 1 : At(s, i) # At(t, i)}
<1>4. CASE D = {}
  <2>1. ASSUME NEW i \in 1 .. k PROVE s[i] = t[i]
    <3>1. At(s, i) = At(t, i)
      BY <1>4
    <3> QED BY <1>2, <3>1 DEF At
  <2> QED BY <1>2, <2>1
<1>5. CASE D # {}
  <2>1. D \subseteq Nat
    OBVIOUS
  <2>2. PICK j \in D : \A i \in D : j <= i
    <3> HIDE DEF D
    <3> QED BY <1>5, <2>1, NatMin
  <2>3. At(s, 0) = Guard /\ At(t, 0) = Guard
    BY <1>2 DEF At
  <2>4. j \in 1 .. k + 1
    BY <2>2, <2>3
  <2>5. At(s, j - 1) = At(t, j - 1) /\ j - 1 \in 0 .. k /\ (j - 1) + 1 = j
    BY <2>2, <2>4
  <2>6. At(s, j) = At(t, j)
    BY <1>3, <2>5
  <2> QED BY <2>2, <2>6
<1> QED BY <1>4, <1>5

\* The nodes of `s' with their contents in `l'
Held(l, s) == [i \in 1 .. l.size |-> [node |-> s[i], content |-> l.content[s[i]]]]

RecentIn(l) == Held(l, CHOOSE t \in [1 .. l.size -> Node] : RingOf(l, t))

LEMMA RecentIsHeld ==
  ASSUME NEW l, l.size \in Nat, NEW s \in [1 .. l.size -> Node], RingOf(l, s)
  PROVE  RecentIn(l) = Held(l, s)
<1> DEFINE t == CHOOSE u \in [1 .. l.size -> Node] : RingOf(l, u)
<1>1. t \in [1 .. l.size -> Node] /\ RingOf(l, t)
  OBVIOUS
<1>2. RecentIn(l) = Held(l, t)
  BY DEF RecentIn
<1> HIDE DEF t
<1>3. t = s
  BY <1>1, RingIsUnique
<1> QED BY <1>2, <1>3

Entry == [node : Node, content : Content]

LEMMA HeldType ==
  ASSUME NEW l \in ListType(Content), NEW s \in [1 .. l.size -> Node]
  PROVE  /\ Held(l, s) \in Seq(Entry) /\ Len(Held(l, s)) = l.size
         /\ DOMAIN Held(l, s) = 1 .. l.size
         /\ \A i \in 1 .. l.size : Held(l, s)[i] = [node |-> s[i], content |-> l.content[s[i]]]
<1>1. l.size \in Nat /\ l.content \in [Node -> Content]
  BY DEF ListType
<1>2. \A i \in 1 .. l.size : [node |-> s[i], content |-> l.content[s[i]]] \in Entry
  BY <1>1 DEF Entry
<1>3. Held(l, s) \in [1 .. l.size -> Entry]
  BY <1>2 DEF Held
<1>4. Held(l, s) \in Seq(Entry)
  BY <1>1, <1>3, SeqDef
<1>5. DOMAIN Held(l, s) = 1 .. l.size
  BY DEF Held
<1>6. Len(Held(l, s)) = l.size
  BY <1>1, <1>4, <1>5, LenProperties
<1> QED BY <1>4, <1>5, <1>6 DEF Held

-----------------------------------------------------------------------------
(* What the operations do to that sequence                                 *)

LEMMA RemoveAtProperties ==
  ASSUME NEW S, NEW s \in Seq(S), NEW p \in 1 .. Len(s)
  PROVE  /\ Cache!RemoveAt(s, p) \in Seq(S) /\ Len(Cache!RemoveAt(s, p)) = Len(s) - 1
         /\ \A i \in 1 .. Len(s) - 1 : Cache!RemoveAt(s, p)[i] = IF i < p THEN s[i] ELSE s[i + 1]
<1>1. Len(s) \in Nat /\ \A i \in 1 .. Len(s) : s[i] \in S
  BY LenProperties, ElementOfSeq
<1>2. p - 1 \in Int /\ p + 1 \in Int /\ Len(s) \in Int
  BY <1>1
<1> DEFINE a == SubSeq(s, 1, p - 1)
           b == SubSeq(s, p + 1, Len(s))
<1>3. /\ a \in Seq(S) /\ Len(a) = p - 1
      /\ \A i \in 1 .. p - 1 : a[i] = s[i]
  <2>1. \A i \in 1 .. p - 1 : s[i] \in S
    BY <1>1
  <2>2. /\ a \in Seq(S) /\ Len(a) = IF 1 <= p - 1 THEN p - 1 - 1 + 1 ELSE 0
        /\ \A i \in 1 .. p - 1 - 1 + 1 : a[i] = s[1 + i - 1]
    BY <1>2, <2>1, SubSeqProperties
  <2> HIDE DEF a
  <2> QED BY <1>1, <2>2
<1>4. /\ b \in Seq(S) /\ Len(b) = Len(s) - p
      /\ \A i \in 1 .. Len(s) - p : b[i] = s[p + i]
  <2>1. \A i \in p + 1 .. Len(s) : s[i] \in S
    BY <1>1
  <2>2. /\ b \in Seq(S) /\ Len(b) = IF p + 1 <= Len(s) THEN Len(s) - (p + 1) + 1 ELSE 0
        /\ \A i \in 1 .. Len(s) - (p + 1) + 1 : b[i] = s[(p + 1) + i - 1]
    BY <1>2, <2>1, SubSeqProperties
  <2> HIDE DEF b
  <2> QED BY <1>1, <2>2
<1>5. Cache!RemoveAt(s, p) = a \o b
  BY DEF Cache!RemoveAt
<1> HIDE DEF a, b
<1>6. /\ a \o b \in Seq(S) /\ Len(a \o b) = Len(a) + Len(b)
      /\ \A i \in 1 .. Len(a) + Len(b) : (a \o b)[i] = IF i <= Len(a) THEN a[i] ELSE b[i - Len(a)]
  BY <1>3, <1>4, ConcatProperties
<1> QED BY <1>1, <1>3, <1>4, <1>5, <1>6

LEMMA ConsProperties ==
  ASSUME NEW S, NEW e \in S, NEW s \in Seq(S)
  PROVE  /\ <<e>> \o s \in Seq(S) /\ Len(<<e>> \o s) = Len(s) + 1
         /\ \A i \in 1 .. Len(s) + 1 : (<<e>> \o s)[i] = IF i = 1 THEN e ELSE s[i - 1]
<1>1. Len(s) \in Nat
  BY LenProperties
<1> DEFINE a == <<e>>
<1>2. a \in Seq(S) /\ Len(a) = 1 /\ a[1] = e
  OBVIOUS
<1> HIDE DEF a
<1>3. /\ a \o s \in Seq(S) /\ Len(a \o s) = Len(a) + Len(s)
      /\ \A i \in 1 .. Len(a) + Len(s) : (a \o s)[i] = IF i <= Len(a) THEN a[i] ELSE s[i - Len(a)]
  BY <1>2, ConcatProperties
<1> QED BY <1>1, <1>2, <1>3 DEF a

\* Removing the p-th node of the ring removes the p-th entry.
LEMMA UnlinkedHeld ==
  ASSUME NEW l \in ListType(Content), NEW s \in [1 .. l.size -> Node], RingOf(l, s),
         NEW p \in 1 .. l.size
  PROVE  /\ Unlinked(l, s[p]) \in ListType(Content)
         /\ Unlinked(l, s[p]).size = l.size - 1
         /\ RingOf(Unlinked(l, s[p]), OutAt(s, p, l.size))
         /\ OutAt(s, p, l.size) \in [1 .. l.size - 1 -> Node]
         /\ Held(Unlinked(l, s[p]), OutAt(s, p, l.size)) = Cache!RemoveAt(Held(l, s), p)
<1>k. PICK k \in Nat : l.size = k
  BY DEF ListType
<1>c. l.content \in [Node -> Content]
  BY DEF ListType
<1> DEFINE m == Unlinked(l, s[p])
           t == OutAt(s, p, l.size)
<1>1. m \in ListType(Content) /\ t \in [1 .. l.size - 1 -> Node] /\ RingOf(m, t)
  BY UnlinkRingOf, ContentConstants
<1>2. m.size = l.size - 1 /\ m.content = [l.content EXCEPT ![s[p]] = << >>]
  <2>1. PICK n \in Node : n = s[p]
    OBVIOUS
  <2>2. Linked(l, n) /\ Ring(l)
    BY <1>k, <2>1, LinkedInRing DEF Ring
  <2>3. l.size >= 1 /\ l.next[n] \in Node \cup {Guard} /\ l.prev[n] \in Node \cup {Guard}
    BY <2>2, NeighboursInRing
  <2>4. /\ Unlinked(l, n) \in ListType(Content)
        /\ Unlinked(l, n).size = l.size - 1
        /\ Unlinked(l, n).content = [l.content EXCEPT ![n] = << >>]
        /\ Unlinked(l, n).next = [[l.next EXCEPT ![l.prev[n]] = l.next[n]] EXCEPT ![n] = Null]
        /\ Unlinked(l, n).prev = [[l.prev EXCEPT ![l.next[n]] = l.prev[n]] EXCEPT ![n] = Null]
    BY <2>3, UnlinkedFields, ContentConstants
  <2> QED BY <2>1, <2>4
<1>3. \A i \in 1 .. k - 1 : t[i] = IF i < p THEN s[i] ELSE s[i + 1]
  BY <1>k DEF OutAt
<1> HIDE DEF m, t
<1>4. /\ Held(l, s) \in Seq(Entry) /\ Len(Held(l, s)) = k
      /\ \A i \in 1 .. k : Held(l, s)[i] = [node |-> s[i], content |-> l.content[s[i]]]
  BY <1>k, HeldType
<1>5. t \in [1 .. m.size -> Node]
  BY <1>1, <1>2
<1>6. /\ Held(m, t) \in Seq(Entry) /\ Len(Held(m, t)) = k - 1
      /\ \A i \in 1 .. k - 1 : Held(m, t)[i] = [node |-> t[i], content |-> m.content[t[i]]]
  <2>1. m.size = k - 1
    BY <1>k, <1>2
  <2> QED BY <1>1, <1>5, <2>1, HeldType
<1> DEFINE h == Held(l, s)
           r == Cache!RemoveAt(h, p)
<1>7. /\ r \in Seq(Entry) /\ Len(r) = k - 1
      /\ \A i \in 1 .. k - 1 : r[i] = IF i < p THEN h[i] ELSE h[i + 1]
  <2> HIDE DEF h
  <2>1. h \in Seq(Entry) /\ Len(h) = k /\ p \in 1 .. Len(h)
    BY <1>k, <1>4 DEF h
  <2> QED BY <2>1, RemoveAtProperties
<1>8. \A i \in 1 .. k - 1 : t[i] # s[p] /\ m.content[t[i]] = l.content[t[i]]
  <2> SUFFICES ASSUME NEW i \in 1 .. k - 1
               PROVE  t[i] # s[p] /\ m.content[t[i]] = l.content[t[i]]
    OBVIOUS
  <2>1. IsInjective(s) /\ DOMAIN s = 1 .. k
    BY <1>k DEF RingOf
  <2>2. t[i] # s[p]
    BY <1>3, <1>k, <2>1 DEF IsInjective
  <2>3. t[i] \in Node
    BY <1>1, <1>k
  <2> QED BY <1>2, <1>c, <2>2, <2>3
<1>9. \A i \in 1 .. k - 1 : Held(m, t)[i] = r[i]
  <2> SUFFICES ASSUME NEW i \in 1 .. k - 1 PROVE Held(m, t)[i] = r[i]
    OBVIOUS
  <2>1. Held(m, t)[i] = [node |-> t[i], content |-> l.content[t[i]]]
    BY <1>6, <1>8
  <2>2. CASE i < p
    <3>1. t[i] = s[i] /\ r[i] = h[i] /\ i \in 1 .. k
      BY <2>2, <1>3, <1>7
    <3> QED BY <2>1, <3>1, <1>4
  <2>3. CASE ~(i < p)
    <3>1. t[i] = s[i + 1] /\ r[i] = h[i + 1] /\ i + 1 \in 1 .. k
      BY <2>3, <1>3, <1>7
    <3> QED BY <2>1, <3>1, <1>4
  <2> QED BY <2>2, <2>3
<1> HIDE DEF r, h
<1>10. Held(m, t) = r
  BY <1>6, <1>7, <1>9, SeqEqual
<1> QED BY <1>1, <1>2, <1>10 DEF m, t, r, h

\* A node pushed in front of the ring is a new first entry.
LEMMA PushedHeld ==
  ASSUME NEW l \in ListType(Content), NEW s \in [1 .. l.size -> Node], RingOf(l, s),
         NEW n \in Node, ~Linked(l, n), NEW v \in Content
  PROVE  /\ Pushed(l, n, v) \in ListType(Content)
         /\ Pushed(l, n, v).size = l.size + 1
         /\ RingOf(Pushed(l, n, v), InFront(n, s, l.size))
         /\ InFront(n, s, l.size) \in [1 .. l.size + 1 -> Node]
         /\ Held(Pushed(l, n, v), InFront(n, s, l.size)) = <<[node |-> n, content |-> v]>> \o Held(l, s)
<1>k. PICK k \in Nat : l.size = k
  BY DEF ListType
<1>c. l.content \in [Node -> Content]
  BY DEF ListType
<1> DEFINE m == Pushed(l, n, v)
           t == InFront(n, s, l.size)
<1>1. m \in ListType(Content) /\ t \in [1 .. l.size + 1 -> Node] /\ RingOf(m, t)
  BY LinkRingOf
<1>2. m.size = l.size + 1 /\ m.content = [l.content EXCEPT ![n] = v]
  <2>1. Ring(l)
    BY DEF Ring
  <2>2. /\ m \in ListType(Content)
        /\ m.size = l.size + 1
        /\ m.content = [l.content EXCEPT ![n] = v]
        /\ m.next = [[l.next EXCEPT ![n] = l.next[Guard]] EXCEPT ![Guard] = n]
        /\ m.prev = [[l.prev EXCEPT ![n] = Guard] EXCEPT ![l.next[Guard]] = n]
    BY <2>1, PushedInRing
  <2> QED BY <2>2
<1>3. \A i \in 1 .. k + 1 : t[i] = IF i = 1 THEN n ELSE s[i - 1]
  BY <1>k DEF InFront
<1> HIDE DEF m, t
<1>4. /\ Held(l, s) \in Seq(Entry) /\ Len(Held(l, s)) = k
      /\ \A i \in 1 .. k : Held(l, s)[i] = [node |-> s[i], content |-> l.content[s[i]]]
  BY <1>k, HeldType
<1>5. t \in [1 .. m.size -> Node]
  BY <1>1, <1>2
<1>6. /\ Held(m, t) \in Seq(Entry) /\ Len(Held(m, t)) = k + 1
      /\ \A i \in 1 .. k + 1 : Held(m, t)[i] = [node |-> t[i], content |-> m.content[t[i]]]
  <2>1. m.size = k + 1
    BY <1>k, <1>2
  <2> QED BY <1>1, <1>5, <2>1, HeldType
<1> DEFINE h == Held(l, s)
           e == [node |-> n, content |-> v]
           r == <<e>> \o h
<1>7. /\ r \in Seq(Entry) /\ Len(r) = k + 1
      /\ \A i \in 1 .. k + 1 : r[i] = IF i = 1 THEN e ELSE h[i - 1]
  <2>1. e \in Entry
    BY DEF Entry
  <2> HIDE DEF h, e
  <2>2. h \in Seq(Entry) /\ Len(h) = k
    BY <1>4 DEF h
  <2> QED BY <2>1, <2>2, ConsProperties
<1>8. \A i \in 1 .. k : s[i] # n /\ m.content[s[i]] = l.content[s[i]]
  <2>1. \A i \in 1 .. k : s[i] # n /\ s[i] \in Node
    BY <1>k, LinkedInRing
  <2> QED BY <1>2, <1>c, <2>1
<1>9. \A i \in 1 .. k + 1 : Held(m, t)[i] = r[i]
  <2> SUFFICES ASSUME NEW i \in 1 .. k + 1 PROVE Held(m, t)[i] = r[i]
    OBVIOUS
  <2>1. CASE i = 1
    <3>1. m.content[n] = v
      BY <1>2, <1>c
    <3>2. t[1] = n /\ r[1] = e /\ Held(m, t)[1] = [node |-> t[1], content |-> m.content[t[1]]]
      BY <1>k, <1>3, <1>6, <1>7
    <3> QED BY <2>1, <3>1, <3>2
  <2>2. CASE i # 1
    <3>1. t[i] = s[i - 1] /\ r[i] = h[i - 1] /\ i - 1 \in 1 .. k
      BY <2>2, <1>3, <1>7
    <3>2. Held(m, t)[i] = [node |-> t[i], content |-> m.content[t[i]]]
      BY <1>6
    <3>3. m.content[s[i - 1]] = l.content[s[i - 1]]
      BY <3>1, <1>8
    <3>4. Held(l, s)[i - 1] = [node |-> s[i - 1], content |-> l.content[s[i - 1]]]
      BY <3>1, <1>4
    <3> QED BY <3>1, <3>2, <3>3, <3>4
  <2> QED BY <2>1, <2>2
<1> HIDE DEF r, h, e
<1>10. Held(m, t) = r
  BY <1>6, <1>7, <1>9, SeqEqual
<1> QED BY <1>1, <1>2, <1>10 DEF m, t, r, h, e

\* MoveToHead takes the p-th entry to the front.
LEMMA MovedHeld ==
  ASSUME NEW l \in ListType(Content), NEW s \in [1 .. l.size -> Node], RingOf(l, s),
         NEW p \in 1 .. l.size
  PROVE  /\ MoveToHead(l, s[p]).size \in Nat
         /\ \E t \in [1 .. MoveToHead(l, s[p]).size -> Node] :
              /\ RingOf(MoveToHead(l, s[p]), t)
              /\ Held(MoveToHead(l, s[p]), t) = <<Held(l, s)[p]>> \o Cache!RemoveAt(Held(l, s), p)
<1>k. PICK k \in Nat : l.size = k
  BY DEF ListType
<1>n. PICK n \in Node : n = s[p]
  OBVIOUS
<1> DEFINE r == Unlinked(l, n)
           u == OutAt(s, p, k)
           q == Pushed(r, n, l.content[n])
           t == InFront(n, u, k - 1)
<1>1. Linked(l, n) /\ Ring(l)
  BY <1>k, <1>n, LinkedInRing DEF Ring
<1>2. MoveToHead(l, n) = q /\ ~Linked(r, n)
  BY <1>1, ContentConstants, MoveFacts
<1>3. /\ r \in ListType(Content) /\ r.size = k - 1
      /\ RingOf(r, u) /\ u \in [1 .. k - 1 -> Node]
      /\ Held(r, u) = Cache!RemoveAt(Held(l, s), p)
  BY <1>k, <1>n, UnlinkedHeld
<1>4. l.content[n] \in Content
  BY DEF ListType
<1> HIDE DEF r, u
<1>5. /\ q \in ListType(Content) /\ q.size = r.size + 1
      /\ RingOf(q, t) /\ t \in [1 .. r.size + 1 -> Node]
      /\ Held(q, t) = <<[node |-> n, content |-> l.content[n]]>> \o Held(r, u)
  <2>1. u \in [1 .. r.size -> Node] /\ t = InFront(n, u, r.size)
    BY <1>3
  <2> HIDE DEF t
  <2> QED BY <1>2, <1>3, <1>4, <2>1, PushedHeld
<1>6. Held(l, s)[p] = [node |-> n, content |-> l.content[n]]
  BY <1>k, <1>n, HeldType
<1> HIDE DEF q, t
<1>7. q.size = k /\ t \in [1 .. q.size -> Node]
  BY <1>3, <1>5
<1> QED BY <1>2, <1>3, <1>5, <1>6, <1>7, <1>n

\* PushToHead puts an entry in front, and drops the last one of a full list.
LEMMA PushedToHeadHeld ==
  ASSUME NEW l \in ListType(Content), NEW s \in [1 .. l.size -> Node], RingOf(l, s),
         NEW n \in Node, ~Linked(l, n), NEW v \in Content, l.size <= Capacity
  PROVE  /\ PushToHead(l, n, v).size \in Nat
         /\ \E t \in [1 .. PushToHead(l, n, v).size -> Node] :
              /\ RingOf(PushToHead(l, n, v), t)
              /\ Held(PushToHead(l, n, v), t) =
                   Cache!AtMost(Capacity, <<[node |-> n, content |-> v]>> \o Held(l, s))
<1>k. PICK k \in Nat : l.size = k
  BY DEF ListType
<1> DEFINE m == Pushed(l, n, v)
           t == InFront(n, s, k)
           h == Held(m, t)
<1>1. /\ m \in ListType(Content) /\ m.size = k + 1
      /\ RingOf(m, t) /\ t \in [1 .. k + 1 -> Node]
      /\ h = <<[node |-> n, content |-> v]>> \o Held(l, s)
  BY <1>k, PushedHeld
<1>2. PushToHead(l, n, v) = IF m.size > Capacity THEN RemoveTail(m) ELSE m
  BY DEF PushToHead
<1> HIDE DEF m, t
<1>3. h \in Seq(Entry) /\ Len(h) = k + 1
  <2>1. t \in [1 .. m.size -> Node]
    BY <1>1
  <2> QED BY <1>1, <2>1, HeldType
<1> HIDE DEF h
<1>4. CASE ~(k + 1 > Capacity)
  <2>1. PushToHead(l, n, v) = m
    BY <1>1, <1>2, <1>4
  <2>2. Cache!AtMost(Capacity, h) = h
    BY <1>3, <1>4 DEF Cache!AtMost
  <2>3. m.size \in Nat /\ t \in [1 .. m.size -> Node]
    BY <1>1
  <2> QED BY <1>1, <2>1, <2>2, <2>3 DEF h
<1>5. CASE k + 1 > Capacity
  <2>0. k = Capacity /\ k + 1 \in 1 .. k + 1
    BY <1>k, <1>5, CacheConstants
  <2>1. PushToHead(l, n, v) = Unlinked(m, t[k + 1])
    <3>1. RemoveTail(m) = Remove(m, t[m.size]) /\ Linked(m, t[m.size])
      <4>1. t \in [1 .. m.size -> Node] /\ m.size >= 1
        BY <1>1
      <4> QED BY <1>1, <4>1, RemoveTailOf
    <3> QED BY <1>1, <1>2, <1>5, <3>1 DEF Remove
  <2> DEFINE z == Unlinked(m, t[k + 1])
             u == OutAt(t, k + 1, k + 1)
  <2>2. /\ z \in ListType(Content) /\ z.size = m.size - 1
        /\ RingOf(z, u) /\ u \in [1 .. m.size - 1 -> Node]
        /\ Held(z, u) = Cache!RemoveAt(h, k + 1)
    <3>1. t \in [1 .. m.size -> Node] /\ k + 1 \in 1 .. m.size /\ m.size = k + 1
      BY <1>1
    <3> DEFINE w == OutAt(t, k + 1, m.size)
    <3>2. /\ z \in ListType(Content) /\ z.size = m.size - 1
          /\ RingOf(z, w) /\ w \in [1 .. m.size - 1 -> Node]
          /\ Held(z, w) = Cache!RemoveAt(h, k + 1)
      BY <1>1, <3>1, UnlinkedHeld DEF h
    <3>3. w = u
      BY <3>1
    <3> HIDE DEF w, u, z
    <3> QED BY <3>2, <3>3
  <2> HIDE DEF z, u
  <2>3. Cache!RemoveAt(h, k + 1) = SubSeq(h, 1, k)
    <3>1. /\ Cache!RemoveAt(h, k + 1) \in Seq(Entry) /\ Len(Cache!RemoveAt(h, k + 1)) = k
          /\ \A i \in 1 .. k : Cache!RemoveAt(h, k + 1)[i] = h[i]
      <4>1. k + 1 \in 1 .. Len(h)
        BY <1>3
      <4>2. /\ Cache!RemoveAt(h, k + 1) \in Seq(Entry)
            /\ Len(Cache!RemoveAt(h, k + 1)) = Len(h) - 1
            /\ \A i \in 1 .. Len(h) - 1 :
                 Cache!RemoveAt(h, k + 1)[i] = IF i < k + 1 THEN h[i] ELSE h[i + 1]
        BY <1>3, <4>1, RemoveAtProperties
      <4> QED BY <1>3, <4>2
    <3>2. /\ SubSeq(h, 1, k) \in Seq(Entry)
          /\ Len(SubSeq(h, 1, k)) = IF 1 <= k THEN k - 1 + 1 ELSE 0
          /\ \A i \in 1 .. k - 1 + 1 : SubSeq(h, 1, k)[i] = h[1 + i - 1]
      <4>1. \A i \in 1 .. k : h[i] \in Entry
        BY <1>3, ElementOfSeq
      <4> QED BY <4>1, SubSeqProperties
    <3>3. Len(SubSeq(h, 1, k)) = k /\ \A i \in 1 .. k : SubSeq(h, 1, k)[i] = h[i]
      BY <3>2
    <3> DEFINE a == Cache!RemoveAt(h, k + 1)
               b == SubSeq(h, 1, k)
    <3> HIDE DEF a, b
    <3>4. a \in Seq(Entry) /\ b \in Seq(Entry) /\ Len(a) = k /\ Len(b) = k
      BY <3>1, <3>2, <3>3 DEF a, b
    <3>5. \A i \in 1 .. k : a[i] = b[i]
      BY <3>1, <3>3 DEF a, b
    <3>6. a = b
      BY <3>4, <3>5, SeqEqual
    <3> QED BY <3>6 DEF a, b
  <2>4. Cache!AtMost(Capacity, h) = SubSeq(h, 1, k)
    BY <1>3, <2>0 DEF Cache!AtMost
  <2>5. z.size = k /\ u \in [1 .. z.size -> Node]
    BY <1>1, <2>2
  <2>6. PushToHead(l, n, v) = z
    BY <2>1 DEF z
  <2>7. Held(z, u) = Cache!AtMost(Capacity, h) /\ z.size \in Nat
    BY <2>2, <2>3, <2>4, <2>5
  <2>8. h = <<[node |-> n, content |-> v]>> \o Held(l, s)
    BY <1>1 DEF h
  <2> QED BY <2>2, <2>5, <2>6, <2>7, <2>8
<1> QED BY <1>4, <1>5

-----------------------------------------------------------------------------
(* The refinement                                                          *)

LEMMA InitCache == Init => Cache!Init
<1> SUFFICES ASSUME Init PROVE Cache!Init
  OBVIOUS
<1>1. list = EmptyList /\ last = Null
  BY DEF Init
<1>2. PICK l \in ListType(Content) : l = EmptyList /\ l.size = 0 /\ Ring(l)
  BY EmptyFacts, ContentConstants
<1>3. PICK s \in [1 .. l.size -> Node] : RingOf(l, s)
  BY <1>2 DEF Ring
<1>4. RecentIn(l) = Held(l, s)
  <2>1. l.size \in Nat
    BY DEF ListType
  <2> QED BY <2>1, <1>3, RecentIsHeld
<1>5. Held(l, s) \in Seq(Entry) /\ Len(Held(l, s)) = 0
  BY <1>2, <1>3, HeldType
<1>6. Held(l, s) = << >>
  BY <1>5, EmptySeq
<1>7. Recent = RecentIn(list)
  BY DEF Recent, RecentIn, Held
<1> QED BY <1>1, <1>2, <1>4, <1>6, <1>7 DEF Cache!Init

\* Every call is a use, a new entry or a removal of the abstract cache.
LEMMA NextCache == IInv /\ [Next]_vars => [Cache!Next]_(Cache!vars)
<1> SUFFICES ASSUME IInv, [Next]_vars PROVE [Cache!Next]_(Cache!vars)
  OBVIOUS
<1>1. PICK l \in ListType(Content) : l = list /\ Ring(l) /\ l.size <= Capacity
  BY DEF IInv, TypeOK, ListIsSound, Sound, Ring
<1>2. PICK s \in [1 .. l.size -> Node] : RingOf(l, s)
  BY <1>1 DEF Ring
<1>3. l.size \in Nat
  BY DEF ListType
<1> DEFINE h == Held(l, s)
<1>4. Recent = RecentIn(list) /\ Recent' = RecentIn(list')
  BY DEF Recent, RecentIn, Held
<1>5. Recent = h
  BY <1>1, <1>2, <1>3, <1>4, RecentIsHeld
<1>6. DOMAIN h = 1 .. l.size /\ \A i \in 1 .. l.size : h[i].node = s[i]
  <2>1. /\ DOMAIN h = 1 .. l.size
        /\ \A i \in 1 .. l.size : h[i] = [node |-> s[i], content |-> l.content[s[i]]]
    BY HeldType
  <2> HIDE DEF h
  <2>2. ASSUME NEW i \in 1 .. l.size PROVE h[i].node = s[i]
    <3>1. h[i] = [node |-> s[i], content |-> l.content[s[i]]]
      BY <2>1
    <3> QED BY <3>1
  <2> QED BY <2>1, <2>2
<1> HIDE DEF h
<1>7. \A n \in Node : Linked(l, n) <=> \E p \in DOMAIN h : h[p].node = n
  <2> TAKE n \in Node
  <2>1. ASSUME Linked(l, n) PROVE \E p \in DOMAIN h : h[p].node = n
    <3>1. PICK p \in 1 .. l.size : s[p] = n
      BY <1>2, <1>3, <2>1, LinkedInRing
    <3> QED BY <1>6, <3>1
  <2>2. ASSUME NEW p \in DOMAIN h, h[p].node = n PROVE Linked(l, n)
    <3>1. p \in 1 .. l.size /\ s[p] = n
      BY <1>6, <2>2
    <3> QED BY <1>2, <1>3, <3>1, LinkedInRing
  <2> QED BY <2>1, <2>2
<1>8. ASSUME NEW n \in Node, Linked(l, n), list' = MoveToHead(l, n), last' = n
      PROVE  Cache!Use(n)
  <2>1. PICK p \in 1 .. l.size : s[p] = n
    BY <1>2, <1>3, <1>8, LinkedInRing
  <2> DEFINE m == MoveToHead(l, n)
  <2>2. PICK t \in [1 .. m.size -> Node] :
             RingOf(m, t) /\ Held(m, t) = <<h[p]>> \o Cache!RemoveAt(h, p)
    BY <1>2, <2>1, MovedHeld DEF h
  <2>3. m.size \in Nat
    BY <1>2, <2>1, MovedHeld
  <2> HIDE DEF m
  <2>4. RecentIn(m) = Held(m, t)
    BY <2>2, <2>3, RecentIsHeld
  <2>5. Recent' = <<h[p]>> \o Cache!RemoveAt(h, p)
    BY <1>4, <1>8, <2>2, <2>4 DEF m
  <2>6. p \in DOMAIN h /\ h[p].node = n
    BY <1>6, <2>1
  <2> QED BY <1>5, <1>8, <2>5, <2>6 DEF Cache!Use
<1>9. ASSUME NEW n \in Node, GetFilePreContent(n) PROVE Cache!Next
  <2>1. Cache!Use(n)
    BY <1>1, <1>8, <1>9 DEF GetFilePreContent
  <2> QED BY <2>1 DEF Cache!Next
<1>10. ASSUME NEW n \in Node, NEW content \in Content, PutFilePreContent(n, content)
       PROVE  Cache!Next
  <2>1. CASE Linked(l, n)
    <3>1. Cache!Use(n)
      BY <1>1, <1>8, <1>10, <2>1 DEF PutFilePreContent
    <3> QED BY <3>1 DEF Cache!Next
  <2>2. CASE ~Linked(l, n)
    <3> DEFINE m == PushToHead(l, n, content)
               e == [node |-> n, content |-> content]
    <3>1. list' = m /\ last' = n
      BY <1>1, <1>10, <2>2 DEF PutFilePreContent
    <3>2. PICK t \in [1 .. m.size -> Node] :
               RingOf(m, t) /\ Held(m, t) = Cache!AtMost(Capacity, <<e>> \o h)
      BY <1>1, <1>2, <2>2, PushedToHeadHeld DEF h
    <3>3. m.size \in Nat
      BY <1>1, <1>2, <2>2, PushedToHeadHeld
    <3> HIDE DEF m
    <3>4. RecentIn(m) = Held(m, t)
      BY <3>2, <3>3, RecentIsHeld
    <3>5. Recent' = Cache!AtMost(Capacity, <<e>> \o h)
      BY <1>4, <3>1, <3>2, <3>4
    <3>6. \A i \in DOMAIN h : h[i].node # n
      BY <1>7, <2>2
    <3>7. Cache!Put(n, content)
      BY <1>5, <3>1, <3>5, <3>6 DEF Cache!Put
    <3> QED BY <3>7 DEF Cache!Next
  <2> QED BY <2>1, <2>2
<1>11. ASSUME NEW n \in Node, Delete(n) PROVE Cache!Next
  <2>1. list' = Remove(l, n) /\ last' = Null
    BY <1>1, <1>11 DEF Delete
  <2>2. CASE Linked(l, n)
    <3>1. PICK p \in 1 .. l.size : s[p] = n
      BY <1>2, <1>3, <2>2, LinkedInRing
    <3> DEFINE m == Unlinked(l, n)
               t == OutAt(s, p, l.size)
    <3>2. /\ RingOf(m, t) /\ t \in [1 .. l.size - 1 -> Node] /\ m.size = l.size - 1
          /\ m \in ListType(Content)
          /\ Held(m, t) = Cache!RemoveAt(h, p)
      BY <1>2, <3>1, UnlinkedHeld DEF h
    <3>3. list' = m
      BY <2>1, <2>2 DEF Remove
    <3> HIDE DEF m, t
    <3>4. m.size \in Nat /\ t \in [1 .. m.size -> Node]
      BY <3>2 DEF ListType
    <3>5. RecentIn(m) = Held(m, t)
      BY <3>2, <3>4, RecentIsHeld
    <3>6. Recent' = Cache!RemoveAt(h, p)
      BY <1>4, <3>2, <3>3, <3>5
    <3>7. p \in DOMAIN h /\ h[p].node = n
      BY <1>6, <3>1
    <3>8. Cache!Drop(n)
      BY <1>5, <2>1, <3>6, <3>7 DEF Cache!Drop
    <3> QED BY <3>8 DEF Cache!Next
  <2>3. CASE ~Linked(l, n)
    <3>1. Recent' = Recent
      BY <1>1, <1>4, <2>1, <2>3 DEF Remove
    <3>2. \A i \in DOMAIN h : h[i].node # n
      BY <1>7, <2>3
    <3>3. Cache!Drop(n)
      BY <1>5, <2>1, <3>1, <3>2 DEF Cache!Drop
    <3> QED BY <3>3 DEF Cache!Next
  <2> QED BY <2>2, <2>3
<1>12. CASE UNCHANGED vars
  <2>1. list' = list /\ last' = last
    BY <1>12 DEF vars
  <2>2. Recent' = Recent
    BY <1>4, <2>1
  <2> QED BY <2>1, <2>2 DEF Cache!vars
<1> QED BY <1>9, <1>10, <1>11, <1>12 DEF Next

\* For any number of nodes, any contents and any capacity, the list with its raw
\* links is a least-recently-used cache: a use takes its node to the front, a new
\* node drops the one at the back when the list is full, and contents stay with
\* their nodes.
THEOREM CacheImplementsLRU == Spec => ImplementsLRU
<1>1. Init => Cache!Init
  BY InitCache
<1>2. IInv /\ [Next]_vars => [Cache!Next]_(Cache!vars)
  BY NextCache
<1> QED BY <1>1, <1>2, Invariance, PTL DEF Spec, ImplementsLRU, Cache!Spec
=============================================================================
