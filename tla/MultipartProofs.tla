--------------------------- MODULE MultipartProofs ---------------------------
(***************************************************************************)
(* process_upload_body, proved for all bodies, all file names and all ways *)
(* of cutting a body into pieces: it always knows where in the body it is, *)
(* so that parts are stored as they were sent and the answer is true.      *)
(*                                                                         *)
(* The proof first says where in a body its parts are (Start), that a      *)
(* delimiter is found nowhere but where a part begins, and that the empty  *)
(* line behind a head and the delimiter behind a content are found where   *)
(* they were sent.  The invariant then places what _request_body holds in  *)
(* the body (PlacedAt), and each step moves that place.                    *)
(***************************************************************************)
EXTENDS Multipart, SequenceTheorems, WellFoundedInduction, TLAPS

-----------------------------------------------------------------------------
(* Sequences of sequences                                                  *)

\* A set of natural numbers has a least element.
LEMMA NatMin ==
  ASSUME NEW T, T \subseteq Nat, T # {}
  PROVE  \E n \in T : \A m \in T : n <= m
<1> DEFINE R == OpToRel(<, Nat)
<1>1. IsWellFoundedOn(R, Nat)
  BY NatLessThanWellFounded
<1>2. \A a, b \in Nat : a < b => <<a, b>> \in R
  BY DEF OpToRel
<1> HIDE DEF R
<1>3. PICK x \in T : \A y \in T : ~ (<<y, x>> \in R)
  BY <1>1, WFMin
<1>4. ASSUME NEW m \in T PROVE x <= m
  <2>1. ~ (m < x)
    BY <1>2, <1>3
  <2> QED BY <2>1
<1> QED BY <1>4

\* f[k] is the concatenation of the first k sequences of e
Concatenates(f, e, n) == \A i \in 1 .. n : f[i] = IF i = 1 THEN e[i] ELSE f[i - 1] \o e[i]

\* Every sequence of sequences has such concatenations: were there none for some
\* first sequences, there would be a least number of them.
LEMMA ConcatenationExists ==
  ASSUME NEW T, NEW n \in Nat, NEW e \in [1 .. n -> Seq(T)]
  PROVE  \E f \in [1 .. n -> Seq(T)] : Concatenates(f, e, n)
<1> DEFINE D == {k \in 0 .. n : ~ \E f \in [1 .. k -> Seq(T)] : Concatenates(f, e, k)}
<1>1. SUFFICES ASSUME D # {} PROVE FALSE
  OBVIOUS
<1>2. PICK k \in D : \A j \in D : k <= j
  <2>1. D \subseteq Nat
    OBVIOUS
  <2> HIDE DEF D
  <2> QED BY <1>1, <2>1, NatMin
<1>3. k # 0
  <2>1. [i \in 1 .. 0 |-> e[i]] \in [1 .. 0 -> Seq(T)]
    OBVIOUS
  <2>2. Concatenates([i \in 1 .. 0 |-> e[i]], e, 0)
    BY DEF Concatenates
  <2> QED BY <2>1, <2>2
<1>4. k \in 1 .. n /\ k - 1 \in 0 .. n /\ k - 1 \notin D
  <2>1. k \in 0 .. n
    BY <1>2
  <2>2. k - 1 \notin D
    <3> HIDE DEF D
    <3> QED BY <1>2, <2>1
  <2> HIDE DEF D
  <2> QED BY <1>3, <2>1, <2>2
<1>5. PICK f \in [1 .. k - 1 -> Seq(T)] : Concatenates(f, e, k - 1)
  BY <1>4
<1> DEFINE g == [i \in 1 .. k |-> IF i < k THEN f[i] ELSE IF i = 1 THEN e[i] ELSE f[i - 1] \o e[i]]
<1>6. \A i \in 1 .. k - 1 : f[i] \in Seq(T)
  BY <1>5
<1>7. g \in [1 .. k -> Seq(T)]
  <2> SUFFICES ASSUME NEW i \in 1 .. k
               PROVE  (IF i < k THEN f[i] ELSE IF i = 1 THEN e[i] ELSE f[i - 1] \o e[i]) \in Seq(T)
    OBVIOUS
  <2>1. e[i] \in Seq(T)
    BY <1>4
  <2>2. ASSUME i # 1 PROVE f[i - 1] \o e[i] \in Seq(T)
    <3>1. f[i - 1] \in Seq(T)
      BY <1>4, <1>6, <2>2
    <3> QED BY <2>1, <3>1, ConcatProperties
  <2> QED BY <1>4, <1>6, <2>1, <2>2
<1>8. Concatenates(g, e, k)
  <2> SUFFICES ASSUME NEW i \in 1 .. k PROVE g[i] = IF i = 1 THEN e[i] ELSE g[i - 1] \o e[i]
    BY DEF Concatenates
  <2>1. CASE i = k
    BY <1>4, <2>1
  <2>2. CASE i < k
    <3>0. i \in 1 .. k - 1
      BY <1>4, <2>2
    <3>1. f[i] = IF i = 1 THEN e[i] ELSE f[i - 1] \o e[i]
      BY <1>5, <3>0 DEF Concatenates
    <3>2. g[i] = f[i]
      BY <2>2
    <3>3. ASSUME i # 1 PROVE g[i - 1] = f[i - 1]
      <4>1. i - 1 \in 1 .. k /\ i - 1 < k
        BY <1>4, <3>0, <3>3
      <4> QED BY <4>1
    <3> HIDE DEF g
    <3> QED BY <3>1, <3>2, <3>3
  <2> QED BY <1>4, <2>1, <2>2
<1> QED BY <1>2, <1>7, <1>8

\* FlattenSeq takes the last of the concatenations.
LEMMA FlattenIsLast ==
  ASSUME NEW T, NEW n \in Nat \ {0}, NEW e \in [1 .. n -> Seq(T)],
         NEW f \in [1 .. n -> Seq(T)], Concatenates(f, e, n)
  PROVE  FlattenSeq(e) = f[n]
<1> DEFINE Rec(h) == h = [i \in 1 .. n |-> IF i = 1 THEN e[i] ELSE h[i - 1] \o e[i]]
           g == CHOOSE h : Rec(h)
<1>1. Len(e) = n
  <2>1. e \in Seq(Seq(T))
    BY SeqDef
  <2> QED BY <2>1, LenProperties
<1>2. FlattenSeq(e) = g[n]
  BY <1>1 DEF FlattenSeq
<1>3. Rec(f)
  BY DEF Concatenates
<1>4. Rec(g)
  <2> HIDE DEF Rec
  <2> QED BY <1>3
<1> HIDE DEF g
<1>5. DOMAIN g = 1 .. n /\ \A i \in 1 .. n : g[i] = IF i = 1 THEN e[i] ELSE g[i - 1] \o e[i]
  BY <1>4
<1> DEFINE D == {i \in 1 .. n : f[i] # g[i]}
<1>6. CASE D = {}
  BY <1>2, <1>6
<1>7. CASE D # {}
  <2>1. D \subseteq Nat
    OBVIOUS
  <2>2. PICK j \in D : \A i \in D : j <= i
    <3> HIDE DEF D
    <3> QED BY <1>7, <2>1, NatMin
  <2>3. j # 1
    BY <1>5 DEF Concatenates
  <2>4. j - 1 \in 1 .. n /\ f[j - 1] = g[j - 1]
    BY <2>2, <2>3
  <2>5. g[j] = g[j - 1] \o e[j]
    BY <1>5, <2>2, <2>3
  <2>6. f[j] = f[j - 1] \o e[j]
    BY <2>2, <2>3 DEF Concatenates
  <2>7. f[j] = g[j]
    BY <2>4, <2>5, <2>6
  <2> QED BY <2>2, <2>7
<1> QED BY <1>6, <1>7

\* The concatenations of the first sequences of e, each from the one before
LEMMA FlattenProperties ==
  ASSUME NEW T, NEW n \in Nat, NEW e \in [1 .. n -> Seq(T)]
  PROVE  /\ \A k \in 0 .. n : FlattenSeq([i \in 1 .. k |-> e[i]]) \in Seq(T)
         /\ FlattenSeq([i \in 1 .. 0 |-> e[i]]) = << >>
         /\ \A k \in 0 .. n - 1 : FlattenSeq([i \in 1 .. k + 1 |-> e[i]]) =
                                    FlattenSeq([i \in 1 .. k |-> e[i]]) \o e[k + 1]
<1> DEFINE F(k) == FlattenSeq([i \in 1 .. k |-> e[i]])
<1>1. PICK f \in [1 .. n -> Seq(T)] : Concatenates(f, e, n)
  BY ConcatenationExists
<1>2. ASSUME NEW k \in 1 .. n PROVE F(k) = f[k]
  <2> DEFINE d == [i \in 1 .. k |-> e[i]]
             g == [i \in 1 .. k |-> f[i]]
  <2>1. k \in Nat \ {0} /\ d \in [1 .. k -> Seq(T)] /\ g \in [1 .. k -> Seq(T)] /\ g[k] = f[k]
    OBVIOUS
  <2>2. Concatenates(g, d, k)
    <3> SUFFICES ASSUME NEW i \in 1 .. k PROVE g[i] = IF i = 1 THEN d[i] ELSE g[i - 1] \o d[i]
      BY DEF Concatenates
    <3>1. i \in 1 .. n /\ g[i] = f[i] /\ d[i] = e[i] /\ (i # 1 => i - 1 \in 1 .. k /\ g[i - 1] = f[i - 1])
      OBVIOUS
    <3>2. f[i] = IF i = 1 THEN e[i] ELSE f[i - 1] \o e[i]
      BY <1>1, <3>1 DEF Concatenates
    <3> HIDE DEF g, d
    <3> QED BY <3>1, <3>2
  <2> HIDE DEF g, d
  <2>3. FlattenSeq(d) = f[k]
    BY <2>1, <2>2, FlattenIsLast
  <2> QED BY <2>3 DEF d
<1>3. F(0) = << >>
  <2> DEFINE d == [i \in 1 .. 0 |-> e[i]]
  <2>1. d \in Seq(T)
    <3>1. d \in [1 .. 0 -> T]
      OBVIOUS
    <3> QED BY <3>1, SeqDef
  <2>2. DOMAIN d = 1 .. 0
    OBVIOUS
  <2> HIDE DEF d
  <2>3. Len(d) = 0
    BY <2>1, <2>2, LenProperties
  <2>4. FlattenSeq(d) = d
    BY <2>3 DEF FlattenSeq
  <2>5. d = << >>
    BY <2>1, <2>3, EmptySeq
  <2> QED BY <2>4, <2>5 DEF d
<1> HIDE DEF F
<1>4. \A k \in 0 .. n : F(k) \in Seq(T)
  <2>1. << >> \in Seq(T)
    BY EmptySeq
  <2>2. SUFFICES ASSUME NEW k \in 0 .. n, k # 0 PROVE F(k) \in Seq(T)
    BY <1>3, <2>1
  <2>3. k \in 1 .. n
    BY <2>2
  <2>4. f[k] \in Seq(T)
    BY <1>1, <2>3
  <2> QED BY <1>2, <2>3, <2>4
<1>5. ASSUME NEW k \in 0 .. n - 1 PROVE F(k + 1) = F(k) \o e[k + 1]
  <2>0. k + 1 \in 1 .. n
    OBVIOUS
  <2>1. F(k + 1) = f[k + 1] /\ k + 1 \in 1 .. n
    BY <1>2, <2>0
  <2>2. f[k + 1] = IF k + 1 = 1 THEN e[k + 1] ELSE f[k + 1 - 1] \o e[k + 1]
    <3>1. \A i \in 1 .. n : f[i] = IF i = 1 THEN e[i] ELSE f[i - 1] \o e[i]
      BY <1>1 DEF Concatenates
    <3>2. PICK j \in 1 .. n : j = k + 1
      BY <2>0
    <3>3. f[j] = IF j = 1 THEN e[j] ELSE f[j - 1] \o e[j]
      BY <3>1
    <3> QED BY <3>2, <3>3
  <2>3. CASE k = 0
    <3>1. f[k + 1] = e[k + 1] /\ e[k + 1] \in Seq(T)
      BY <2>1, <2>2, <2>3
    <3>2. << >> \o e[k + 1] = e[k + 1]
      BY <3>1, ConcatEmptySeq
    <3> QED BY <1>3, <2>1, <2>3, <3>1, <3>2
  <2>4. CASE k # 0
    <3>1. k \in 1 .. n /\ k + 1 - 1 = k
      BY <2>4
    <3>2. f[k + 1] = f[k] \o e[k + 1]
      BY <2>2, <2>4, <3>1
    <3> QED BY <1>2, <2>1, <3>1, <3>2
  <2> QED BY <2>3, <2>4
<1> QED BY <1>3, <1>4, <1>5 DEF F

-----------------------------------------------------------------------------
(* The shape of a body                                                     *)

PartType == [name : File \cup {NoFile}, content : Seq(Symbol)]

\* What stands for the name in the head of a part
HeadSymbol(p) == IF p.name = NoFile THEN "a" ELSE p.name

\* The symbols of a part as it is sent: nine before its content, two behind it
LEMMA EncodedProperties ==
  ASSUME NEW p \in PartType
  PROVE  /\ Encoded(p) \in Seq(Symbol) /\ Len(Encoded(p)) = Len(p.content) + 11
         /\ Encoded(p)[1] = "-" /\ Encoded(p)[2] = "B"
         /\ Encoded(p)[3] = "\r" /\ Encoded(p)[4] = "\n"
         /\ Encoded(p)[5] = HeadSymbol(p)
         /\ Encoded(p)[6] = "\r" /\ Encoded(p)[7] = "\n"
         /\ Encoded(p)[8] = "\r" /\ Encoded(p)[9] = "\n"
         /\ \A i \in 1 .. Len(p.content) : Encoded(p)[i + 9] = p.content[i]
         /\ Encoded(p)[Len(p.content) + 10] = "\r" /\ Encoded(p)[Len(p.content) + 11] = "\n"
<1> DEFINE T == Symbol
           b == Boundary
           s == SEP
           h == IF p.name = NoFile THEN <<"a">> ELSE <<p.name>>
           c == p.content
<1>1. b \in Seq(T) /\ Len(b) = 2 /\ b[1] = "-" /\ b[2] = "B"
  <2>1. "-" \in T /\ "B" \in T
    BY UploadBodies
  <2> HIDE DEF T
  <2> QED BY <2>1 DEF Boundary
<1>2. s \in Seq(T) /\ Len(s) = 2 /\ s[1] = "\r" /\ s[2] = "\n"
  <2>1. "\r" \in T /\ "\n" \in T
    BY UploadBodies
  <2> HIDE DEF T
  <2> QED BY <2>1 DEF SEP
<1>3. h \in Seq(T) /\ Len(h) = 1 /\ h[1] = HeadSymbol(p)
  <2>1. HeadSymbol(p) \in T
    <3>1. CASE p.name = NoFile
      BY <3>1, UploadBodies DEF HeadSymbol
    <3>2. CASE p.name # NoFile
      <4>1. p.name \in File
        BY <3>2 DEF PartType
      <4> QED BY <3>2, <4>1, UploadBodies DEF HeadSymbol
    <3> QED BY <3>1, <3>2
  <2>2. h = <<HeadSymbol(p)>>
    BY DEF HeadSymbol
  <2> HIDE DEF h, T
  <2> QED BY <2>1, <2>2
<1>4. c \in Seq(T) /\ Len(c) \in Nat
  <2>1. c \in Seq(T)
    BY DEF PartType
  <2> HIDE DEF c, T
  <2> QED BY <2>1, LenProperties
<1>5. Encoded(p) = b \o s \o h \o s \o s \o c \o s
  BY DEF Encoded
<1> HIDE DEF b, s, h, c, T
<1>6. /\ b \o s \in Seq(T) /\ Len(b \o s) = 4
      /\ \A i \in 1 .. 4 : (b \o s)[i] = IF i <= 2 THEN b[i] ELSE s[i - 2]
  <2>1. /\ b \o s \in Seq(T) /\ Len(b \o s) = Len(b) + Len(s)
        /\ \A i \in 1 .. Len(b) + Len(s) : (b \o s)[i] = IF i <= Len(b) THEN b[i] ELSE s[i - Len(b)]
    BY <1>1, <1>2, ConcatProperties
  <2> QED BY <1>1, <1>2, <2>1
<1> DEFINE x1 == b \o s
<1> HIDE DEF x1
<1>7. /\ x1 \o h \in Seq(T) /\ Len(x1 \o h) = 5
      /\ \A i \in 1 .. 5 : (x1 \o h)[i] = IF i <= 4 THEN x1[i] ELSE h[i - 4]
  <2>1. x1 \in Seq(T)
    BY <1>6 DEF x1
  <2>2. /\ x1 \o h \in Seq(T) /\ Len(x1 \o h) = Len(x1) + Len(h)
        /\ \A i \in 1 .. Len(x1) + Len(h) : (x1 \o h)[i] = IF i <= Len(x1) THEN x1[i] ELSE h[i - Len(x1)]
    BY <1>3, <2>1, ConcatProperties
  <2> QED BY <1>3, <1>6, <2>2 DEF x1
<1> DEFINE x2 == x1 \o h
<1> HIDE DEF x2
<1>8. /\ x2 \o s \in Seq(T) /\ Len(x2 \o s) = 7
      /\ \A i \in 1 .. 7 : (x2 \o s)[i] = IF i <= 5 THEN x2[i] ELSE s[i - 5]
  <2>1. x2 \in Seq(T)
    BY <1>7 DEF x2
  <2>2. /\ x2 \o s \in Seq(T) /\ Len(x2 \o s) = Len(x2) + Len(s)
        /\ \A i \in 1 .. Len(x2) + Len(s) : (x2 \o s)[i] = IF i <= Len(x2) THEN x2[i] ELSE s[i - Len(x2)]
    BY <1>2, <2>1, ConcatProperties
  <2>3. Len(x2) = 5 /\ Len(s) = 2
    BY <1>2, <1>7 DEF x2
  <2> QED BY <2>2, <2>3
<1> DEFINE x3 == x2 \o s
<1> HIDE DEF x3
<1>9. /\ x3 \o s \in Seq(T) /\ Len(x3 \o s) = 9
      /\ \A i \in 1 .. 9 : (x3 \o s)[i] = IF i <= 7 THEN x3[i] ELSE s[i - 7]
  <2>1. x3 \in Seq(T)
    BY <1>8 DEF x3
  <2>2. /\ x3 \o s \in Seq(T) /\ Len(x3 \o s) = Len(x3) + Len(s)
        /\ \A i \in 1 .. Len(x3) + Len(s) : (x3 \o s)[i] = IF i <= Len(x3) THEN x3[i] ELSE s[i - Len(x3)]
    BY <1>2, <2>1, ConcatProperties
  <2> QED BY <1>2, <1>8, <2>2 DEF x3
<1> DEFINE x4 == x3 \o s
<1> HIDE DEF x4
<1>10. /\ x4 \o c \in Seq(T) /\ Len(x4 \o c) = 9 + Len(c)
       /\ \A i \in 1 .. 9 + Len(c) : (x4 \o c)[i] = IF i <= 9 THEN x4[i] ELSE c[i - 9]
  <2>1. x4 \in Seq(T)
    BY <1>9 DEF x4
  <2>2. /\ x4 \o c \in Seq(T) /\ Len(x4 \o c) = Len(x4) + Len(c)
        /\ \A i \in 1 .. Len(x4) + Len(c) : (x4 \o c)[i] = IF i <= Len(x4) THEN x4[i] ELSE c[i - Len(x4)]
    BY <1>4, <2>1, ConcatProperties
  <2> QED BY <1>4, <1>9, <2>2 DEF x4
<1> DEFINE x5 == x4 \o c
<1> HIDE DEF x5
<1>11. /\ x5 \o s \in Seq(T) /\ Len(x5 \o s) = 9 + Len(c) + 2
       /\ \A i \in 1 .. 9 + Len(c) + 2 : (x5 \o s)[i] = IF i <= 9 + Len(c) THEN x5[i] ELSE s[i - (9 + Len(c))]
  <2>1. x5 \in Seq(T)
    BY <1>10 DEF x5
  <2>2. /\ x5 \o s \in Seq(T) /\ Len(x5 \o s) = Len(x5) + Len(s)
        /\ \A i \in 1 .. Len(x5) + Len(s) : (x5 \o s)[i] = IF i <= Len(x5) THEN x5[i] ELSE s[i - Len(x5)]
    BY <1>2, <1>4, <2>1, ConcatProperties
  <2> QED BY <1>2, <1>4, <1>10, <2>2 DEF x5
<1>12. Encoded(p) = x5 \o s
  BY <1>5 DEF x1, x2, x3, x4, x5
<1> DEFINE e == Encoded(p)
<1> HIDE DEF e
<1>13. e \in Seq(T) /\ Len(e) = Len(c) + 11
  BY <1>4, <1>11, <1>12 DEF e
<1>14. \A i \in 1 .. 9 + Len(c) : e[i] = x5[i]
  BY <1>4, <1>11, <1>12 DEF e
<1>15. \A i \in 1 .. 9 : e[i] = x4[i]
  BY <1>4, <1>10, <1>14 DEF x5
<1>16. e[1] = "-" /\ e[2] = "B" /\ e[3] = "\r" /\ e[4] = "\n" /\ e[5] = HeadSymbol(p)
  <2>1. \A i \in 1 .. 5 : e[i] = x2[i]
    BY <1>8, <1>9, <1>15 DEF x3, x4
  <2>2. \A i \in 1 .. 4 : e[i] = x1[i]
    BY <1>7, <2>1 DEF x2
  <2>3. e[5] = h[1]
    BY <1>7, <2>1 DEF x2
  <2>4. e[1] = b[1] /\ e[2] = b[2] /\ e[3] = s[1] /\ e[4] = s[2]
    BY <1>6, <2>2 DEF x1
  <2> QED BY <1>1, <1>2, <1>3, <2>3, <2>4
<1>17. e[6] = "\r" /\ e[7] = "\n" /\ e[8] = "\r" /\ e[9] = "\n"
  <2>0. x4[8] = s[8 - 7] /\ x4[9] = s[9 - 7] /\ x4[6] = x3[6] /\ x4[7] = x3[7]
    BY <1>9 DEF x4
  <2>1. e[8] = s[1] /\ e[9] = s[2]
    BY <1>15, <2>0
  <2>2. e[6] = x3[6] /\ e[7] = x3[7]
    BY <1>15, <2>0
  <2>3. x3[6] = s[1] /\ x3[7] = s[2]
    BY <1>8 DEF x3
  <2> QED BY <1>2, <2>1, <2>2, <2>3
<1>18. \A i \in 1 .. Len(c) : e[i + 9] = c[i]
  BY <1>4, <1>10, <1>14 DEF x5
<1>19. e[Len(c) + 10] = "\r" /\ e[Len(c) + 11] = "\n"
  <2>1. e[Len(c) + 10] = s[1] /\ e[Len(c) + 11] = s[2]
    BY <1>4, <1>11, <1>12 DEF e
  <2> QED BY <1>2, <2>1
<1> QED BY <1>13, <1>16, <1>17, <1>18, <1>19 DEF e, c, T

-----------------------------------------------------------------------------
(* Where the parts of a body begin                                         *)

\* What is sent of a body with its first k parts, and where part k begins
Sent(u, k) == FlattenSeq([i \in 1 .. k |-> Encoded(u[i])])

Start(u, k) == Len(Sent(u, k - 1)) + 1

\* One more part makes what is sent longer by that part.
LEMMA SentProperties ==
  ASSUME NEW u \in Seq(PartType)
  PROVE  /\ Sent(u, 0) = << >>
         /\ \A k \in 0 .. Len(u) : Sent(u, k) \in Seq(Symbol)
         /\ \A k \in 0 .. Len(u) - 1 : Sent(u, k + 1) = Sent(u, k) \o Encoded(u[k + 1])
         /\ Body(u) = Sent(u, Len(u)) \o Closing
<1> DEFINE n == Len(u)
           T == Symbol
           e == [i \in 1 .. n |-> Encoded(u[i])]
<1>1. n \in Nat /\ DOMAIN u = 1 .. n /\ \A i \in 1 .. n : u[i] \in PartType
  BY LenProperties, ElementOfSeq
<1>2. e \in [1 .. n -> Seq(T)]
  <2>1. \A i \in 1 .. n : Encoded(u[i]) \in Seq(Symbol)
    BY <1>1, EncodedProperties
  <2> QED BY <2>1
<1>3. \A k \in 0 .. n : [i \in 1 .. k |-> e[i]] = [i \in 1 .. k |-> Encoded(u[i])]
  BY <1>1
<1>4. Body(u) = Sent(u, n) \o Closing
  BY <1>1 DEF Body, Sent
<1>5. \A k \in 0 .. n - 1 : e[k + 1] = Encoded(u[k + 1])
  BY <1>1
<1>6. /\ \A k \in 0 .. n : FlattenSeq([i \in 1 .. k |-> e[i]]) \in Seq(T)
      /\ FlattenSeq([i \in 1 .. 0 |-> e[i]]) = << >>
      /\ \A k \in 0 .. n - 1 : FlattenSeq([i \in 1 .. k + 1 |-> e[i]]) =
                                    FlattenSeq([i \in 1 .. k |-> e[i]]) \o e[k + 1]
  <2>1. n \in Nat
    BY <1>1
  <2> HIDE DEF T, e, n
  <2> QED BY <2>1, <1>2, FlattenProperties, ZenonT(40)
<1>7. \A k \in 0 .. n : FlattenSeq([i \in 1 .. k |-> e[i]]) = Sent(u, k)
  BY <1>3 DEF Sent
<1>8. 0 \in 0 .. n /\ \A k \in 0 .. n - 1 : k \in 0 .. n /\ k + 1 \in 0 .. n
  BY <1>1
<1> HIDE DEF e
<1>9. ASSUME NEW k \in 0 .. n - 1 PROVE Sent(u, k + 1) = Sent(u, k) \o Encoded(u[k + 1])
  <2>1. FlattenSeq([i \in 1 .. k + 1 |-> e[i]]) = FlattenSeq([i \in 1 .. k |-> e[i]]) \o e[k + 1]
    BY <1>6
  <2>2. FlattenSeq([i \in 1 .. k + 1 |-> e[i]]) = Sent(u, k + 1)
    <3>1. PICK m \in 0 .. n : m = k + 1
      BY <1>8
    <3>2. FlattenSeq([i \in 1 .. m |-> e[i]]) = Sent(u, m)
      BY <1>7
    <3> QED BY <3>1, <3>2
  <2>3. FlattenSeq([i \in 1 .. k |-> e[i]]) = Sent(u, k)
    BY <1>7, <1>8
  <2> QED BY <1>5, <2>1, <2>2, <2>3
<1>10. Sent(u, 0) = << >>
  BY <1>6, <1>7, <1>8
<1>11. \A k \in 0 .. n : Sent(u, k) \in Seq(T)
  BY <1>6, <1>7
<1> QED BY <1>4, <1>9, <1>10, <1>11

\* Where the parts begin
LEMMA StartProperties ==
  ASSUME NEW u \in Seq(PartType)
  PROVE  /\ \A k \in 1 .. Len(u) + 1 : Start(u, k) \in Nat \ {0}
         /\ Start(u, 1) = 1
         /\ \A k \in 1 .. Len(u) : Len(u[k].content) \in Nat
         /\ \A k \in 1 .. Len(u) : Start(u, k + 1) = Start(u, k) + Len(u[k].content) + 11
<1> DEFINE n == Len(u)
           T == Symbol
<1>1. n \in Nat /\ \A i \in 1 .. n : u[i] \in PartType
  BY LenProperties, ElementOfSeq
<1>2. /\ Sent(u, 0) = << >>
      /\ \A k \in 0 .. n : Sent(u, k) \in Seq(T)
      /\ \A k \in 0 .. n - 1 : Sent(u, k + 1) = Sent(u, k) \o Encoded(u[k + 1])
  BY SentProperties
<1> HIDE DEF n
<1>3. \A k \in 0 .. n : Len(Sent(u, k)) \in Nat
  <2> HIDE DEF T
  <2> QED BY <1>2, LenProperties
<1>4. \A k \in 1 .. n + 1 : Start(u, k) \in Nat \ {0}
  BY <1>1, <1>3 DEF Start
<1>5. Start(u, 1) = 1
  <2>1. Len(<< >>) = 0
    OBVIOUS
  <2> QED BY <1>2, <2>1 DEF Start
<1>6. \A k \in 1 .. n : Len(u[k].content) \in Nat
  <2>1. \A k \in 1 .. n : u[k].content \in Seq(T)
    BY <1>1 DEF PartType
  <2> HIDE DEF T
  <2> QED BY <2>1, LenProperties
<1>7. ASSUME NEW k \in 1 .. n PROVE Start(u, k + 1) = Start(u, k) + Len(u[k].content) + 11
  <2>1. PICK j \in 0 .. n - 1 : j = k - 1 /\ j + 1 = k
    <3>1. k - 1 \in 0 .. n - 1 /\ k - 1 + 1 = k
      BY <1>1
    <3> QED BY <3>1
  <2>2. Sent(u, k) = Sent(u, j) \o Encoded(u[k])
    BY <1>2, <2>1
  <2>3. Encoded(u[k]) \in Seq(T) /\ Len(Encoded(u[k])) = Len(u[k].content) + 11
    BY <1>1, EncodedProperties
  <2>4. Sent(u, j) \in Seq(T)
    BY <1>1, <1>2, <2>1
  <2>5. Len(Sent(u, j) \o Encoded(u[k])) = Len(Sent(u, j)) + Len(Encoded(u[k]))
    <3> DEFINE x == Sent(u, j)
               y == Encoded(u[k])
    <3> HIDE DEF T, x, y
    <3>1. x \in Seq(T) /\ y \in Seq(T)
      BY <2>3, <2>4 DEF x, y
    <3>2. Len(x \o y) = Len(x) + Len(y)
      BY <3>1, ConcatProperties
    <3> QED BY <3>2 DEF x, y
  <2>6. Len(Sent(u, j)) \in Nat /\ Len(u[k].content) \in Nat
    BY <1>3, <1>6, <2>1
  <2>7. Start(u, k) = Len(Sent(u, j)) + 1 /\ Start(u, k + 1) = Len(Sent(u, k)) + 1
    <3>1. k + 1 - 1 = k
      BY <1>1
    <3> QED BY <2>1, <3>1 DEF Start
  <2>8. Len(Sent(u, k)) = Len(Sent(u, j)) + Len(Encoded(u[k]))
    BY <2>2, <2>5
  <2>9. Len(Encoded(u[k])) = Len(u[k].content) + 11
    BY <2>3
  <2>10. PICK a \in Nat, c \in Nat : a = Len(Sent(u, j)) /\ c = Len(u[k].content)
    BY <2>6
  <2>11. Start(u, k) = a + 1
    BY <2>7, <2>10
  <2>12. Start(u, k + 1) = a + (c + 11) + 1
    BY <2>7, <2>8, <2>9, <2>10
  <2>13. a + (c + 11) + 1 = a + 1 + c + 11
    OBVIOUS
  <2>14. Start(u, k + 1) = Start(u, k) + c + 11
    BY <2>11, <2>12, <2>13
  <2> QED BY <2>10, <2>14
<1> QED BY <1>4, <1>5, <1>6, <1>7 DEF n

\* No part is shorter than what is around its content.
LEMMA StartsIncrease ==
  ASSUME NEW u \in Seq(PartType), NEW j \in 1 .. Len(u) + 1, NEW k \in 1 .. Len(u) + 1, j < k
  PROVE  Start(u, j) + Len(u[j].content) + 11 <= Start(u, k)
<1> DEFINE n == Len(u)
           S(i) == Start(u, i)
           c(i) == Len(u[i].content)
           D == {i \in 1 .. n + 1 : j < i /\ ~ S(j) + c(j) + 11 <= S(i)}
<1>1. n \in Nat
  BY LenProperties
<1>2. /\ \A i \in 1 .. n + 1 : S(i) \in Nat
      /\ \A i \in 1 .. n : c(i) \in Nat /\ S(i + 1) = S(i) + c(i) + 11
  BY StartProperties
<1> HIDE DEF n, S, c
<1>3. SUFFICES ASSUME D # {} PROVE FALSE
  BY DEF n, S, c
<1>4. D \subseteq Nat
  BY <1>1
<1>5. PICK i \in D : \A m \in D : i <= m
  <2> HIDE DEF D
  <2> QED BY <1>3, <1>4, NatMin
<1>6. j \in 1 .. n /\ i \in 1 .. n + 1 /\ j < i
  BY <1>1, <1>5 DEF n
<1>7. CASE i = j + 1
  BY <1>1, <1>2, <1>5, <1>6, <1>7
<1>8. CASE i # j + 1
  <2>1. i - 1 \in 1 .. n /\ j < i - 1 /\ i - 1 \in 1 .. n + 1
    BY <1>1, <1>6, <1>8
  <2>2. i - 1 \notin D
    <3> HIDE DEF D
    <3> QED BY <1>1, <1>5, <1>6
  <2>3. S(j) + c(j) + 11 <= S(i - 1)
    BY <2>1, <2>2
  <2>4. S(i - 1 + 1) = S(i - 1) + c(i - 1) + 11 /\ c(i - 1) \in Nat
    BY <1>2, <2>1
  <2>5. i - 1 + 1 = i
    BY <1>1, <1>6
  <2>6. S(j) + c(j) + 11 <= S(i)
    <3>1. S(j) \in Nat /\ c(j) \in Nat /\ S(i - 1) \in Nat
      <4>1. j \in 1 .. n + 1
        BY <1>1, <1>6
      <4> QED BY <1>2, <1>6, <2>1, <4>1
    <3> QED BY <2>3, <2>4, <2>5, <3>1
  <2> QED BY <1>5, <2>6
<1> QED BY <1>7, <1>8

\* What has been sent is not changed by what follows.
LEMMA SentIsPrefix ==
  ASSUME NEW u \in Seq(PartType), NEW j \in 0 .. Len(u), NEW k \in 0 .. Len(u), j <= k
  PROVE  /\ Len(Sent(u, j)) <= Len(Sent(u, k))
         /\ \A i \in 1 .. Len(Sent(u, j)) : Sent(u, k)[i] = Sent(u, j)[i]
<1> DEFINE n == Len(u)
           T == Symbol
           S(m) == Sent(u, m)
           e(m) == Encoded(u[m])
           P(m) == /\ Len(S(j)) <= Len(S(m))
                   /\ \A i \in 1 .. Len(S(j)) : S(m)[i] = S(j)[i]
           D == {m \in 0 .. n : j <= m /\ ~ P(m)}
<1>1. n \in Nat /\ \A i \in 1 .. n : u[i] \in PartType
  BY LenProperties, ElementOfSeq
<1>2. /\ \A m \in 0 .. n : S(m) \in Seq(T)
      /\ \A m \in 0 .. n - 1 : S(m + 1) = S(m) \o e(m + 1)
  BY SentProperties
<1>3. \A m \in 1 .. n : e(m) \in Seq(T)
  BY <1>1, EncodedProperties
<1> SUFFICES ASSUME D # {} PROVE FALSE
  OBVIOUS
<1> HIDE DEF n, S, e, T
<1>4. D \subseteq Nat
  BY <1>1
<1>5. PICK m \in D : \A i \in D : m <= i
  <2> HIDE DEF D
  <2> QED BY <1>4, NatMin
<1>6. m # j
  <2>1. j \in 0 .. n
    BY DEF n
  <2>2. Len(S(j)) \in Nat
    BY <1>2, <2>1, LenProperties
  <2>3. P(j)
    BY <2>2
  <2> QED BY <1>5, <2>3
<1>7. PICK l \in 0 .. n - 1 : l + 1 = m /\ j <= l
  <2>1. m \in 1 .. n /\ j < m /\ j \in Nat
    BY <1>1, <1>5, <1>6
  <2>2. m - 1 \in 0 .. n - 1 /\ m - 1 + 1 = m /\ j <= m - 1
    BY <1>1, <2>1
  <2> QED BY <2>2
<1>8. P(l)
  <2>1. l \in 0 .. n /\ ~ (m <= l)
    BY <1>1, <1>7
  <2>2. l \notin D
    <3> HIDE DEF D
    <3> QED BY <1>5, <2>1
  <2> QED BY <1>7, <2>1, <2>2
<1>9. S(m) = S(l) \o e(m)
  BY <1>2, <1>7
<1>10. S(l) \in Seq(T) /\ e(m) \in Seq(T)
  <2>1. l \in 0 .. n /\ m \in 1 .. n
    BY <1>1, <1>7
  <2> QED BY <1>2, <1>3, <2>1
<1> DEFINE x == S(l)
           y == e(m)
           z == S(j)
<1>11. z \in Seq(T)
  <2>1. j \in 0 .. n
    BY DEF n
  <2> QED BY <1>2, <2>1
<1>12. x \in Seq(T) /\ y \in Seq(T) /\ S(m) = x \o y
  BY <1>9, <1>10
<1> HIDE DEF P
<1>13. P(l) => Len(z) <= Len(x) /\ \A i \in 1 .. Len(z) : x[i] = z[i]
  BY DEF P
<1>14. P(m) <=> Len(z) <= Len(x \o y) /\ \A i \in 1 .. Len(z) : (x \o y)[i] = z[i]
  BY <1>12 DEF P
<1> HIDE DEF x, y, z
<1>15. /\ Len(x \o y) = Len(x) + Len(y)
       /\ \A i \in 1 .. Len(x) + Len(y) : (x \o y)[i] = IF i <= Len(x) THEN x[i] ELSE y[i - Len(x)]
  BY <1>12, ConcatProperties
<1>16. Len(x) \in Nat /\ Len(y) \in Nat /\ Len(z) \in Nat
  BY <1>11, <1>12, LenProperties
<1>17. P(m)
  <2>1. Len(z) <= Len(x \o y)
    BY <1>8, <1>13, <1>15, <1>16
  <2>2. ASSUME NEW i \in 1 .. Len(z) PROVE (x \o y)[i] = z[i]
    <3>1. i \in 1 .. Len(x) + Len(y) /\ i <= Len(x)
      BY <1>8, <1>13, <1>16
    <3> QED BY <1>8, <1>13, <1>15, <3>1
  <2> QED BY <1>14, <2>1, <2>2
<1> QED BY <1>5, <1>17

\* What closes a body has six symbols.
LEMMA ClosingProperties ==
  /\ Closing \in Seq(Symbol) /\ Len(Closing) = 6
  /\ Closing[1] = "-" /\ Closing[2] = "B" /\ Closing[3] = "-"
  /\ Closing[4] = "-" /\ Closing[5] = "\r" /\ Closing[6] = "\n"
<1> DEFINE T == Symbol
<1>1. "-" \in T /\ "B" \in T /\ "\r" \in T /\ "\n" \in T
  BY UploadBodies
<1> HIDE DEF T
<1> DEFINE b == Boundary
           d == <<"-", "-">>
           s == SEP
<1>2. b \in Seq(T) /\ Len(b) = 2 /\ b[1] = "-" /\ b[2] = "B"
  BY <1>1 DEF Boundary
<1>3. d \in Seq(T) /\ Len(d) = 2 /\ d[1] = "-" /\ d[2] = "-"
  BY <1>1
<1>4. s \in Seq(T) /\ Len(s) = 2 /\ s[1] = "\r" /\ s[2] = "\n"
  BY <1>1 DEF SEP
<1>5. Closing = b \o d \o s
  BY DEF Closing
<1> HIDE DEF b, d, s
<1>6. /\ b \o d \in Seq(T) /\ Len(b \o d) = Len(b) + Len(d)
      /\ \A i \in 1 .. Len(b) + Len(d) : (b \o d)[i] = IF i <= Len(b) THEN b[i] ELSE d[i - Len(b)]
  BY <1>2, <1>3, ConcatProperties
<1> DEFINE x == b \o d
<1>7. /\ x \in Seq(T) /\ Len(x) = 4
      /\ \A i \in 1 .. 4 : x[i] = IF i <= 2 THEN b[i] ELSE d[i - 2]
  BY <1>2, <1>3, <1>6
<1>8. x[1] = "-" /\ x[2] = "B" /\ x[3] = "-" /\ x[4] = "-"
  BY <1>2, <1>3, <1>7
<1> HIDE DEF x
<1>9. /\ x \o s \in Seq(T) /\ Len(x \o s) = Len(x) + Len(s)
      /\ \A i \in 1 .. Len(x) + Len(s) : (x \o s)[i] = IF i <= Len(x) THEN x[i] ELSE s[i - Len(x)]
  BY <1>4, <1>7, ConcatProperties
<1>10. /\ Closing \in Seq(T) /\ Len(Closing) = 6
       /\ \A i \in 1 .. 6 : Closing[i] = IF i <= 4 THEN x[i] ELSE s[i - 4]
  BY <1>4, <1>5, <1>7, <1>9 DEF x
<1>11. Closing[5] = s[1] /\ Closing[6] = s[2] /\ \A i \in 1 .. 4 : Closing[i] = x[i]
  BY <1>10
<1> QED BY <1>4, <1>8, <1>10, <1>11 DEF T

\* The symbols of a body, part by part
LEMMA BodyProperties ==
  ASSUME NEW u \in Seq(PartType)
  PROVE  /\ Body(u) \in Seq(Symbol) /\ Len(Body(u)) = Start(u, Len(u) + 1) + 5
         /\ \A k \in 1 .. Len(u) : \A i \in 1 .. Len(u[k].content) + 11 :
              Body(u)[Start(u, k) - 1 + i] = Encoded(u[k])[i]
         /\ \A i \in 1 .. 6 : Body(u)[Start(u, Len(u) + 1) - 1 + i] = Closing[i]
<1> DEFINE n == Len(u)
           T == Symbol
           W == Body(u)
           Z == Closing
           S(m) == Sent(u, m)
           x == S(n)
<1>1. n \in Nat /\ \A i \in 1 .. n : u[i] \in PartType
  BY LenProperties, ElementOfSeq
<1>2. /\ \A m \in 0 .. n : S(m) \in Seq(T)
      /\ \A m \in 0 .. n - 1 : S(m + 1) = S(m) \o Encoded(u[m + 1])
      /\ W = x \o Z
  BY SentProperties
<1>3. Z \in Seq(T) /\ Len(Z) = 6
  BY ClosingProperties
<1>4. x \in Seq(T)
  <2>1. n \in 0 .. n
    BY <1>1
  <2> HIDE DEF n, S
  <2> QED BY <1>2, <2>1
<1>5. \A j \in 0 .. n : /\ Len(S(j)) <= Len(x)
                        /\ \A i \in 1 .. Len(S(j)) : x[i] = S(j)[i]
  BY <1>1, SentIsPrefix
<1>6. \A k \in 1 .. n + 1 : Start(u, k) = Len(S(k - 1)) + 1
  BY DEF Start
<1> HIDE DEF n, T, W, Z, x
<1>7. /\ x \o Z \in Seq(T) /\ Len(x \o Z) = Len(x) + Len(Z)
      /\ \A i \in 1 .. Len(x) + Len(Z) : (x \o Z)[i] = IF i <= Len(x) THEN x[i] ELSE Z[i - Len(x)]
  BY <1>3, <1>4, ConcatProperties
<1>8. Len(x) \in Nat
  BY <1>4, LenProperties
<1>9. Start(u, n + 1) = Len(x) + 1
  <2>1. PICK k \in 1 .. n + 1 : k = n + 1
    BY <1>1
  <2>2. k - 1 = n
    BY <1>1, <2>1
  <2> QED BY <1>6, <2>1, <2>2 DEF x
<1>10. W \in Seq(T) /\ Len(W) = Start(u, n + 1) + 5
  BY <1>2, <1>3, <1>7, <1>8, <1>9
<1>11. ASSUME NEW i \in 1 .. 6 PROVE W[Start(u, n + 1) - 1 + i] = Z[i]
  <2>1. Len(x) + i \in 1 .. Len(x) + Len(Z) /\ ~ (Len(x) + i <= Len(x)) /\ Len(x) + i - Len(x) = i
    BY <1>3, <1>8
  <2>2. (x \o Z)[Len(x) + i] = Z[i]
    BY <1>7, <2>1
  <2>3. Start(u, n + 1) - 1 + i = Len(x) + i
    BY <1>8, <1>9
  <2> QED BY <1>2, <2>2, <2>3
<1>12. ASSUME NEW k \in 1 .. n, NEW i \in 1 .. Len(u[k].content) + 11
       PROVE  W[Start(u, k) - 1 + i] = Encoded(u[k])[i]
  <2>1. PICK j \in 0 .. n - 1 : j = k - 1 /\ j + 1 = k /\ j \in 0 .. n /\ k \in 0 .. n
    <3>1. k - 1 \in 0 .. n - 1 /\ k - 1 + 1 = k /\ k - 1 \in 0 .. n /\ k \in 0 .. n
      BY <1>1
    <3> QED BY <3>1
  <2> DEFINE y == Encoded(u[k])
             z == S(j)
             a == S(k)
  <2>2. a = z \o y /\ z \in Seq(T)
    BY <1>2, <2>1
  <2>3. y \in Seq(T) /\ Len(y) = Len(u[k].content) + 11 /\ Len(u[k].content) \in Nat
    <3>1. k \in 1 .. Len(u) /\ u[k] \in PartType
      BY <1>1 DEF n
    <3>2. Encoded(u[k]) \in Seq(Symbol) /\ Len(Encoded(u[k])) = Len(u[k].content) + 11
      BY <3>1, EncodedProperties
    <3>3. Len(u[k].content) \in Nat
      BY <3>1, StartProperties
    <3> QED BY <3>2, <3>3 DEF T
  <2>4. Len(a) <= Len(x) /\ \A m \in 1 .. Len(a) : x[m] = a[m]
    BY <1>5, <2>1
  <2>5. Start(u, k) = Len(z) + 1
    <3>1. k \in 1 .. n + 1
      BY <1>1
    <3> QED BY <1>6, <2>1, <3>1
  <2> HIDE DEF y, z, a
  <2>6. /\ Len(z \o y) = Len(z) + Len(y)
        /\ \A m \in 1 .. Len(z) + Len(y) : (z \o y)[m] = IF m <= Len(z) THEN z[m] ELSE y[m - Len(z)]
    BY <2>2, <2>3, ConcatProperties
  <2>7. Len(z) \in Nat
    BY <2>2, LenProperties
  <2> DEFINE m == Len(z) + i
  <2>8. m \in 1 .. Len(z) + Len(y) /\ ~ (m <= Len(z)) /\ m - Len(z) = i
    BY <2>3, <2>7
  <2>9. Start(u, k) - 1 + i = m
    BY <2>5, <2>7
  <2> HIDE DEF m
  <2>10. a[m] = y[i]
    BY <2>2, <2>6, <2>8
  <2>11. m \in 1 .. Len(a)
    BY <2>2, <2>6, <2>8
  <2>12. x[m] = y[i]
    BY <2>4, <2>10, <2>11
  <2>13. m \in 1 .. Len(x) + Len(Z) /\ m <= Len(x)
    <3>1. Len(a) \in Nat /\ Len(a) <= Len(x)
      <4>1. Len(a) = Len(z) + Len(y) /\ Len(y) \in Nat
        BY <2>2, <2>3, <2>6, LenProperties
      <4> QED BY <2>4, <2>7, <4>1
    <3>2. Len(x) \in Nat /\ Len(Z) \in Nat
      BY <1>3, <1>8
    <3> QED BY <2>11, <3>1, <3>2
  <2>14. W[m] = x[m]
    BY <1>2, <1>7, <2>13
  <2> QED BY <2>9, <2>12, <2>14 DEF y
<1> QED BY <1>10, <1>11, <1>12 DEF n, T, W, Z

-----------------------------------------------------------------------------
(* Searching                                                               *)

\* What is found is the first place where all symbols of the pattern are.
IsAt(pattern, s, i) ==
  i \in 1 .. Len(s) - Len(pattern) + 1 /\ \A j \in 1 .. Len(pattern) : s[i + j - 1] = pattern[j]

\* Find is 0 if the pattern is nowhere, and otherwise the first of its places.
LEMMA FindProperties ==
  ASSUME NEW T, NEW s \in Seq(T), NEW pattern \in Seq(T), Len(pattern) # 0
  PROVE  \/ Find(pattern, s) = 0 /\ \A i \in Nat : ~ IsAt(pattern, s, i)
         \/ /\ Find(pattern, s) \in Nat /\ IsAt(pattern, s, Find(pattern, s))
            /\ \A i \in Nat : i < Find(pattern, s) => ~ IsAt(pattern, s, i)
<1> DEFINE p == pattern
           m == Len(p)
           n == Len(s)
           O == Occurrences(p, s)
<1>1. m \in Nat \ {0} /\ n \in Nat
  BY LenProperties
<1>2. \A i \in 1 .. n - m + 1 : SubSeq(s, i, i + m - 1) = p <=> IsAt(p, s, i)
  <2> SUFFICES ASSUME NEW i \in 1 .. n - m + 1
               PROVE  SubSeq(s, i, i + m - 1) = p <=> IsAt(p, s, i)
    OBVIOUS
  <2> DEFINE l == i + m - 1
             x == SubSeq(s, i, l)
  <2>1. i \in Int /\ l \in Int /\ i \in 1 .. n + 1 /\ l \in i - 1 .. n /\ l - i + 1 = m /\ ~ (i > l)
    BY <1>1
  <2>2. /\ x \in Seq(T)
        /\ Len(x) = m
        /\ \A j \in 1 .. m : x[j] = s[i + j - 1]
    <3> HIDE DEF l, m, n
    <3>1. /\ x \in Seq(T)
          /\ Len(x) = IF i <= l THEN l - i + 1 ELSE 0
          /\ \A j \in 1 .. l - i + 1 : x[j] = s[i + j - 1]
      <4>1. i \in 1 .. Len(s) + 1 /\ l \in i - 1 .. Len(s)
        BY <2>1 DEF n
      <4> QED BY <4>1, SubSeqProperties
    <3>2. i <= l
      BY <2>1
    <3> QED BY <2>1, <3>1, <3>2
  <2> HIDE DEF x, p
  <2>3. x = p <=> \A j \in 1 .. m : x[j] = p[j]
    <3>1. p \in Seq(T)
      BY DEF p
    <3> HIDE DEF m
    <3>2. Len(p) = m
      BY DEF m
    <3> QED BY <2>2, <3>1, <3>2, SeqEqual
  <2> QED BY <2>2, <2>3 DEF IsAt, x, p
<1>3. O = {i \in 1 .. n - m + 1 : IsAt(p, s, i)}
  BY <1>2 DEF Occurrences
<1>4. \A i : IsAt(p, s, i) => i \in 1 .. n - m + 1
  BY DEF IsAt
<1>5. Find(p, s) = IF O = {} THEN 0 ELSE Min(O)
  BY DEF Find
<1> HIDE DEF p, O
<1>6. CASE O = {}
  BY <1>3, <1>4, <1>5, <1>6 DEF p
<1>7. CASE O # {}
  <2>1. O \subseteq Nat
    BY <1>1, <1>3
  <2>2. Min(O) \in O /\ \A i \in O : Min(O) <= i
    <3>1. \E i \in O : \A j \in O : i <= j
      BY <1>7, <2>1, NatMin
    <3> QED BY <3>1 DEF Min
  <2>3. Min(O) \in Nat /\ IsAt(p, s, Min(O))
    BY <1>3, <2>1, <2>2
  <2>4. ASSUME NEW i \in Nat, i < Min(O) PROVE ~ IsAt(p, s, i)
    <3>1. i \notin O
      BY <2>2, <2>3, <2>4
    <3> QED BY <1>3, <1>4, <3>1
  <2> QED BY <1>5, <1>7, <2>3, <2>4 DEF p
<1> QED BY <1>6, <1>7

\* A delimiter, the end of a head and the end of a file, symbol by symbol
BoundaryAt(s, i) == i \in 1 .. Len(s) - 1 /\ s[i] = "-" /\ s[i + 1] = "B"

HeadEndAt(s, i) ==
  i \in 1 .. Len(s) - 3 /\ s[i] = "\r" /\ s[i + 1] = "\n" /\ s[i + 2] = "\r" /\ s[i + 3] = "\n"

FileEndAt(s, i) ==
  i \in 1 .. Len(s) - 3 /\ s[i] = "\r" /\ s[i + 1] = "\n" /\ s[i + 2] = "-" /\ s[i + 3] = "B"

\* A delimiter is two symbols long.
LEMMA BoundaryProperties ==
  Boundary \in Seq(Symbol) /\ Len(Boundary) = 2 /\ Boundary[1] = "-" /\ Boundary[2] = "B"
<1> DEFINE T == Symbol
<1>1. "-" \in T /\ "B" \in T
  BY UploadBodies
<1> HIDE DEF T
<1>2. Boundary \in Seq(T)
  BY <1>1 DEF Boundary
<1> QED BY <1>2 DEF Boundary, T

\* A line break is two symbols long.
LEMMA SEPProperties ==
  SEP \in Seq(Symbol) /\ Len(SEP) = 2 /\ SEP[1] = "\r" /\ SEP[2] = "\n"
<1> DEFINE T == Symbol
<1>1. "\r" \in T /\ "\n" \in T
  BY UploadBodies
<1> HIDE DEF T
<1>2. SEP \in Seq(T)
  BY <1>1 DEF SEP
<1> QED BY <1>2 DEF SEP, T

\* The symbols of two sequences of two symbols, one behind the other
LEMMA TwoPairs ==
  ASSUME NEW T, NEW x \in Seq(T), NEW y \in Seq(T), Len(x) = 2, Len(y) = 2
  PROVE  /\ x \o y \in Seq(T) /\ Len(x \o y) = 4
         /\ (x \o y)[1] = x[1] /\ (x \o y)[2] = x[2]
         /\ (x \o y)[3] = y[1] /\ (x \o y)[4] = y[2]
<1>1. /\ x \o y \in Seq(T) /\ Len(x \o y) = Len(x) + Len(y)
      /\ \A i \in 1 .. Len(x) + Len(y) : (x \o y)[i] = IF i <= Len(x) THEN x[i] ELSE y[i - Len(x)]
  BY ConcatProperties
<1>2. Len(x \o y) = 4 /\ \A i \in 1 .. 4 : (x \o y)[i] = IF i <= 2 THEN x[i] ELSE y[i - 2]
  BY <1>1
<1> QED BY <1>1, <1>2

\* The search for a delimiter, symbol by symbol
LEMMA FindBoundary ==
  ASSUME NEW s \in Seq(Symbol)
  PROVE  \/ Find(Boundary, s) = 0 /\ \A i \in Nat : ~ BoundaryAt(s, i)
         \/ /\ Find(Boundary, s) \in Nat \ {0} /\ BoundaryAt(s, Find(Boundary, s))
            /\ \A i \in Nat : i < Find(Boundary, s) => ~ BoundaryAt(s, i)
<1> DEFINE x == Boundary
<1>1. x \in Seq(Symbol) /\ Len(x) = 2 /\ x[1] = "-" /\ x[2] = "B"
  BY BoundaryProperties
<1>2. Len(s) \in Nat
  BY LenProperties
<1> HIDE DEF x
<1>3. \A i : IsAt(x, s, i) <=> BoundaryAt(s, i)
  BY <1>1, <1>2 DEF IsAt, BoundaryAt
<1> DEFINE T == Symbol
<1> HIDE DEF T
<1>4. s \in Seq(T) /\ x \in Seq(T) /\ Len(x) # 0
  BY <1>1 DEF T
<1>5. \/ Find(x, s) = 0 /\ \A i \in Nat : ~ IsAt(x, s, i)
      \/ /\ Find(x, s) \in Nat /\ IsAt(x, s, Find(x, s))
         /\ \A i \in Nat : i < Find(x, s) => ~ IsAt(x, s, i)
  BY <1>4, FindProperties
<1>6. \A i : BoundaryAt(s, i) => i \in Nat \ {0}
  BY <1>2 DEF BoundaryAt
<1> QED BY <1>3, <1>5, <1>6 DEF x

\* The search for the empty line behind a head, symbol by symbol
LEMMA FindHeadEnd ==
  ASSUME NEW s \in Seq(Symbol)
  PROVE  \/ Find(SEP \o SEP, s) = 0 /\ \A i \in Nat : ~ HeadEndAt(s, i)
         \/ /\ Find(SEP \o SEP, s) \in Nat \ {0} /\ HeadEndAt(s, Find(SEP \o SEP, s))
            /\ \A i \in Nat : i < Find(SEP \o SEP, s) => ~ HeadEndAt(s, i)
<1> DEFINE x == SEP \o SEP
           T == Symbol
<1>1. x \in Seq(T) /\ Len(x) = 4 /\ x[1] = "\r" /\ x[2] = "\n" /\ x[3] = "\r" /\ x[4] = "\n"
  <2>1. SEP \in Seq(T)
    BY SEPProperties
  <2> HIDE DEF T
  <2>2. Len(SEP) = 2 /\ SEP[1] = "\r" /\ SEP[2] = "\n"
    BY SEPProperties
  <2>3. /\ SEP \o SEP \in Seq(T) /\ Len(SEP \o SEP) = 4
         /\ (SEP \o SEP)[1] = SEP[1] /\ (SEP \o SEP)[2] = SEP[2]
         /\ (SEP \o SEP)[3] = SEP[1] /\ (SEP \o SEP)[4] = SEP[2]
    BY <2>1, <2>2, TwoPairs
  <2> QED BY <2>2, <2>3
<1>2. Len(s) \in Nat
  BY LenProperties
<1> HIDE DEF x
<1>3. \A i : IsAt(x, s, i) <=> HeadEndAt(s, i)
  BY <1>1, <1>2 DEF IsAt, HeadEndAt
<1> HIDE DEF T
<1>4. s \in Seq(T) /\ x \in Seq(T) /\ Len(x) # 0
  BY <1>1 DEF T
<1>5. \/ Find(x, s) = 0 /\ \A i \in Nat : ~ IsAt(x, s, i)
      \/ /\ Find(x, s) \in Nat /\ IsAt(x, s, Find(x, s))
         /\ \A i \in Nat : i < Find(x, s) => ~ IsAt(x, s, i)
  BY <1>4, FindProperties
<1>6. \A i : HeadEndAt(s, i) => i \in Nat \ {0}
  BY <1>2 DEF HeadEndAt
<1> QED BY <1>3, <1>5, <1>6 DEF x

\* The search for the line break and delimiter behind a content, symbol by symbol
LEMMA FindFileEnd ==
  ASSUME NEW s \in Seq(Symbol)
  PROVE  \/ Find(SEP \o Boundary, s) = 0 /\ \A i \in Nat : ~ FileEndAt(s, i)
         \/ /\ Find(SEP \o Boundary, s) \in Nat \ {0} /\ FileEndAt(s, Find(SEP \o Boundary, s))
            /\ \A i \in Nat : i < Find(SEP \o Boundary, s) => ~ FileEndAt(s, i)
<1> DEFINE x == SEP \o Boundary
           T == Symbol
<1>1. x \in Seq(T) /\ Len(x) = 4 /\ x[1] = "\r" /\ x[2] = "\n" /\ x[3] = "-" /\ x[4] = "B"
  <2>1. SEP \in Seq(T) /\ Boundary \in Seq(T)
    BY SEPProperties, BoundaryProperties
  <2> HIDE DEF T
  <2>2. Len(SEP) = 2 /\ SEP[1] = "\r" /\ SEP[2] = "\n"
    BY SEPProperties
  <2>3. Len(Boundary) = 2 /\ Boundary[1] = "-" /\ Boundary[2] = "B"
    BY BoundaryProperties
  <2>4. /\ SEP \o Boundary \in Seq(T) /\ Len(SEP \o Boundary) = 4
         /\ (SEP \o Boundary)[1] = SEP[1] /\ (SEP \o Boundary)[2] = SEP[2]
         /\ (SEP \o Boundary)[3] = Boundary[1] /\ (SEP \o Boundary)[4] = Boundary[2]
    BY <2>1, <2>2, <2>3, TwoPairs
  <2> QED BY <2>2, <2>3, <2>4
<1>2. Len(s) \in Nat
  BY LenProperties
<1> HIDE DEF x
<1>3. \A i : IsAt(x, s, i) <=> FileEndAt(s, i)
  BY <1>1, <1>2 DEF IsAt, FileEndAt
<1> HIDE DEF T
<1>4. s \in Seq(T) /\ x \in Seq(T) /\ Len(x) # 0
  BY <1>1 DEF T
<1>5. \/ Find(x, s) = 0 /\ \A i \in Nat : ~ IsAt(x, s, i)
      \/ /\ Find(x, s) \in Nat /\ IsAt(x, s, Find(x, s))
         /\ \A i \in Nat : i < Find(x, s) => ~ IsAt(x, s, i)
  BY <1>4, FindProperties
<1>6. \A i : FileEndAt(s, i) => i \in Nat \ {0}
  BY <1>2 DEF FileEndAt
<1> QED BY <1>3, <1>5, <1>6 DEF x

\* The symbols of part k in the body
LEMMA PartSymbols ==
  ASSUME NEW u \in Seq(PartType), NEW k \in 1 .. Len(u)
  PROVE  LET S == Start(u, k)
             W == Body(u)
             c == u[k].content
         IN
         /\ S \in Nat \ {0} /\ Len(c) \in Nat
         /\ W[S] = "-" /\ W[S + 1] = "B" /\ W[S + 2] = "\r" /\ W[S + 3] = "\n"
         /\ W[S + 4] = HeadSymbol(u[k])
         /\ W[S + 5] = "\r" /\ W[S + 6] = "\n" /\ W[S + 7] = "\r" /\ W[S + 8] = "\n"
         /\ \A i \in 1 .. Len(c) : W[S + 8 + i] = c[i]
         /\ W[S + 9 + Len(c)] = "\r" /\ W[S + 10 + Len(c)] = "\n"
<1> DEFINE S == Start(u, k)
           W == Body(u)
           c == u[k].content
<1>1. S \in Nat \ {0} /\ Len(c) \in Nat
  <2>1. k \in 1 .. Len(u) + 1
    BY LenProperties
  <2> QED BY <2>1, StartProperties
<1>2. u[k] \in PartType
  BY ElementOfSeq
<1> DEFINE e == Encoded(u[k])
           m == Len(c)
           h == HeadSymbol(u[k])
<1>3. \A i \in 1 .. m + 11 : W[S - 1 + i] = e[i]
  BY BodyProperties
<1>4. /\ e[1] = "-" /\ e[2] = "B" /\ e[3] = "\r" /\ e[4] = "\n" /\ e[5] = h
      /\ e[6] = "\r" /\ e[7] = "\n" /\ e[8] = "\r" /\ e[9] = "\n"
      /\ \A i \in 1 .. m : e[i + 9] = c[i]
      /\ e[m + 10] = "\r" /\ e[m + 11] = "\n"
  BY <1>2, EncodedProperties
<1>5. m \in Nat
  BY <1>1
<1> HIDE DEF e, m, h, S, W, c
<1>31. \A i \in 1 .. 9 : i \in 1 .. m + 11
  BY <1>5
<1>32. m + 10 \in 1 .. m + 11 /\ m + 11 \in 1 .. m + 11
  BY <1>5
<1>6. W[S - 1 + 1] = "-" /\ W[S - 1 + 2] = "B" /\ W[S - 1 + 3] = "\r" /\ W[S - 1 + 4] = "\n"
  BY <1>3, <1>4, <1>31
<1>7. W[S - 1 + 5] = h /\ W[S - 1 + 6] = "\r" /\ W[S - 1 + 7] = "\n"
  BY <1>3, <1>4, <1>31
<1>8. W[S - 1 + 8] = "\r" /\ W[S - 1 + 9] = "\n"
  BY <1>3, <1>4, <1>31
<1>9. W[S - 1 + (m + 10)] = "\r" /\ W[S - 1 + (m + 11)] = "\n"
  BY <1>3, <1>4, <1>32
<1>10. ASSUME NEW i \in 1 .. m PROVE W[S + 8 + i] = c[i]
  <2>1. i + 9 \in 1 .. m + 11 /\ S - 1 + (i + 9) = S + 8 + i
    BY <1>1, <1>5
  <2> QED BY <1>3, <1>4, <2>1
<1>11. S - 1 + 1 = S /\ S - 1 + 2 = S + 1 /\ S - 1 + 3 = S + 2 /\ S - 1 + 4 = S + 3
       /\ S - 1 + 5 = S + 4 /\ S - 1 + 6 = S + 5 /\ S - 1 + 7 = S + 6 /\ S - 1 + 8 = S + 7
       /\ S - 1 + 9 = S + 8
  BY <1>1
<1>12. S - 1 + (m + 10) = S + 9 + m /\ S - 1 + (m + 11) = S + 10 + m
  <2>1. \A a, b \in Nat : a - 1 + (b + 10) = a + 9 + b /\ a - 1 + (b + 11) = a + 10 + b
    OBVIOUS
  <2>2. S \in Nat
    BY <1>1
  <2> QED BY <1>5, <2>1, <2>2
<1> QED BY <1>1, <1>6, <1>7, <1>8, <1>9, <1>10, <1>11, <1>12 DEF h, m, S, W, c

\* The symbols behind the last part
LEMMA ClosingSymbols ==
  ASSUME NEW u \in Seq(PartType)
  PROVE  LET S == Start(u, Len(u) + 1)
             W == Body(u)
         IN
         /\ S \in Nat \ {0} /\ Len(W) = S + 5
         /\ W[S] = "-" /\ W[S + 1] = "B" /\ W[S + 2] = "-" /\ W[S + 3] = "-"
         /\ W[S + 4] = "\r" /\ W[S + 5] = "\n"
<1> DEFINE S == Start(u, Len(u) + 1)
           W == Body(u)
<1>1. S \in Nat \ {0}
  <2>1. Len(u) + 1 \in 1 .. Len(u) + 1
    BY LenProperties
  <2> QED BY <2>1, StartProperties
<1> DEFINE z == Closing
<1>2. Len(W) = S + 5 /\ \A i \in 1 .. 6 : W[S - 1 + i] = z[i]
  BY BodyProperties
<1>3. /\ z[1] = "-" /\ z[2] = "B" /\ z[3] = "-"
      /\ z[4] = "-" /\ z[5] = "\r" /\ z[6] = "\n"
  BY ClosingProperties
<1> HIDE DEF z, S, W
<1>4. W[S - 1 + 1] = "-" /\ W[S - 1 + 2] = "B" /\ W[S - 1 + 3] = "-" /\ W[S - 1 + 4] = "-"
      /\ W[S - 1 + 5] = "\r" /\ W[S - 1 + 6] = "\n"
  BY <1>2, <1>3
<1>5. S - 1 + 1 = S /\ S - 1 + 2 = S + 1 /\ S - 1 + 3 = S + 2 /\ S - 1 + 4 = S + 3
       /\ S - 1 + 5 = S + 4 /\ S - 1 + 6 = S + 5
  BY <1>1
<1> QED BY <1>1, <1>2, <1>4, <1>5 DEF S, W

-----------------------------------------------------------------------------
(* Delimiters in a body                                                    *)

\* No content of a part has a delimiter in it.
LEMMA UploadType ==
  ASSUME NEW u \in Upload
  PROVE  /\ u \in Seq(PartType)
         /\ \A k \in 1 .. Len(u) : \A i \in Nat : ~ BoundaryAt(u[k].content, i)
<1>1. u \in Seq(PartType)
  BY UploadBodies DEF PartType
<1>2. ASSUME NEW k \in 1 .. Len(u), NEW i \in Nat PROVE ~ BoundaryAt(u[k].content, i)
  <2> DEFINE c == u[k].content
  <2>1. k \in DOMAIN u /\ u[k] \in PartType
    BY <1>1, LenProperties, ElementOfSeq
  <2>2. c \in Seq(Symbol)
    BY <2>1 DEF PartType
  <2>3. Occurrences(Boundary, c) = {}
    BY <2>1, UploadBodies
  <2> HIDE DEF c
  <2>4. Find(Boundary, c) = 0
    BY <2>3 DEF Find
  <2>5. ~ BoundaryAt(c, i)
    BY <2>2, <2>4, FindBoundary
  <2> QED BY <2>5 DEF c
<1> QED BY <1>1, <1>2

\* Each place in a body belongs to a part or to what closes it.
LEMMA Located ==
  ASSUME NEW u \in Seq(PartType), NEW i \in Nat \ {0}
  PROVE  \E k \in 1 .. Len(u) + 1 :
           Start(u, k) <= i /\ (k = Len(u) + 1 \/ i < Start(u, k + 1))
<1> DEFINE n == Len(u)
           S(k) == Start(u, k)
           D == {k \in 1 .. n + 1 : k = n + 1 \/ i < S(k + 1)}
<1>1. n \in Nat
  BY LenProperties
<1>2. /\ \A k \in 1 .. n + 1 : S(k) \in Nat
      /\ S(1) = 1
  BY StartProperties
<1> HIDE DEF n, S
<1>3. D \subseteq Nat /\ n + 1 \in D
  BY <1>1
<1>4. PICK k \in D : \A m \in D : k <= m
  <2> HIDE DEF D
  <2> QED BY <1>3, NatMin
<1>5. S(k) <= i
  <2>1. CASE k = 1
    BY <1>2, <2>1
  <2>2. CASE k # 1
    <3>1. PICK j \in 1 .. n : k = j + 1
      <4>1. k - 1 \in 1 .. n /\ k - 1 + 1 = k
        BY <1>1, <1>4, <2>2
      <4> QED BY <4>1
    <3>2. j \notin D
      <4>1. j \in Nat /\ ~ (k <= j)
        BY <1>1, <3>1
      <4> HIDE DEF D
      <4> QED BY <1>4, <4>1
    <3>3. j \in 1 .. n + 1 /\ ~ (i < S(j + 1))
      BY <1>1, <3>1, <3>2
    <3>4. S(k) \in Nat
      BY <1>2, <1>4
    <3> QED BY <3>1, <3>3, <3>4
  <2> QED BY <2>1, <2>2
<1> QED BY <1>4, <1>5 DEF n, S

\* Delimiters are where parts begin, and before what closes the body.
LEMMA BoundariesOfBody ==
  ASSUME NEW u \in Upload, NEW i, BoundaryAt(Body(u), i)
  PROVE  \E k \in 1 .. Len(u) + 1 : i = Start(u, k)
<1> DEFINE n == Len(u)
           W == Body(u)
<1>1. u \in Seq(PartType) /\ n \in Nat
  BY UploadType, LenProperties
<1>2. Len(W) = Start(u, n + 1) + 5 /\ Start(u, n + 1) \in Nat
  BY <1>1, ClosingSymbols
<1> HIDE DEF n, W
<1>3. i \in Nat \ {0} /\ i + 1 <= Len(W) /\ W[i] = "-" /\ W[i + 1] = "B"
  BY <1>2 DEF BoundaryAt, W
<1>4. PICK k \in 1 .. n + 1 : Start(u, k) <= i /\ (k = n + 1 \/ i < Start(u, k + 1))
  BY <1>1, <1>3, Located DEF n
<1> DEFINE S == Start(u, k)
<1>5. S \in Nat \ {0}
  BY <1>1, StartProperties DEF n
<1>6. CASE k = n + 1
  <2>1. W[S + 1] = "B" /\ W[S + 2] = "-" /\ W[S + 3] = "-" /\ W[S + 4] = "\r" /\ Len(W) = S + 5
    BY <1>1, <1>6, ClosingSymbols DEF n, W
  <2> HIDE DEF S
  <2>2. i \in S .. S + 4
    BY <1>3, <1>4, <1>5, <2>1 DEF S
  <2>3. i # S + 1 /\ i # S + 2 /\ i # S + 3 /\ i # S + 4
    <3>1. S + 2 = S + 1 + 1 /\ S + 3 = S + 2 + 1 /\ S + 4 = S + 3 + 1
      BY <1>5
    <3> QED BY <1>3, <2>1, <3>1
  <2>4. i = S
    BY <1>5, <2>2, <2>3
  <2> QED BY <2>4 DEF S, n
<1>7. CASE k \in 1 .. n
  <2> DEFINE c == u[k].content
             m == Len(c)
  <2>1. /\ m \in Nat
        /\ W[S + 1] = "B" /\ W[S + 2] = "\r" /\ W[S + 3] = "\n"
        /\ W[S + 4] = HeadSymbol(u[k])
        /\ W[S + 5] = "\r" /\ W[S + 6] = "\n" /\ W[S + 7] = "\r" /\ W[S + 8] = "\n"
        /\ \A j \in 1 .. m : W[S + 8 + j] = c[j]
        /\ W[S + 9 + m] = "\r" /\ W[S + 10 + m] = "\n"
    BY <1>1, <1>7, PartSymbols DEF n, W
  <2>2. Start(u, k + 1) = S + m + 11
    BY <1>1, <1>7, StartProperties DEF n
  <2>3. u[k] \in PartType
    BY <1>1, <1>7, ElementOfSeq DEF n
  <2>4. HeadSymbol(u[k]) # "-"
    BY <2>3, UploadBodies DEF HeadSymbol, PartType
  <2>5. \A j \in Nat : ~ BoundaryAt(c, j)
    BY <1>7, UploadType DEF n
  <2>6. ~ (k = n + 1)
    BY <1>1, <1>7
  <2> HIDE DEF c, m, S
  <2>7. i >= S /\ i < S + m + 11
    BY <1>4, <2>2, <2>6 DEF S
  <2>8. i # S + 1 /\ i # S + 2 /\ i # S + 3 /\ i # S + 4
    BY <1>3, <2>1, <2>4
  <2>9. i # S + 5 /\ i # S + 6 /\ i # S + 7 /\ i # S + 8
    BY <1>3, <2>1
  <2>10. i # S + 9 + m /\ i # S + 10 + m
    BY <1>3, <2>1
  <2>11. i # S => i - S - 8 \in 1 .. m
    BY <1>3, <1>5, <2>1, <2>7, <2>8, <2>9, <2>10
  <2>12. ASSUME i # S PROVE FALSE
    <3>1. PICK j \in 1 .. m : j = i - S - 8
      BY <2>11, <2>12
    <3>2. S + 8 + j = i /\ j \in Nat
      BY <1>3, <1>5, <2>1, <3>1
    <3>3. c[j] = "-"
      BY <1>3, <2>1, <3>2
    <3>4. CASE j = m
      <4>1. S + 9 + m = i + 1
        BY <1>5, <2>1, <3>2, <3>4
      <4> QED BY <1>3, <2>1, <4>1
    <3>5. CASE j # m
      <4>1. j + 1 \in 1 .. m /\ S + 8 + (j + 1) = i + 1 /\ j \in 1 .. m - 1
        BY <1>5, <2>1, <3>2, <3>5
      <4>2. W[S + 8 + (j + 1)] = c[j + 1]
        BY <2>1, <4>1
      <4>3. c[j + 1] = "B"
        BY <1>3, <4>1, <4>2
      <4>4. BoundaryAt(c, j)
        BY <3>3, <4>1, <4>3 DEF BoundaryAt, m
      <4> QED BY <2>5, <3>2, <4>4
    <3> QED BY <3>4, <3>5
  <2> QED BY <2>12 DEF S, n
<1> QED BY <1>1, <1>4, <1>6, <1>7

\* Each part begins with a delimiter, and so does what closes the body.
LEMMA BoundaryAtStart ==
  ASSUME NEW u \in Seq(PartType), NEW k \in 1 .. Len(u) + 1
  PROVE  /\ Body(u)[Start(u, k)] = "-" /\ Body(u)[Start(u, k) + 1] = "B"
         /\ Start(u, k) + 5 <= Len(Body(u))
         /\ k # Len(u) + 1 => Start(u, k) + 16 <= Len(Body(u))
<1>1. Len(u) \in Nat
  BY LenProperties
<1>2. Len(Body(u)) = Start(u, Len(u) + 1) + 5 /\ Start(u, Len(u) + 1) \in Nat
  BY ClosingSymbols
<1>3. CASE k = Len(u) + 1
  <2> DEFINE a == Start(u, Len(u) + 1)
             W == Body(u)
  <2>1. W[a] = "-" /\ W[a + 1] = "B" /\ Len(W) = a + 5 /\ a \in Nat
    BY ClosingSymbols
  <2> HIDE DEF a, W
  <2>2. a + 5 <= Len(W)
    BY <2>1
  <2> QED BY <1>3, <2>1, <2>2 DEF a, W
<1>4. CASE k \in 1 .. Len(u)
  <2>1. Body(u)[Start(u, k)] = "-" /\ Body(u)[Start(u, k) + 1] = "B"
    BY <1>4, PartSymbols
  <2> DEFINE l == Len(u) + 1
             a == Start(u, k)
             b == Start(u, l)
             m == Len(u[k].content)
  <2>2. a + m + 11 <= b
    <3>1. l \in 1 .. Len(u) + 1 /\ k < l
      BY <1>1, <1>4
    <3> HIDE DEF l
    <3> QED BY <3>1, StartsIncrease
  <2>3. a \in Nat /\ m \in Nat
    BY <1>4, PartSymbols
  <2>4. b \in Nat
    BY <1>2
  <2> HIDE DEF a, b, m
  <2>5. a + 16 <= b + 5
    BY <2>2, <2>3, <2>4
  <2> QED BY <1>2, <2>1, <2>3, <2>4, <2>5 DEF a, b
<1> QED BY <1>1, <1>3, <1>4

-----------------------------------------------------------------------------
(* What is found behind a position                                         *)

\* s is what the body has behind position p
Matches(u, s, p) ==
  /\ p + Len(s) <= Len(Body(u))
  /\ \A i \in 1 .. Len(s) : s[i] = Body(u)[p + i]

\* The content of part k, and the line break behind it
ContentAt(u, k) == Start(u, k) + 9
ContentEnd(u, k) == Start(u, k + 1) - 2

\* Behind the beginning of part k - 1 the next delimiter is that of part k.
LEMMA NextBoundary ==
  ASSUME NEW u \in Upload, NEW s \in Seq(Symbol), NEW p \in Nat, Matches(u, s, p),
         NEW k \in 1 .. Len(u) + 1, p + 1 <= Start(u, k), k = 1 \/ Start(u, k - 1) <= p
  PROVE  \/ Find(Boundary, s) = 0 /\ p + Len(s) <= Start(u, k)
         \/ /\ Find(Boundary, s) \in 1 .. Len(s) - 1
            /\ p + Find(Boundary, s) = Start(u, k)
<1> DEFINE q == Find(Boundary, s)
           n == Len(u)
           W == Body(u)
           m == Len(s)
           S(j) == Start(u, j)
<1>1. u \in Seq(PartType) /\ n \in Nat /\ m \in Nat
  BY UploadType, LenProperties
<1>2. \A j \in 1 .. n + 1 : S(j) \in Nat \ {0}
  BY <1>1, StartProperties
<1>3. \A i, j \in 1 .. n + 1 : i < j => S(i) < S(j)
  <2> SUFFICES ASSUME NEW i \in 1 .. n + 1, NEW j \in 1 .. n + 1, i < j PROVE S(i) < S(j)
    OBVIOUS
  <2> DEFINE c == Len(u[i].content)
  <2>1. S(i) + c + 11 <= S(j)
    BY <1>1, StartsIncrease
  <2>2. S(i) \in Nat /\ S(j) \in Nat
    BY <1>2
  <2>3. c \in Nat
    <3>1. i \in 1 .. n
      BY <1>1
    <3> QED BY <1>1, <3>1, StartProperties
  <2> HIDE DEF S, c
  <2> QED BY <2>1, <2>2, <2>3
<1>4. p + m <= Len(W) /\ \A i \in 1 .. m : s[i] = W[p + i]
  BY DEF Matches
<1>5. Len(W) \in Nat
  BY <1>1, BodyProperties, LenProperties
<1>6. ASSUME NEW i, BoundaryAt(s, i) PROVE S(k) <= p + i
  <2>1. i \in 1 .. m - 1 /\ s[i] = "-" /\ s[i + 1] = "B"
    BY <1>6 DEF BoundaryAt
  <2>2. i \in 1 .. m /\ i + 1 \in 1 .. m /\ p + (i + 1) = p + i + 1
    BY <1>1, <2>1
  <2>3. W[p + i] = "-" /\ W[p + i + 1] = "B"
    BY <1>4, <2>1, <2>2
  <2>4. p + i \in 1 .. Len(W) - 1
    BY <1>1, <1>4, <1>5, <2>1
  <2>5. BoundaryAt(W, p + i)
    <3> HIDE DEF W
    <3> QED BY <2>3, <2>4 DEF BoundaryAt
  <2>6. PICK j \in 1 .. n + 1 : p + i = S(j)
    BY <2>5, BoundariesOfBody
  <2> HIDE DEF S
  <2>7. ASSUME j < k PROVE FALSE
    <3>1. k - 1 \in 1 .. n + 1 /\ k # 1 /\ j <= k - 1
      BY <1>1, <2>7
    <3>2. S(k - 1) <= p
      BY <3>1 DEF S
    <3>3. S(j) <= S(k - 1)
      <4>1. CASE j = k - 1
        BY <1>2, <3>1, <4>1
      <4>2. CASE j < k - 1
        BY <1>2, <1>3, <3>1, <4>2
      <4> QED BY <1>1, <3>1, <4>1, <4>2
    <3>4. S(j) \in Nat /\ S(k - 1) \in Nat
      BY <1>2, <3>1
    <3> QED BY <2>1, <2>6, <3>2, <3>3, <3>4
  <2>8. S(k) <= S(j)
    <3>1. CASE j = k
      BY <1>2, <3>1
    <3>2. CASE k < j
      BY <1>2, <1>3, <3>2
    <3> QED BY <1>1, <2>7, <3>1, <3>2
  <2> QED BY <2>6, <2>8
<1>7. ASSUME S(k) + 1 <= p + m PROVE BoundaryAt(s, S(k) - p)
  <2>1. W[S(k)] = "-" /\ W[S(k) + 1] = "B"
    BY <1>1, BoundaryAtStart
  <2>2. p + 1 <= S(k) /\ S(k) \in Nat
    BY <1>2
  <2> HIDE DEF S, W
  <2>3. PICK i \in 1 .. m - 1 : i = S(k) - p
    <3>1. S(k) - p \in 1 .. m - 1
      BY <1>1, <1>7, <2>2
    <3> QED BY <3>1
  <2>4. i \in 1 .. m /\ i + 1 \in 1 .. m /\ p + i = S(k) /\ p + (i + 1) = S(k) + 1
    <3>1. i \in 1 .. m /\ i + 1 \in 1 .. m
      BY <1>1
    <3>2. p + i = S(k)
      BY <2>2, <2>3
    <3>3. p + (i + 1) = S(k) + 1
      BY <2>2, <3>2
    <3> QED BY <3>1, <3>2, <3>3
  <2>5. s[i] = "-" /\ s[i + 1] = "B"
    BY <1>4, <2>1, <2>4
  <2> QED BY <2>3, <2>5 DEF BoundaryAt
<1>8. \/ q = 0 /\ \A i \in Nat : ~ BoundaryAt(s, i)
      \/ /\ q \in Nat \ {0} /\ BoundaryAt(s, q)
         /\ \A i \in Nat : i < q => ~ BoundaryAt(s, i)
  BY FindBoundary
<1>9. S(k) \in Nat /\ p + 1 <= S(k)
  BY <1>2
<1>10. S(k) - p \in Nat
  BY <1>9
<1> HIDE DEF q, m, S
<1>11. CASE q = 0
  <2>1. ~ BoundaryAt(s, S(k) - p)
    BY <1>8, <1>10, <1>11
  <2>2. ~ (S(k) + 1 <= p + m)
    BY <1>7, <2>1
  <2> QED BY <1>1, <1>9, <1>11, <2>2 DEF q, m, S
<1>12. CASE q # 0
  <2>1. q \in Nat /\ BoundaryAt(s, q) /\ \A i \in Nat : i < q => ~ BoundaryAt(s, i)
    BY <1>8, <1>12
  <2>2. q \in 1 .. m - 1
    BY <2>1 DEF BoundaryAt, m
  <2>3. S(k) <= p + q
    BY <1>6, <2>1
  <2>4. S(k) + 1 <= p + m
    BY <1>1, <1>9, <2>2, <2>3
  <2>5. ~ (S(k) - p < q)
    BY <1>7, <1>10, <2>1, <2>4
  <2>6. p + q = S(k)
    BY <1>9, <2>1, <2>3, <2>5
  <2> QED BY <2>2, <2>6 DEF q, m, S
<1> QED BY <1>11, <1>12

\* Within the content of part k the next line break and delimiter are those
\* behind it.
LEMMA NextFileEnd ==
  ASSUME NEW u \in Upload, NEW s \in Seq(Symbol), NEW p \in Nat, Matches(u, s, p),
         NEW k \in 1 .. Len(u), p + 1 \in ContentAt(u, k) .. ContentEnd(u, k)
  PROVE  \/ Find(SEP \o Boundary, s) = 0 /\ p + Len(s) <= ContentEnd(u, k) + 2
         \/ /\ Find(SEP \o Boundary, s) \in 1 .. Len(s) - 3
            /\ p + Find(SEP \o Boundary, s) = ContentEnd(u, k)
<1> DEFINE e == Find(SEP \o Boundary, s)
           n == Len(u)
           W == Body(u)
           m == Len(s)
           E == ContentEnd(u, k)
<1>1. u \in Seq(PartType) /\ n \in Nat /\ m \in Nat /\ Len(W) \in Nat
  BY UploadType, LenProperties, BodyProperties
<1>2. k \in 1 .. n + 1 /\ k + 1 \in 1 .. n + 1 /\ k + 1 - 1 = k /\ k + 1 # 1
  BY <1>1
<1>3. Start(u, k) \in Nat /\ Start(u, k + 1) \in Nat /\ E = Start(u, k + 1) - 2
  <2> HIDE DEF n
  <2>1. Start(u, k) \in Nat /\ Start(u, k + 1) \in Nat
    BY <1>1, <1>2, StartProperties DEF n
  <2> QED BY <2>1 DEF ContentEnd
<1>4. Start(u, k) + 9 <= p + 1 /\ p + 1 <= E
  BY DEF ContentAt
<1> DEFINE a == Start(u, k)
           b == Start(u, k + 1)
<1>5. a <= p /\ p + 1 <= b
  BY <1>3, <1>4
<1>6. p + m <= Len(W) /\ \A i \in 1 .. m : s[i] = W[p + i]
  BY DEF Matches
<1>7. W[b - 2] = "\r" /\ W[b - 1] = "\n" /\ W[b] = "-" /\ W[b + 1] = "B"
  <2> DEFINE c == Len(u[k].content)
  <2>1. W[a + 9 + c] = "\r" /\ W[a + 10 + c] = "\n"
    BY <1>1, PartSymbols
  <2>2. b = a + c + 11 /\ c \in Nat /\ a \in Nat
    BY <1>1, <1>3, StartProperties
  <2>3. W[b] = "-" /\ W[b + 1] = "B"
    BY <1>1, <1>2, BoundaryAtStart
  <2> HIDE DEF a, b, c, W
  <2>4. b - 2 = a + 9 + c /\ b - 1 = a + 10 + c
    BY <2>2
  <2> QED BY <2>1, <2>3, <2>4
<1>8. \/ Find(Boundary, s) = 0 /\ p + Len(s) <= b
      \/ Find(Boundary, s) \in 1 .. Len(s) - 1 /\ p + Find(Boundary, s) = b
  <2>1. PICK j \in 1 .. n + 1 : j = k + 1 /\ j - 1 = k
    BY <1>2
  <2>2. p + 1 <= Start(u, j) /\ Start(u, j - 1) <= p
    BY <1>5, <2>1
  <2>3. \/ Find(Boundary, s) = 0 /\ p + Len(s) <= Start(u, j)
        \/ Find(Boundary, s) \in 1 .. Len(s) - 1 /\ p + Find(Boundary, s) = Start(u, j)
    BY <2>1, <2>2, NextBoundary
  <2> QED BY <2>1, <2>3
<1>9. /\ Find(Boundary, s) = 0 => \A i \in Nat : ~ BoundaryAt(s, i)
      /\ Find(Boundary, s) # 0 => \A i \in Nat : i < Find(Boundary, s) => ~ BoundaryAt(s, i)
  BY FindBoundary
<1>10. \/ e = 0 /\ \A i \in Nat : ~ FileEndAt(s, i)
       \/ /\ e \in Nat \ {0} /\ FileEndAt(s, e)
          /\ \A i \in Nat : i < e => ~ FileEndAt(s, i)
  BY FindFileEnd
<1> DEFINE q == Find(Boundary, s)
<1> HIDE DEF a, b, e, m, n, W, q, E
<1>11. a \in Nat /\ b \in Nat /\ E = b - 2 /\ p + 1 <= E
  BY <1>3, <1>4 DEF a, b
<1>12. ASSUME NEW i, FileEndAt(s, i) PROVE b <= p + i + 2
  <2>1. i \in 1 .. m - 3 /\ s[i + 2] = "-" /\ s[i + 3] = "B"
    BY <1>12 DEF FileEndAt, m
  <2>2. i + 2 \in 1 .. m - 1 /\ i + 2 + 1 = i + 3 /\ i + 2 \in Nat
    BY <1>1, <2>1
  <2>3. BoundaryAt(s, i + 2)
    BY <2>1, <2>2 DEF BoundaryAt, m
  <2>4. q # 0 /\ ~ (i + 2 < q)
    BY <1>9, <2>2, <2>3 DEF q
  <2>5. q \in 1 .. m - 1 /\ p + q = b
    BY <1>8, <2>4 DEF q, m
  <2> QED BY <1>11, <2>1, <2>4, <2>5
<1>13. ASSUME E + 3 <= p + m PROVE FileEndAt(s, E - p)
  <2>1. PICK i \in 1 .. m - 3 : p + i = E
    <3>1. E - p \in 1 .. m - 3 /\ p + (E - p) = E
      BY <1>1, <1>11, <1>13
    <3> QED BY <3>1
  <2>2. i \in 1 .. m /\ i + 1 \in 1 .. m /\ i + 2 \in 1 .. m /\ i + 3 \in 1 .. m
    BY <1>1, <2>1
  <2>3. p + i = b - 2 /\ p + (i + 1) = b - 1 /\ p + (i + 2) = b /\ p + (i + 3) = b + 1
    BY <1>11, <2>1
  <2>4. s[i] = "\r" /\ s[i + 1] = "\n" /\ s[i + 2] = "-" /\ s[i + 3] = "B"
    BY <1>6, <1>7, <2>2, <2>3
  <2>5. i = E - p
    BY <1>11, <2>1
  <2>6. FileEndAt(s, i)
    BY <2>4 DEF FileEndAt, m
  <2> QED BY <2>5, <2>6
<1>14. E - p \in Nat /\ E \in Nat
  BY <1>11
<1>15. CASE e = 0
  <2>1. ~ (E + 3 <= p + m)
    BY <1>10, <1>13, <1>14, <1>15
  <2> QED BY <1>1, <1>14, <1>15, <2>1 DEF e, m, E
<1>16. CASE e # 0
  <2>1. e \in Nat /\ FileEndAt(s, e) /\ \A i \in Nat : i < e => ~ FileEndAt(s, i)
    BY <1>10, <1>16
  <2>2. e \in 1 .. m - 3
    BY <2>1 DEF FileEndAt, m
  <2>3. b <= p + e + 2
    BY <1>12, <2>1
  <2>4. E + 3 <= p + m
    <3>1. q # 0
      <4>1. s[e + 2] = "-" /\ s[e + 3] = "B" /\ e + 2 \in 1 .. m - 1 /\ e + 2 + 1 = e + 3 /\ e + 2 \in Nat
        BY <1>1, <2>1, <2>2 DEF FileEndAt
      <4>2. BoundaryAt(s, e + 2)
        BY <4>1 DEF BoundaryAt, m
      <4> QED BY <1>9, <4>1, <4>2 DEF q
    <3>2. q \in 1 .. m - 1 /\ p + q = b
      BY <1>8, <3>1 DEF q, m
    <3> QED BY <1>1, <1>11, <3>2
  <2>5. ~ (E - p < e)
    BY <1>13, <1>14, <2>1, <2>4
  <2>6. p + e = E
    BY <1>11, <2>1, <2>3, <2>5
  <2> QED BY <2>2, <2>6 DEF e, m, E
<1> QED BY <1>15, <1>16

\* A head ends with the sixth symbol of its part, and its fifth names the file.
LEMMA HeadOfPart ==
  ASSUME NEW u \in Upload, NEW s \in Seq(Symbol), NEW k \in 1 .. Len(u) + 1,
         NEW p \in Nat, p = Start(u, k) - 1, Matches(u, s, p)
  PROVE  \/ Find(SEP \o SEP, s) = 0 /\ Len(s) < 9
         \/ /\ Find(SEP \o SEP, s) = 6 /\ Len(s) >= 9 /\ k \in 1 .. Len(u)
            /\ NamesIn(SubSeq(s, 1, 6)) = IF u[k].name = NoFile THEN {} ELSE {5}
            /\ u[k].name # NoFile => s[5] = u[k].name
<1> DEFINE h == Find(SEP \o SEP, s)
           n == Len(u)
           W == Body(u)
           m == Len(s)
           S == Start(u, k)
<1>1. u \in Seq(PartType) /\ n \in Nat /\ m \in Nat /\ Len(W) \in Nat
  BY UploadType, LenProperties, BodyProperties
<1>2. S \in Nat \ {0}
  BY <1>1, StartProperties
<1>3. p + m <= Len(W) /\ \A i \in 1 .. m : s[i] = W[p + i]
  BY DEF Matches
<1>4. \A i \in 1 .. m : p + i = S + (i - 1)
  BY <1>1, <1>2
<1>5. \/ h = 0 /\ \A i \in Nat : ~ HeadEndAt(s, i)
      \/ /\ h \in Nat \ {0} /\ HeadEndAt(s, h)
         /\ \A i \in Nat : i < h => ~ HeadEndAt(s, i)
  BY FindHeadEnd
<1>6. CASE k = n + 1
  <2>1. Len(W) = S + 5 /\ W[S] = "-" /\ W[S + 1] = "B" /\ W[S + 2] = "-"
    BY <1>1, <1>6, ClosingSymbols
  <2> HIDE DEF S, h, m, W
  <2>2. m <= 6
    BY <1>1, <1>2, <1>3, <2>1 DEF S
  <2>3. ASSUME h # 0 PROVE FALSE
    <3>1. h \in 1 .. m - 3 /\ s[h] = "\r"
      BY <1>5, <2>3 DEF HeadEndAt, m
    <3>2. h \in 1 .. m /\ h \in 1 .. 3
      BY <1>1, <2>2, <3>1
    <3>3. W[S + (h - 1)] = "\r"
      BY <1>3, <1>4, <3>1, <3>2
    <3>4. S + (1 - 1) = S /\ S + (2 - 1) = S + 1 /\ S + (3 - 1) = S + 2
      BY <1>2
    <3>5. h = 1 \/ h = 2 \/ h = 3
      BY <3>2
    <3> QED BY <2>1, <3>3, <3>4, <3>5
  <2> QED BY <1>1, <2>2, <2>3 DEF h, m
<1>7. CASE k \in 1 .. n
  <2> DEFINE H == HeadSymbol(u[k])
  <2>1. /\ W[S] = "-" /\ W[S + 1] = "B" /\ W[S + 2] = "\r" /\ W[S + 3] = "\n"
        /\ W[S + 4] = H
        /\ W[S + 5] = "\r" /\ W[S + 6] = "\n" /\ W[S + 7] = "\r" /\ W[S + 8] = "\n"
    BY <1>1, <1>7, PartSymbols
  <2>2. u[k] \in PartType
    BY <1>1, <1>7, ElementOfSeq
  <2>3. H = IF u[k].name = NoFile THEN "a" ELSE u[k].name
    BY DEF HeadSymbol
  <2>4. H # "\r"
    BY <2>2, UploadBodies DEF HeadSymbol, PartType
  <2> HIDE DEF S, h, m, W, H
  <2>5. S + (1 - 1) = S /\ S + (2 - 1) = S + 1 /\ S + (3 - 1) = S + 2 /\ S + (4 - 1) = S + 3
        /\ S + (5 - 1) = S + 4 /\ S + (6 - 1) = S + 5 /\ S + (7 - 1) = S + 6
        /\ S + (8 - 1) = S + 7 /\ S + (9 - 1) = S + 8
    BY <1>2
  <2>6. \A i \in 1 .. m : s[i] = W[S + (i - 1)]
    BY <1>3, <1>4
  <2>7. ASSUME m >= 9 PROVE HeadEndAt(s, 6)
    <3>1. \A i \in 1 .. 9 : i \in 1 .. m
      BY <1>1, <2>7
    <3>2. s[6] = "\r" /\ s[7] = "\n" /\ s[8] = "\r" /\ s[9] = "\n"
      BY <2>1, <2>5, <2>6, <3>1
    <3>3. 6 \in 1 .. m - 3
      BY <1>1, <2>7
    <3> QED BY <3>2, <3>3 DEF HeadEndAt, m
  <2>8. CASE h = 0
    <3>1. ~ (m >= 9)
      BY <1>5, <2>7, <2>8
    <3> QED BY <1>1, <2>8, <3>1 DEF h, m
  <2>9. CASE h # 0
    <3>1. /\ h \in 1 .. m - 3 /\ s[h] = "\r" /\ s[h + 1] = "\n"
          /\ s[h + 2] = "\r" /\ s[h + 3] = "\n"
      BY <1>5, <2>9 DEF HeadEndAt, m
    <3>2. h >= 6
      <4>1. SUFFICES ASSUME h < 6 PROVE FALSE
        BY <1>1, <3>1
      <4>2. h = 1 \/ h = 2 \/ h = 3 \/ h = 4 \/ h = 5
        BY <1>1, <3>1, <4>1
      <4>3. h \in 1 .. m /\ h + 2 \in 1 .. m
        BY <1>1, <3>1
      <4>4. W[S + (h - 1)] = "\r" /\ W[S + (h + 2 - 1)] = "\r"
        BY <2>6, <3>1, <4>3
      <4>5. CASE h = 3
        <5>1. h + 2 - 1 = 4
          BY <4>5
        <5>2. W[S + 4] = "\r"
          BY <4>4, <5>1
        <5> QED BY <2>1, <2>4, <5>2
      <4>6. CASE h # 3
        BY <2>1, <2>4, <2>5, <4>2, <4>4, <4>6
      <4> QED BY <4>5, <4>6
    <3>3. m >= 9
      BY <1>1, <3>1, <3>2
    <3>4. h = 6
      <4>1. h \in Nat /\ ~ (6 < h)
        BY <1>5, <2>7, <2>9, <3>3
      <4> QED BY <3>2, <4>1
    <3>5. s[1] = "-" /\ s[2] = "B" /\ s[3] = "\r" /\ s[4] = "\n" /\ s[5] = H /\ s[6] = "\r"
      <4>1. {1, 2, 3, 4, 5, 6} \subseteq 1 .. m
        BY <1>1, <3>3
      <4>2. /\ s[1] = W[S + (1 - 1)] /\ s[2] = W[S + (2 - 1)] /\ s[3] = W[S + (3 - 1)]
            /\ s[4] = W[S + (4 - 1)] /\ s[5] = W[S + (5 - 1)] /\ s[6] = W[S + (6 - 1)]
        BY <2>6, <4>1
      <4> QED BY <2>1, <2>5, <4>2
    <3> DEFINE x == SubSeq(s, 1, 6)
               T == Symbol
    <3>6. Len(x) = 6 /\ (\A i \in 1 .. 6 : x[i] = s[i]) /\ DOMAIN x = 1 .. 6
      <4> HIDE DEF T
      <4>1. 6 \in 0 .. Len(s) /\ s \in Seq(T) /\ 1 \in 1 .. Len(s) + 1 /\ 6 \in 1 - 1 .. Len(s)
        BY <1>1, <3>3 DEF m, T
      <4>2. \A i \in 1 .. 6 : s[i] \in T
        BY <4>1, ElementOfSeq
      <4>3. /\ x \in Seq(T)
            /\ Len(x) = IF 1 <= 6 THEN 6 - 1 + 1 ELSE 0
            /\ \A i \in 1 .. 6 - 1 + 1 : x[i] = s[1 + i - 1]
        BY <4>2, SubSeqProperties
      <4>4. Len(x) = 6
        BY <4>3
      <4>5. \A i \in 1 .. 6 : x[i] = s[i]
        BY <4>3
      <4> HIDE DEF x
      <4>6. DOMAIN x = 1 .. 6
        BY <4>3, <4>4, LenProperties
      <4> QED BY <4>4, <4>5, <4>6
    <3> HIDE DEF x
    <3>7. NamesIn(x) = {i \in 1 .. 6 : s[i] \in File}
      BY <3>6 DEF NamesIn
    <3>8. "-" \notin File /\ "B" \notin File /\ "\r" \notin File /\ "\n" \notin File
          /\ "a" \notin File /\ NoFile \notin File
      BY UploadBodies
    <3>9. NamesIn(x) = {i \in {5} : s[i] \in File}
      <4>1. \A i \in 1 .. 6 : i = 1 \/ i = 2 \/ i = 3 \/ i = 4 \/ i = 5 \/ i = 6
        OBVIOUS
      <4> QED BY <3>5, <3>7, <3>8, <4>1
    <3>10. H \in File <=> u[k].name # NoFile
      <4>1. u[k].name \in File \cup {NoFile}
        BY <2>2 DEF PartType
      <4> QED BY <2>3, <3>8, <4>1
    <3>11. NamesIn(x) = IF u[k].name = NoFile THEN {} ELSE {5}
      BY <3>5, <3>9, <3>10
    <3> QED BY <1>7, <2>3, <3>3, <3>4, <3>5, <3>11 DEF h, m, n, x
  <2> QED BY <2>8, <2>9
<1> QED BY <1>1, <1>6, <1>7

-----------------------------------------------------------------------------
(* Parts of sequences                                                      *)

\* What is behind the first m symbols, and those symbols
LEMMA DropProperties ==
  ASSUME NEW s \in Seq(Symbol), NEW m \in 0 .. Len(s)
  PROVE  /\ Drop(m, s) \in Seq(Symbol) /\ Len(Drop(m, s)) = Len(s) - m
         /\ \A i \in 1 .. Len(s) - m : Drop(m, s)[i] = s[m + i]
<1> DEFINE T == Symbol
           n == Len(s)
           x == SubSeq(s, m + 1, n)
<1>1. n \in Nat /\ s \in Seq(T)
  BY LenProperties
<1> HIDE DEF T, n
<1>2. m + 1 \in Int /\ n \in Int /\ \A i \in m + 1 .. n : s[i] \in T
  <2>1. \A i \in m + 1 .. n : i \in 1 .. Len(s)
    BY <1>1 DEF n
  <2> QED BY <1>1, <2>1, ElementOfSeq
<1>3. PICK a \in Int : a = m + 1
  BY <1>2
<1>4. /\ SubSeq(s, a, n) \in Seq(T)
      /\ Len(SubSeq(s, a, n)) = IF a <= n THEN n - a + 1 ELSE 0
      /\ \A i \in 1 .. n - a + 1 : SubSeq(s, a, n)[i] = s[a + i - 1]
  BY <1>2, <1>3, SubSeqProperties
<1>5. m \in Nat /\ m <= n
  BY <1>1 DEF n
<1>6. x = SubSeq(s, a, n) /\ n - a + 1 = n - m
  BY <1>1, <1>3, <1>5
<1> HIDE DEF x
<1>7. x \in Seq(T) /\ Len(x) = n - m
  BY <1>1, <1>3, <1>4, <1>5, <1>6
<1>8. \A i \in 1 .. n - m : x[i] = s[m + i]
  <2>1. \A i \in 1 .. n - m : i \in 1 .. n - a + 1 /\ a + i - 1 = m + i
    BY <1>1, <1>3, <1>5
  <2> QED BY <1>4, <1>6, <2>1
<1>9. Drop(m, s) = x
  BY DEF Drop, x, n
<1> QED BY <1>7, <1>8, <1>9 DEF n, T

\* What SubSeq(s, 1, m) is made of
LEMMA TakeProperties ==
  ASSUME NEW T, NEW s \in Seq(T), NEW m \in 0 .. Len(s)
  PROVE  /\ SubSeq(s, 1, m) \in Seq(T) /\ Len(SubSeq(s, 1, m)) = m
         /\ \A i \in 1 .. m : SubSeq(s, 1, m)[i] = s[i]
<1>1. Len(s) \in Nat /\ m \in Int /\ 1 \in Int
  BY LenProperties
<1>2. \A i \in 1 .. m : s[i] \in T
  <2>1. \A i \in 1 .. m : i \in 1 .. Len(s)
    BY <1>1
  <2> QED BY <2>1, ElementOfSeq
<1>3. /\ SubSeq(s, 1, m) \in Seq(T)
      /\ Len(SubSeq(s, 1, m)) = IF 1 <= m THEN m - 1 + 1 ELSE 0
      /\ \A i \in 1 .. m - 1 + 1 : SubSeq(s, 1, m)[i] = s[1 + i - 1]
  BY <1>1, <1>2, SubSeqProperties
<1>4. Len(SubSeq(s, 1, m)) = m
  BY <1>1, <1>3
<1>5. \A i \in 1 .. m : i \in 1 .. m - 1 + 1 /\ 1 + i - 1 = i
  BY <1>1
<1> QED BY <1>3, <1>4, <1>5

\* The first m symbols, and behind them the next l
LEMMA TakeMore ==
  ASSUME NEW T, NEW s \in Seq(T), NEW m \in Nat, NEW x \in Seq(T), m + Len(x) <= Len(s),
         \A i \in 1 .. Len(x) : x[i] = s[m + i]
  PROVE  SubSeq(s, 1, m) \o x = SubSeq(s, 1, m + Len(x))
<1> DEFINE l == Len(x)
           n == Len(s)
           a == SubSeq(s, 1, m)
           b == SubSeq(s, 1, m + l)
<1>1. l \in Nat /\ n \in Nat
  BY LenProperties
<1>2. m \in 0 .. n /\ m + l \in 0 .. n
  BY <1>1
<1>3. a \in Seq(T) /\ Len(a) = m /\ \A i \in 1 .. m : a[i] = s[i]
  BY <1>2, TakeProperties
<1>4. b \in Seq(T) /\ Len(b) = m + l /\ \A i \in 1 .. m + l : b[i] = s[i]
  <2>1. PICK k \in 0 .. n : k = m + l
    BY <1>2
  <2>2. SubSeq(s, 1, k) \in Seq(T) /\ Len(SubSeq(s, 1, k)) = k /\ \A i \in 1 .. k : SubSeq(s, 1, k)[i] = s[i]
    BY <2>1, TakeProperties
  <2> QED BY <2>1, <2>2
<1> HIDE DEF a, b, n
<1>5. /\ a \o x \in Seq(T) /\ Len(a \o x) = Len(a) + Len(x)
      /\ \A i \in 1 .. Len(a) + Len(x) : (a \o x)[i] = IF i <= Len(a) THEN a[i] ELSE x[i - Len(a)]
  BY <1>3, ConcatProperties
<1> DEFINE y == a \o x
<1>6. y \in Seq(T) /\ Len(y) = m + l
  BY <1>3, <1>5
<1>7. \A i \in 1 .. m + l : y[i] = IF i <= m THEN a[i] ELSE x[i - m]
  BY <1>3, <1>5
<1> HIDE DEF y
<1>8. ASSUME NEW i \in 1 .. m + l PROVE y[i] = b[i]
  <2>1. CASE i <= m
    <3>1. i \in 1 .. m
      BY <1>1, <2>1
    <3> QED BY <1>3, <1>4, <1>7, <2>1, <3>1
  <2>2. CASE ~ (i <= m)
    <3>1. i - m \in 1 .. l /\ m + (i - m) = i
      BY <1>1, <2>2
    <3>2. x[i - m] = s[i]
      BY <3>1
    <3> QED BY <1>4, <1>7, <2>2, <3>2
  <2> QED BY <2>1, <2>2
<1>9. Len(y) = Len(b) /\ \A i \in 1 .. Len(y) : y[i] = b[i]
  BY <1>4, <1>6, <1>8
<1>10. y = b
  BY <1>4, <1>6, <1>9, SeqEqual
<1> QED BY <1>10 DEF y, a, b

\* The parts that are taken are those in front of the first without a name.
NamedPartType == [name : File, content : Seq(Symbol)]

\* NamedParts are the first parts of the body, all with names, and the next part,
\* if there is one, has none.
LEMMA NamedPartsProperties ==
  ASSUME upload \in Upload
  PROVE  /\ NamedParts \in Seq(NamedPartType)
         /\ Len(NamedParts) \in 0 .. Len(upload)
         /\ \A i \in 1 .. Len(NamedParts) : NamedParts[i] = upload[i] /\ upload[i].name \in File
         /\ Len(NamedParts) < Len(upload) => upload[Len(NamedParts) + 1].name = NoFile
         /\ Len(NamedParts) = Len(upload) => upload = NamedParts
<1> DEFINE n == Len(upload)
           U == {i \in DOMAIN upload : upload[i].name = NoFile}
<1>1. upload \in Seq(PartType) /\ n \in Nat /\ DOMAIN upload = 1 .. n
  BY UploadType, LenProperties
<1>2. \A i \in 1 .. n : upload[i] \in PartType
  BY <1>1, ElementOfSeq
<1>3. NamedParts = IF U = {} THEN upload ELSE SubSeq(upload, 1, Min(U) - 1)
  BY DEF NamedParts
<1>4. \A i \in 1 .. n : i \notin U => upload[i] \in NamedPartType
  BY <1>1, <1>2 DEF PartType, NamedPartType
<1>5. U \subseteq 1 .. n
  BY <1>1
<1>6. \A i \in U : upload[i].name = NoFile
  OBVIOUS
<1> DEFINE T == NamedPartType
<1>7. \A x \in T : x.name \in File
  BY DEF NamedPartType
<1> HIDE DEF U, n, T
<1>8. CASE U = {}
  <2>1. NamedParts = upload
    BY <1>3, <1>8
  <2>2. \A i \in 1 .. n : upload[i] \in T
    BY <1>4, <1>8 DEF T
  <2>3. upload \in Seq(T)
    <3>1. upload = [i \in 1 .. n |-> upload[i]]
      <4>1. upload = [i \in DOMAIN upload |-> upload[i]]
        BY <1>1
      <4> QED BY <1>1, <4>1
    <3>2. upload \in [1 .. n -> T]
      BY <2>2, <3>1
    <3> QED BY <1>1, <3>2, SeqDef
  <2> QED BY <1>1, <1>7, <2>1, <2>2, <2>3 DEF n, T
<1>9. CASE U # {}
  <2> DEFINE l == Min(U)
  <2>1. l \in U /\ \A i \in U : l <= i
    <3>1. U \subseteq Nat
      BY <1>1, <1>5
    <3>2. \E i \in U : \A j \in U : i <= j
      BY <1>9, <3>1, NatMin
    <3> QED BY <3>2 DEF Min
  <2> HIDE DEF l
  <2>2. l \in 1 .. n
    BY <1>5, <2>1
  <2>3. PICK m \in 0 .. n : m = l - 1 /\ l = m + 1
    <3>1. l - 1 \in 0 .. n /\ l = l - 1 + 1
      BY <1>1, <2>2
    <3> QED BY <3>1
  <2>4. NamedParts = SubSeq(upload, 1, m)
    BY <1>3, <1>9, <2>3 DEF l
  <2>5. /\ SubSeq(upload, 1, m) \in Seq(PartType) /\ Len(SubSeq(upload, 1, m)) = m
        /\ \A i \in 1 .. m : SubSeq(upload, 1, m)[i] = upload[i]
    BY <1>1, <2>3, TakeProperties DEF n
  <2>6. \A i \in 1 .. m : upload[i] \in T
    <3>1. \A i \in 1 .. m : i \in 1 .. n /\ ~ (l <= i)
      BY <1>1, <2>3
    <3> QED BY <1>4, <2>1, <3>1 DEF T
  <2> DEFINE y == SubSeq(upload, 1, m)
  <2>7. DOMAIN y = 1 .. m /\ y = [i \in DOMAIN y |-> y[i]]
    BY <2>5, LenProperties
  <2>8. \A i \in 1 .. m : y[i] \in T
    BY <2>5, <2>6
  <2>9. y \in Seq(T)
    <3> HIDE DEF y
    <3>1. y = [i \in 1 .. m |-> y[i]]
      BY <2>7
    <3>2. y \in [1 .. m -> T]
      BY <2>8, <3>1
    <3>3. m \in Nat
      BY <1>1
    <3> QED BY <3>2, <3>3, SeqDef
  <2>10. upload[m + 1].name = NoFile
    BY <1>6, <2>1, <2>3
  <2>11. m < n
    BY <1>1, <2>2, <2>3
  <2>12. Len(NamedParts) = m /\ NamedParts = y
    BY <2>4, <2>5
  <2> HIDE DEF y
  <2>13. \A i \in 1 .. m : NamedParts[i] = upload[i] /\ upload[i].name \in File
    BY <1>7, <2>5, <2>6, <2>12 DEF y
  <2>14. m # n
    BY <1>1, <2>11
  <2> QED BY <2>9, <2>10, <2>11, <2>12, <2>13, <2>14 DEF n, T
<1> QED BY <1>8, <1>9

\* What is left of a sequence has its type.
LEMMA DropType ==
  ASSUME NEW s \in Seq(Symbol), NEW m \in Nat
  PROVE  /\ Drop(m, s) \in Seq(Symbol)
         /\ Len(Drop(m, s)) = IF m <= Len(s) THEN Len(s) - m ELSE 0
<1>1. CASE m <= Len(s)
  <2>1. m \in 0 .. Len(s)
    BY <1>1, LenProperties
  <2> QED BY <1>1, <2>1, DropProperties
<1>2. CASE ~ (m <= Len(s))
  <2>1. Len(s) \in Nat
    BY LenProperties
  <2>2. Drop(m, s) = << >>
    <3>1. m + 1 \in Int /\ Len(s) \in Int /\ Len(s) < m + 1
      BY <1>2, <2>1
    <3> QED BY <3>1, SubSeqEmpty DEF Drop
  <2> DEFINE T == Symbol
  <2> HIDE DEF T
  <2>3. << >> \in Seq(T) /\ Len(<< >>) = 0
    BY EmptySeq
  <2>4. Drop(m, s) \in Seq(T) /\ Len(Drop(m, s)) = 0
    BY <2>2, <2>3
  <2> QED BY <1>2, <2>4 DEF T
<1> QED BY <1>1, <1>2

\* How much of the input a piece is
LEMMA PieceLength ==
  ASSUME NEW n \in Nat, NEW l \in Nat
  PROVE  Min({n, l}) = (IF n <= l THEN n ELSE l) /\ Min({n, l}) \in 0 .. l
<1> DEFINE m == IF n <= l THEN n ELSE l
<1>1. m \in {n, l} /\ \A i \in {n, l} : m <= i
  OBVIOUS
<1>2. \A x \in {n, l} : (\A i \in {n, l} : x <= i) => x = m
  OBVIOUS
<1>3. m \in 0 .. l
  OBVIOUS
<1> HIDE DEF m
<1>4. Min({n, l}) = m
  BY <1>1, <1>2 DEF Min
<1> QED BY <1>3, <1>4 DEF m

\* Enough, in numbers
LEMMA EnoughIsFive ==
  ASSUME requestBody \in Seq(Symbol)
  PROVE  /\ Enough <=> Len(requestBody) > 4
         /\ Len(requestBody) \in Nat
         /\ Len(Boundary) = 2 /\ Kept = 4 /\ Len(SEP) = 2 /\ Len(Closing) = 6
<1>1. Len(Boundary) = 2 /\ Len(SEP) = 2 /\ Len(Closing) = 6
  BY BoundaryProperties, SEPProperties, ClosingProperties
<1>2. Len(requestBody) \in Nat
  BY LenProperties
<1> QED BY <1>1, <1>2 DEF Enough, Kept

\* What is left of the body from its first delimiter
LEMMA FromBoundaryProperties ==
  ASSUME requestBody \in Seq(Symbol), Find(Boundary, requestBody) # 0
  PROVE  /\ Find(Boundary, requestBody) - 1 \in 0 .. Len(requestBody)
         /\ FromBoundary \in Seq(Symbol)
         /\ Len(FromBoundary) = Len(requestBody) - (Find(Boundary, requestBody) - 1)
         /\ \A i \in 1 .. Len(FromBoundary) :
              FromBoundary[i] = requestBody[Find(Boundary, requestBody) - 1 + i]
<1> DEFINE q == Find(Boundary, requestBody)
           s == requestBody
<1>1. q \in Nat \ {0} /\ BoundaryAt(s, q)
  BY FindBoundary
<1>2. Len(s) \in Nat
  BY LenProperties
<1>3. q - 1 \in 0 .. Len(s)
  BY <1>1, <1>2 DEF BoundaryAt
<1>4. FromBoundary = Drop(q - 1, s)
  BY DEF FromBoundary
<1> HIDE DEF q, s
<1>5. PICK m \in 0 .. Len(s) : m = q - 1
  BY <1>3
<1>6. /\ Drop(m, s) \in Seq(Symbol) /\ Len(Drop(m, s)) = Len(s) - m
      /\ \A i \in 1 .. Len(s) - m : Drop(m, s)[i] = s[m + i]
  BY DropProperties DEF s
<1> QED BY <1>3, <1>4, <1>5, <1>6 DEF q, s

\* The content that is taken from the body at once
LEMMA FileContentProperties ==
  ASSUME requestBody \in Seq(Symbol), Enough
  PROVE  \E m \in 0 .. Len(requestBody) :
           /\ m = IF EndOfFile = 0 THEN Len(requestBody) - 4 ELSE EndOfFile - 1
           /\ FileContent = SubSeq(requestBody, 1, m)
           /\ FileContent \in Seq(Symbol) /\ Len(FileContent) = m
           /\ \A i \in 1 .. m : FileContent[i] = requestBody[i]
           /\ EndOfFile \in Nat
<1> DEFINE e == EndOfFile
           s == requestBody
<1>1. Len(s) \in Nat /\ Len(s) > 4 /\ Kept = 4
  BY EnoughIsFive
<1>2. e = 0 \/ (e \in Nat \ {0} /\ FileEndAt(s, e))
  BY FindFileEnd DEF EndOfFile
<1>3. e = 0 \/ e \in 1 .. Len(s) - 3
  BY <1>2 DEF FileEndAt
<1>4. FileContent = SubSeq(s, 1, IF e = 0 THEN Len(s) - 4 ELSE e - 1)
  BY <1>1 DEF FileContent
<1> HIDE DEF e, s
<1>5. PICK m \in 0 .. Len(s) : m = IF e = 0 THEN Len(s) - 4 ELSE e - 1
  <2>1. (IF e = 0 THEN Len(s) - 4 ELSE e - 1) \in 0 .. Len(s)
    BY <1>1, <1>3
  <2> QED BY <2>1
<1>6. /\ SubSeq(s, 1, m) \in Seq(Symbol) /\ Len(SubSeq(s, 1, m)) = m
      /\ \A i \in 1 .. m : SubSeq(s, 1, m)[i] = s[i]
  <2> DEFINE T == Symbol
  <2>1. s \in Seq(T)
    BY DEF s
  <2> HIDE DEF T
  <2>2. /\ SubSeq(s, 1, m) \in Seq(T) /\ Len(SubSeq(s, 1, m)) = m
        /\ \A i \in 1 .. m : SubSeq(s, 1, m)[i] = s[i]
    BY <2>1, TakeProperties
  <2> QED BY <2>2 DEF T
<1>7. e \in Nat
  BY <1>1, <1>3
<1>8. FileContent = SubSeq(s, 1, m)
  BY <1>4, <1>5
<1> QED BY <1>5, <1>6, <1>7, <1>8 DEF e, s

-----------------------------------------------------------------------------
(* Types                                                                   *)

\* Initially every variable has its type.
LEMMA InitTypes == Init => TypeOK
<1> SUFFICES ASSUME Init PROVE TypeOK
  OBVIOUS
<1>1. upload \in Upload /\ upload \in Seq(PartType)
  BY UploadType DEF Init
<1>2. Body(upload) \in Seq(Symbol) /\ Len(Body(upload)) \in Nat
  BY <1>1, BodyProperties, LenProperties
<1>3. input \in Seq(Symbol)
  <2> DEFINE W == Body(upload)
             T == Symbol
  <2>1. PICK n \in Missing : input = SubSeq(W, 1, Len(W) - n)
    BY DEF Init
  <2>2. n \in Nat
    BY UploadBodies
  <2>3. W \in Seq(T) /\ Len(W) \in Nat
    BY <1>2
  <2> HIDE DEF W, T
  <2>l. PICK l \in Nat : l = Len(W)
    BY <2>3
  <2>4. PICK m \in Int : m = l - n
    BY <2>2
  <2>5. \A i \in 1 .. m : W[i] \in T
    <3>1. \A i \in 1 .. m : i \in 1 .. l
      BY <2>2, <2>4
    <3> QED BY <2>3, <2>l, <3>1, ElementOfSeq
  <2>6. SubSeq(W, 1, m) \in Seq(T)
    <3>1. 1 \in Int
      OBVIOUS
    <3> QED BY <2>5, <3>1, SubSeqProperties
  <2> QED BY <2>1, <2>l, <2>4, <2>6 DEF T
<1>4. requestBody \in Seq(Symbol) /\ success \in Seq(File) /\ fail \in Seq(File)
  BY EmptySeq DEF Init
<1>5. given \in [File -> Seq(Symbol)] /\ data \in [File -> Seq(Symbol)]
  <2>1. << >> \in Seq(Symbol)
    BY EmptySeq
  <2> QED BY <2>1 DEF Init
<1> QED BY <1>1, <1>3, <1>4, <1>5 DEF Init, TypeOK

\* Every step keeps the types, and the loop of process_upload_body is only left
\* within a file when there is no more than a delimiter and a line break.
LEMMA NextTypes == TypeOK /\ [Next]_vars => TypeOK'
<1> SUFFICES ASSUME TypeOK, [Next]_vars PROVE TypeOK'
  OBVIOUS
<1>s. Len(Boundary) + Len(SEP) = 4
  BY BoundaryProperties, SEPProperties
<1>0. /\ upload \in Upload /\ input \in Seq(Symbol) /\ requestBody \in Seq(Symbol)
      /\ curFile \in File \cup {NoFile} /\ success \in Seq(File) /\ fail \in Seq(File)
      /\ status \in {"", "200", "207", "400"}
      /\ given \in [File -> Seq(Symbol)] /\ data \in [File -> Seq(Symbol)]
      /\ pc \in {"read", "loop", "answered"}
      /\ pc = "read" /\ curFile # NoFile => Len(requestBody) <= 4
  BY <1>s DEF TypeOK
<1> DEFINE T == Symbol
<1>e. << >> \in Seq(T)
  BY EmptySeq
<1>1. CASE Return
  <2>1. Len(requestBody) <= 4
    <3>1. ~ (Len(requestBody) > 4) /\ Len(requestBody) \in Nat
      BY <1>0, <1>1, EnoughIsFive DEF Return
    <3> QED BY <3>1
  <2> QED BY <1>0, <1>1, <1>s, <2>1 DEF Return, TypeOK, files
<1>2. CASE Skip
  <2>1. Len(requestBody) > 4 /\ Len(requestBody) \in Nat /\ Len(Boundary) = 2
    BY <1>0, <1>2, EnoughIsFive DEF Skip, InLoop
  <2>2. requestBody' \in Seq(Symbol)
    <3>1. PICK m \in Nat : m = Len(requestBody) - Len(Boundary)
      BY <2>1
    <3>2. Drop(m, requestBody) \in Seq(Symbol)
      BY <1>0, DropType
    <3> QED BY <1>2, <3>1, <3>2 DEF Skip
  <2> QED BY <1>0, <1>2, <2>2 DEF Skip, InLoop, TypeOK, files, parser
<1>3. CASE WaitForHead
  <2>1. requestBody' \in Seq(Symbol)
    BY <1>0, <1>3, FromBoundaryProperties DEF WaitForHead
  <2> QED BY <1>0, <1>3, <2>1 DEF WaitForHead, TypeOK, files
<1>4. CASE BadHead
  <2>1. requestBody' \in Seq(Symbol)
    BY <1>0, <1>4, FromBoundaryProperties DEF BadHead
  <2> QED BY <1>0, <1>4, <2>1 DEF BadHead, TypeOK, files
<1>5. ASSUME NEW f \in File, Named(f)
      PROVE  requestBody' \in Seq(Symbol) /\ pc = "loop" /\ curFile = NoFile
  <2>1. FromBoundary \in Seq(Symbol)
    BY <1>0, <1>5, FromBoundaryProperties DEF Named
  <2>2. HeadEnd \in Nat \ {0}
    BY <1>5, <2>1, FindHeadEnd DEF Named, HeadEnd
  <2>3. PICK m \in Nat : m = HeadEnd + 2 * Len(SEP) - 1
    BY <2>2, SEPProperties
  <2>4. Drop(m, FromBoundary) \in Seq(Symbol)
    BY <2>1, DropType
  <2> QED BY <1>5, <2>3, <2>4 DEF Named, InLoop
<1>6. ASSUME NEW f \in File, BeginPart(f) PROVE TypeOK'
  <2>1. requestBody' \in Seq(Symbol) /\ pc = "loop"
    BY <1>5, <1>6 DEF BeginPart
  <2>2. given' \in [File -> Seq(Symbol)] /\ data' \in [File -> Seq(Symbol)]
    BY <1>0, <1>6, <1>e DEF BeginPart
  <2> QED BY <1>0, <1>6, <2>1, <2>2 DEF BeginPart, Named, TypeOK, parser
<1>7. ASSUME NEW f \in File, RefusePart(f) PROVE TypeOK'
  <2>1. requestBody' \in Seq(Symbol) /\ pc = "loop"
    BY <1>5, <1>7 DEF RefusePart
  <2>2. fail' \in Seq(File)
    BY <1>0, <1>7, AppendProperties DEF RefusePart
  <2> QED BY <1>0, <1>7, <2>1, <2>2 DEF RefusePart, Named, TypeOK, parser
<1>8. ASSUME InLoop, curFile # NoFile, requestBody' = Drop(Len(FileContent), requestBody)
      PROVE  requestBody' \in Seq(Symbol) /\ FileContent \in Seq(Symbol)
  <2>1. FileContent \in Seq(Symbol) /\ Len(FileContent) \in Nat
    BY <1>0, <1>8, FileContentProperties, LenProperties DEF InLoop
  <2> QED BY <1>0, <1>8, <2>1, DropType
<1>9. CASE AppendPiece
  <2>1. requestBody' \in Seq(Symbol) /\ FileContent \in Seq(Symbol)
    BY <1>8, <1>9 DEF AppendPiece
  <2>2. given[curFile] \o FileContent \in Seq(T)
    <3>1. given[curFile] \in Seq(T)
      BY <1>0, <1>9 DEF AppendPiece
    <3>2. FileContent \in Seq(T)
      BY <2>1
    <3> HIDE DEF T
    <3> QED BY <3>1, <3>2, ConcatProperties
  <2>3. given' \in [File -> Seq(Symbol)]
    BY <1>0, <1>9, <2>2 DEF AppendPiece
  <2>4. success' \in Seq(File)
    BY <1>0, <1>9, AppendProperties DEF AppendPiece
  <2>5. data' \in [File -> Seq(Symbol)]
    <3>1. PICK n \in 0 .. Len(FileContent) :
            data' = [data EXCEPT ![curFile] = @ \o SubSeq(FileContent, 1, n)]
      BY <1>9 DEF AppendPiece
    <3>2. SubSeq(FileContent, 1, n) \in Seq(T)
      <4> HIDE DEF FileContent
      <4> QED BY <2>1, TakeProperties
    <3>3. data[curFile] \in Seq(T) /\ curFile \in File
      BY <1>0, <1>9 DEF AppendPiece
    <3>4. data[curFile] \o SubSeq(FileContent, 1, n) \in Seq(T)
      <4> HIDE DEF T
      <4> QED BY <3>2, <3>3, ConcatProperties
    <3> QED BY <1>0, <3>1, <3>3, <3>4
  <2> QED BY <1>0, <1>9, <2>1, <2>3, <2>4, <2>5 DEF AppendPiece, InLoop, TypeOK, parser
<1>10. CASE AppendFails
  <2>1. requestBody' \in Seq(Symbol)
    BY <1>8, <1>10 DEF AppendFails
  <2>2. given' \in [File -> Seq(Symbol)] /\ data' \in [File -> Seq(Symbol)]
    BY <1>0, <1>10, <1>e DEF AppendFails
  <2>3. fail' \in Seq(File) /\ success' \in Seq(File)
    BY <1>0, <1>10, AppendProperties DEF AppendFails, ListAsFailed
  <2> QED BY <1>0, <1>10, <2>1, <2>2, <2>3 DEF AppendFails, InLoop, TypeOK, parser
<1>11. ASSUME NEW n \in Piece, OnBody(n) PROVE TypeOK'
  <2>1. n \in Nat /\ n # 0
    BY UploadBodies
  <2>2. input' \in Seq(Symbol)
    BY <1>0, <1>11, <2>1, DropType DEF OnBody
  <2>3. CASE status # "" /\ UNCHANGED <<requestBody, pc>>
    BY <1>0, <1>11, <1>s, <2>2, <2>3 DEF OnBody, TypeOK, files
  <2>4. CASE /\ requestBody' = requestBody \o SubSeq(input, 1, Min({n, Len(input)}))
             /\ pc' = "loop"
    <3>1. Min({n, Len(input)}) \in 0 .. Len(input)
      <4>1. Len(input) \in Nat
        BY <1>0, LenProperties
      <4> QED BY <2>1, <4>1, PieceLength
    <3>2. SubSeq(input, 1, Min({n, Len(input)})) \in Seq(T)
      BY <1>0, <3>1, TakeProperties
    <3>3. requestBody' \in Seq(T)
      <4> HIDE DEF T
      <4> QED BY <1>0, <2>4, <3>2, ConcatProperties DEF T
    <3> QED BY <1>0, <1>11, <2>2, <2>4, <3>3 DEF OnBody, TypeOK, files
  <2> QED BY <1>11, <2>3, <2>4 DEF OnBody
<1>12. CASE OnMessageComplete
  <2>1. status' \in {"", "200", "207", "400"}
    BY <1>0, <1>12 DEF OnMessageComplete, Verdict
  <2> QED BY <1>0, <1>12, <2>1 DEF OnMessageComplete, TypeOK, files
<1>13. CASE UNCHANGED vars
  BY <1>13 DEF TypeOK, vars, parser, files
<1> QED BY <1>1, <1>2, <1>3, <1>4, <1>6, <1>7, <1>9, <1>10, <1>11, <1>12, <1>13
        DEF Next, Loop, Read

\* In every reachable state every variable has a value of its type, and between two
\* calls of on_body within a file _request_body keeps no more than a delimiter and
\* a line break: process_upload_body does not hoard what it can write.
THEOREM TypeCorrect == Spec => []TypeOK
<1> QED BY InitTypes, NextTypes, PTL DEF Spec

-----------------------------------------------------------------------------
(* Following a body                                                        *)

\* s is what the body u has behind position p, and t what it has behind s; all
\* of the body is sent but for what may be missing of what closes it.
FollowsAt(u, s, t, p) ==
  /\ Matches(u, s, p) /\ Matches(u, t, p + Len(s))
  /\ Missing \subseteq 0 .. Len(Closing) =>
       Len(Body(u)) - Len(Closing) <= p + Len(s) + Len(t)

\* What is dropped from the front moves the position.
LEMMA FollowsDrop ==
  ASSUME NEW u \in Upload, NEW s \in Seq(Symbol), NEW t \in Seq(Symbol), NEW p \in Nat,
         FollowsAt(u, s, t, p), NEW m \in 0 .. Len(s)
  PROVE  p + m \in Nat /\ FollowsAt(u, Drop(m, s), t, p + m)
<1> DEFINE W == Body(u)
           n == Len(s)
           x == Drop(m, s)
           l == Len(t)
<1>1. n \in Nat /\ m \in Nat /\ m <= n /\ l \in Nat
  BY LenProperties
<1>2. Len(W) \in Nat
  BY UploadType, BodyProperties, LenProperties
<1>3. Len(x) = n - m /\ \A i \in 1 .. n - m : x[i] = s[m + i]
  BY DropProperties
<1>4. p + n <= Len(W) /\ \A i \in 1 .. n : s[i] = W[p + i]
  BY DEF FollowsAt, Matches
<1>5. p + n + l <= Len(W) /\ \A i \in 1 .. l : t[i] = W[p + n + i]
  BY DEF FollowsAt, Matches
<1>6. Len(Closing) = 6
  BY ClosingProperties
<1>7. Missing \subseteq 0 .. Len(Closing) => Len(W) - Len(Closing) <= p + n + l
  BY DEF FollowsAt
<1> DEFINE C == Missing \subseteq 0 .. Len(Closing)
           z == Len(Closing)
<1> HIDE DEF W, n, x, l, C, z
<1>8. p + m + Len(x) = p + n /\ p + m \in Nat
  BY <1>1, <1>3
<1>9. ASSUME NEW i \in 1 .. Len(x) PROVE x[i] = W[p + m + i]
  <2>1. i \in 1 .. n - m /\ m + i \in 1 .. n /\ p + (m + i) = p + m + i
    BY <1>1, <1>3
  <2> QED BY <1>3, <1>4, <2>1
<1>10. Matches(u, x, p + m)
  BY <1>4, <1>8, <1>9 DEF Matches, W
<1>11. Matches(u, t, p + m + Len(x))
  BY <1>5, <1>8 DEF Matches, W, l
<1>12. C => Len(W) - z <= p + m + Len(x) + l
  BY <1>7, <1>8 DEF C, z
<1> QED BY <1>8, <1>10, <1>11, <1>12 DEF FollowsAt, x, W, l, C, z

\* on_body moves a piece of the input behind what _request_body holds.
LEMMA FollowsMore ==
  ASSUME NEW u \in Upload, NEW s \in Seq(Symbol), NEW t \in Seq(Symbol), NEW p \in Nat,
         FollowsAt(u, s, t, p), NEW k \in Nat
  PROVE  FollowsAt(u, s \o SubSeq(t, 1, Min({k, Len(t)})), Drop(k, t), p)
<1> DEFINE W == Body(u)
           n == Len(s)
           l == Len(t)
           m == Min({k, Len(t)})
           a == SubSeq(t, 1, m)
           x == s \o a
           y == Drop(k, t)
           T == Symbol
<1>1. n \in Nat /\ l \in Nat
  BY LenProperties
<1>2. Len(W) \in Nat
  BY UploadType, BodyProperties, LenProperties
<1>3. m = (IF k <= l THEN k ELSE l) /\ m \in 0 .. l
  BY <1>1, PieceLength
<1>4. p + n <= Len(W) /\ \A i \in 1 .. n : s[i] = W[p + i]
  BY DEF FollowsAt, Matches
<1>5. p + n + l <= Len(W) /\ \A i \in 1 .. l : t[i] = W[p + n + i]
  BY DEF FollowsAt, Matches
<1>6. Missing \subseteq 0 .. Len(Closing) => Len(W) - Len(Closing) <= p + n + l
  BY DEF FollowsAt
<1>7. a \in Seq(T) /\ Len(a) = m /\ \A i \in 1 .. m : a[i] = t[i]
  <2> t \in Seq(T)
    OBVIOUS
  <2> HIDE DEF T, m
  <2> QED BY <1>3, TakeProperties
<1>8. Len(y) = IF k <= l THEN l - k ELSE 0
  BY DropType
<1>9. k <= l => \A i \in 1 .. l - k : y[i] = t[k + i]
  <2>1. SUFFICES ASSUME k <= l PROVE \A i \in 1 .. l - k : y[i] = t[k + i]
    OBVIOUS
  <2>2. k \in 0 .. Len(t)
    BY <1>1, <2>1
  <2> QED BY <2>2, DropProperties
<1>10. s \in Seq(T)
  OBVIOUS
<1> DEFINE C == Missing \subseteq 0 .. Len(Closing)
           z == Len(Closing)
<1> HIDE DEF W, a, y, T, m, C, z
<1>11. /\ x \in Seq(T) /\ Len(x) = Len(s) + Len(a)
       /\ \A i \in 1 .. Len(s) + Len(a) : x[i] = IF i <= Len(s) THEN s[i] ELSE a[i - Len(s)]
  BY <1>7, <1>10, ConcatProperties
<1> HIDE DEF x, n, l
<1>12. Len(x) = n + m
  BY <1>7, <1>11 DEF n
<1>13. p + Len(x) + Len(y) = p + n + l
  BY <1>1, <1>3, <1>8, <1>12
<1>14. ASSUME NEW i \in 1 .. Len(x) PROVE x[i] = W[p + i]
  <2>1. i \in 1 .. n + m /\ x[i] = IF i <= n THEN s[i] ELSE a[i - n]
    BY <1>7, <1>11, <1>12 DEF n
  <2>2. CASE i <= n
    <3>1. i \in 1 .. n
      BY <1>1, <2>1, <2>2
    <3> QED BY <1>4, <2>1, <2>2, <3>1
  <2>3. CASE ~ (i <= n)
    <3>1. i - n \in 1 .. m /\ i - n \in 1 .. l /\ p + n + (i - n) = p + i
      BY <1>1, <1>3, <2>1, <2>3
    <3>2. a[i - n] = t[i - n] /\ t[i - n] = W[p + n + (i - n)]
      BY <1>5, <1>7, <3>1
    <3> QED BY <2>1, <2>3, <3>1, <3>2
  <2> QED BY <2>2, <2>3
<1>15. p + Len(x) <= Len(W)
  BY <1>1, <1>2, <1>3, <1>5, <1>12
<1>16. Matches(u, x, p)
  BY <1>14, <1>15 DEF Matches, W
<1>17. ASSUME NEW i \in 1 .. Len(y) PROVE y[i] = W[p + Len(x) + i]
  <2>1. k <= l /\ i \in 1 .. l - k /\ m = k
    BY <1>1, <1>3, <1>8
  <2>2. y[i] = t[k + i] /\ k + i \in 1 .. l /\ p + n + (k + i) = p + Len(x) + i
    BY <1>1, <1>9, <1>12, <2>1
  <2> QED BY <1>5, <2>2
<1>18. p + Len(x) + Len(y) <= Len(W)
  BY <1>5, <1>13
<1>19. Matches(u, y, p + Len(x))
  BY <1>17, <1>18 DEF Matches, W
<1>20. C => Len(W) - z <= p + Len(x) + Len(y)
  BY <1>6, <1>13 DEF C, z, W
<1> QED BY <1>16, <1>19, <1>20 DEF FollowsAt, x, y, W, C, z, a, m, l

\* Between parts: behind the beginning of the content of part k - 1 and not
\* behind the beginning of part k
BetweenAt(u, k, p) ==
  p + 1 <= Start(u, k) /\ (k # 1 => ContentAt(u, k - 1) <= p + 1)

\* Within the content of part k, of which d is what comes before
WithinAt(u, k, d, p) ==
  /\ p + 1 \in ContentAt(u, k) .. ContentEnd(u, k)
  /\ d = SubSeq(u[k].content, 1, p + 1 - ContentAt(u, k))

\* Where the content of a part is: nine symbols behind the beginning of the part,
\* and a line break before the next
LEMMA PartBounds ==
  ASSUME NEW u \in Seq(PartType), NEW k \in 1 .. Len(u)
  PROVE  /\ Start(u, k) \in Nat \ {0} /\ Start(u, k + 1) \in Nat \ {0}
         /\ Len(u[k].content) \in Nat /\ u[k].content \in Seq(Symbol)
         /\ ContentAt(u, k) = Start(u, k) + 9
         /\ ContentEnd(u, k) = ContentAt(u, k) + Len(u[k].content)
         /\ ContentEnd(u, k) = Start(u, k + 1) - 2
<1>1. Len(u) \in Nat
  BY LenProperties
<1> DEFINE a == Start(u, k)
           b == Start(u, k + 1)
           m == Len(u[k].content)
<1>2. a \in Nat \ {0} /\ m \in Nat /\ b = a + m + 11
  <2>1. k \in 1 .. Len(u) + 1
    BY <1>1
  <2> QED BY <2>1, StartProperties
<1>3. u[k].content \in Seq(Symbol)
  <2>1. u[k] \in PartType
    BY ElementOfSeq
  <2> QED BY <2>1 DEF PartType
<1>4. ContentAt(u, k) = a + 9 /\ ContentEnd(u, k) = b - 2
  BY DEF ContentAt, ContentEnd
<1> HIDE DEF a, b, m
<1>5. a + m + 11 \in Nat \ {0} /\ a + m + 11 - 2 = a + 9 + m
  BY <1>2
<1>6. b \in Nat \ {0} /\ b - 2 = a + 9 + m
  BY <1>2, <1>5
<1> QED BY <1>2, <1>3, <1>4, <1>6 DEF a, b, m

\* Between parts: what process_upload_body finds
LEMMA Seek ==
  ASSUME NEW u \in Upload, u = upload, requestBody \in Seq(Symbol), input \in Seq(Symbol),
         NEW k \in 1 .. Len(u) + 1, NEW p \in Nat,
         FollowsAt(u, requestBody, input, p), BetweenAt(u, k, p)
  PROVE  \/ Find(Boundary, requestBody) = 0 /\ p + Len(requestBody) <= Start(u, k)
         \/ /\ Find(Boundary, requestBody) # 0
            /\ FromBoundary \in Seq(Symbol)
            /\ Start(u, k) - 1 \in Nat
            /\ FollowsAt(u, FromBoundary, input, Start(u, k) - 1)
            /\ \/ HeadEnd = 0 /\ Len(FromBoundary) < 9
               \/ /\ HeadEnd = 6 /\ Len(FromBoundary) >= 9 /\ k \in 1 .. Len(u)
                  /\ NamesIn(SubSeq(FromBoundary, 1, HeadEnd)) =
                       IF u[k].name = NoFile THEN {} ELSE {5}
                  /\ u[k].name # NoFile => FromBoundary[5] = u[k].name
<1> DEFINE s == requestBody
           q == Find(Boundary, s)
           n == Len(u)
<1>1. u \in Seq(PartType) /\ n \in Nat
  BY UploadType, LenProperties
<1>2. Start(u, k) \in Nat \ {0}
  BY <1>1, StartProperties
<1>3. k = 1 \/ Start(u, k - 1) <= p
  <2>1. SUFFICES ASSUME k # 1 PROVE Start(u, k - 1) <= p
    OBVIOUS
  <2>2. PICK j \in 1 .. n + 1 : j = k - 1
    <3>1. k - 1 \in 1 .. n + 1
      BY <1>1, <2>1
    <3> QED BY <3>1
  <2>3. Start(u, j) \in Nat
    BY <1>1, StartProperties
  <2>4. Start(u, j) + 9 <= p + 1
    BY <2>1, <2>2 DEF BetweenAt, ContentAt
  <2>5. Start(u, j) <= p
    BY <2>3, <2>4
  <2> QED BY <2>2, <2>5
<1>4. p + 1 <= Start(u, k) /\ Matches(u, s, p)
  BY DEF BetweenAt, FollowsAt
<1>5. \/ q = 0 /\ p + Len(s) <= Start(u, k)
      \/ q \in 1 .. Len(s) - 1 /\ p + q = Start(u, k)
  BY <1>3, <1>4, NextBoundary
<1>6. CASE q # 0
  <2>1. /\ q - 1 \in 0 .. Len(s)
        /\ FromBoundary \in Seq(Symbol)
    BY <1>6, FromBoundaryProperties
  <2>2. FromBoundary = Drop(q - 1, s)
    BY DEF FromBoundary
  <2>3. Len(s) \in Nat
    BY LenProperties
  <2> HIDE DEF q, s
  <2>4. PICK m \in 0 .. Len(s) : m = q - 1
    BY <2>1
  <2>5. p + m = Start(u, k) - 1
    BY <1>2, <1>5, <1>6, <2>3, <2>4
  <2>6. p + m \in Nat /\ FollowsAt(u, Drop(m, s), input, p + m)
    BY FollowsDrop DEF s
  <2>7. PICK r \in Nat : r = Start(u, k) - 1
    BY <1>2
  <2>8. FollowsAt(u, FromBoundary, input, r)
    BY <2>2, <2>4, <2>5, <2>6, <2>7
  <2> DEFINE x == FromBoundary
  <2>9. x \in Seq(Symbol) /\ Matches(u, x, r)
    BY <2>1, <2>8 DEF FollowsAt
  <2>10. HeadEnd = Find(SEP \o SEP, x)
    BY DEF HeadEnd
  <2> HIDE DEF x
  <2>11. \/ Find(SEP \o SEP, x) = 0 /\ Len(x) < 9
         \/ /\ Find(SEP \o SEP, x) = 6 /\ Len(x) >= 9 /\ k \in 1 .. Len(u)
            /\ NamesIn(SubSeq(x, 1, 6)) = IF u[k].name = NoFile THEN {} ELSE {5}
            /\ u[k].name # NoFile => x[5] = u[k].name
    BY <2>7, <2>9, HeadOfPart
  <2>12. CASE Find(SEP \o SEP, x) = 0 /\ Len(x) < 9
    BY <1>6, <2>1, <2>7, <2>8, <2>10, <2>12 DEF x, q, s
  <2>13. CASE /\ Find(SEP \o SEP, x) = 6 /\ Len(x) >= 9 /\ k \in 1 .. Len(u)
              /\ NamesIn(SubSeq(x, 1, 6)) = IF u[k].name = NoFile THEN {} ELSE {5}
              /\ u[k].name # NoFile => x[5] = u[k].name
    BY <1>6, <2>1, <2>7, <2>8, <2>10, <2>13 DEF x, q, s
  <2> QED BY <2>11, <2>12, <2>13
<1>7. CASE q = 0
  BY <1>5, <1>7
<1> QED BY <1>6, <1>7

\* The content of a part is in the body, nine symbols behind where the part begins.
LEMMA ContentSymbols ==
  ASSUME NEW u \in Seq(PartType), NEW k \in 1 .. Len(u)
  PROVE  \A i \in 1 .. Len(u[k].content) :
           Body(u)[Start(u, k) + 8 + i] = u[k].content[i]
BY PartSymbols

\* Within a part: what process_upload_body appends, and what it has then
LEMMA TakeContent ==
  ASSUME NEW u \in Upload, u = upload, requestBody \in Seq(Symbol), input \in Seq(Symbol), Enough,
         NEW k \in 1 .. Len(u), NEW p \in Nat, NEW d,
         FollowsAt(u, requestBody, input, p), WithinAt(u, k, d, p)
  PROVE  \E r \in Nat :
           /\ r = p + Len(FileContent)
           /\ Len(FileContent) \in 0 .. Len(requestBody)
           /\ FollowsAt(u, Drop(Len(FileContent), requestBody), input, r)
           /\ WithinAt(u, k, d \o FileContent, r)
           /\ ~ PartEnds => Len(FileContent) # 0
           /\ PartEnds => r + 1 = ContentEnd(u, k)
<1> DEFINE s == requestBody
           e == EndOfFile
           n == Len(u)
           c == u[k].content
           S == Start(u, k)
           W == Body(u)
           A == ContentAt(u, k)
           E == ContentEnd(u, k)
           g == FileContent
           T == Symbol
<1>1. u \in Seq(PartType) /\ n \in Nat /\ Len(s) \in Nat /\ Len(s) > 4
  BY UploadType, LenProperties, EnoughIsFive
<1>2. /\ S \in Nat \ {0} /\ Len(c) \in Nat /\ c \in Seq(T)
      /\ A = S + 9 /\ E = A + Len(c)
  BY <1>1, PartBounds
<1>3. p + 1 \in A .. E /\ d = SubSeq(c, 1, p + 1 - A)
  BY DEF WithinAt
<1>4. PICK m \in 0 .. Len(s) :
           /\ m = IF e = 0 THEN Len(s) - 4 ELSE e - 1
           /\ g = SubSeq(s, 1, m)
           /\ g \in Seq(T) /\ Len(g) = m
           /\ \A i \in 1 .. m : g[i] = s[i]
           /\ e \in Nat
  BY FileContentProperties
<1>5. Matches(u, s, p)
  BY DEF FollowsAt
<1>6. \/ e = 0 /\ p + Len(s) <= E + 2
      \/ e \in 1 .. Len(s) - 3 /\ p + e = E
  BY <1>3, <1>5, NextFileEnd DEF EndOfFile
<1>7. \A i \in 1 .. Len(c) : W[S + 8 + i] = c[i]
  <2>1. u \in Seq(PartType)
    BY <1>1
  <2> QED BY <2>1, ContentSymbols
<1>8. \A i \in 1 .. Len(s) : s[i] = W[p + i]
  BY <1>5 DEF Matches
<1>9. PartEnds <=> e # 0
  BY DEF PartEnds
<1>10. p + m \in Nat /\ FollowsAt(u, Drop(m, s), input, p + m)
  BY FollowsDrop
<1> HIDE DEF s, e, c, S, W, A, E, g, T
<1>11. m \in Nat /\ A \in Nat /\ E \in Nat /\ p + 1 >= A /\ p + 1 <= E
  BY <1>1, <1>2, <1>3
<1>12. p + m + 1 >= A /\ p + m + 1 <= E
  <2>1. Len(s) \in Nat
    BY <1>1
  <2>2. CASE e = 0 /\ p + Len(s) <= E + 2
    <3>1. m = Len(s) - 4
      BY <1>4, <2>2
    <3> QED BY <1>11, <2>1, <2>2, <3>1
  <2>3. CASE e \in 1 .. Len(s) - 3 /\ p + e = E
    <3>1. m = e - 1 /\ e \in Nat
      BY <1>4, <2>1, <2>3
    <3> QED BY <1>11, <2>3, <3>1
  <2> QED BY <1>6, <2>2, <2>3
<1>13. /\ e = 0 => m # 0
       /\ e # 0 => p + m + 1 = E
  <2>1. CASE e = 0
    <3>1. m = Len(s) - 4
      BY <1>4, <2>1
    <3>2. Len(s) \in Nat /\ Len(s) > 4
      BY <1>1
    <3>3. \A a \in Nat : a > 4 => a - 4 # 0
      OBVIOUS
    <3> QED BY <2>1, <3>1, <3>2, <3>3
  <2>2. CASE e # 0
    <3>1. m = e - 1 /\ p + e = E /\ e \in Nat
      BY <1>4, <1>6, <2>2
    <3>2. p + m + 1 = E
      BY <1>11, <3>1
    <3> QED BY <2>2, <3>2
  <2> QED BY <2>1, <2>2
<1>14. PICK a \in Nat : a = p + 1 - A
  BY <1>11
<1>15. a + m <= Len(c) /\ p + m + 1 - A = a + m
  BY <1>2, <1>11, <1>12, <1>14
<1>16. \A i \in 1 .. Len(g) : g[i] = c[a + i]
  <2> SUFFICES ASSUME NEW i \in 1 .. m PROVE g[i] = c[a + i]
    BY <1>4
  <2>1. i \in 1 .. Len(s) /\ a + i \in 1 .. Len(c) /\ S + 8 + (a + i) = p + i
    BY <1>1, <1>2, <1>11, <1>14, <1>15
  <2>2. s[i] = W[p + i] /\ W[S + 8 + (a + i)] = c[a + i]
    BY <1>7, <1>8, <2>1
  <2> QED BY <1>4, <2>1, <2>2
<1>17. SubSeq(c, 1, a) \o g = SubSeq(c, 1, a + Len(g))
  <2>1. c \in Seq(T) /\ g \in Seq(T)
    BY <1>2, <1>4
  <2>2. a + Len(g) <= Len(c)
    BY <1>4, <1>15
  <2> QED BY <1>16, <2>1, <2>2, TakeMore
<1>18. d \o g = SubSeq(c, 1, p + m + 1 - A)
  BY <1>3, <1>4, <1>14, <1>15, <1>17
<1>19. PICK r \in Nat : r = p + m
  BY <1>10
<1>20. r + 1 \in A .. E
  BY <1>11, <1>12, <1>19
<1>21. WithinAt(u, k, d \o g, r)
  BY <1>18, <1>19, <1>20 DEF WithinAt, A, E, c
<1> QED BY <1>4, <1>9, <1>10, <1>13, <1>19, <1>21 DEF g, s, E

-----------------------------------------------------------------------------
(* The invariant                                                           *)

\* The part that is looked for or written
Taken == Len(success) + Len(fail) + 1

\* No part is taken behind the first without a name, and none whose name is stored.
Counted ==
  /\ Taken \in 1 .. Len(NamedParts) + 1
  /\ curFile # NoFile =>
       /\ Taken <= Len(NamedParts) /\ curFile = upload[Taken].name
       /\ curFile \notin Range(success)

\* The loop runs as long as there is no answer; an answer before the end of the
\* body is 400.
Judged ==
  /\ pc = "loop" => status = ""
  /\ pc = "read" /\ status # "" =>
       status = "400" /\ (success = << >> \/ upload # NamedParts)

\* Only what is stored or being written is there, and as long as no part has
\* failed the parts are stored as sent.
Written ==
  /\ \A f \in File : given[f] # << >> => f \in Range(success) \/ f = curFile
  /\ fail = << >> => \A i \in 1 .. Len(success) :
        success[i] = upload[i].name /\ given[success[i]] = upload[i].content

\* What _request_body holds is what comes next in the body: between parts, or
\* within the content of a part of which the file has what comes before.
PlacedAt(p) ==
  /\ FollowsAt(upload, requestBody, input, p)
  /\ IF curFile = NoFile THEN BetweenAt(upload, Taken, p)
                         ELSE WithinAt(upload, Taken, given[curFile], p)
  /\ pc = "read" =>
       \/ Len(requestBody) <= 4
       \/ curFile = NoFile /\ p + 1 = Start(upload, Taken) /\ Len(requestBody) < 9

Placed == status = "" => \E p \in Nat : PlacedAt(p)

IInv == TypeOK /\ Counted /\ Judged /\ Written /\ Placed

\* The types that the invariant gives
LEMMA Types ==
  ASSUME IInv
  PROVE  /\ upload \in Upload /\ upload \in Seq(PartType) /\ Len(upload) \in Nat
         /\ input \in Seq(Symbol) /\ requestBody \in Seq(Symbol)
         /\ curFile \in File \cup {NoFile} /\ success \in Seq(File) /\ fail \in Seq(File)
         /\ status \in {"", "200", "207", "400"} /\ given \in [File -> Seq(Symbol)]
         /\ pc \in {"read", "loop", "answered"}
         /\ NoFile \notin File
<1>1. upload \in Upload
  BY DEF IInv, TypeOK
<1>2. upload \in Seq(PartType) /\ Len(upload) \in Nat
  BY <1>1, UploadType, LenProperties
<1>3. NoFile \notin File
  BY UploadBodies
<1> QED BY <1>1, <1>2, <1>3 DEF IInv, TypeOK

\* How the numbers of parts compare
LEMMA Parts ==
  ASSUME IInv
  PROVE  /\ Taken \in Nat \ {0} /\ Len(NamedParts) \in Nat
         /\ Len(success) \in Nat /\ Len(fail) \in Nat
         /\ Taken <= Len(NamedParts) + 1 /\ Len(NamedParts) <= Len(upload)
         /\ Taken \in 1 .. Len(upload) + 1
         /\ Taken <= Len(NamedParts) => Taken \in 1 .. Len(upload)
<1>1. upload \in Upload /\ Len(upload) \in Nat /\ success \in Seq(File) /\ fail \in Seq(File)
  BY Types
<1>2. Len(NamedParts) \in 0 .. Len(upload)
  BY <1>1, NamedPartsProperties
<1>3. Taken \in 1 .. Len(NamedParts) + 1
  BY DEF IInv, Counted
<1>4. Len(success) \in Nat /\ Len(fail) \in Nat
  BY <1>1, LenProperties
<1> DEFINE N == Len(NamedParts)
           n == Len(upload)
<1> HIDE DEF N, n
<1>5. N \in 0 .. n /\ Taken \in 1 .. N + 1 /\ n \in Nat
  BY <1>1, <1>2, <1>3 DEF N, n
<1>6. /\ Taken \in Nat \ {0} /\ N \in Nat
      /\ Taken <= N + 1 /\ N <= n
      /\ Taken \in 1 .. n + 1
      /\ Taken <= N => Taken \in 1 .. n
  BY <1>5
<1> QED BY <1>4, <1>6 DEF N, n

\* A part with a name is one of those that are taken.
LEMMA NamedIsTaken ==
  ASSUME IInv, Taken \in 1 .. Len(upload)
  PROVE  upload[Taken].name # NoFile <=> Taken <= Len(NamedParts)
<1> DEFINE N == Len(NamedParts)
           n == Len(upload)
<1>1. /\ N \in Nat /\ N <= n /\ Taken \in Nat \ {0} /\ Taken <= N + 1 /\ n \in Nat
  BY Parts, Types
<1>2. /\ N < n => upload[N + 1].name = NoFile
      /\ \A i \in 1 .. N : upload[i].name \in File
  BY Types, NamedPartsProperties
<1>3. NoFile \notin File
  BY Types
<1> HIDE DEF N, n
<1>4. CASE Taken <= N
  <2>1. Taken \in 1 .. N
    BY <1>1, <1>4
  <2> QED BY <1>2, <1>3, <1>4, <2>1 DEF N
<1>5. CASE ~ (Taken <= N)
  <2>1. Taken = N + 1
    BY <1>1, <1>5
  <2>2. N < n
    <3>1. Taken <= n
      BY <1>1 DEF n
    <3> QED BY <1>1, <2>1, <3>1
  <2> QED BY <1>2, <1>5, <2>1, <2>2 DEF N
<1> QED BY <1>4, <1>5

-----------------------------------------------------------------------------
(* What a pass through the loop finds                                      *)

\* The position, and what is found from there
LEMMA SeekStep ==
  ASSUME IInv, InLoop, curFile = NoFile
  PROVE  /\ status = ""
         /\ Len(requestBody) > 4 /\ Len(requestBody) \in Nat
         /\ Start(upload, Taken) \in Nat \ {0}
         /\ \E p \in Nat :
              /\ FollowsAt(upload, requestBody, input, p)
              /\ BetweenAt(upload, Taken, p)
              /\ Find(Boundary, requestBody) = 0 =>
                   p + Len(requestBody) <= Start(upload, Taken)
         /\ Find(Boundary, requestBody) # 0 =>
              /\ FromBoundary \in Seq(Symbol)
              /\ FollowsAt(upload, FromBoundary, input, Start(upload, Taken) - 1)
              /\ \/ HeadEnd = 0 /\ Len(FromBoundary) < 9
                 \/ /\ HeadEnd = 6 /\ Len(FromBoundary) >= 9 /\ Taken \in 1 .. Len(upload)
                    /\ NamesIn(SubSeq(FromBoundary, 1, HeadEnd)) =
                         IF upload[Taken].name = NoFile THEN {} ELSE {5}
                    /\ upload[Taken].name # NoFile => FromBoundary[5] = upload[Taken].name
<1>1. /\ upload \in Upload /\ upload \in Seq(PartType) /\ requestBody \in Seq(Symbol)
      /\ input \in Seq(Symbol)
  BY Types
<1>2. status = ""
  BY DEF InLoop, IInv, Judged
<1>3. Len(requestBody) > 4 /\ Len(requestBody) \in Nat
  BY <1>1, EnoughIsFive DEF InLoop
<1>4. PICK p \in Nat : FollowsAt(upload, requestBody, input, p) /\ BetweenAt(upload, Taken, p)
  BY <1>2 DEF IInv, Placed, PlacedAt
<1>5. Taken \in 1 .. Len(upload) + 1
  BY Parts
<1>6. Start(upload, Taken) \in Nat \ {0}
  BY <1>1, <1>5, StartProperties
<1>7. PICK u \in Upload, k \in 1 .. Len(upload) + 1 : u = upload /\ k = Taken
  BY <1>1, <1>5
<1>8. FollowsAt(u, requestBody, input, p) /\ BetweenAt(u, k, p) /\ k \in 1 .. Len(u) + 1
  BY <1>4, <1>7
<1>9. \/ Find(Boundary, requestBody) = 0 /\ p + Len(requestBody) <= Start(u, k)
      \/ /\ Find(Boundary, requestBody) # 0
         /\ FromBoundary \in Seq(Symbol)
         /\ Start(u, k) - 1 \in Nat
         /\ FollowsAt(u, FromBoundary, input, Start(u, k) - 1)
         /\ \/ HeadEnd = 0 /\ Len(FromBoundary) < 9
            \/ /\ HeadEnd = 6 /\ Len(FromBoundary) >= 9 /\ k \in 1 .. Len(u)
               /\ NamesIn(SubSeq(FromBoundary, 1, HeadEnd)) =
                    IF u[k].name = NoFile THEN {} ELSE {5}
               /\ u[k].name # NoFile => FromBoundary[5] = u[k].name
  BY <1>1, <1>7, <1>8, Seek
<1>10. CASE Find(Boundary, requestBody) = 0
  <2>1. p + Len(requestBody) <= Start(upload, Taken)
    BY <1>7, <1>9, <1>10
  <2> QED BY <1>2, <1>3, <1>4, <1>6, <1>10, <2>1
<1>11. CASE Find(Boundary, requestBody) # 0
  BY <1>2, <1>3, <1>4, <1>6, <1>7, <1>9, <1>11
<1> QED BY <1>10, <1>11

\* A head that names a file is the head of the part that is looked for, and what
\* is left of the body begins with its content.
LEMMA NamedStep ==
  ASSUME IInv, NEW f \in File, Named(f)
  PROVE  /\ Taken <= Len(NamedParts) /\ f = upload[Taken].name
         /\ \E r \in Nat : /\ FollowsAt(upload, requestBody', input, r)
                           /\ r + 1 = ContentAt(upload, Taken)
<1> DEFINE k == Taken
           S == Start(upload, k)
           x == FromBoundary
<1>1. /\ S \in Nat \ {0} /\ x \in Seq(Symbol)
      /\ FollowsAt(upload, x, input, S - 1)
      /\ HeadEnd = 6 /\ Len(x) >= 9 /\ k \in 1 .. Len(upload)
      /\ NamesIn(SubSeq(x, 1, HeadEnd)) = IF upload[k].name = NoFile THEN {} ELSE {5}
      /\ upload[k].name # NoFile => x[5] = upload[k].name
  BY SeekStep DEF Named
<1>2. NamesIn(SubSeq(x, 1, HeadEnd)) # {} /\ f = x[Min(NamesIn(SubSeq(x, 1, HeadEnd)))]
  BY DEF Named
<1>3. upload[k].name # NoFile /\ NamesIn(SubSeq(x, 1, HeadEnd)) = {5}
  BY <1>1, <1>2
<1>4. Min({5}) = 5
  BY DEF Min
<1>5. f = upload[k].name
  BY <1>1, <1>2, <1>3, <1>4
<1>6. k <= Len(NamedParts)
  BY <1>1, <1>3, NamedIsTaken
<1>7. Len(x) \in Nat
  BY <1>1, LenProperties
<1>8. requestBody' = Drop(9, x)
  <2>1. HeadEnd + 2 * Len(SEP) - 1 = 9
    BY <1>1, SEPProperties
  <2> QED BY <2>1 DEF Named
<1>9. 9 \in 0 .. Len(x)
  BY <1>1, <1>7
<1>10. PICK r \in Nat : r = S - 1
  BY <1>1
<1>11. upload \in Upload /\ input \in Seq(Symbol)
  BY Types
<1>12. FollowsAt(upload, x, input, r)
  BY <1>1, <1>10
<1> HIDE DEF x, k, S
<1>13. r + 9 \in Nat /\ FollowsAt(upload, Drop(9, x), input, r + 9)
  BY <1>1, <1>9, <1>11, <1>12, FollowsDrop
<1>14. PICK v \in Nat : v = r + 9
  BY <1>13
<1>15. v + 1 = S + 9
  BY <1>1, <1>10, <1>14
<1>16. ContentAt(upload, k) = S + 9
  BY DEF ContentAt, S
<1>17. FollowsAt(upload, requestBody', input, v)
  BY <1>8, <1>13, <1>14
<1> QED BY <1>5, <1>6, <1>15, <1>16, <1>17 DEF k

\* What is appended to the file continues the content of the part that is written,
\* and ends it where a delimiter is found.
LEMMA ContentStep ==
  ASSUME IInv, InLoop, curFile # NoFile,
         requestBody' = Drop(Len(FileContent), requestBody)
  PROVE  /\ status = "" /\ curFile \in File
         /\ Taken <= Len(NamedParts) /\ Taken \in 1 .. Len(upload)
         /\ curFile = upload[Taken].name /\ curFile \notin Range(success)
         /\ FileContent \in Seq(Symbol) /\ Len(FileContent) \in Nat
         /\ ~ PartEnds => Len(FileContent) # 0
         /\ \E p, r \in Nat :
              /\ r = p + Len(FileContent)
              /\ WithinAt(upload, Taken, given[curFile], p)
              /\ FollowsAt(upload, requestBody', input, r)
              /\ WithinAt(upload, Taken, given[curFile] \o FileContent, r)
              /\ PartEnds => r + 1 = ContentEnd(upload, Taken)
<1>1. /\ upload \in Upload /\ requestBody \in Seq(Symbol) /\ input \in Seq(Symbol)
      /\ curFile \in File
  BY Types
<1>2. status = "" /\ Enough
  BY DEF InLoop, IInv, Judged
<1>3. PICK p \in Nat : /\ FollowsAt(upload, requestBody, input, p)
                       /\ WithinAt(upload, Taken, given[curFile], p)
  BY <1>2 DEF IInv, Placed, PlacedAt
<1>4. /\ Taken <= Len(NamedParts) /\ curFile = upload[Taken].name
      /\ curFile \notin Range(success)
  BY DEF IInv, Counted
<1>5. Taken \in 1 .. Len(upload)
  BY <1>4, Parts
<1>6. PICK u \in Upload, k \in 1 .. Len(upload) : u = upload /\ k = Taken
  BY <1>1, <1>5
<1>d. PICK d : d = given[curFile]
  OBVIOUS
<1>7. FollowsAt(u, requestBody, input, p) /\ WithinAt(u, k, d, p) /\ k \in 1 .. Len(u)
  BY <1>3, <1>6, <1>d
<1>8. \E r \in Nat :
           /\ r = p + Len(FileContent)
           /\ Len(FileContent) \in 0 .. Len(requestBody)
           /\ FollowsAt(u, Drop(Len(FileContent), requestBody), input, r)
           /\ WithinAt(u, k, d \o FileContent, r)
           /\ ~ PartEnds => Len(FileContent) # 0
           /\ PartEnds => r + 1 = ContentEnd(u, k)
  <2>1. requestBody \in Seq(Symbol) /\ input \in Seq(Symbol)
    BY <1>1
  <2>2. u = upload /\ Enough
    BY <1>2, <1>6
  <2>3. k \in 1 .. Len(u)
    BY <1>7
  <2>4. FollowsAt(u, requestBody, input, p) /\ WithinAt(u, k, d, p)
    BY <1>7
  <2> QED BY <2>1, <2>2, <2>3, <2>4, TakeContent
<1>9. FileContent \in Seq(Symbol) /\ Len(FileContent) \in Nat
  BY <1>1, <1>2, FileContentProperties, LenProperties
<1> QED BY <1>1, <1>2, <1>3, <1>4, <1>5, <1>6, <1>d, <1>8, <1>9

-----------------------------------------------------------------------------
(* The invariant is kept                                                   *)

\* All that is sent is yet to be read.
LEMMA InitFollows ==
  ASSUME Init
  PROVE  FollowsAt(upload, requestBody, input, 0)
<1> DEFINE W == Body(upload)
           T == Symbol
           z == Len(Closing)
           C == Missing \subseteq 0 .. Len(Closing)
<1>1. upload \in Upload /\ upload \in Seq(PartType)
  BY UploadType DEF Init
<1>2. W \in Seq(T) /\ Len(W) \in Nat
  BY <1>1, BodyProperties, LenProperties
<1>3. Len(W) >= 6
  <2> DEFINE S == Start(upload, Len(upload) + 1)
  <2>1. Len(W) = S + 5 /\ S \in Nat \ {0}
    BY <1>1, ClosingSymbols
  <2> HIDE DEF S, W
  <2> QED BY <2>1
<1>4. PICK n \in Missing : input = SubSeq(W, 1, Len(W) - n)
  BY DEF Init
<1>5. n \in Nat
  BY UploadBodies
<1>6. z = 6
  BY ClosingProperties
<1>7. C => n <= z
  BY <1>5, <1>6
<1>8. requestBody = << >> /\ Len(<< >>) = 0
  BY DEF Init
<1> HIDE DEF W, T, z, C
<1>9. PICK l \in Nat : l = Len(W)
  BY <1>2
<1>10. CASE n <= l
  <2>1. PICK m \in 0 .. l : m = l - n
    <3>1. l - n \in 0 .. l
      BY <1>5, <1>10
    <3> QED BY <3>1
  <2>2. Len(input) = m /\ \A i \in 1 .. m : input[i] = W[i]
    BY <1>2, <1>4, <1>9, <2>1, TakeProperties
  <2>3. 0 + Len(requestBody) = 0 /\ 0 + Len(requestBody) + Len(input) = m
    BY <1>8, <2>2
  <2>4. Matches(upload, requestBody, 0)
    <3>1. 0 + Len(requestBody) <= Len(Body(upload))
      BY <1>9, <2>3 DEF W
    <3>2. \A i \in 1 .. Len(requestBody) : FALSE
      BY <1>8
    <3> QED BY <3>1, <3>2 DEF Matches
  <2>5. Matches(upload, input, 0 + Len(requestBody))
    <3>1. 0 + Len(requestBody) + Len(input) <= Len(Body(upload))
      BY <1>9, <2>1, <2>3 DEF W
    <3>2. \A i \in 1 .. Len(input) : 0 + Len(requestBody) + i = i
      BY <2>2, <2>3
    <3>3. \A i \in 1 .. Len(input) : input[i] = Body(upload)[0 + Len(requestBody) + i]
      BY <2>2, <3>2 DEF W
    <3> QED BY <3>1, <3>3 DEF Matches
  <2>6. C => l - z <= m
    BY <1>5, <1>6, <1>7, <2>1
  <2>7. C => Len(W) - z <= 0 + Len(requestBody) + Len(input)
    BY <1>9, <2>3, <2>6
  <2> QED BY <2>4, <2>5, <2>7 DEF FollowsAt, C, W, z
<1>11. CASE ~ (n <= l)
  <2>1. ~ C
    BY <1>3, <1>5, <1>6, <1>7, <1>9, <1>11
  <2>2. input = << >>
    <3>1. PICK m \in Int : m = l - n
      BY <1>5
    <3>2. m < 1 /\ 1 \in Int
      BY <1>5, <1>11, <3>1
    <3>3. SubSeq(W, 1, m) = << >>
      BY <3>2, SubSeqEmpty
    <3> QED BY <1>4, <1>9, <3>1, <3>3
  <2>3. Len(input) = 0 /\ Len(requestBody) = 0
    BY <1>8, <2>2
  <2>4. Matches(upload, requestBody, 0) /\ Matches(upload, input, 0 + Len(requestBody))
    <3>1. 0 + Len(requestBody) <= Len(W) /\ 0 + Len(requestBody) + Len(input) <= Len(W)
      BY <1>9, <2>3
    <3>2. (\A i \in 1 .. Len(requestBody) : FALSE) /\ (\A i \in 1 .. Len(input) : FALSE)
      BY <2>3
    <3> QED BY <3>1, <3>2 DEF Matches, W
  <2> QED BY <2>1, <2>4 DEF FollowsAt, C
<1> QED BY <1>5, <1>10, <1>11

\* The invariant holds before the first call of on_body.
LEMMA InitInv == Init => IInv
<1> SUFFICES ASSUME Init PROVE IInv
  OBVIOUS
<1>1. TypeOK
  BY InitTypes
<1>2. upload \in Upload /\ upload \in Seq(PartType)
  BY <1>1, UploadType DEF TypeOK
<1>3. success = << >> /\ fail = << >> /\ requestBody = << >> /\ curFile = NoFile
      /\ status \in {"", "400"} /\ pc = "read" /\ given = [f \in File |-> << >>]
  BY DEF Init
<1>4. Len(<< >>) = 0
  OBVIOUS
<1>l. Len(success) = 0 /\ Len(fail) = 0 /\ Len(requestBody) = 0
  <2>1. success = << >> /\ fail = << >> /\ requestBody = << >>
    BY <1>3
  <2> QED BY <1>4, <2>1
<1>5. Taken = 1
  BY <1>l DEF Taken
<1>6. Len(NamedParts) \in Nat
  <2>1. Len(NamedParts) \in 0 .. Len(upload) /\ Len(upload) \in Nat
    BY <1>2, NamedPartsProperties, LenProperties
  <2> QED BY <2>1
<1>7. Counted
  <2>1. Taken \in 1 .. Len(NamedParts) + 1
    BY <1>5, <1>6
  <2> QED BY <1>3, <2>1 DEF Counted
<1>8. Judged
  BY <1>3 DEF Judged
<1>9. Written
  <2>1. \A f \in File : given[f] = << >>
    BY <1>3
  <2>2. \A i \in 1 .. Len(success) : FALSE
    BY <1>l
  <2> QED BY <2>1, <2>2 DEF Written
<1>10. PlacedAt(0)
  <2>1. FollowsAt(upload, requestBody, input, 0)
    BY InitFollows
  <2>2. BetweenAt(upload, Taken, 0)
    <3>1. Start(upload, 1) = 1
      BY <1>2, StartProperties
    <3> QED BY <1>5, <3>1 DEF BetweenAt
  <2>3. Len(requestBody) <= 4
    BY <1>l
  <2> QED BY <1>3, <2>1, <2>2, <2>3 DEF PlacedAt
<1>11. Placed
  BY <1>10 DEF Placed
<1> QED BY <1>1, <1>7, <1>8, <1>9, <1>11 DEF IInv

\* What no step changes
LEMMA SameParts ==
  ASSUME upload' = upload
  PROVE  NamedParts' = NamedParts
BY DEF NamedParts

\* The invariant but for the position, in steps that complete no part
LEMMA NothingTaken ==
  ASSUME IInv, UNCHANGED <<upload, success, fail, curFile, given>>
  PROVE  Taken' = Taken /\ Counted' /\ Written'
<1>1. NamedParts' = NamedParts
  BY SameParts
<1>2. Taken' = Taken
  BY DEF Taken
<1> QED BY <1>1, <1>2 DEF IInv, Counted, Written

\* The content of the part taken last has a place in the body.
LEMMA ContentBefore ==
  ASSUME IInv, Taken # 1
  PROVE  ContentAt(upload, Taken - 1) \in Nat
<1>1. upload \in Seq(PartType) /\ Len(upload) \in Nat
  BY Types
<1>2. PICK k \in 1 .. Len(upload) : k = Taken - 1
  <2>1. Taken \in 1 .. Len(upload) + 1
    BY Parts
  <2>2. Taken - 1 \in 1 .. Len(upload)
    BY <1>1, <2>1
  <2> QED BY <2>2
<1>3. Start(upload, k) \in Nat /\ ContentAt(upload, k) = Start(upload, k) + 9
  BY <1>1, PartBounds
<1>4. ContentAt(upload, k) \in Nat
  BY <1>3
<1> QED BY <1>2, <1>4

\* Leaving the loop for lack of data
LEMMA ReturnKeeps ==
  ASSUME IInv, Return PROVE Counted' /\ Judged' /\ Written' /\ Placed'
<1>1. Counted' /\ Written' /\ Taken' = Taken
  BY NothingTaken DEF Return, files
<1>2. status = "" /\ status' = "" /\ pc' = "read"
  BY DEF Return, IInv, Judged
<1>3. PICK p \in Nat : PlacedAt(p)
  BY <1>2 DEF IInv, Placed
<1>4. Len(requestBody) <= 4
  <2>1. ~ (Len(requestBody) > 4) /\ Len(requestBody) \in Nat
    BY Types, EnoughIsFive DEF Return
  <2> QED BY <2>1
<1>5. PlacedAt(p)'
  BY <1>1, <1>3, <1>4 DEF Return, PlacedAt, files
<1> QED BY <1>1, <1>2, <1>5 DEF Judged, Placed

\* Nothing is skipped but what is before the next delimiter.
LEMMA SkipKeeps ==
  ASSUME IInv, Skip PROVE Counted' /\ Judged' /\ Written' /\ Placed'
<1>1. Counted' /\ Written' /\ Taken' = Taken
  BY NothingTaken DEF Skip, files, parser
<1>2. status' = "" /\ pc' = "loop"
  BY SeekStep DEF Skip, InLoop, parser
<1> DEFINE s == requestBody
           S == Start(upload, Taken)
<1>3. PICK p \in Nat : /\ FollowsAt(upload, s, input, p)
                       /\ BetweenAt(upload, Taken, p)
                       /\ p + Len(s) <= S
  BY SeekStep DEF Skip
<1>4. Len(s) > 4 /\ Len(s) \in Nat /\ S \in Nat
  BY SeekStep DEF Skip
<1>5. s' = Drop(Len(s) - 2, s) /\ upload' = upload /\ input' = input /\ curFile' = curFile /\ curFile = NoFile
  BY BoundaryProperties DEF Skip, files, parser
<1>6. s \in Seq(Symbol) /\ upload \in Upload /\ input \in Seq(Symbol)
  BY Types
<1> HIDE DEF s, S
<1>7. PICK m \in 0 .. Len(s) : m = Len(s) - 2
  <2>1. Len(s) - 2 \in 0 .. Len(s)
    BY <1>4
  <2> QED BY <2>1
<1>8. p + m \in Nat /\ FollowsAt(upload, Drop(m, s), input, p + m)
  BY <1>3, <1>6, FollowsDrop
<1>9. PICK r \in Nat : r = p + m
  BY <1>8
<1>10. FollowsAt(upload, s', input, r)
  BY <1>5, <1>7, <1>8, <1>9
<1>11. BetweenAt(upload, Taken, r)
  <2>1. r + 1 <= S
    BY <1>3, <1>4, <1>7, <1>9
  <2>2. Taken # 1 => ContentAt(upload, Taken - 1) <= r + 1
    <3>1. SUFFICES ASSUME Taken # 1 PROVE ContentAt(upload, Taken - 1) <= r + 1
      OBVIOUS
    <3>2. ContentAt(upload, Taken - 1) <= p + 1
      BY <1>3, <3>1 DEF BetweenAt
    <3>3. ContentAt(upload, Taken - 1) \in Nat
      BY <3>1, ContentBefore
    <3>4. p + 1 <= r + 1
      BY <1>4, <1>7, <1>9
    <3> DEFINE a == ContentAt(upload, Taken - 1)
    <3> HIDE DEF a
    <3> QED BY <3>2, <3>3, <3>4 DEF a
  <2> QED BY <2>1, <2>2 DEF BetweenAt, S
<1>12. PlacedAt(r)'
  BY <1>1, <1>2, <1>5, <1>10, <1>11 DEF PlacedAt, s
<1> QED BY <1>1, <1>2, <1>12 DEF Judged, Placed

\* A head that is cut is looked at again with the next piece.
LEMMA WaitForHeadKeeps ==
  ASSUME IInv, WaitForHead PROVE Counted' /\ Judged' /\ Written' /\ Placed'
<1>1. Counted' /\ Written' /\ Taken' = Taken
  BY NothingTaken DEF WaitForHead, files
<1>2. status' = "" /\ pc' = "read"
  BY SeekStep DEF WaitForHead
<1> DEFINE S == Start(upload, Taken)
<1>3. FollowsAt(upload, FromBoundary, input, S - 1) /\ Len(FromBoundary) < 9 /\ S \in Nat \ {0}
  <2>1. InLoop /\ curFile = NoFile /\ Find(Boundary, requestBody) # 0 /\ HeadEnd = 0
    BY DEF WaitForHead
  <2>2. S \in Nat \ {0}
    BY <2>1, SeekStep
  <2>3. /\ FollowsAt(upload, FromBoundary, input, S - 1)
        /\ (HeadEnd = 0 /\ Len(FromBoundary) < 9) \/ HeadEnd = 6
    BY <2>1, SeekStep
  <2> QED BY <2>1, <2>2, <2>3
<1>4. /\ requestBody' = FromBoundary /\ upload' = upload /\ input' = input
      /\ curFile' = NoFile
  BY DEF WaitForHead, files
<1>5. PICK p \in Nat : BetweenAt(upload, Taken, p)
  BY SeekStep DEF WaitForHead
<1>6. PICK r \in Nat : r = S - 1
  BY <1>3
<1>7. r + 1 = S
  BY <1>3, <1>6
<1> HIDE DEF S
<1>8. BetweenAt(upload, Taken, r)
  <2>1. Taken # 1 => ContentAt(upload, Taken - 1) <= S
    <3>1. SUFFICES ASSUME Taken # 1 PROVE ContentAt(upload, Taken - 1) <= S
      OBVIOUS
    <3>2. ContentAt(upload, Taken - 1) <= p + 1 /\ p + 1 <= S
      BY <1>5, <3>1 DEF BetweenAt, S
    <3>3. ContentAt(upload, Taken - 1) \in Nat
      BY <3>1, ContentBefore
    <3> DEFINE a == ContentAt(upload, Taken - 1)
    <3> HIDE DEF a
    <3> QED BY <1>3, <3>2, <3>3 DEF a
  <2>2. S <= S
    BY <1>3
  <2> QED BY <1>7, <2>1, <2>2 DEF BetweenAt, S
<1>9. PlacedAt(r)'
  <2>1. FollowsAt(upload, requestBody', input, r)
    BY <1>3, <1>4, <1>6 DEF S
  <2>2. r + 1 = Start(upload, Taken)
    BY <1>7 DEF S
  <2> QED BY <1>1, <1>2, <1>3, <1>4, <1>8, <2>1, <2>2 DEF PlacedAt
<1> QED BY <1>1, <1>2, <1>9 DEF Judged, Placed

\* Answering 400 to a head without a file name
LEMMA BadHeadKeeps ==
  ASSUME IInv, BadHead PROVE Counted' /\ Judged' /\ Written' /\ Placed'
<1>1. Counted' /\ Written'
  BY NothingTaken DEF BadHead, files
<1>2. status' = "400" /\ pc' = "read" /\ upload' = upload
  BY DEF BadHead
<1>3. /\ Taken \in 1 .. Len(upload)
      /\ NamesIn(SubSeq(FromBoundary, 1, HeadEnd)) =
           IF upload[Taken].name = NoFile THEN {} ELSE {5}
  BY SeekStep DEF BadHead
<1>4. upload[Taken].name = NoFile
  BY <1>3 DEF BadHead
<1>5. ~ (Taken <= Len(NamedParts))
  BY <1>3, <1>4, NamedIsTaken
<1>6. upload # NamedParts
  <2>1. SUFFICES ASSUME upload = NamedParts PROVE FALSE
    OBVIOUS
  <2>2. Len(upload) = Len(NamedParts)
    BY <2>1
  <2> QED BY <1>3, <1>5, <2>2, Parts
<1>7. (upload # NamedParts)'
  BY <1>2, <1>6, SameParts
<1> QED BY <1>1, <1>2, <1>7 DEF Judged, Placed

\* One more is stored or has failed.
LEMMA OneMore ==
  ASSUME NEW s \in Seq(File), NEW f \in File
  PROVE  /\ Append(s, f) \in Seq(File) /\ Len(Append(s, f)) = Len(s) + 1 /\ Len(s) \in Nat
         /\ \A i \in 1 .. Len(s) : Append(s, f)[i] = s[i]
         /\ Append(s, f)[Len(s) + 1] = f
         /\ Append(s, f) # << >>
         /\ Range(Append(s, f)) = Range(s) \cup {f}
<1> DEFINE x == Append(s, f)
           n == Len(s)
<1>1. x \in Seq(File) /\ Len(x) = n + 1
      /\ (\A i \in 1 .. n : x[i] = s[i]) /\ x[n + 1] = f
  BY AppendProperties
<1>2. n \in Nat /\ DOMAIN s = 1 .. n
  BY LenProperties
<1> HIDE DEF x, n
<1>3. DOMAIN x = 1 .. n + 1
  BY <1>1, LenProperties
<1>4. x # << >>
  <2>1. Len(x) # 0
    BY <1>1, <1>2
  <2>2. Len(<< >>) = 0
    OBVIOUS
  <2> QED BY <2>1, <2>2
<1>5. Range(x) = Range(s) \cup {f}
  <2>1. \A i \in 1 .. n + 1 : i \in 1 .. n \/ i = n + 1
    BY <1>2
  <2>2. \A i \in 1 .. n : i \in 1 .. n + 1
    BY <1>2
  <2>3. n + 1 \in 1 .. n + 1
    BY <1>2
  <2>4. Range(x) \subseteq Range(s) \cup {f}
    BY <1>1, <1>2, <1>3, <2>1 DEF Range
  <2>5. Range(s) \subseteq Range(x)
    BY <1>1, <1>2, <1>3, <2>2 DEF Range
  <2>6. f \in Range(x)
    BY <1>1, <1>3, <2>3 DEF Range
  <2> QED BY <2>4, <2>5, <2>6
<1> QED BY <1>1, <1>2, <1>4, <1>5 DEF x, n

\* Every element of a sequence is in its range.
LEMMA ElementInRange ==
  ASSUME NEW s \in Seq(File), NEW i \in 1 .. Len(s)
  PROVE  s[i] \in File /\ s[i] \in Range(s)
<1>1. i \in DOMAIN s /\ s[i] \in File
  BY LenProperties, ElementOfSeq
<1> QED BY <1>1 DEF Range

\* Behind the beginning of the content of a part the next one is looked for.
LEMMA BehindContent ==
  ASSUME NEW u \in Seq(PartType), NEW k \in 1 .. Len(u), NEW r \in Nat,
         r + 1 \in ContentAt(u, k) .. ContentEnd(u, k)
  PROVE  BetweenAt(u, k + 1, r)
<1> DEFINE a == ContentAt(u, k)
           b == Start(u, k + 1)
           e == ContentEnd(u, k)
<1>1. a \in Nat /\ b \in Nat /\ e = b - 2
  <2>1. Start(u, k) \in Nat /\ a = Start(u, k) + 9
    BY PartBounds
  <2>2. b \in Nat /\ e = b - 2
    BY PartBounds
  <2>3. a \in Nat
    BY <2>1
  <2> QED BY <2>2, <2>3
<1>2. k + 1 - 1 = k
  BY LenProperties
<1> HIDE DEF a, b, e
<1>3. a <= r + 1 /\ r + 1 <= b
  <2>1. r + 1 \in a .. e
    BY DEF a, e
  <2> QED BY <1>1, <2>1
<1> QED BY <1>2, <1>3 DEF BetweenAt, a, b

\* Register succeeds: the file is there and empty.
LEMMA BeginPartKeeps ==
  ASSUME IInv, NEW f \in File, BeginPart(f)
  PROVE  Counted' /\ Judged' /\ Written' /\ Placed'
<1>1. Named(f) /\ curFile = NoFile /\ InLoop
  BY DEF BeginPart, Named
<1>2. /\ Taken <= Len(NamedParts) /\ f = upload[Taken].name
      /\ \E r \in Nat : /\ FollowsAt(upload, requestBody', input, r)
                        /\ r + 1 = ContentAt(upload, Taken)
  BY <1>1, NamedStep
<1>3. /\ upload' = upload /\ input' = input /\ status' = status /\ pc' = pc
      /\ success' = success /\ fail' = fail /\ curFile' = f /\ f \notin Range(success)
      /\ given' = [given EXCEPT ![f] = << >>]
  BY DEF BeginPart, Named, parser
<1>4. status = "" /\ pc = "loop"
  BY <1>1, SeekStep DEF InLoop
<1>5. Taken' = Taken /\ NamedParts' = NamedParts
  BY <1>3, SameParts DEF Taken
<1>6. Counted'
  BY <1>2, <1>3, <1>5 DEF IInv, Counted
<1>7. Judged'
  BY <1>3, <1>4 DEF Judged
<1>8. given \in [File -> Seq(Symbol)] /\ success \in Seq(File)
  BY Types
<1>9. Written'
  <2>1. \A g \in File : given'[g] = IF g = f THEN << >> ELSE given[g]
    BY <1>3, <1>8
  <2>2. \A g \in File : given'[g] # << >> => g \in Range(success) \/ g = f
    BY <1>1, <2>1, Types DEF IInv, Written
  <2>3. \A i \in 1 .. Len(success) : success[i] \in File /\ success[i] # f
    BY <1>3, <1>8, ElementInRange
  <2>4. fail = << >> => \A i \in 1 .. Len(success) :
        success[i] = upload[i].name /\ given'[success[i]] = upload[i].content
    BY <2>1, <2>3 DEF IInv, Written
  <2> QED BY <1>3, <2>2, <2>4 DEF Written
<1>10. Taken \in 1 .. Len(upload)
  BY <1>2, Parts
<1>11. PICK r \in Nat : /\ FollowsAt(upload, requestBody', input, r)
                        /\ r + 1 = ContentAt(upload, Taken)
  BY <1>2
<1> DEFINE A == ContentAt(upload, Taken)
           E == ContentEnd(upload, Taken)
           c == upload[Taken].content
<1>12. A \in Nat /\ E = A + Len(c) /\ Len(c) \in Nat /\ c \in Seq(Symbol)
  <2>1. upload \in Seq(PartType)
    BY Types
  <2>2. Start(upload, Taken) \in Nat /\ A = Start(upload, Taken) + 9
    BY <1>10, <2>1, PartBounds
  <2>3. E = A + Len(c) /\ Len(c) \in Nat /\ c \in Seq(Symbol)
    BY <1>10, <2>1, PartBounds
  <2>4. A \in Nat
    BY <2>2
  <2> QED BY <2>3, <2>4
<1>13. WithinAt(upload, Taken, << >>, r)
  <2> HIDE DEF A, E, c
  <2>1. r + 1 \in A .. E /\ r + 1 - A = 0
    BY <1>11, <1>12 DEF A
  <2>2. SubSeq(c, 1, 0) = << >>
    <3>1. 1 \in Int /\ 0 \in Int /\ 0 < 1
      OBVIOUS
    <3> QED BY <3>1, SubSeqEmpty
  <2> QED BY <2>1, <2>2 DEF WithinAt, A, E, c
<1>14. given'[f] = << >> /\ f # NoFile
  BY <1>3, <1>8, Types
<1>15. PlacedAt(r)'
  BY <1>3, <1>4, <1>5, <1>11, <1>13, <1>14 DEF PlacedAt
<1> QED BY <1>6, <1>7, <1>9, <1>15 DEF Placed

\* check_filename or Register refuses the part: its content is not looked at.
LEMMA RefusePartKeeps ==
  ASSUME IInv, NEW f \in File, RefusePart(f)
  PROVE  Counted' /\ Judged' /\ Written' /\ Placed'
<1>1. Named(f) /\ curFile = NoFile /\ InLoop
  BY DEF RefusePart, Named
<1>2. /\ Taken <= Len(NamedParts) /\ f = upload[Taken].name
      /\ \E r \in Nat : /\ FollowsAt(upload, requestBody', input, r)
                        /\ r + 1 = ContentAt(upload, Taken)
  BY <1>1, NamedStep
<1>3. /\ upload' = upload /\ input' = input /\ status' = status /\ pc' = pc
      /\ success' = success /\ fail' = Append(fail, f) /\ curFile' = NoFile
      /\ given' = given
  BY <1>1 DEF RefusePart, Named, parser
<1>4. status = "" /\ pc = "loop"
  BY <1>1, SeekStep DEF InLoop
<1>5. NamedParts' = NamedParts
  BY <1>3, SameParts
<1>6. fail \in Seq(File) /\ upload \in Seq(PartType)
  BY Types
<1>7. Len(fail') = Len(fail) + 1 /\ Len(fail) \in Nat /\ fail' # << >>
  BY <1>3, <1>6, OneMore
<1>8. Taken' = Taken + 1 /\ Taken \in Nat \ {0} /\ Len(NamedParts) \in Nat
  <2>1. Len(success) \in Nat /\ Taken \in Nat \ {0} /\ Len(NamedParts) \in Nat
    BY Parts
  <2>2. Taken' = Len(success) + Len(fail') + 1
    BY <1>3 DEF Taken
  <2>3. Taken = Len(success) + Len(fail) + 1
    BY DEF Taken
  <2> QED BY <1>7, <2>1, <2>2, <2>3
<1>9. Counted'
  <2>1. Taken + 1 \in 1 .. Len(NamedParts) + 1
    BY <1>2, <1>8
  <2> QED BY <1>3, <1>5, <1>8, <2>1 DEF Counted
<1>10. Judged'
  BY <1>3, <1>4 DEF Judged
<1>11. Written'
  BY <1>1, <1>3, <1>7 DEF IInv, Written
<1>12. Taken \in 1 .. Len(upload)
  BY <1>2, Parts
<1>13. PICK r \in Nat : /\ FollowsAt(upload, requestBody', input, r)
                        /\ r + 1 = ContentAt(upload, Taken)
  BY <1>2
<1>14. r + 1 \in ContentAt(upload, Taken) .. ContentEnd(upload, Taken)
  <2> DEFINE A == ContentAt(upload, Taken)
             E == ContentEnd(upload, Taken)
             m == Len(upload[Taken].content)
  <2>1. E = A + m /\ m \in Nat /\ A = Start(upload, Taken) + 9 /\ Start(upload, Taken) \in Nat
    BY <1>6, <1>12, PartBounds
  <2>2. r + 1 = A
    BY <1>13
  <2>3. A \in Nat /\ E = A + m /\ m \in Nat
    BY <2>1
  <2> HIDE DEF A, E, m
  <2>4. A \in A .. E
    BY <2>3
  <2> QED BY <2>2, <2>4 DEF A, E
<1>15. BetweenAt(upload, Taken + 1, r)
  BY <1>6, <1>12, <1>14, BehindContent
<1>16. PlacedAt(r)'
  BY <1>3, <1>4, <1>8, <1>13, <1>15 DEF PlacedAt
<1> QED BY <1>9, <1>10, <1>11, <1>16 DEF Placed

\* All of a sequence
LEMMA WholeSeq ==
  ASSUME NEW T, NEW s \in Seq(T)
  PROVE  SubSeq(s, 1, Len(s)) = s
<1>1. Len(s) \in Nat /\ Len(s) \in 0 .. Len(s)
  BY LenProperties
<1> DEFINE n == Len(s)
           x == SubSeq(s, 1, n)
<1>2. n \in 0 .. Len(s)
  BY <1>1
<1>3. x \in Seq(T) /\ Len(x) = n /\ \A i \in 1 .. n : x[i] = s[i]
  <2> HIDE DEF n
  <2> QED BY <1>2, TakeProperties
<1> HIDE DEF x
<1>4. x = s
  BY <1>3, SeqEqual
<1> QED BY <1>4 DEF x

\* A name more in the list of files stored or of files that failed
LEMMA OneMoreTaken ==
  ASSUME IInv, Taken <= Len(NamedParts)
  PROVE  Taken + 1 \in 1 .. Len(NamedParts) + 1
<1>1. Taken \in Nat \ {0} /\ Len(NamedParts) \in Nat
  BY Parts
<1> QED BY <1>1

\* AppendContent succeeds, and Insert behind the last piece
LEMMA AppendPieceKeeps ==
  ASSUME IInv, AppendPiece
  PROVE  Counted' /\ Judged' /\ Written' /\ Placed'
<1>1. InLoop /\ curFile # NoFile /\ requestBody' = Drop(Len(FileContent), requestBody)
  BY DEF AppendPiece
<1>2. /\ status = "" /\ curFile \in File
      /\ Taken <= Len(NamedParts) /\ Taken \in 1 .. Len(upload)
      /\ curFile = upload[Taken].name /\ curFile \notin Range(success)
  BY <1>1, ContentStep
<1>3. PICK p, r \in Nat :
              /\ r = p + Len(FileContent)
              /\ WithinAt(upload, Taken, given[curFile], p)
              /\ FollowsAt(upload, requestBody', input, r)
              /\ WithinAt(upload, Taken, given[curFile] \o FileContent, r)
              /\ PartEnds => r + 1 = ContentEnd(upload, Taken)
  BY <1>1, ContentStep
<1>4. /\ upload' = upload /\ input' = input /\ status' = "" /\ pc' = "loop" /\ fail' = fail
      /\ given' = [given EXCEPT ![curFile] = @ \o FileContent]
  BY <1>1, <1>2 DEF AppendPiece, InLoop, parser
<1>5. NamedParts' = NamedParts
  BY <1>4, SameParts
<1>6. given \in [File -> Seq(Symbol)] /\ success \in Seq(File) /\ upload \in Seq(PartType)
      /\ NoFile \notin File
  BY Types
<1>7. \A g \in File : given'[g] = IF g = curFile THEN given[g] \o FileContent ELSE given[g]
  BY <1>4, <1>6
<1>8. Judged'
  BY <1>4 DEF Judged
<1>9. \A i \in 1 .. Len(success) : success[i] \in File /\ success[i] # curFile
  BY <1>2, <1>6, ElementInRange
<1>10. \A g \in File : given[g] # << >> => g \in Range(success) \/ g = curFile
  BY DEF IInv, Written
<1>11. CASE ~ PartEnds
  <2>1. success' = success /\ curFile' = curFile
    BY <1>11 DEF AppendPiece
  <2>2. Taken' = Taken
    BY <1>4, <2>1 DEF Taken
  <2>3. Counted'
    BY <1>4, <1>5, <2>1, <2>2 DEF IInv, Counted
  <2>4. Written'
    <3>1. \A g \in File : given'[g] # << >> => g \in Range(success) \/ g = curFile
      BY <1>7, <1>10
    <3>2. fail = << >> => \A i \in 1 .. Len(success) :
            success[i] = upload[i].name /\ given'[success[i]] = upload[i].content
      BY <1>7, <1>9 DEF IInv, Written
    <3> QED BY <1>4, <2>1, <3>1, <3>2 DEF Written
  <2>5. given'[curFile] = given[curFile] \o FileContent
    BY <1>2, <1>7
  <2>6. PlacedAt(r)'
    BY <1>1, <1>3, <1>4, <2>1, <2>2, <2>5 DEF PlacedAt
  <2> QED BY <1>8, <2>3, <2>4, <2>6 DEF Placed
<1>12. CASE PartEnds
  <2>1. success' = Append(success, curFile) /\ curFile' = NoFile
    BY <1>12 DEF AppendPiece
  <2>2. /\ success' \in Seq(File) /\ Len(success') = Len(success) + 1 /\ Len(success) \in Nat
        /\ \A i \in 1 .. Len(success) : success'[i] = success[i]
        /\ success'[Len(success) + 1] = curFile
        /\ Range(success') = Range(success) \cup {curFile}
    <3>1. success \in Seq(File) /\ curFile \in File
      BY <1>2, <1>6
    <3>2. PICK t : t = Append(success, curFile)
      OBVIOUS
    <3>3. /\ t \in Seq(File) /\ Len(t) = Len(success) + 1 /\ Len(success) \in Nat
          /\ \A i \in 1 .. Len(success) : t[i] = success[i]
          /\ t[Len(success) + 1] = curFile
          /\ Range(t) = Range(success) \cup {curFile}
      BY <3>1, <3>2, OneMore
    <3>4. success' = t
      BY <2>1, <3>2
    <3> QED BY <3>3, <3>4
  <2>3. Taken' = Taken + 1 /\ Taken \in Nat \ {0} /\ Len(NamedParts) \in Nat
        /\ Taken = Len(success) + Len(fail) + 1
    <3>1. Len(fail) \in Nat /\ Taken \in Nat \ {0} /\ Len(NamedParts) \in Nat
      BY Parts
    <3>2. Taken' = Len(success') + Len(fail) + 1
      BY <1>4 DEF Taken
    <3>3. Taken = Len(success) + Len(fail) + 1
      BY DEF Taken
    <3> QED BY <2>2, <3>1, <3>2, <3>3
  <2>4. Counted'
    <3>1. Taken + 1 \in 1 .. Len(NamedParts) + 1
      BY <1>2, OneMoreTaken
    <3> QED BY <1>5, <2>1, <2>3, <3>1 DEF Counted
  <2> DEFINE c == upload[Taken].content
  <2>5. given'[curFile] = c
    <3>1. given[curFile] \o FileContent = SubSeq(c, 1, r + 1 - ContentAt(upload, Taken))
      BY <1>3 DEF WithinAt
    <3>2. r + 1 - ContentAt(upload, Taken) = Len(c) /\ c \in Seq(Symbol)
      <4> DEFINE A == ContentAt(upload, Taken)
                 E == ContentEnd(upload, Taken)
                 m == Len(c)
      <4>1. E = A + m /\ m \in Nat /\ A = Start(upload, Taken) + 9
            /\ Start(upload, Taken) \in Nat /\ c \in Seq(Symbol)
        BY <1>2, <1>6, PartBounds
      <4>2. r + 1 = E
        BY <1>3, <1>12
      <4>3. A \in Nat /\ E = A + m /\ m \in Nat
        BY <4>1
      <4> HIDE DEF A, E, m
      <4>4. A + m - A = m
        BY <4>3
      <4>5. r + 1 - A = m
        BY <4>2, <4>3, <4>4
      <4> QED BY <4>1, <4>5 DEF A, m
    <3>3. SubSeq(c, 1, Len(c)) = c
      <4> HIDE DEF c
      <4> QED BY <3>2, WholeSeq
    <3>4. given[curFile] \o FileContent = c
      BY <3>1, <3>2, <3>3
    <3> QED BY <1>2, <1>7, <3>4
  <2>6. Written'
    <3>1. \A g \in File : given'[g] # << >> => g \in Range(success')
      BY <1>7, <1>10, <2>2
    <3>2. ASSUME fail = << >>, NEW i \in 1 .. Len(success')
          PROVE  success'[i] = upload[i].name /\ given'[success'[i]] = upload[i].content
      <4>1. CASE i \in 1 .. Len(success)
        <5>1. success'[i] = success[i] /\ success[i] \in File /\ success[i] # curFile
          BY <1>9, <2>2, <4>1
        <5>2. given'[success[i]] = given[success[i]]
          BY <1>7, <5>1
        <5> QED BY <3>2, <4>1, <5>1, <5>2 DEF IInv, Written
      <4>2. CASE i = Len(success) + 1
        <5>1. Len(fail) = 0
          BY <3>2
        <5>2. Taken = i
          BY <2>2, <2>3, <4>2, <5>1
        <5> QED BY <1>2, <2>2, <2>5, <4>2, <5>2
      <4> QED BY <2>2, <4>1, <4>2
    <3> QED BY <1>4, <2>1, <3>1, <3>2 DEF Written
  <2>7. BetweenAt(upload, Taken + 1, r)
    <3>1. r + 1 \in ContentAt(upload, Taken) .. ContentEnd(upload, Taken)
      BY <1>3 DEF WithinAt
    <3> QED BY <1>2, <1>6, <3>1, BehindContent
  <2>8. PlacedAt(r)'
    BY <1>3, <1>4, <2>1, <2>3, <2>7 DEF PlacedAt
  <2> QED BY <1>8, <2>4, <2>6, <2>8 DEF Placed
<1> QED BY <1>11, <1>12

\* AppendContent fails: the rest of the part is between parts.
LEMMA AppendFailsKeeps ==
  ASSUME IInv, AppendFails
  PROVE  Counted' /\ Judged' /\ Written' /\ Placed'
<1>1. InLoop /\ curFile # NoFile /\ requestBody' = Drop(Len(FileContent), requestBody)
  BY DEF AppendFails
<1>2. /\ status = "" /\ curFile \in File
      /\ Taken <= Len(NamedParts) /\ Taken \in 1 .. Len(upload)
  BY <1>1, ContentStep
<1>3. PICK p, r \in Nat :
              /\ r = p + Len(FileContent)
              /\ FollowsAt(upload, requestBody', input, r)
              /\ WithinAt(upload, Taken, given[curFile] \o FileContent, r)
  BY <1>1, ContentStep
<1>4. /\ upload' = upload /\ input' = input /\ status' = "" /\ pc' = "loop"
      /\ success' = success /\ fail' = Append(fail, curFile) /\ curFile' = NoFile
      /\ given' = [given EXCEPT ![curFile] = << >>]
  BY <1>1, <1>2 DEF AppendFails, ListAsFailed, InLoop, parser
<1>5. NamedParts' = NamedParts
  BY <1>4, SameParts
<1>6. given \in [File -> Seq(Symbol)] /\ fail \in Seq(File) /\ upload \in Seq(PartType)
  BY Types
<1>7. \A g \in File : given'[g] = IF g = curFile THEN << >> ELSE given[g]
  BY <1>4, <1>6
<1>8. Len(fail') = Len(fail) + 1 /\ Len(fail) \in Nat /\ fail' # << >>
  BY <1>2, <1>4, <1>6, OneMore
<1>9. Taken' = Taken + 1 /\ Taken \in Nat \ {0} /\ Len(NamedParts) \in Nat
  <2>1. Len(success) \in Nat /\ Taken \in Nat \ {0} /\ Len(NamedParts) \in Nat
    BY Parts
  <2>2. Taken' = Len(success) + Len(fail') + 1
    BY <1>4 DEF Taken
  <2>3. Taken = Len(success) + Len(fail) + 1
    BY DEF Taken
  <2> QED BY <1>8, <2>1, <2>2, <2>3
<1>10. Counted'
  <2>1. Taken + 1 \in 1 .. Len(NamedParts) + 1
    BY <1>2, OneMoreTaken
  <2> QED BY <1>4, <1>5, <1>9, <2>1 DEF Counted
<1>11. Judged'
  BY <1>4 DEF Judged
<1>12. Written'
  <2>1. \A g \in File : given[g] # << >> => g \in Range(success) \/ g = curFile
    BY DEF IInv, Written
  <2>2. \A g \in File : given'[g] # << >> => g \in Range(success)
    BY <1>7, <2>1
  <2> QED BY <1>4, <1>8, <2>2 DEF Written
<1>13. BetweenAt(upload, Taken + 1, r)
  <2>1. r + 1 \in ContentAt(upload, Taken) .. ContentEnd(upload, Taken)
    BY <1>3 DEF WithinAt
  <2> QED BY <1>2, <1>6, <2>1, BehindContent
<1>14. PlacedAt(r)'
  BY <1>3, <1>4, <1>9, <1>13 DEF PlacedAt
<1> QED BY <1>10, <1>11, <1>12, <1>14 DEF Placed

\* A piece arrives.
LEMMA OnBodyKeeps ==
  ASSUME IInv, NEW n \in Piece, OnBody(n)
  PROVE  Counted' /\ Judged' /\ Written' /\ Placed'
<1>1. Counted' /\ Written' /\ Taken' = Taken
  BY NothingTaken DEF OnBody, files
<1>2. /\ upload' = upload /\ input' = Drop(n, input) /\ status' = status
      /\ curFile' = curFile /\ given' = given /\ success' = success
  BY DEF OnBody, files
<1>3. n \in Nat
  BY UploadBodies
<1>4. upload \in Upload /\ requestBody \in Seq(Symbol) /\ input \in Seq(Symbol)
  BY Types
<1>5. CASE status = ""
  <2>1. requestBody' = requestBody \o SubSeq(input, 1, Min({n, Len(input)})) /\ pc' = "loop"
    BY <1>5 DEF OnBody
  <2>2. PICK p \in Nat : PlacedAt(p)
    BY <1>5 DEF IInv, Placed
  <2>3. FollowsAt(upload, requestBody, input, p)
    BY <2>2 DEF PlacedAt
  <2>4. FollowsAt(upload, requestBody \o SubSeq(input, 1, Min({n, Len(input)})), Drop(n, input), p)
    BY <1>3, <1>4, <2>3, FollowsMore
  <2>5. FollowsAt(upload, requestBody', input', p)
    BY <1>2, <2>1, <2>4
  <2>6. PlacedAt(p)'
    BY <1>1, <1>2, <2>1, <2>2, <2>5 DEF PlacedAt
  <2> QED BY <1>1, <1>2, <1>5, <2>1, <2>6 DEF Judged, Placed
<1>6. CASE status # ""
  <2>1. pc' = pc /\ pc = "read"
    BY <1>6 DEF OnBody
  <2>2. NamedParts' = NamedParts
    BY <1>2, SameParts
  <2> QED BY <1>1, <1>2, <1>6, <2>1, <2>2 DEF IInv, Judged, Placed
<1> QED BY <1>5, <1>6

\* The answer is chosen, and nothing else changes.
LEMMA OnMessageCompleteKeeps ==
  ASSUME IInv, OnMessageComplete
  PROVE  Counted' /\ Judged' /\ Written' /\ Placed'
<1>1. Counted' /\ Written'
  BY NothingTaken DEF OnMessageComplete, files
<1>2. status' # "" /\ pc' = "answered"
  <2>1. Verdict # ""
    BY DEF Verdict
  <2> QED BY <2>1 DEF OnMessageComplete
<1> QED BY <1>1, <1>2 DEF Judged, Placed

\* Every step keeps the invariant.
LEMMA NextInv == IInv /\ [Next]_vars => IInv'
<1> SUFFICES ASSUME IInv, [Next]_vars PROVE IInv'
  OBVIOUS
<1>1. TypeOK'
  BY NextTypes DEF IInv
<1>2. CASE Return
  BY <1>1, <1>2, ReturnKeeps DEF IInv
<1>3. CASE Skip
  BY <1>1, <1>3, SkipKeeps DEF IInv
<1>4. CASE WaitForHead
  BY <1>1, <1>4, WaitForHeadKeeps DEF IInv
<1>5. CASE BadHead
  BY <1>1, <1>5, BadHeadKeeps DEF IInv
<1>6. ASSUME NEW f \in File, BeginPart(f) PROVE IInv'
  BY <1>1, <1>6, BeginPartKeeps DEF IInv
<1>7. ASSUME NEW f \in File, RefusePart(f) PROVE IInv'
  BY <1>1, <1>7, RefusePartKeeps DEF IInv
<1>8. CASE AppendPiece
  BY <1>1, <1>8, AppendPieceKeeps DEF IInv
<1>9. CASE AppendFails
  BY <1>1, <1>9, AppendFailsKeeps DEF IInv
<1>10. ASSUME NEW n \in Piece, OnBody(n) PROVE IInv'
  BY <1>1, <1>10, OnBodyKeeps DEF IInv
<1>11. CASE OnMessageComplete
  BY <1>1, <1>11, OnMessageCompleteKeeps DEF IInv
<1>12. CASE UNCHANGED vars
  <2>1. NamedParts' = NamedParts /\ Taken' = Taken
    BY <1>12, SameParts DEF vars, parser, files, Taken
  <2> QED BY <1>1, <1>12, <2>1
          DEF vars, parser, files, IInv, Counted, Judged, Written, Placed, PlacedAt
<1> QED BY <1>2, <1>3, <1>4, <1>5, <1>6, <1>7, <1>8, <1>9, <1>10, <1>11, <1>12
        DEF Next, Loop, Read

\* Wherever the body is cut, process_upload_body knows where in the body it is: the
\* parts before the current one are in _upload_success_files or in
\* _upload_fail_files, in order, and _request_body holds what the body has next.
THEOREM PlaceCorrect == Spec => []IInv
<1> QED BY InitInv, NextInv, PTL DEF Spec

-----------------------------------------------------------------------------
(* The answer                                                              *)

\* Bodies are cut within what closes them, if they are cut at all.
OnlyClosingIsMissing == Missing \subseteq 0 .. Len(Closing)

\* A file is listed as stored only if AppendContent was given the content of a part
\* of its name, whether or not other parts have failed.
AsSent ==
  \A f \in Range(success) :
    \E i \in DOMAIN upload : upload[i].name = f /\ given[f] = upload[i].content

\* The last piece of a part completes its content.
LEMMA LastPiece ==
  ASSUME IInv, AppendPiece, PartEnds
  PROVE  /\ Taken \in DOMAIN upload /\ curFile = upload[Taken].name
         /\ given'[curFile] = upload[Taken].content
         /\ Range(success') = Range(success) \cup {curFile}
<1>1. InLoop /\ curFile # NoFile /\ requestBody' = Drop(Len(FileContent), requestBody)
      /\ success' = Append(success, curFile)
      /\ given' = [given EXCEPT ![curFile] = @ \o FileContent]
  BY DEF AppendPiece
<1>2. curFile \in File /\ Taken \in 1 .. Len(upload) /\ curFile = upload[Taken].name
  BY <1>1, ContentStep
<1>3. PICK r \in Nat : /\ WithinAt(upload, Taken, given[curFile] \o FileContent, r)
                       /\ r + 1 = ContentEnd(upload, Taken)
  BY <1>1, ContentStep
<1>4. given \in [File -> Seq(Symbol)] /\ success \in Seq(File) /\ upload \in Seq(PartType)
  BY Types
<1> DEFINE c == upload[Taken].content
<1>5. given[curFile] \o FileContent = c
  <2> DEFINE A == ContentAt(upload, Taken)
             E == ContentEnd(upload, Taken)
             m == Len(c)
  <2>1. E = A + m /\ m \in Nat /\ A = Start(upload, Taken) + 9
        /\ Start(upload, Taken) \in Nat /\ c \in Seq(Symbol)
    BY <1>2, <1>4, PartBounds
  <2>2. given[curFile] \o FileContent = SubSeq(c, 1, r + 1 - A)
    BY <1>3 DEF WithinAt
  <2>3. A \in Nat /\ m \in Nat /\ E = A + m /\ r + 1 = E
    BY <1>3, <2>1
  <2> HIDE DEF A, E, m, c
  <2>4. r + 1 - A = m
    BY <2>3
  <2>5. SubSeq(c, 1, m) = c
    BY <2>1, WholeSeq DEF m
  <2> QED BY <2>2, <2>4, <2>5
<1>6. Range(success') = Range(success) \cup {curFile}
  BY <1>1, <1>2, <1>4, OneMore
<1>7. DOMAIN upload = 1 .. Len(upload)
  BY <1>4, LenProperties
<1>8. given'[curFile] = c
  BY <1>1, <1>2, <1>4, <1>5
<1> QED BY <1>2, <1>6, <1>7, <1>8

\* Every step keeps what the files stored were given.
LEMMA NextAsSent == IInv /\ AsSent /\ [Next]_vars => AsSent'
<1> SUFFICES ASSUME IInv, AsSent, [Next]_vars PROVE AsSent'
  OBVIOUS
<1>0. given \in [File -> Seq(Symbol)]
  BY Types
<1>1. CASE UNCHANGED <<upload, success, given>>
  BY <1>1 DEF AsSent
<1>2. ASSUME NEW f \in File, BeginPart(f) PROVE AsSent'
  <2>1. /\ upload' = upload /\ success' = success /\ f \notin Range(success)
        /\ given' = [given EXCEPT ![f] = << >>]
    BY <1>2 DEF BeginPart, Named, parser
  <2>2. \A g \in Range(success) : given'[g] = given[g]
    BY <1>0, <2>1
  <2> QED BY <2>1, <2>2 DEF AsSent
<1>3. CASE AppendPiece \/ AppendFails
  <2>1. curFile \in File /\ curFile \notin Range(success)
    <3>1. InLoop /\ curFile # NoFile
          /\ requestBody' = Drop(Len(FileContent), requestBody)
      BY <1>3 DEF AppendPiece, AppendFails
    <3> QED BY <3>1, ContentStep
  <2>2. upload' = upload /\ \A g \in Range(success) : given'[g] = given[g]
    <3>1. CASE AppendPiece
      BY <1>0, <2>1, <3>1 DEF AppendPiece, parser
    <3>2. CASE AppendFails
      BY <1>0, <2>1, <3>2 DEF AppendFails, parser
    <3> QED BY <1>3, <3>1, <3>2
  <2>3. CASE success' = success
    BY <2>2, <2>3 DEF AsSent
  <2>4. CASE AppendPiece /\ PartEnds
    <3>1. /\ Taken \in DOMAIN upload /\ curFile = upload[Taken].name
          /\ given'[curFile] = upload[Taken].content
          /\ Range(success') = Range(success) \cup {curFile}
      BY <2>4, LastPiece
    <3>2. ASSUME NEW g \in Range(success')
          PROVE  \E i \in DOMAIN upload :
                   upload[i].name = g /\ given'[g] = upload[i].content
      <4>1. CASE g \in Range(success)
        BY <2>2, <4>1 DEF AsSent
      <4>2. CASE g = curFile
        BY <3>1, <4>2
      <4> QED BY <3>1, <4>1, <4>2
    <3>3. (Range(success))' = Range(success')
      BY DEF Range
    <3> QED BY <2>2, <3>2 DEF AsSent
  <2> QED BY <1>3, <2>3, <2>4 DEF AppendPiece, AppendFails, ListAsFailed
<1>4. CASE Return \/ Skip \/ WaitForHead \/ BadHead \/ OnMessageComplete
           \/ (\E n \in Piece : OnBody(n)) \/ UNCHANGED vars
  BY <1>1, <1>4
     DEF Return, Skip, WaitForHead, BadHead, OnMessageComplete, OnBody, vars, files, parser
<1>5. CASE \E f \in File : RefusePart(f)
  BY <1>1, <1>5 DEF RefusePart, Named, parser
<1> QED BY <1>2, <1>3, <1>4, <1>5 DEF Next, Loop, Read

\* Where the body ends, within a content or between two parts, the next part would
\* begin too near for another one to have been sent.
LEMMA NearTheEnd ==
  ASSUME IInv, OnlyClosingIsMissing, pc = "read", Len(input) = 0,
         NEW p \in Nat, PlacedAt(p)
  PROVE  Taken = IF curFile = NoFile THEN Len(upload) + 1 ELSE Len(upload)
<1>1. /\ upload \in Upload /\ upload \in Seq(PartType) /\ Len(upload) \in Nat
      /\ requestBody \in Seq(Symbol)
  BY Types
<1>2. PlacedAt(p)
  OBVIOUS
<1> DEFINE n == Len(upload)
           m == n + 1
           S == Start(upload, Taken)
           T == Start(upload, Taken + 1)
           Z == Start(upload, m)
           W == Len(Body(upload))
           l == Len(requestBody)
<1>3. l \in Nat /\ n \in Nat /\ W = Z + 5 /\ Z \in Nat
  BY <1>1, LenProperties, ClosingSymbols
<1>4. Taken \in 1 .. n + 1
  BY Parts
<1>5. W - 6 <= p + l
  <2>1. W - Len(Closing) <= p + l + Len(input)
    BY <1>2 DEF PlacedAt, FollowsAt, OnlyClosingIsMissing
  <2>2. Len(input) = 0 /\ Len(Closing) = 6
    BY ClosingProperties
  <2> HIDE DEF W, l
  <2>3. p + l + 0 = p + l
    <3>1. l \in Nat
      BY <1>3 DEF l
    <3> QED BY <3>1
  <2> QED BY <2>1, <2>2, <2>3
<1>6. CASE curFile = NoFile
  <2>1. S \in Nat /\ p + 1 <= S /\ l < 9
    <3>1. S \in Nat
      BY <1>1, <1>4, StartProperties
    <3>2. p + 1 <= S
      BY <1>2, <1>6 DEF PlacedAt, BetweenAt
    <3>3. l <= 4 \/ l < 9
      BY <1>2 DEF PlacedAt
    <3>4. l \in Nat
      BY <1>3
    <3> HIDE DEF l
    <3> QED BY <3>1, <3>2, <3>3, <3>4
  <2>2. SUFFICES ASSUME Taken # n + 1 PROVE FALSE
    BY <1>6
  <2>3. Taken \in 1 .. n /\ Taken < m /\ m \in 1 .. n + 1
    <3>1. n \in Nat
      BY <1>3
    <3> QED BY <1>4, <2>2, <3>1
  <2> DEFINE c == Len(upload[Taken].content)
  <2>4. c \in Nat
    BY <1>1, <2>3, PartBounds
  <2>5. S + c + 11 <= Z
    <3>1. PICK k \in 1 .. n + 1, j \in 1 .. n + 1 : k = Taken /\ j = m /\ k < j
      BY <1>4, <2>3
    <3>2. Start(upload, k) + Len(upload[k].content) + 11 <= Start(upload, j)
      BY <1>1, <3>1, StartsIncrease
    <3> QED BY <3>1, <3>2
  <2> HIDE DEF n, m, S, Z, W, l, c
  <2>6. Z - 1 <= p + l
    BY <1>3, <1>5
  <2>7. S + 11 <= Z
    BY <1>3, <2>1, <2>4, <2>5
  <2>8. S + 10 <= p + l
    BY <1>3, <2>1, <2>6, <2>7
  <2> QED BY <1>3, <2>1, <2>8
<1>7. CASE curFile # NoFile
  <2>1. Taken \in 1 .. n
    BY <1>7, Parts DEF IInv, Counted
  <2>2. T \in Nat /\ p + 1 <= T - 2
    <3> DEFINE A == ContentAt(upload, Taken)
               E == ContentEnd(upload, Taken)
    <3>1. T \in Nat /\ E = T - 2 /\ Start(upload, Taken) \in Nat
          /\ A = Start(upload, Taken) + 9
      BY <1>1, <2>1, PartBounds
    <3>2. p + 1 \in A .. E
      BY <1>2, <1>7 DEF PlacedAt, WithinAt
    <3> HIDE DEF A, E, T
    <3> QED BY <3>1, <3>2
  <2>3. l <= 4
    BY <1>2, <1>7 DEF PlacedAt
  <2>4. SUFFICES ASSUME Taken # n PROVE FALSE
    BY <1>7
  <2>5. PICK k \in 1 .. n + 1 : k = Taken + 1 /\ k < m
    <3>1. n \in Nat
      BY <1>3
    <3>2. Taken + 1 \in 1 .. n + 1 /\ Taken + 1 < m
      BY <2>1, <2>4, <3>1
    <3> QED BY <3>2
  <2>6. k \in 1 .. n /\ m \in 1 .. n + 1
    <3>1. n \in Nat
      BY <1>3
    <3> QED BY <2>5, <3>1
  <2> DEFINE c == Len(upload[k].content)
  <2>7. c \in Nat
    BY <1>1, <2>6, PartBounds
  <2>8. T + c + 11 <= Z
    <3>1. PICK j \in 1 .. n + 1 : j = m /\ k < j
      BY <2>5, <2>6
    <3>2. Start(upload, k) + Len(upload[k].content) + 11 <= Start(upload, j)
      BY <1>1, <2>5, <3>1, StartsIncrease
    <3> QED BY <2>5, <3>1, <3>2
  <2> HIDE DEF n, m, S, T, Z, W, l, c
  <2>9. Z - 1 <= p + l
    BY <1>3, <1>5
  <2>10. T + 11 <= Z
    BY <1>3, <2>2, <2>7, <2>8
  <2>11. T + 10 <= p + l
    BY <1>3, <2>2, <2>9, <2>10
  <2> QED BY <1>3, <2>2, <2>3, <2>11
<1> QED BY <1>6, <1>7

\* A list that is not empty has a length that is not 0.
LEMMA NotEmpty ==
  ASSUME NEW s \in Seq(File), s # << >>
  PROVE  Len(s) \in Nat \ {0}
BY LenProperties, EmptySeq

\* A file that is being written when the body ends was given the beginning of the
\* content of the last part.
LEMMA OpenAtTheEnd ==
  ASSUME IInv, OnlyClosingIsMissing, pc = "read", Len(input) = 0,
         NEW p \in Nat, PlacedAt(p), curFile # NoFile, Range(fail) = {}
  PROVE  IsCutShort
<1>1. Taken = Len(upload)
  BY NearTheEnd
<1>2. Taken <= Len(NamedParts) /\ curFile = upload[Taken].name /\ curFile \notin Range(success)
  BY DEF IInv, Counted
<1>3. Taken \in 1 .. Len(upload) /\ upload \in Seq(PartType)
  BY <1>2, Parts, Types
<1>4. PlacedAt(p)
  OBVIOUS
<1> DEFINE c == upload[Taken].content
           A == ContentAt(upload, Taken)
           E == ContentEnd(upload, Taken)
           l == Len(requestBody)
<1>5. p + 1 \in A .. E /\ given[curFile] = SubSeq(c, 1, p + 1 - A) /\ l <= 4
  BY <1>4 DEF PlacedAt, WithinAt
<1>6. E = A + Len(c) /\ Len(c) \in Nat /\ A \in Nat /\ l \in Nat
  <2>1. E = A + Len(c) /\ Len(c) \in Nat /\ A = Start(upload, Taken) + 9
        /\ Start(upload, Taken) \in Nat
    BY <1>3, PartBounds
  <2>2. A \in Nat
    BY <2>1
  <2>3. requestBody \in Seq(Symbol)
    BY Types
  <2> QED BY <2>1, <2>2, <2>3, LenProperties
<1>7. Len(SEP \o Boundary) = 4
  <2> DEFINE X == Symbol
  <2>1. SEP \in Seq(X) /\ Boundary \in Seq(X)
    BY BoundaryProperties, SEPProperties
  <2> HIDE DEF X
  <2>2. Len(SEP \o Boundary) = Len(SEP) + Len(Boundary)
    BY <2>1, ConcatProperties
  <2> QED BY <2>2, BoundaryProperties, SEPProperties
<1>9. Last(upload) = upload[Taken]
  BY <1>1 DEF Last
<1> HIDE DEF A, E, l
<1>10. \E n \in 0 .. Len(c) : given[curFile] = SubSeq(c, 1, n) /\ n + l <= Len(c) + 4
  <2> HIDE DEF c
  <2>1. PICK n \in Int : n = p + 1 - A
    BY <1>6
  <2>2. n \in 0 .. Len(c) /\ n + l <= Len(c) + 4
    BY <1>5, <1>6, <2>1
  <2> QED BY <1>5, <2>1, <2>2
<1> QED BY <1>2, <1>7, <1>9, <1>10 DEF IsCutShort, l

\* What on_message_complete answers is the outcome.
LEMMA VerdictTellsTheOutcome ==
  ASSUME IInv, AsSent, OnlyClosingIsMissing, OnMessageComplete
  PROVE  AnswerTellsTheOutcome'
<1>1. /\ pc = "read" /\ input = << >>
      /\ status' = IF status = "" THEN Verdict ELSE status
      /\ upload' = upload /\ curFile' = curFile /\ success' = success /\ fail' = fail
      /\ given' = given /\ data' = data /\ requestBody' = requestBody
  BY DEF OnMessageComplete, files
<1>2. NamedParts' = NamedParts
  BY <1>1, SameParts
<1>3. success \in Seq(File) /\ fail \in Seq(File)
      /\ Len(success) \in Nat /\ Len(fail) \in Nat /\ Len(upload) \in Nat
      /\ DOMAIN upload = 1 .. Len(upload) /\ DOMAIN success = 1 .. Len(success)
  BY Types, LenProperties
<1>4. IsCutShort' = IsCutShort /\ \A i : IsStored(i)' = IsStored(i)
  BY <1>1 DEF IsCutShort, IsStored, Lost
<1>5. SUFFICES /\ status' = "200" =>
                    \A i \in DOMAIN upload :
                      IsStored(i) \/ (i = Len(upload) /\ IsCutShort)
               /\ status' = "207" =>
                    /\ fail # << >> /\ success # << >>
                    /\ \A f \in Range(success) :
                         \E i \in DOMAIN upload : upload[i].name = f /\ IsStored(i)
               /\ status' = "400" /\ upload = NamedParts => success = << >>
  BY <1>1, <1>2, <1>4 DEF AnswerTellsTheOutcome
<1>6. ASSUME NEW i \in DOMAIN upload, upload[i].name \in Range(success),
             given[upload[i].name] = upload[i].content
      PROVE  IsStored(i)
  BY <1>6 DEF IsStored, Lost
<1>7. CASE status # ""
  <2>1. status = "400" /\ (success = << >> \/ upload # NamedParts)
    BY <1>1, <1>7 DEF IInv, Judged
  <2> QED BY <1>1, <1>7, <2>1
<1>8. CASE status = "" /\ fail = << >>
  <2>1. status' = "200"
    BY <1>1, <1>8 DEF Verdict
  <2>2. Taken = Len(success) + 1 /\ Range(fail) = {}
    <3>0. fail = << >>
      BY <1>8
    <3>1. Len(fail) = 0 /\ DOMAIN fail = {}
      BY <3>0
    <3>2. Range(fail) = {}
      BY <3>1 DEF Range
    <3>3. Taken = Len(success) + Len(fail) + 1 /\ Len(success) \in Nat
      BY <1>3 DEF Taken
    <3> QED BY <3>1, <3>2, <3>3
  <2>3. ASSUME NEW i \in 1 .. Len(success), i \in DOMAIN upload
        PROVE  IsStored(i)
    <3>1. success[i] = upload[i].name /\ given[success[i]] = upload[i].content
      BY <1>8 DEF IInv, Written
    <3>2. success[i] \in Range(success)
      BY <1>3, ElementInRange
    <3> QED BY <1>6, <2>3, <3>1, <3>2
  <2>4. Len(input) = 0
    BY <1>1
  <2>p. PICK p \in Nat : PlacedAt(p)
    BY <1>8 DEF IInv, Placed
  <2>l. Len(success) \in Nat /\ Len(upload) \in Nat
    BY <1>3
  <2>5. CASE curFile = NoFile
    <3>1. Taken = Len(upload) + 1
      BY <1>1, <2>4, <2>5, <2>p, NearTheEnd
    <3>2. Len(success) = Len(upload)
      BY <2>2, <2>l, <3>1
    <3> QED BY <1>3, <2>1, <2>3, <3>2
  <2>6. CASE curFile # NoFile
    <3>1. Taken = Len(upload)
      BY <1>1, <2>4, <2>6, <2>p, NearTheEnd
    <3>2. IsCutShort
      BY <1>1, <2>2, <2>4, <2>6, <2>p, OpenAtTheEnd
    <3>3. \A i \in 1 .. Len(upload) : i = Len(upload) \/ i \in 1 .. Len(success)
      BY <2>2, <2>l, <3>1
    <3> QED BY <1>3, <2>1, <2>3, <3>2, <3>3
  <2> QED BY <2>5, <2>6
<1>9. CASE status = "" /\ fail # << >>
  <2>1. status' = IF success = << >> THEN "400" ELSE "207"
    BY <1>1, <1>9 DEF Verdict
  <2>2. ASSUME NEW f \in Range(success)
        PROVE  \E i \in DOMAIN upload : upload[i].name = f /\ IsStored(i)
    <3>1. PICK i \in DOMAIN upload : upload[i].name = f /\ given[f] = upload[i].content
      BY DEF AsSent
    <3> QED BY <1>6, <2>2, <3>1
  <2> QED BY <1>9, <2>1, <2>2
<1> QED BY <1>7, <1>8, <1>9

\* No other step answers.
LEMMA OnlyCompleteAnswers ==
  ASSUME [Next]_vars, ~ OnMessageComplete, pc' = "answered"
  PROVE  UNCHANGED vars
<1>1. CASE Return \/ Skip \/ WaitForHead \/ BadHead
  BY <1>1 DEF Return, Skip, WaitForHead, BadHead, InLoop, parser
<1>2. CASE \E f \in File : BeginPart(f) \/ RefusePart(f)
  BY <1>2 DEF BeginPart, RefusePart, Named, InLoop, parser
<1>3. CASE AppendPiece \/ AppendFails
  BY <1>3 DEF AppendPiece, AppendFails, InLoop, parser
<1>4. CASE \E n \in Piece : OnBody(n)
  BY <1>4 DEF OnBody
<1> QED BY <1>1, <1>2, <1>3, <1>4 DEF Next, Loop, Read

\* Every step keeps that the answer tells the outcome.
LEMMA NextAnswer ==
  ASSUME OnlyClosingIsMissing
  PROVE  IInv /\ AsSent /\ AnswerTellsTheOutcome /\ [Next]_vars => AnswerTellsTheOutcome'
<1> SUFFICES ASSUME IInv, AsSent, AnswerTellsTheOutcome, [Next]_vars
             PROVE  AnswerTellsTheOutcome'
  OBVIOUS
<1>1. CASE OnMessageComplete
  BY <1>1, VerdictTellsTheOutcome
<1>2. CASE ~ OnMessageComplete /\ pc' = "answered"
  <2>1. UNCHANGED vars
    BY <1>2, OnlyCompleteAnswers
  <2>2. NamedParts' = NamedParts
    BY <2>1, SameParts DEF vars, parser
  <2>3. IsCutShort' = IsCutShort /\ \A i : IsStored(i)' = IsStored(i)
    BY <2>1 DEF vars, parser, files, IsCutShort, IsStored, Lost
  <2> QED BY <2>1, <2>2, <2>3 DEF vars, parser, files, AnswerTellsTheOutcome
<1>3. CASE pc' # "answered"
  BY <1>3 DEF AnswerTellsTheOutcome
<1> QED BY <1>1, <1>2, <1>3

\* The status of a POST /upload is true for every body and every way of cutting it
\* into pieces.  200: every part is stored as sent; if what closes the body is
\* missing, the last one may be in neither list, with the beginning of its content
\* in the file.  207: some parts are not stored, and those listed as stored are as
\* sent.  400 to a body of named parts: none is stored.  A body may lack what closes
\* it, in whole or in part, but no more than that.  AppendContent returning true is
\* not taken for bytes in the file: nothing is said of a file that lost some then.
THEOREM AnswersTellTheOutcome ==
  ASSUME OnlyClosingIsMissing
  PROVE  Spec => []AnswerTellsTheOutcome
<1>1. Init => AnswerTellsTheOutcome /\ AsSent
  <2>1. ASSUME success = << >> PROVE Range(success) = {}
    <3>1. DOMAIN success = {}
      BY <2>1
    <3> QED BY <3>1 DEF Range
  <2> QED BY <2>1 DEF Init, AnswerTellsTheOutcome, AsSent
<1>2. IInv /\ AsSent /\ [Next]_vars => AsSent'
  BY NextAsSent
<1>3. IInv /\ AsSent /\ AnswerTellsTheOutcome /\ [Next]_vars => AnswerTellsTheOutcome'
  BY NextAnswer
<1> QED BY <1>1, <1>2, <1>3, PlaceCorrect, PTL DEF Spec

-----------------------------------------------------------------------------
(* The parts promised                                                      *)

\* Before the first piece nothing is written.
LEMMA InitPromise == Init => Promise!Init
<1> SUFFICES ASSUME Init PROVE Promise!Init
  OBVIOUS
<1>1. NamedParts \in Seq([name : File, content : Seq(Symbol)])
  BY NamedPartsProperties DEF Init, NamedPartType
<1> QED BY <1>1 DEF Init, Promise!Init

\* Name and content of the part that is taken
LEMMA PromisedPart ==
  ASSUME IInv, Taken <= Len(NamedParts)
  PROVE  /\ Promise!Part = Taken /\ Promise!Part <= Len(NamedParts)
         /\ Promise!Name = upload[Taken].name /\ Promise!Content = upload[Taken].content
<1>1. Promise!Part = Taken
  BY DEF Promise!Part, Taken
<1>2. Taken \in 1 .. Len(NamedParts)
  BY Parts
<1>3. NamedParts[Taken] = upload[Taken]
  BY <1>2, Types, NamedPartsProperties
<1> QED BY <1>1, <1>3 DEF Promise!Name, Promise!Content

\* A step of process_upload_body is one of the steps promised for the part that is
\* looked for or written, or changes nothing of what is promised.
LEMMA NextPromise ==
  IInv /\ [Next]_vars => [Promise!Next]_(Promise!vars)
<1> SUFFICES ASSUME IInv, [Next]_vars PROVE Promise!Next \/ UNCHANGED Promise!vars
  OBVIOUS
<1>0. upload' = upload
  BY DEF Next, Loop, Read, Return, Skip, WaitForHead, BadHead, BeginPart, RefusePart, Named,
         AppendPiece, AppendFails, OnBody, OnMessageComplete, vars, parser
<1>p. NamedParts' = NamedParts
  BY <1>0, SameParts
<1>1. CASE UNCHANGED files
  BY <1>1, <1>p DEF files, Promise!vars
<1>2. ASSUME NEW f \in File, BeginPart(f) PROVE Promise!Begin
  <2>1. Named(f) /\ f \notin Range(success) /\ curFile' = f /\ curFile = NoFile
        /\ given' = [given EXCEPT ![f] = << >>] /\ fail' = fail /\ success' = success
    BY <1>2 DEF BeginPart, Named
  <2>2. Taken <= Len(NamedParts) /\ f = upload[Taken].name
    BY <2>1, NamedStep
  <2>3. given[f] = << >> /\ f # NoFile /\ given \in [File -> Seq(Symbol)]
    BY <2>1, Types DEF IInv, Written
  <2>4. given' = given
    BY <2>1, <2>3
  <2>5. Promise!Part <= Len(NamedParts) /\ Promise!Name = f
    BY <2>2, PromisedPart
  <2> QED BY <1>p, <2>1, <2>3, <2>4, <2>5 DEF Promise!Begin, Promise!Stored, Promise!Range, Range
<1>3. ASSUME NEW f \in File, RefusePart(f) PROVE Promise!Refuse
  <2>1. Named(f) /\ curFile' = NoFile /\ curFile = NoFile
        /\ given' = given /\ fail' = Append(fail, f) /\ success' = success
    BY <1>3 DEF RefusePart, Named
  <2>2. Taken <= Len(NamedParts) /\ f = upload[Taken].name
    BY <2>1, NamedStep
  <2>3. Promise!Part <= Len(NamedParts) /\ Promise!Name = f
    BY <2>2, PromisedPart
  <2> QED BY <1>p, <2>1, <2>3 DEF Promise!Refuse
<1>4. CASE AppendPiece
  <2>1. InLoop /\ curFile # NoFile /\ requestBody' = Drop(Len(FileContent), requestBody)
        /\ given' = [given EXCEPT ![curFile] = @ \o FileContent] /\ fail' = fail
        /\ success' = (IF PartEnds THEN Append(success, curFile) ELSE success)
        /\ curFile' = (IF PartEnds THEN NoFile ELSE curFile)
    BY <1>4 DEF AppendPiece
  <2>2. /\ Taken <= Len(NamedParts) /\ Taken \in 1 .. Len(upload)
        /\ curFile = upload[Taken].name
        /\ ~ PartEnds => Len(FileContent) # 0
        /\ Len(FileContent) \in Nat
    BY <2>1, ContentStep
  <2>3. PICK p, r \in Nat :
              /\ r = p + Len(FileContent)
              /\ WithinAt(upload, Taken, given[curFile], p)
              /\ WithinAt(upload, Taken, given[curFile] \o FileContent, r)
              /\ PartEnds => r + 1 = ContentEnd(upload, Taken)
    BY <2>1, ContentStep
  <2> DEFINE c == upload[Taken].content
             A == ContentAt(upload, Taken)
             E == ContentEnd(upload, Taken)
             g == Len(FileContent)
  <2>4. A \in Nat /\ E = A + Len(c) /\ Len(c) \in Nat /\ c \in Seq(Symbol)
    <3>1. Start(upload, Taken) \in Nat /\ A = Start(upload, Taken) + 9
          /\ E = A + Len(c) /\ Len(c) \in Nat /\ c \in Seq(Symbol)
      BY <2>2, Types, PartBounds
    <3>2. A \in Nat
      BY <3>1
    <3> QED BY <3>1, <3>2
  <2>5. /\ p + 1 \in A .. E /\ given[curFile] = SubSeq(c, 1, p + 1 - A)
        /\ r + 1 \in A .. E /\ given[curFile] \o FileContent = SubSeq(c, 1, r + 1 - A)
    BY <2>3 DEF WithinAt
  <2>6. Promise!Name = curFile /\ Promise!Content = c
    BY <2>2, PromisedPart
  <2> HIDE DEF c, A, E, g
  <2>7. PICK m \in Nat, k \in Nat : m = p + 1 - A /\ k = r + 1 - A /\ m <= Len(c) /\ k <= Len(c) /\ k = m + g
    <3>1. p + 1 - A \in Nat /\ r + 1 - A \in Nat /\ p + 1 - A <= Len(c) /\ r + 1 - A <= Len(c)
      BY <2>4, <2>5
    <3>2. r = p + g /\ g \in Nat
      BY <2>2, <2>3 DEF g
    <3>3. r + 1 - A = p + 1 - A + g
      BY <2>4, <3>2
    <3> QED BY <3>1, <3>3
  <2>8. Len(given[curFile]) = m
    <3>1. m \in 0 .. Len(c)
      BY <2>4, <2>7
    <3>2. Len(SubSeq(c, 1, m)) = m
      BY <2>4, <3>1, TakeProperties
    <3> QED BY <2>5, <2>7, <3>2
  <2>9. given' = [given EXCEPT ![curFile] = SubSeq(c, 1, k)]
    BY <2>1, <2>5, <2>7
  <2>10. CASE ~ PartEnds
    <3>1. k \in m + 1 .. Len(c)
      <4>1. g # 0 /\ g \in Nat
        BY <2>2, <2>10 DEF g
      <4> QED BY <2>4, <2>7, <4>1
    <3>2. success' = success /\ curFile' = curFile
      BY <2>1, <2>10
    <3>3. Promise!Write
      BY <1>p, <2>1, <2>6, <2>8, <2>9, <3>1, <3>2 DEF Promise!Write
    <3> QED BY <3>3 DEF Promise!Next
  <2>11. CASE PartEnds
    <3>1. k = Len(c)
      <4>1. r + 1 = A + Len(c)
        BY <2>3, <2>4, <2>11 DEF E
      <4> QED BY <2>4, <2>7, <4>1
    <3>2. SubSeq(c, 1, k) = c
      BY <2>4, <3>1, WholeSeq
    <3>3. success' = Append(success, curFile) /\ curFile' = NoFile
      BY <2>1, <2>11
    <3>4. Promise!Store
      BY <1>p, <2>1, <2>6, <2>9, <3>2, <3>3 DEF Promise!Store
    <3> QED BY <3>4 DEF Promise!Next
  <2> QED BY <2>10, <2>11
<1>5. CASE AppendFails
  <2>1. InLoop /\ curFile # NoFile /\ requestBody' = Drop(Len(FileContent), requestBody)
        /\ given' = [given EXCEPT ![curFile] = << >>] /\ success' = success
        /\ fail' = Append(fail, curFile) /\ curFile' = NoFile
    BY <1>5 DEF AppendFails, ListAsFailed
  <2>2. Taken <= Len(NamedParts) /\ curFile = upload[Taken].name
    BY <2>1, ContentStep
  <2>3. Promise!Name = curFile
    BY <2>2, PromisedPart
  <2>4. Promise!GiveUp
    BY <1>p, <2>1, <2>3 DEF Promise!GiveUp
  <2> QED BY <2>4 DEF Promise!Next
<1>6. CASE Return \/ Skip \/ WaitForHead \/ BadHead \/ OnMessageComplete
           \/ (\E n \in Piece : OnBody(n)) \/ UNCHANGED vars
  BY <1>1, <1>6 DEF Return, Skip, WaitForHead, BadHead, OnMessageComplete, OnBody, vars
<1> QED BY <1>2, <1>3, <1>4, <1>5, <1>6 DEF Next, Loop, Read, Promise!Next

\* process_upload_body keeps the promise of UploadParts: every part is refused, given
\* up or stored in its turn, and a stored part has exactly the bytes that were sent.
THEOREM UploadImplementsParts == Spec => ImplementsParts
<1>1. Init => Promise!Init
  BY InitPromise
<1>2. IInv /\ [Next]_vars => [Promise!Next]_(Promise!vars)
  BY NextPromise
<1> QED BY <1>1, <1>2, PlaceCorrect, PTL DEF Spec, ImplementsParts, Promise!Spec
=============================================================================
