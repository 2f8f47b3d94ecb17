----------------------------- MODULE ByteProofs -----------------------------
(***************************************************************************)
(* Proofs about the bytes of an object: what a PUT has cut into chunks, in *)
(* step with the upload, and what a GET puts together again.               *)
(***************************************************************************)
EXTENDS RoundTrip, SequenceTheorems, WellFoundedInduction, TLAPS

-----------------------------------------------------------------------------
(* Arithmetic.                                                             *)

LEMMA Division ==
  ASSUME NEW a \in Nat, NEW c \in Nat \ {0}
  PROVE  /\ a \div c \in Nat
         /\ (a \div c) * c <= a
         /\ a < (a \div c + 1) * c
  OBVIOUS

LEMMA Product ==
  ASSUME NEW a \in Nat, NEW b \in Nat, NEW c \in Nat \ {0}
  PROVE  /\ a * c \in Nat /\ a <= a * c
         /\ (a + 1) * c = a * c + c
         /\ a < b <=> a * c < b * c
         /\ a <= b => a * c <= b * c
  OBVIOUS

-----------------------------------------------------------------------------
(* Slices of a body.                                                       *)

Bytes == Nat \X Int

LEMMA BodyIs ==
  ASSUME NEW n \in Nat
  PROVE  /\ Body(n) \in Seq(Bytes) /\ Len(Body(n)) = n
         /\ \A j \in 1..n : Body(n)[j] = <<n, j - 1>>
  BY DEF Body, Bytes

LEMMA SliceIs ==
  ASSUME NEW n \in Nat, NEW a \in Nat, NEW b \in Nat, a <= b, b <= n
  PROVE  /\ Slice(n, a, b) \in Seq(Bytes)
         /\ Len(Slice(n, a, b)) = b - a
         /\ \A j \in 1..(b - a) : Slice(n, a, b)[j] = <<n, a + j - 1>>
  <1> DEFINE m == a + 1
             s == SubSeq(Body(n), m, b)
  <1>1. Slice(n, a, b) = s
    BY DEF Slice
  <1>2. m \in Int /\ b \in Int /\ \A i \in m..b : i \in 1..n
    OBVIOUS
  <1>3. \A i \in m..b : Body(n)[i] \in Bytes
    BY <1>2, BodyIs, ElementOfSeq
  <1>4. /\ s \in Seq(Bytes) /\ Len(s) = IF m <= b THEN b - m + 1 ELSE 0
        /\ \A i \in 1..(b - m + 1) : s[i] = Body(n)[m + i - 1]
    <2> HIDE DEF m
    <2> QED
      BY <1>2, <1>3, SubSeqProperties
  <1>5. Len(s) = b - a
    BY <1>4
  <1>6. ASSUME NEW j \in 1..(b - a) PROVE s[j] = <<n, a + j - 1>>
    <2>1. j \in 1..(b - m + 1) /\ m + j - 1 = a + j /\ a + j \in 1..n /\ (a + j) - 1 = a + j - 1
      BY <1>6
    <2>2. s[j] = Body(n)[a + j]
      BY <1>4, <2>1
    <2>3. \A k \in 1..n : Body(n)[k] = <<n, k - 1>>
      BY BodyIs
    <2> HIDE DEF s, m
    <2> QED
      BY <2>1, <2>2, <2>3, Zenon
  <1> HIDE DEF s, m
  <1> QED
    BY <1>1, <1>4, <1>5, <1>6

(* A slice without a byte.                                                 *)
LEMMA SliceNone ==
  ASSUME NEW n \in Nat, NEW a \in Nat, NEW b \in Nat, b <= a
  PROVE  Slice(n, a, b) = <<>>
  BY SubSeqEmpty DEF Slice

(* Adjacent slices make one.                                               *)
LEMMA SliceConcat ==
  ASSUME NEW n \in Nat, NEW a \in Nat, NEW b \in Nat, NEW c \in Nat,
         a <= b, b <= c, c <= n
  PROVE  Slice(n, a, b) \o Slice(n, b, c) = Slice(n, a, c)
  <1> DEFINE s == Slice(n, a, b)
             t == Slice(n, b, c)
             u == Slice(n, a, c)
  <1>1. b <= n /\ a <= c
    OBVIOUS
  <1>2. /\ s \in Seq(Bytes) /\ Len(s) = b - a /\ \A j \in 1..(b - a) : s[j] = <<n, a + j - 1>>
    BY <1>1, SliceIs
  <1>3. /\ t \in Seq(Bytes) /\ Len(t) = c - b /\ \A j \in 1..(c - b) : t[j] = <<n, b + j - 1>>
    BY <1>1, SliceIs
  <1>4. /\ u \in Seq(Bytes) /\ Len(u) = c - a /\ \A j \in 1..(c - a) : u[j] = <<n, a + j - 1>>
    BY <1>1, SliceIs
  <1> HIDE DEF s, t, u
  <1>5. /\ s \o t \in Seq(Bytes) /\ Len(s \o t) = Len(s) + Len(t)
        /\ \A i \in 1..(Len(s) + Len(t)) : (s \o t)[i] = IF i <= Len(s) THEN s[i]
                                                         ELSE t[i - Len(s)]
    BY <1>2, <1>3, ConcatProperties
  <1>6. Len(s \o t) = c - a
    BY <1>2, <1>3, <1>5
  <1>7. ASSUME NEW i \in 1..(c - a) PROVE (s \o t)[i] = u[i]
    <2> DEFINE k == i - (b - a)
    <2>1. i \in 1..(Len(s) + Len(t)) /\ (i <= Len(s) <=> i <= b - a) /\ i - Len(s) = k
      BY <1>2, <1>3, <1>7
    <2>2. (s \o t)[i] = IF i <= b - a THEN s[i] ELSE t[k]
      BY <1>5, <2>1
    <2>3. u[i] = <<n, a + i - 1>>
      BY <1>4, <1>7
    <2>4. CASE i <= b - a
      <3>1. i \in 1..(b - a)
        BY <1>7, <2>4
      <3> QED
        BY <1>2, <2>2, <2>3, <2>4, <3>1, Zenon
    <2>5. CASE ~(i <= b - a)
      <3>1. k \in 1..(c - b) /\ b + k - 1 = a + i - 1
        BY <1>7, <2>5
      <3> HIDE DEF k
      <3> QED
        BY <1>3, <2>2, <2>3, <2>5, <3>1, Zenon
    <2> QED
      BY <2>4, <2>5
  <1>8. s \o t = u
    BY <1>4, <1>5, <1>6, <1>7, SeqEqual
  <1> QED
    BY <1>8 DEF s, t, u

(* A slice of a slice.                                                     *)
CutAt(n, a, b, m, j, x, y) ==
  /\ n \in Nat /\ a \in Nat /\ b \in Nat /\ m \in Nat /\ j \in Nat /\ x \in Nat /\ y \in Nat
  /\ a <= b /\ b <= n /\ 1 <= m /\ m <= j + 1 /\ j <= b - a /\ x + 1 = a + m /\ y = a + j

LEMMA SliceCut ==
  ASSUME NEW n, NEW a, NEW b, NEW m, NEW j, NEW x, NEW y, CutAt(n, a, b, m, j, x, y)
  PROVE  SubSeq(Slice(n, a, b), m, j) = Slice(n, x, y)
  <1> DEFINE s == Slice(n, a, b)
             t == SubSeq(s, m, j)
             u == Slice(n, x, y)
  <1>0. n \in Nat /\ a \in Nat /\ b \in Nat /\ a <= b /\ b <= n
    BY DEF CutAt
  <1>1. /\ s \in Seq(Bytes) /\ Len(s) = b - a /\ \A k \in 1..(b - a) : s[k] = <<n, a + k - 1>>
    BY <1>0, SliceIs
  <1>2. n \in Nat /\ x \in Nat /\ y \in Nat /\ x <= y /\ y <= n
    BY DEF CutAt
  <1>3. /\ u \in Seq(Bytes) /\ Len(u) = y - x /\ \A k \in 1..(y - x) : u[k] = <<n, x + k - 1>>
    BY <1>2, SliceIs
  <1> HIDE DEF s, u
  <1>4. m \in Int /\ j \in Int /\ \A k \in m..j : s[k] \in Bytes
    <2>1. m \in Int /\ j \in Int /\ \A k \in m..j : k \in 1..Len(s)
      BY <1>1 DEF CutAt
    <2> QED
      BY <1>1, <2>1, ElementOfSeq
  <1>5. /\ t \in Seq(Bytes) /\ Len(t) = IF m <= j THEN j - m + 1 ELSE 0
        /\ \A k \in 1..(j - m + 1) : t[k] = s[m + k - 1]
    BY <1>4, SubSeqProperties
  <1>6. Len(t) = y - x
    BY <1>5 DEF CutAt
  <1>7. ASSUME NEW k \in 1..(y - x) PROVE t[k] = u[k]
    <2> DEFINE i == m + k - 1
    <2>1. i \in 1..(b - a) /\ k \in 1..(j - m + 1) /\ a + i - 1 = x + k - 1
      BY <1>7 DEF CutAt
    <2>2. t[k] = s[i]
      BY <1>5, <2>1
    <2> HIDE DEF i
    <2>3. s[i] = <<n, a + i - 1>>
      BY <1>1, <2>1
    <2> QED
      BY <1>3, <1>7, <2>1, <2>2, <2>3
  <1>8. t = u
    <2> HIDE DEF t
    <2> QED
      BY <1>3, <1>5, <1>6, <1>7, SeqEqual
  <1> QED
    BY <1>8 DEF s, u

LEMMA SliceWhole ==
  ASSUME NEW n \in Nat
  PROVE  Slice(n, 0, n) = Body(n)
  <1> DEFINE z == 0
  <1>1. z \in Nat /\ z <= n /\ n <= n /\ n - z = n /\ \A j \in 1..n : z + j - 1 = j - 1
    OBVIOUS
  <1> HIDE DEF z
  <1>2. /\ Slice(n, z, n) \in Seq(Bytes) /\ Len(Slice(n, z, n)) = n - z
        /\ \A j \in 1..(n - z) : Slice(n, z, n)[j] = <<n, z + j - 1>>
    BY <1>1, SliceIs
  <1>3. \A j \in 1..n : Slice(n, z, n)[j] = Body(n)[j]
    BY <1>1, <1>2, BodyIs
  <1>4. Slice(n, z, n) = Body(n)
    BY <1>1, <1>2, <1>3, BodyIs, SeqEqual
  <1> QED
    BY <1>4 DEF z

-----------------------------------------------------------------------------
(* The bytes in the channel.  Induction is from the fact that sets of      *)
(* numbers have least elements.                                            *)

LEMMA Induction ==
  ASSUME NEW P \in SUBSET Nat, 0 \in P, \A n \in P : n + 1 \in P
  PROVE  P = Nat
  <1> DEFINE R == OpToRel(<, Nat)
  <1> SUFFICES ASSUME Nat \ P # {} PROVE FALSE
    OBVIOUS
  <1>1. IsWellFoundedOn(R, Nat)
    BY NatLessThanWellFounded, Zenon DEF OpToRel
  <1>2. \A a, b \in Nat : a < b => <<a, b>> \in R
    BY DEF OpToRel
  <1> HIDE DEF R
  <1>3. PICK x \in Nat \ P : \A y \in Nat \ P : ~(<<y, x>> \in R)
    <2>1. Nat \ P \subseteq Nat
      OBVIOUS
    <2> QED
      BY <1>1, <2>1, WFMin
  <1>4. x # 0 /\ x - 1 \in Nat /\ x - 1 < x
    BY <1>3
  <1>5. x - 1 \in P
    BY <1>2, <1>3, <1>4
  <1> QED
    BY <1>3, <1>5

(* f adds up the prefixes of s, to length n.                               *)
Adds(f, s, n) == f = [i \in 0..n |-> IF i = 0 THEN 0 ELSE f[i - 1] + s[i]]

LEMMA AddsExists ==
  ASSUME NEW s, NEW len \in Nat
  PROVE  \E f : Adds(f, s, len)
  <1> DEFINE P == {n \in Nat : \E f : Adds(f, s, n)}
  <1>1. 0 \in P
    <2> DEFINE f == [i \in 0..0 |-> 0]
    <2>1. Adds(f, s, 0)
      BY DEF Adds
    <2> QED
      BY <2>1
  <1>2. ASSUME NEW n \in P PROVE n + 1 \in P
    <2>1. n \in Nat
      BY <1>2
    <2>2. PICK f : Adds(f, s, n)
      BY <1>2
    <2> DEFINE g == [i \in 0..(n + 1) |-> IF i = 0 THEN 0 ELSE f[i - 1] + s[i]]
               h == [i \in 0..(n + 1) |-> IF i = 0 THEN 0 ELSE g[i - 1] + s[i]]
    <2>3. ASSUME NEW i \in 0..n PROVE f[i] = g[i]
      <3>1. f[i] = IF i = 0 THEN 0 ELSE f[i - 1] + s[i]
        BY <2>2 DEF Adds
      <3>2. i \in 0..(n + 1)
        BY <2>1
      <3> QED
        BY <3>1, <3>2
    <2>4. ASSUME NEW i \in 0..(n + 1), i # 0 PROVE f[i - 1] = g[i - 1]
      <3>1. i - 1 \in 0..n
        BY <2>1, <2>4
      <3> QED
        BY <2>3, <3>1
    <2>5. g = h
      <3>1. \A i \in 0..(n + 1) : (IF i = 0 THEN 0 ELSE f[i - 1] + s[i])
                                  = IF i = 0 THEN 0 ELSE g[i - 1] + s[i]
        <4> HIDE DEF g
        <4> QED
          BY <2>4
      <3> QED
        BY <3>1, Zenon
    <2>6. Adds(g, s, n + 1)
      <3> HIDE DEF g
      <3> QED
        BY <2>5 DEF Adds
    <2> HIDE DEF g
    <2> QED
      BY <2>1, <2>6
  <1>3. P = Nat
    <2> HIDE DEF P
    <2>1. P \in SUBSET Nat
      BY DEF P
    <2> QED
      BY <1>1, <1>2, <2>1, Induction
  <1> QED
    BY <1>3

(* Sum is what every such function has at the end.                         *)
LEMMA SumIs ==
  ASSUME NEW s \in Seq(Nat), NEW f, Adds(f, s, Len(s))
  PROVE  /\ Sum(s) = f[Len(s)]
         /\ \A i \in 0..Len(s) : f[i] \in Nat
         /\ f[0] = 0
         /\ \A i \in 1..Len(s) : f[i] = f[i - 1] + s[i]
  <1> DEFINE g == CHOOSE h : h = [i \in 0..Len(s) |-> IF i = 0 THEN 0 ELSE h[i - 1] + s[i]]
             P == {i \in Nat : i <= Len(s) => f[i] = g[i] /\ f[i] \in Nat}
  <1>1. Len(s) \in Nat /\ \A i \in 1..Len(s) : s[i] \in Nat
    OBVIOUS
  <1>2. Sum(s) = g[Len(s)]
    BY DEF Sum
  <1>3. Adds(g, s, Len(s))
    BY DEF Adds
  <1> HIDE DEF g
  <1>4. ASSUME NEW h, Adds(h, s, Len(s))
        PROVE  h[0] = 0 /\ \A i \in 1..Len(s) : h[i] = h[i - 1] + s[i]
    <2>1. \A i \in 0..Len(s) : h[i] = IF i = 0 THEN 0 ELSE h[i - 1] + s[i]
      BY <1>4 DEF Adds
    <2>2. 0 \in 0..Len(s) /\ \A i \in 1..Len(s) : i \in 0..Len(s) /\ i # 0
      BY <1>1
    <2> QED
      BY <2>1, <2>2
  <1>5. 0 \in P
    BY <1>3, <1>4
  <1>6. ASSUME NEW n \in P PROVE n + 1 \in P
    <2>1. CASE n + 1 <= Len(s)
      <3>1. n \in Nat /\ n + 1 \in 1..Len(s) /\ (n + 1) - 1 = n /\ n <= Len(s)
        BY <1>1, <1>6, <2>1
      <3>2. f[n] = g[n] /\ f[n] \in Nat
        BY <1>6, <3>1
      <3>3. f[n + 1] = f[n] + s[n + 1] /\ g[n + 1] = g[n] + s[n + 1]
        BY <1>3, <1>4, <3>1
      <3> QED
        BY <1>1, <3>1, <3>2, <3>3
    <2> QED
      BY <1>6, <2>1
  <1>7. P = Nat
    <2> HIDE DEF P
    <2>1. P \in SUBSET Nat
      BY DEF P
    <2> QED
      BY <1>5, <1>6, <2>1, Induction
  <1>8. \A i \in 0..Len(s) : f[i] = g[i] /\ f[i] \in Nat
    BY <1>1, <1>7
  <1> QED
    BY <1>1, <1>2, <1>4, <1>8

LEMMA SumEmpty == Sum(<<>>) = 0 /\ \A s \in Seq(Nat) : Sum(s) \in Nat
  <1>1. ASSUME NEW s \in Seq(Nat) PROVE Sum(s) \in Nat /\ (s = <<>> => Sum(s) = 0)
    <2> DEFINE n == Len(s)
    <2>0. n \in Nat
      OBVIOUS
    <2> HIDE DEF n
    <2>1. PICK f : Adds(f, s, n)
      BY <2>0, AddsExists
    <2> USE DEF n
    <2>2. Sum(s) = f[Len(s)] /\ f[0] = 0 /\ \A i \in 0..Len(s) : f[i] \in Nat
      BY <2>1, SumIs
    <2> QED
      BY <2>2
  <1>2. <<>> \in Seq(Nat)
    OBVIOUS
  <1> QED
    BY <1>1, <1>2

(* The sender puts a piece at the end of the channel.                      *)
LEMMA SumAppend ==
  ASSUME NEW s \in Seq(Nat), NEW k \in Nat
  PROVE  Sum(Append(s, k)) = Sum(s) + k
  <1> DEFINE t == Append(s, k)
             n == Len(s)
  <1>1. n \in Nat /\ t \in Seq(Nat) /\ Len(t) = n + 1 /\ t[n + 1] = k
    OBVIOUS
  <1>2. \A i \in 1..n : t[i] = s[i]
    OBVIOUS
  <1>3. PICK f : Adds(f, s, n)
    BY <1>1, AddsExists
  <1> HIDE DEF t
  <1>4. PICK g : Adds(g, t, Len(t))
    <2>1. Len(t) \in Nat
      BY <1>1
    <2> QED
      BY <2>1, AddsExists
  <1>5. /\ Sum(s) = f[n] /\ f[0] = 0 /\ \A i \in 1..n : f[i] = f[i - 1] + s[i]
        /\ \A i \in 0..n : f[i] \in Nat
    BY <1>3, SumIs
  <1>6. /\ Sum(t) = g[n + 1] /\ g[0] = 0 /\ \A i \in 1..(n + 1) : g[i] = g[i - 1] + t[i]
    <2>1. /\ Sum(t) = g[Len(t)] /\ g[0] = 0 /\ \A i \in 1..Len(t) : g[i] = g[i - 1] + t[i]
      BY <1>1, <1>4, SumIs
    <2> QED
      BY <1>1, <2>1
  <1> HIDE DEF n
  <1> DEFINE P == {i \in Nat : i <= n => f[i] = g[i]}
  <1>7. 0 \in P
    BY <1>5, <1>6
  <1>8. ASSUME NEW i \in P PROVE i + 1 \in P
    <2>1. CASE i + 1 <= n
      <3>1. i \in Nat /\ i + 1 \in 1..n /\ i + 1 \in 1..(n + 1) /\ (i + 1) - 1 = i /\ i <= n
        BY <1>1, <1>8, <2>1
      <3>2. f[i + 1] = f[i] + s[i + 1] /\ g[i + 1] = g[i] + t[i + 1] /\ f[i] = g[i]
        BY <1>5, <1>6, <1>8, <3>1
      <3> QED
        BY <1>2, <3>1, <3>2
    <2> QED
      BY <1>8, <2>1
  <1>9. P = Nat
    <2> HIDE DEF P
    <2>1. P \in SUBSET Nat
      BY DEF P
    <2> QED
      BY <1>7, <1>8, <2>1, Induction
  <1>10. f[n] = g[n]
    BY <1>1, <1>9
  <1>11. g[n + 1] = g[n] + k
    <2>1. n + 1 \in 1..(n + 1) /\ (n + 1) - 1 = n
      BY <1>1
    <2> QED
      BY <1>1, <1>6, <2>1
  <1>12. Sum(t) = Sum(s) + k
    BY <1>5, <1>6, <1>10, <1>11
  <1> QED
    BY <1>12 DEF t

(* The upload task takes the first piece.                                  *)
LEMMA SumTail ==
  ASSUME NEW s \in Seq(Nat), s # <<>>
  PROVE  Sum(s) = Head(s) + Sum(Tail(s))
  <1> DEFINE t == Tail(s)
             n == Len(t)
             k == Head(s)
  <1>1. n \in Nat /\ t \in Seq(Nat) /\ Len(s) = n + 1 /\ s[1] = k /\ k \in Nat
    OBVIOUS
  <1>2. \A i \in 1..n : t[i] = s[i + 1] /\ t[i] \in Nat
    OBVIOUS
  <1>3. PICK f : Adds(f, t, n)
    BY <1>1, AddsExists
  <1>4. PICK g : Adds(g, s, Len(s))
    <2>1. Len(s) \in Nat
      OBVIOUS
    <2> QED
      BY <2>1, AddsExists
  <1> HIDE DEF t, k
  <1>5. /\ Sum(t) = f[n] /\ f[0] = 0 /\ \A i \in 1..n : f[i] = f[i - 1] + t[i]
        /\ \A i \in 0..n : f[i] \in Nat
    BY <1>1, <1>3, SumIs
  <1> HIDE DEF n
  <1>6. /\ Sum(s) = g[n + 1] /\ g[0] = 0 /\ \A i \in 1..(n + 1) : g[i] = g[i - 1] + s[i]
    <2>1. /\ Sum(s) = g[Len(s)] /\ g[0] = 0 /\ \A i \in 1..Len(s) : g[i] = g[i - 1] + s[i]
      BY <1>4, SumIs
    <2> QED
      BY <1>1, <2>1
  <1> DEFINE P == {i \in Nat : i <= n => g[i + 1] = k + f[i]}
  <1>7. 0 \in P
    <2>1. 1 \in 1..(n + 1) /\ 1 - 1 = 0 /\ 0 + 1 = 1
      BY <1>1
    <2>2. g[1] = g[0] + s[1]
      BY <1>6, <2>1
    <2> QED
      BY <1>1, <1>5, <1>6, <2>1, <2>2
  <1>8. ASSUME NEW i \in P PROVE i + 1 \in P
    <2>1. CASE i + 1 <= n
      <3> DEFINE j == i + 1
      <3>1. i \in Nat /\ j \in 1..n /\ j + 1 \in 1..(n + 1) /\ (j + 1) - 1 = j /\ j - 1 = i
            /\ i <= n /\ i \in 0..n /\ j \in Nat
        BY <1>1, <1>8, <2>1
      <3>2. g[j] = k + f[i]
        BY <1>8, <3>1
      <3> HIDE DEF j
      <3>3. g[j + 1] = g[j] + s[j + 1] /\ f[j] = f[i] + t[j] /\ t[j] = s[j + 1] /\ t[j] \in Nat
        BY <1>2, <1>5, <1>6, <3>1
      <3>4. g[j + 1] = k + f[j]
        <4>1. f[i] \in Nat /\ k \in Nat /\ t[j] \in Nat
          BY <1>1, <1>5, <3>1, <3>3
        <4>2. g[j + 1] = (k + f[i]) + t[j] /\ f[j] = f[i] + t[j]
          BY <3>2, <3>3, Zenon
        <4> QED
          BY <4>1, <4>2
      <3>5. j \in P
        BY <3>1, <3>4
      <3> QED
        BY <3>5 DEF j
    <2> QED
      BY <1>8, <2>1
  <1>9. P = Nat
    <2> HIDE DEF P
    <2>1. P \in SUBSET Nat
      BY DEF P
    <2> QED
      BY <1>7, <1>8, <2>1, Induction
  <1>10. g[n + 1] = k + f[n]
    BY <1>1, <1>9
  <1> QED
    BY <1>5, <1>6, <1>10 DEF t, k

-----------------------------------------------------------------------------
(* Ranges.                                                                 *)

(* What a header asks for is start..end-1, what is served.                 *)
IsRange(h, size, start, end) ==
  /\ start \in Nat /\ end \in Nat /\ start <= end /\ end <= size
  /\ ~Overflows(h) =>
       IF Asked(h, size) = {} THEN start = end \/ (start = 0 /\ end = size)
                              ELSE Asked(h, size) = start..(end - 1)

LEMMA Parsed ==
  ASSUME NEW h, NEW size \in Nat, NEW s \in Nat, NEW e \in Nat,
         ParseRange(h, size) = [start |-> s, end |-> e]
  PROVE  Wanted(h, size).start = s /\ Wanted(h, size).end = e
  BY NoneAssumption DEF Wanted

LEMMA RangeOfSpan ==
  ASSUME NEW s \in 0..MaxNumber, NEW e \in 0..MaxNumber, NEW size \in Nat
  PROVE  LET h == Span(s, e) IN
         IsRange(h, size, Wanted(h, size).start, Wanted(h, size).end)
  <1> DEFINE h == Span(s, e)
             wrapped == (e + 1) % U64
             end == Least(wrapped, size)
  <1>1. s \in Nat /\ e \in Nat /\ e < U64 /\ U64 \in Nat \ {0}
    BY SizesAssumption, WidthAssumption
  <1>2. wrapped \in Nat /\ (e # U64 - 1 => wrapped = e + 1)
    BY <1>1
  <1>3. h.kind = "span" /\ h.s = s /\ h.e = e
    BY DEF Span
  <1>4. ParseRange(h, size) = IF s > end THEN None ELSE [start |-> s, end |-> end]
    BY <1>3 DEF ParseRange
  <1>5. Asked(h, size) = {j \in 0..(size - 1) : s <= j /\ j <= e}
    BY <1>3 DEF Asked
  <1>6. ~Overflows(h) => e # U64 - 1
    BY <1>3 DEF Overflows
  <1> HIDE DEF h, wrapped
  <1>7. end \in Nat /\ end <= size /\ (e # U64 - 1 => end = IF e + 1 <= size THEN e + 1 ELSE size)
    BY <1>1, <1>2 DEF Least
  <1> HIDE DEF end
  <1>8. CASE s > end
    <2>1. Wanted(h, size).start = 0 /\ Wanted(h, size).end = size
      BY <1>4, <1>8 DEF Wanted
    <2>2. e # U64 - 1 => Asked(h, size) = {}
      BY <1>1, <1>5, <1>7, <1>8
    <2> QED
      BY <1>6, <2>1, <2>2 DEF IsRange, h
  <1>9. CASE ~(s > end)
    <2>1. Wanted(h, size).start = s /\ Wanted(h, size).end = end
      BY <1>1, <1>4, <1>7, <1>9, Parsed
    <2>2. e # U64 - 1 => Asked(h, size) = s..(end - 1)
      BY <1>1, <1>5, <1>7, <1>9
    <2>3. s <= end
      BY <1>1, <1>7, <1>9
    <2>4. s..(end - 1) = {} => s = end
      BY <1>1, <1>7, <2>3
    <2>5. IsRange(h, size, s, end)
      BY <1>1, <1>6, <1>7, <2>2, <2>3, <2>4 DEF IsRange
    <2> QED
      BY <2>1, <2>5 DEF h
  <1> QED
    BY <1>8, <1>9

LEMMA RangeOfHeader ==
  ASSUME NEW h \in Headers, NEW size \in Nat
  PROVE  IsRange(h, size, Wanted(h, size).start, Wanted(h, size).end)
  <1>1. CASE h = NoRange
    <2>1. h.kind = "none"
      BY <1>1 DEF NoRange
    <2>2. Wanted(h, size).start = 0 /\ Wanted(h, size).end = size
      BY <2>1 DEF Wanted, ParseRange
    <2>3. Asked(h, size) = 0..(size - 1)
      BY <2>1 DEF Asked
    <2> QED
      BY <2>2, <2>3 DEF IsRange
  <1>2. ASSUME NEW n \in 0..MaxNumber, h = Suffix(n)
        PROVE  IsRange(h, size, Wanted(h, size).start, Wanted(h, size).end)
    <2> DEFINE start == Greatest(size - n, 0)
    <2>1. h.kind = "suffix" /\ h.e = n /\ n \in Nat
      BY <1>2, SizesAssumption DEF Suffix
    <2>2. ParseRange(h, size) = [start |-> start, end |-> size]
      BY <2>1 DEF ParseRange
    <2>3. start \in Nat /\ start <= size /\ start = IF size - n >= 0 THEN size - n ELSE 0
      BY <2>1 DEF Greatest
    <2> HIDE DEF start
    <2>4. Wanted(h, size).start = start /\ Wanted(h, size).end = size
      BY <2>2, <2>3, Parsed
    <2>5. Asked(h, size) = {j \in 0..(size - 1) : j >= size - n}
      BY <2>1 DEF Asked
    <2>6. Asked(h, size) = start..(size - 1)
      BY <2>1, <2>3, <2>5
    <2>7. start..(size - 1) = {} => start = size
      BY <2>3
    <2> QED
      BY <2>3, <2>4, <2>6, <2>7 DEF IsRange
  <1>3. ASSUME NEW n \in 0..MaxNumber, h = From(n)
        PROVE  IsRange(h, size, Wanted(h, size).start, Wanted(h, size).end)
    <2> DEFINE start == Least(n, size)
    <2>1. h.kind = "from" /\ h.s = n /\ n \in Nat
      BY <1>3, SizesAssumption DEF From
    <2>2. ParseRange(h, size) = [start |-> start, end |-> size]
      BY <2>1 DEF ParseRange
    <2>3. start \in Nat /\ start <= size /\ start = IF n <= size THEN n ELSE size
      BY <2>1 DEF Least
    <2> HIDE DEF start
    <2>4. Wanted(h, size).start = start /\ Wanted(h, size).end = size
      BY <2>2, <2>3, Parsed
    <2>5. Asked(h, size) = {j \in 0..(size - 1) : j >= n}
      BY <2>1 DEF Asked
    <2>6. Asked(h, size) = start..(size - 1)
      BY <2>1, <2>3, <2>5
    <2>7. start..(size - 1) = {} => start = size
      BY <2>3
    <2> QED
      BY <2>3, <2>4, <2>6, <2>7 DEF IsRange
  <1>4. ASSUME NEW s \in 0..MaxNumber, NEW e \in 0..MaxNumber, h = Span(s, e)
        PROVE  IsRange(h, size, Wanted(h, size).start, Wanted(h, size).end)
    BY <1>4, RangeOfSpan
  <1> QED
    BY <1>1, <1>2, <1>3, <1>4 DEF Headers

(* The bytes of a range as it is served are those of the reference.        *)
LEMMA Referenced ==
  ASSUME NEW h, upstream \in Nat, NEW start, NEW end,
         IsRange(h, upstream, start, end), ~Overflows(h)
  PROVE  Slice(upstream, start, end) \in IF Asked(h, upstream) # {} THEN {Reference(h)}
                                         ELSE {<<>>, Body(upstream)}
  <1> DEFINE asked == Asked(h, upstream)
             low == CHOOSE j \in asked : \A k \in asked : j <= k
             high == CHOOSE j \in asked : \A k \in asked : k <= j
  <1>1. /\ start \in Nat /\ end \in Nat /\ start <= end /\ end <= upstream
        /\ IF asked = {} THEN start = end \/ (start = 0 /\ end = upstream)
                         ELSE asked = start..(end - 1)
    BY DEF IsRange
  <1>2. CASE asked = {}
    BY <1>1, <1>2, SliceNone, SliceWhole
  <1>3. CASE asked # {}
    <2>1. asked = start..(end - 1) /\ start < end
      BY <1>1, <1>3
    <2>2. Reference(h) = Slice(upstream, low, 1 + high)
      BY <1>3 DEF Reference
    <2> HIDE DEF asked
    <2>3. low = start
      <3>1. start \in asked /\ \A k \in asked : start <= k
        BY <1>1, <2>1
      <3>2. low \in asked /\ \A k \in asked : low <= k
        BY <3>1
      <3>3. asked \subseteq Int
        BY <2>1
      <3> HIDE DEF low
      <3> QED
        BY <3>1, <3>2, <3>3
    <2>4. high = end - 1
      <3> DEFINE last == end - 1
      <3>1. last \in asked /\ \A k \in asked : k <= last
        BY <1>1, <2>1
      <3> HIDE DEF last
      <3>2. high \in asked /\ \A k \in asked : k <= high
        BY <3>1
      <3>3. asked \subseteq Int
        BY <2>1
      <3> HIDE DEF high
      <3>4. high = last
        BY <3>1, <3>2, <3>3
      <3> QED
        BY <3>4 DEF last
    <2> HIDE DEF low, high
    <2>5. 1 + high = end
      BY <1>1, <2>4
    <2>6. Slice(upstream, start, end) = Reference(h)
      BY <2>2, <2>3, <2>5
    <2> QED
      BY <1>3, <2>6 DEF asked
  <1> QED
    BY <1>2, <1>3

(* The chunks that a range touches: in order, and no more than its bytes.  *)
LEMMA ChunksOf ==
  ASSUME NEW C \in Nat \ {0}, NEW start \in Nat, NEW end \in Nat, start < end
  PROVE  LET first == FirstChunk(start, C)
             last == LastChunk(end, C)
         IN  /\ first \in Nat /\ last \in Nat /\ first <= last /\ last < end
             /\ first * C <= start
  <1> DEFINE first == FirstChunk(start, C)
             m == end - 1
             last == LastChunk(end, C)
  <1>1. m \in Nat /\ start <= m /\ m < end
    OBVIOUS
  <1>2. last = m \div C
    BY DEF LastChunk
  <1>3. first \in Nat /\ first * C <= start
    BY Division DEF FirstChunk
  <1> HIDE DEF m, last, first
  <1>4. last \in Nat /\ last * C <= m /\ m < (last + 1) * C
    BY <1>1, <1>2, Division
  <1> DEFINE b == last + 1
             x == first * C
             y == b * C
             z == last * C
  <1>5. b \in Nat /\ x \in Nat /\ y \in Nat /\ z \in Nat /\ last <= z /\ (first < b <=> x < y)
    BY <1>3, <1>4, Product
  <1>6. x <= start /\ m < y /\ z <= m
    BY <1>3, <1>4
  <1> HIDE DEF x, y, z
  <1>7. first < b /\ last < end
    BY <1>1, <1>4, <1>5, <1>6
  <1>8. first <= last
    BY <1>3, <1>4, <1>7
  <1> QED
    BY <1>3, <1>4, <1>7, <1>8 DEF first, last

(* The pieces that are read from the chunks of a range tile it: piece i    *)
(* goes from where those before it end, lies within chunk i, and ends      *)
(* where the next begins or, the last one, at the end of the range.        *)
LEMMA Tiling ==
  ASSUME NEW C \in Nat \ {0}, NEW size \in Nat, NEW start \in Nat, NEW end \in Nat,
         start < end, end <= size, NEW i \in Nat,
         FirstChunk(start, C) <= i, i <= LastChunk(end, C)
  PROVE  LET p == Piece(i, start, end, size, C)
             from == i * C + p.offset
             to == IF i = LastChunk(end, C) THEN end ELSE (i + 1) * C
         IN  /\ p.offset \in Nat /\ p.length \in Nat /\ i * C \in Nat /\ from \in Nat
             /\ from = Greatest(start, i * C) /\ from + p.length = to
             /\ from < to /\ to <= end /\ to \in Nat /\ start <= from
             /\ i # LastChunk(end, C) => to = Greatest(start, (i + 1) * C)
             /\ p.offset + p.length <= Least((i + 1) * C, size) - i * C
             /\ i * C <= Least((i + 1) * C, size) /\ Least((i + 1) * C, size) \in Nat
  <1> DEFINE first == FirstChunk(start, C)
             last == LastChunk(end, C)
             a == i * C
             b == (i + 1) * C
  <1>1. first \in Nat /\ last \in Nat
        /\ first * C <= start /\ start < (first + 1) * C
        /\ last * C <= end - 1 /\ end - 1 < (last + 1) * C
    BY Division DEF FirstChunk, LastChunk
  <1> HIDE DEF first, last
  <1>2. first <= i /\ i <= last
    BY DEF first, last
  <1>3. /\ a \in Nat /\ b \in Nat /\ b = a + C /\ a <= last * C /\ (first + 1) * C <= b
        /\ (i # last => b <= last * C) /\ last * C \in Nat /\ (first + 1) * C \in Nat
    BY <1>1, <1>2, Product
  <1>4. a < end /\ start < b /\ (i # last => b < end) /\ (i = last => end <= b)
    BY <1>1, <1>2, <1>3
  <1> DEFINE p == Piece(i, start, end, size, C)
  <1>5. /\ p.offset = Greatest(start, a) - a
        /\ p.length = Least(end, Least(b, size)) - Greatest(start, a)
    BY DEF Piece
  <1> HIDE DEF a, b, p
  <1>6. Greatest(start, a) = IF start >= a THEN start ELSE a
    BY DEF Greatest
  <1>7. Least(end, Least(b, size)) = IF end <= b THEN end ELSE b
    BY <1>3 DEF Least
  <1>8. Least(b, size) = IF b <= size THEN b ELSE size
    BY DEF Least
  <1>9. Greatest(start, b) = b
    BY <1>3, <1>4 DEF Greatest
  <1> DEFINE g == Greatest(start, a)
             to == IF i = last THEN end ELSE b
  <1>10. g \in Nat /\ a <= g /\ start <= g /\ g < end /\ g < b
    BY <1>3, <1>4, <1>6
  <1>11. Least(end, Least(b, size)) = to /\ to \in Nat /\ to <= end /\ g < to /\ to <= Least(b, size)
    BY <1>3, <1>4, <1>7, <1>8, <1>10
  <1>12. a + p.offset = g /\ p.offset \in Nat /\ p.length = to - g
    BY <1>3, <1>5, <1>10, <1>11
  <1>13. a <= Least(b, size) /\ Least(b, size) \in Nat
    BY <1>3, <1>4, <1>8
  <1> HIDE DEF g, to
  <1>14. /\ p.length \in Nat /\ g + p.length = to
         /\ p.offset + p.length <= Least(b, size) - a
    BY <1>3, <1>10, <1>11, <1>12, <1>13
  <1>15. /\ p.offset \in Nat /\ p.length \in Nat /\ a \in Nat /\ a + p.offset \in Nat
         /\ a + p.offset = Greatest(start, a) /\ a + p.offset + p.length = to
         /\ a + p.offset < to /\ to <= end /\ to \in Nat /\ start <= a + p.offset
         /\ i # last => to = Greatest(start, b)
         /\ p.offset + p.length <= Least(b, size) - a
         /\ a <= Least(b, size) /\ Least(b, size) \in Nat
    BY <1>3, <1>9, <1>10, <1>11, <1>12, <1>13, <1>14 DEF g, to
  <1> QED
    BY <1>15 DEF a, b, p, to, last

-----------------------------------------------------------------------------
(* The counters of requests, for any configuration.                        *)

Labels == PutLabels \cup GetLabels \cup Ends \cup {"idle"}
Cutting == {"recv", "send", "drain"}

Requests ==
  [pc : Labels, put : BOOLEAN, n : Nat, decl : Nat, got : Nat, piece : Nat,
   buf : Seq(Bytes), idx : Nat, range : Headers, start : Nat, end : Nat,
   size : Nat, body : Seq(Bytes)]

Uploads == [st : {"none", "run", "ok", "fail"}, got : Nat, n : Nat, decl : Nat]
Metas == [length : BodySizes, etag : BodySizes]

StoreTyped ==
  /\ csize \in ChunkSizes
  /\ upstream \in BodySizes \cup {None}
  /\ meta \in Metas \cup {None}
  /\ rows \subseteq Indices
  /\ files \in [Indices -> Seq(Bytes) \cup {None}]

TaskTyped ==
  /\ chan \in Seq(Nat) /\ Len(chan) <= Capacity
  /\ upl \in Uploads
  /\ upl.st = "run" => upl.decl \in BodySizes

OpTyped ==
  /\ op \in Requests
  /\ op.idx <= MaxBody + 1
  /\ op.got <= op.n

(* A PUT: what it has received and not yet handed on is one piece; what it *)
(* has handed on is in whole chunks, and in the buffer.                    *)
PutCounts ==
  /\ op.pc \in PutLabels => op.put /\ op.n \in BodySizes /\ op.decl \in BodySizes
  /\ op.pc \in Cutting => /\ op.piece <= op.got
                          /\ op.idx * csize + Len(op.buf) = op.got - op.piece
  /\ op.pc \in {"recv", "drain"} => op.piece = 0
  /\ op.pc \in {"recv", "send"} => Len(op.buf) < csize

(* A GET: the range is the header's, of the object as the upstream has it. *)
GetCounts ==
  /\ op.pc \in GetLabels \/ (op.pc = "ok" /\ ~op.put) =>
       /\ ~op.put /\ upl.st # "run"
       /\ upstream \in BodySizes /\ op.size = upstream
       /\ IsRange(op.range, upstream, op.start, op.end)
  /\ op.pc = "stream" => /\ op.start < op.end
                         /\ FirstChunk(op.start, csize) <= op.idx
                         /\ op.idx <= LastChunk(op.end, csize)

Counts == StoreTyped /\ TaskTyped /\ OpTyped /\ PutCounts /\ GetCounts

WorkerTyped ==
  /\ evict \in [todo : SUBSET Indices, cur : SUBSET Indices]
  /\ taken \subseteq Indices

-----------------------------------------------------------------------------
(* The bytes, when the chunk size stays and PUTs state their length.       *)

Chunk(n, i) == Slice(n, i * csize, Least((i + 1) * csize, n))

(* Every row is of the recorded object, and its file has that chunk or has *)
(* gone; before the metadata is recorded there are rows only of a PUT that *)
(* registers them.                                                         *)
RowsOK ==
  /\ meta = None /\ op.pc # "register" => rows = {}
  /\ meta # None => /\ meta.etag = meta.length
                    /\ rows \subseteq 0..(ChunkCount(meta.length, csize) - 1)
                    /\ \A i \in rows : files[i] \in {None, Chunk(meta.length, i)}

(* The file of chunk i is as the PUT has written it, or the worker has     *)
(* deleted it since the PUT began.                                         *)
Written(i, bytes) == files[i] = bytes \/ (files[i] = None /\ i \in taken)

PutOK ==
  /\ op.pc \in PutLabels =>
       /\ meta = None /\ op.decl = op.n /\ upl.decl = op.decl
       /\ upl.st # "none" /\ (upl.st = "ok" => upstream = op.n)
  /\ op.pc \in Cutting =>
       /\ op.buf = Slice(op.n, op.idx * csize, op.got - op.piece)
       /\ \A i \in 0..(op.idx - 1) : Written(i, Slice(op.n, i * csize, (i + 1) * csize))
       /\ upl.st = "run" => upl.got + Sum(chan) = op.got - op.piece
  /\ op.pc = "await" =>
       /\ op.idx = ChunkCount(op.n, csize)
       /\ \A i \in 0..(op.idx - 1) : Written(i, Chunk(op.n, i))
  /\ op.pc = "register" =>
       /\ upl.st = "ok"
       /\ rows \subseteq 0..(ChunkCount(op.n, csize) - 1)
       /\ \A i \in 0..(ChunkCount(op.n, csize) - 1) :
            \/ i \in rows /\ files[i] = Chunk(op.n, i)
            \/ i \in taken /\ files[i] \in {None, Chunk(op.n, i)}

GetOK ==
  /\ op.pc \in GetLabels => meta = [length |-> upstream, etag |-> upstream]
  /\ op.pc = "open" => op.body = <<>>
  /\ op.pc = "stream" =>
       op.body = Slice(upstream, op.start, Greatest(op.start, op.idx * csize))
  /\ op.pc = "ok" /\ ~op.put => op.body = Slice(upstream, op.start, op.end)

Contents == RowsOK /\ PutOK /\ GetOK

-----------------------------------------------------------------------------
(* The counters stay right.                                                *)

LEMMA Bounds ==
  /\ MaxBody \in BodySizes /\ MaxBody \in Nat /\ \A m \in BodySizes : m \in Nat /\ m <= MaxBody
  /\ \A c \in ChunkSizes : c \in Nat \ {0}
  <1>1. MaxBody \in BodySizes /\ \A m \in BodySizes : m <= MaxBody
    BY BodiesAssumption DEF MaxBody
  <1> QED
    BY <1>1, SizesAssumption

LEMMA RestFacts ==
  ASSUME NEW l \in Labels
  PROVE  /\ Rest(l) \in Requests
         /\ Rest(l).pc = l /\ ~Rest(l).put /\ Rest(l).n = 0 /\ Rest(l).got = 0
         /\ Rest(l).idx = 0
  <1>1. NoRange \in Headers /\ <<>> \in Seq(Bytes)
    BY DEF Headers
  <1> QED
    BY <1>1 DEF Rest, Requests

(* A request that ends without an answer from the cache, or begins anew.   *)
LEMMA RestCounts ==
  ASSUME NEW l \in {"idle", "nokey", "error"}, op' = Rest(l)
  PROVE  OpTyped' /\ PutCounts' /\ GetCounts'
  <1>1. l \in Labels /\ l \notin PutLabels /\ l \notin Cutting /\ l \notin GetLabels /\ l # "ok"
    BY DEF Labels, PutLabels, GetLabels, Ends, Cutting
  <1>2. /\ op' \in Requests /\ op'.pc = l /\ op'.n = 0 /\ op'.got = 0 /\ op'.idx = 0
    BY <1>1, RestFacts
  <1>3. OpTyped'
    BY <1>2, Bounds DEF OpTyped
  <1>4. PutCounts'
    BY <1>1, <1>2 DEF PutCounts, Cutting, PutLabels
  <1>5. GetCounts'
    BY <1>1, <1>2 DEF GetCounts, GetLabels
  <1> QED
    BY <1>3, <1>4, <1>5

LEMMA DropTyped ==
  ASSUME StoreTyped, DropCache
  PROVE  rows' \subseteq Indices /\ files' \in [Indices -> Seq(Bytes) \cup {None}]
  BY DEF StoreTyped, DropCache

LEMMA RefreshTyped ==
  ASSUME StoreTyped, upstream \in BodySizes, Refresh
  PROVE  /\ meta' \in Metas \cup {None} /\ rows' \subseteq Indices
         /\ files' \in [Indices -> Seq(Bytes) \cup {None}]
  <1>1. meta' = [length |-> upstream, etag |-> upstream] /\ (DropCache \/ UNCHANGED <<rows, files>>)
    BY DEF Refresh
  <1>2. meta' \in Metas
    BY <1>1 DEF Metas
  <1> QED
    BY <1>1, <1>2, DropTyped DEF StoreTyped

LEMMA InitCounts == Init => Counts
  <1> SUFFICES ASSUME Init PROVE Counts
    OBVIOUS
  <1>1. StoreTyped
    BY DEF Init, StoreTyped
  <1>2. TaskTyped
    <2>1. chan = <<>> /\ upl = NoUpload
      BY DEF Init
    <2>2. NoUpload \in Uploads /\ NoUpload.st # "run"
      BY DEF NoUpload, Uploads
    <2>3. <<>> \in Seq(Nat) /\ Len(<<>>) <= Capacity
      BY SizesAssumption
    <2> QED
      BY <2>1, <2>2, <2>3 DEF TaskTyped
  <1>3. OpTyped /\ PutCounts /\ GetCounts
    <2>1. op = Rest("idle") /\ "idle" \in Labels
      BY DEF Init, Labels
    <2>2. /\ op \in Requests /\ op.pc = "idle" /\ op.n = 0 /\ op.got = 0 /\ op.idx = 0
      BY <2>1, RestFacts
    <2>3. OpTyped
      BY <2>2, Bounds DEF OpTyped
    <2> QED
      BY <2>2, <2>3 DEF PutCounts, GetCounts, PutLabels, Cutting, GetLabels
  <1> QED
    BY <1>1, <1>2, <1>3 DEF Counts

LEMMA PutCountsStep ==
  ASSUME Counts, NEW n \in BodySizes, NEW d \in Declared, Put(n, d)
  PROVE  Counts'
  <1> DEFINE decl == IF d THEN n ELSE 0
             o == [Rest("recv") EXCEPT !.put = TRUE, !.n = n, !.decl = decl]
  <1>1. decl \in BodySizes /\ decl \in Nat /\ n \in Nat /\ csize \in Nat \ {0}
    BY BodiesAssumption, SizesAssumption DEF Counts, StoreTyped
  <1>2. /\ op' = o /\ meta' = None /\ DropCache /\ chan' = <<>>
        /\ upl' = [st |-> "run", got |-> 0, n |-> n, decl |-> op'.decl]
        /\ UNCHANGED <<csize, upstream>>
    BY DEF Put
  <1> HIDE DEF decl
  <1>3. Rest("recv") \in Requests
    BY RestFacts DEF Labels, PutLabels
  <1>4. /\ o \in Requests /\ o.pc = "recv" /\ o.put /\ o.n = n /\ o.decl = decl
        /\ o.got = 0 /\ o.piece = 0 /\ o.buf = <<>> /\ o.idx = 0
    <2>1. o \in Requests
      BY <1>1, <1>3 DEF Requests
    <2> QED
      BY <2>1 DEF Rest
  <1> HIDE DEF o
  <1>5. StoreTyped'
    BY <1>2, DropTyped DEF Counts, StoreTyped
  <1>6. TaskTyped'
    <2>1. upl' \in Uploads /\ upl'.decl \in BodySizes
      BY <1>1, <1>2, <1>4 DEF Uploads
    <2>2. chan' \in Seq(Nat) /\ Len(chan') <= Capacity
      BY <1>2, SizesAssumption
    <2> QED
      BY <2>1, <2>2 DEF TaskTyped
  <1>7. OpTyped'
    BY <1>1, <1>2, <1>4, Bounds DEF OpTyped
  <1>8. PutCounts'
    <2>1. 0 * csize + Len(<<>>) = 0 - 0 /\ Len(<<>>) < csize
      BY <1>1
    <2> QED
      BY <1>1, <1>2, <1>4, <2>1 DEF PutCounts, Cutting, PutLabels
  <1>9. GetCounts'
    BY <1>2, <1>4 DEF GetCounts, GetLabels
  <1> QED
    BY <1>5, <1>6, <1>7, <1>8, <1>9 DEF Counts

(* The steps of a PUT that change neither its counters nor the store.      *)
LEMMA ReceiveCounts ==
  ASSUME Counts, NEW k \in 1..MaxPiece, Receive(k)
  PROVE  Counts'
  <1>1. /\ op.pc = "recv" /\ op.got + k <= op.n
        /\ op' = [op EXCEPT !.pc = "send", !.piece = k, !.got = op.got + k]
        /\ UNCHANGED <<csize, upstream, meta, rows, files, chan, upl>>
    BY DEF Receive, At, cacheVars
  <1>2. /\ op \in Requests /\ op.got \in Nat /\ op.n \in Nat /\ k \in Nat /\ op.idx \in Nat
        /\ Len(op.buf) \in Nat /\ op.idx <= MaxBody + 1 /\ csize \in Nat
    BY SizesAssumption, Bounds DEF Counts, OpTyped, Requests, StoreTyped
  <1>3. op' \in Requests
    <2> DEFINE g == op.got + k
    <2>1. g \in Nat /\ "send" \in Labels
      BY <1>2 DEF Labels, PutLabels
    <2>2. op' = [op EXCEPT !.pc = "send", !.piece = k, !.got = g]
      BY <1>1
    <2> HIDE DEF g
    <2> QED
      BY <1>2, <2>1, <2>2 DEF Requests
  <1>4. /\ op'.pc = "send" /\ op'.piece = k /\ op'.got = op.got + k /\ op'.put = op.put
        /\ op'.n = op.n /\ op'.decl = op.decl /\ op'.buf = op.buf /\ op'.idx = op.idx
    BY <1>1, <1>2 DEF Requests
  <1>5. OpTyped'
    BY <1>1, <1>2, <1>3, <1>4 DEF OpTyped
  <1>6. /\ op.put /\ op.n \in BodySizes /\ op.decl \in BodySizes
        /\ op.idx * csize + Len(op.buf) = op.got - op.piece /\ op.piece = 0
        /\ Len(op.buf) < csize
    BY <1>1 DEF Counts, PutCounts, PutLabels, Cutting
  <1>7. op.got - op.piece = op'.got - op'.piece /\ op'.piece <= op'.got
    BY <1>2, <1>4, <1>6
  <1>8. PutCounts'
    BY <1>1, <1>4, <1>6, <1>7 DEF PutCounts, Cutting
  <1>9. GetCounts'
    BY <1>4 DEF GetCounts, GetLabels
  <1> QED
    BY <1>1, <1>5, <1>8, <1>9 DEF Counts, StoreTyped, TaskTyped

(* A PUT that gives up: ReceiveError, a failed send or write.              *)
LEMMA GotoCounts ==
  ASSUME Counts, op.pc \in PutLabels, NEW l \in {"cleanup", "await", "register"}, Goto(l),
         UNCHANGED csize
  PROVE  OpTyped' /\ PutCounts' /\ GetCounts'
  <1>1. op \in Requests /\ op' = [op EXCEPT !.pc = l] /\ l \in Labels
    BY DEF Counts, OpTyped, Goto, Labels, PutLabels
  <1>2. /\ op' \in Requests /\ op'.pc = l /\ op'.put = op.put /\ op'.n = op.n
        /\ op'.decl = op.decl /\ op'.got = op.got /\ op'.idx = op.idx
    BY <1>1 DEF Requests
  <1>3. OpTyped'
    BY <1>2 DEF Counts, OpTyped
  <1>4. PutCounts'
    BY <1>2 DEF Counts, PutCounts, Cutting, PutLabels
  <1>5. GetCounts'
    BY <1>2 DEF GetCounts, GetLabels
  <1> QED
    BY <1>3, <1>4, <1>5

LEMMA Cut ==
  ASSUME NEW s \in Seq(Bytes), NEW i \in Nat, NEW j \in Nat, i <= j, j <= Len(s)
  PROVE  SubSeq(s, i + 1, j) \in Seq(Bytes) /\ Len(SubSeq(s, i + 1, j)) = j - i
  <1> DEFINE m == i + 1
  <1>1. m \in Int /\ j \in Int /\ \A k \in m..j : k \in 1..Len(s)
    OBVIOUS
  <1>2. \A k \in m..j : s[k] \in Bytes
    BY <1>1, ElementOfSeq
  <1>3. /\ SubSeq(s, m, j) \in Seq(Bytes)
        /\ Len(SubSeq(s, m, j)) = IF m <= j THEN j - m + 1 ELSE 0
    <2> HIDE DEF m
    <2> QED
      BY <1>1, <1>2, SubSeqProperties
  <1> QED
    BY <1>3

(* A PUT has not yet cut as many chunks as there are bytes.                *)
LEMMA RoomForChunk ==
  ASSUME Counts, op.pc \in Cutting, Len(op.buf) > 0
  PROVE  /\ op.idx \in Indices /\ op.idx + 1 <= MaxBody + 1
         /\ op.idx \in Nat /\ Len(op.buf) \in Nat /\ op.buf \in Seq(Bytes)
  <1>1. /\ op.idx \in Nat /\ Len(op.buf) \in Nat /\ op.buf \in Seq(Bytes) /\ op.got \in Nat
        /\ op.piece \in Nat /\ op.got <= op.n
    BY DEF Counts, OpTyped, Requests
  <1>2. csize \in Nat \ {0} /\ op.n \in Nat /\ op.n <= MaxBody /\ MaxBody \in Nat
    BY Bounds DEF Counts, StoreTyped, PutCounts, PutLabels, Cutting
  <1>3. op.idx * csize + Len(op.buf) = op.got - op.piece
    BY DEF Counts, PutCounts
  <1>4. op.idx <= op.idx * csize /\ op.idx * csize \in Nat
    BY <1>1, <1>2, Product
  <1>5. op.idx < MaxBody
    BY <1>1, <1>2, <1>3, <1>4
  <1> QED
    BY <1>1, <1>2, <1>5 DEF Indices

LEMMA SendCounts ==
  ASSUME Counts, Send
  PROVE  Counts'
  <1>1. op.pc = "send" /\ UNCHANGED <<csize, upstream, meta, rows, files, upl>>
    BY DEF Send, At, cacheVars
  <1>2. StoreTyped'
    BY <1>1 DEF Counts, StoreTyped
  <1>3. /\ op \in Requests /\ op.got \in Nat /\ op.piece \in Nat /\ op.n \in Nat
        /\ op.idx \in Nat /\ op.buf \in Seq(Bytes) /\ Len(op.buf) \in Nat /\ op.got <= op.n
        /\ csize \in Nat \ {0}
    BY Bounds DEF Counts, OpTyped, Requests, StoreTyped
  <1>4. /\ op.put /\ op.n \in BodySizes /\ op.decl \in BodySizes /\ op.piece <= op.got
        /\ op.idx * csize + Len(op.buf) = op.got - op.piece
    BY <1>1 DEF Counts, PutCounts, PutLabels, Cutting
  <1>5. CASE upl.st # "run" /\ Goto("cleanup") /\ UNCHANGED chan
    BY <1>1, <1>2, <1>5, GotoCounts DEF Counts, TaskTyped, PutLabels
  <1>6. CASE /\ upl.st = "run" /\ Len(chan) < Capacity /\ chan' = Append(chan, op.piece)
             /\ op' = [op EXCEPT !.pc = "drain", !.piece = 0,
                                 !.buf = op.buf \o Slice(op.n, op.got - op.piece, op.got)]
    <2> DEFINE a == op.got - op.piece
               t == Slice(op.n, a, op.got)
               b == op.buf \o t
    <2>1. a \in Nat /\ a <= op.got /\ op.got - a = op.piece
      BY <1>3, <1>4
    <2>2. t \in Seq(Bytes) /\ Len(t) = op.piece
      <3> HIDE DEF a
      <3> QED
        BY <1>3, <2>1, SliceIs
    <2> HIDE DEF t
    <2>3. b \in Seq(Bytes) /\ Len(b) = Len(op.buf) + op.piece
      <3>1. /\ op.buf \o t \in Seq(Bytes)
            /\ Len(op.buf \o t) = Len(op.buf) + Len(t)
        BY <1>3, <2>2, ConcatProperties
      <3> QED
        BY <2>2, <3>1
    <2>4. op' = [op EXCEPT !.pc = "drain", !.piece = 0, !.buf = b] /\ "drain" \in Labels
      <3>1. "drain" \in Labels
        BY DEF Labels, PutLabels
      <3> QED
        BY <1>6, <3>1 DEF t
    <2> HIDE DEF a, b
    <2>5. /\ op' \in Requests /\ op'.pc = "drain" /\ op'.piece = 0 /\ op'.buf = b
          /\ op'.put = op.put /\ op'.n = op.n /\ op'.decl = op.decl /\ op'.got = op.got
          /\ op'.idx = op.idx
      BY <1>3, <2>3, <2>4 DEF Requests
    <2>6. OpTyped'
      BY <2>5 DEF Counts, OpTyped
    <2>7. op.idx * csize + Len(b) = op.got - 0 /\ 0 <= op.got
      <3> DEFINE c == op.idx * csize
      <3>1. c \in Nat /\ c + Len(op.buf) = op.got - op.piece
        BY <1>3, <1>4
      <3> HIDE DEF c
      <3>2. c + Len(b) = op.got - 0 /\ 0 <= op.got
        <4>1. \A x, y, g, p \in Nat : x + y = g - p => x + (y + p) = g - 0 /\ 0 <= g
          OBVIOUS
        <4>2. op.got \in Nat /\ op.piece \in Nat /\ Len(op.buf) \in Nat
          BY <1>3
        <4> QED
          BY <2>3, <3>1, <4>1, <4>2
      <3> QED
        BY <3>2 DEF c
    <2>8. PutCounts'
      BY <1>1, <1>4, <2>5, <2>7 DEF PutCounts, PutLabels, Cutting
    <2>9. GetCounts'
      BY <2>5 DEF GetCounts, GetLabels
    <2>10. TaskTyped'
      <3>1. chan \in Seq(Nat) /\ Len(chan) \in Nat /\ Capacity \in Nat
        BY SizesAssumption DEF Counts, TaskTyped
      <3>2. chan' \in Seq(Nat) /\ Len(chan') = Len(chan) + 1
        BY <1>3, <1>6, <3>1, AppendProperties
      <3>3. Len(chan') <= Capacity
        BY <1>6, <3>1, <3>2
      <3> QED
        BY <1>1, <3>2, <3>3 DEF Counts, TaskTyped
    <2> QED
      BY <1>2, <2>6, <2>8, <2>9, <2>10 DEF Counts
  <1> QED
    BY <1>5, <1>6 DEF Send

(* A chunk is written, and taken from the buffer.                          *)
LEMMA WriteCounts ==
  ASSUME Counts, op.pc \in {"recv", "drain"}, UNCHANGED <<csize, upstream, meta, rows, chan, upl>>,
         NEW k \in 1..Len(op.buf), NEW l,
         \/ k = csize /\ l = "drain"
         \/ k = Len(op.buf) /\ l = "await",
         files' = [files EXCEPT ![op.idx] = SubSeq(op.buf, 1, k)],
         op' = [op EXCEPT !.pc = l, !.idx = op.idx + 1,
                          !.buf = SubSeq(op.buf, k + 1, Len(op.buf))]
  PROVE  /\ Counts'
         /\ op'.pc = l /\ op'.idx = op.idx + 1 /\ op'.buf = SubSeq(op.buf, k + 1, Len(op.buf))
         /\ op'.put = op.put /\ op'.n = op.n /\ op'.decl = op.decl /\ op'.got = op.got
         /\ op'.piece = op.piece /\ op.idx \in Indices
  <1>1. /\ op.idx \in Indices /\ op.idx + 1 <= MaxBody + 1 /\ op.idx \in Nat
        /\ Len(op.buf) \in Nat /\ op.buf \in Seq(Bytes)
    <2>1. Len(op.buf) > 0 /\ op.pc \in Cutting
      <3>1. Len(op.buf) \in Nat
        BY DEF Counts, OpTyped, Requests
      <3> QED
        BY <3>1 DEF Cutting
    <2> QED
      BY <2>1, RoomForChunk
  <1> DEFINE b == SubSeq(op.buf, k + 1, Len(op.buf))
             f == SubSeq(op.buf, 0 + 1, k)
             i == op.idx + 1
  <1>2. b \in Seq(Bytes) /\ Len(b) = Len(op.buf) - k
    BY <1>1, Cut
  <1>3. SubSeq(op.buf, 1, k) \in Seq(Bytes)
    <2>1. f \in Seq(Bytes)
      <3> DEFINE z == 0
      <3>1. z \in Nat /\ z <= k /\ k <= Len(op.buf) /\ k \in Nat
        BY <1>1
      <3> HIDE DEF z
      <3>2. SubSeq(op.buf, z + 1, k) \in Seq(Bytes)
        BY <1>1, <3>1, Cut
      <3> QED
        BY <3>2 DEF z
    <2>2. 0 + 1 = 1
      OBVIOUS
    <2> QED
      BY <2>1, <2>2
  <1>4. /\ op \in Requests /\ op.got \in Nat /\ csize \in Nat \ {0} /\ l \in Labels /\ i \in Nat
    BY <1>1, Bounds DEF Counts, OpTyped, Requests, StoreTyped, Labels, PutLabels
  <1>5. op' = [op EXCEPT !.pc = l, !.idx = i, !.buf = b]
    OBVIOUS
  <1> HIDE DEF b, f, i
  <1>6. /\ op' \in Requests /\ op'.pc = l /\ op'.piece = op.piece /\ op'.buf = b
        /\ op'.put = op.put /\ op'.n = op.n /\ op'.decl = op.decl /\ op'.got = op.got
        /\ op'.idx = i
    BY <1>2, <1>4, <1>5 DEF Requests
  <1>7. StoreTyped'
    <2>1. files' \in [Indices -> Seq(Bytes) \cup {None}]
      BY <1>1, <1>3 DEF Counts, StoreTyped
    <2> QED
      BY <2>1 DEF Counts, StoreTyped
  <1>8. TaskTyped'
    BY DEF Counts, TaskTyped
  <1>9. OpTyped'
    BY <1>1, <1>6 DEF Counts, OpTyped, i
  <1>10. /\ op.put /\ op.n \in BodySizes /\ op.decl \in BodySizes /\ op.piece = 0
         /\ op.idx * csize + Len(op.buf) = op.got - op.piece
    BY DEF Counts, PutCounts, PutLabels, Cutting
  <1>11. l = "drain" => op'.idx * csize + Len(op'.buf) = op'.got - op'.piece
    <2>1. l = "drain" => k = csize
      OBVIOUS
    <2>2. i * csize = op.idx * csize + csize /\ op.idx * csize \in Nat
      BY <1>1, <1>4, Product DEF i
    <2> DEFINE c == op.idx * csize
               d == i * csize
    <2>3. c \in Nat /\ d = c + csize /\ c + Len(op.buf) = op.got - op.piece
      BY <1>10, <2>2
    <2> HIDE DEF c, d
    <2>4. l = "drain" => d + Len(b) = op.got - op.piece
      BY <1>1, <1>2, <1>4, <1>10, <2>1, <2>3
    <2> QED
      BY <1>6, <2>4 DEF d
  <1>12. PutCounts'
    <2>1. op'.piece <= op'.got
      BY <1>4, <1>6, <1>10
    <2> QED
      BY <1>6, <1>10, <1>11, <2>1 DEF PutCounts, PutLabels, Cutting
  <1>13. GetCounts'
    BY <1>6 DEF GetCounts, GetLabels
  <1> QED
    BY <1>1, <1>6, <1>7, <1>8, <1>9, <1>12, <1>13 DEF Counts, b, i

(* storage.write_chunk fails: the files stay.                              *)
LEMMA WriteFails ==
  ASSUME Counts, op.pc \in PutLabels, NEW l \in {"cleanup", "await"}, Goto(l),
         UNCHANGED <<csize, upstream, meta, rows, files, chan, upl>>
  PROVE  Counts'
  BY GotoCounts DEF Counts, StoreTyped, TaskTyped

LEMMA DrainCounts ==
  ASSUME Counts, Drain
  PROVE  Counts'
  <1>1. op.pc = "drain" /\ UNCHANGED <<csize, upstream, meta, rows, chan, upl>>
    BY DEF Drain, At
  <1>2. /\ csize \in Nat \ {0} /\ Len(op.buf) \in Nat /\ op \in Requests
    BY Bounds DEF Counts, StoreTyped, OpTyped, Requests
  <1>3. CASE Goto("cleanup") /\ UNCHANGED files
    BY <1>1, <1>3, WriteFails DEF PutLabels
  <1>4. CASE /\ Len(op.buf) >= csize
             /\ files' = [files EXCEPT ![op.idx] = SubSeq(op.buf, 1, csize)]
             /\ op' = [op EXCEPT !.pc = "drain", !.idx = op.idx + 1,
                                 !.buf = SubSeq(op.buf, csize + 1, Len(op.buf))]
    <2> DEFINE k == csize
    <2>1. k \in 1..Len(op.buf)
      BY <1>2, <1>4
    <2> QED
      BY <1>1, <1>4, <2>1, WriteCounts
  <1>5. CASE Len(op.buf) < csize /\ Goto("recv") /\ UNCHANGED files
    <2>1. op' = [op EXCEPT !.pc = "recv"] /\ "recv" \in Labels
      BY <1>5 DEF Goto, Labels, PutLabels
    <2>2. /\ op' \in Requests /\ op'.pc = "recv" /\ op'.put = op.put /\ op'.n = op.n
          /\ op'.decl = op.decl /\ op'.got = op.got /\ op'.idx = op.idx
          /\ op'.piece = op.piece /\ op'.buf = op.buf
      BY <1>2, <2>1 DEF Requests
    <2>3. OpTyped'
      BY <2>2 DEF Counts, OpTyped
    <2>4. /\ op.put /\ op.n \in BodySizes /\ op.decl \in BodySizes /\ op.piece = 0
          /\ op.idx * csize + Len(op.buf) = op.got - op.piece /\ op.piece <= op.got
      BY <1>1 DEF Counts, PutCounts, PutLabels, Cutting
    <2>5. PutCounts'
      BY <1>1, <1>5, <2>2, <2>4 DEF PutCounts
    <2>6. GetCounts'
      BY <2>2 DEF GetCounts, GetLabels
    <2> QED
      BY <1>1, <1>5, <2>3, <2>5, <2>6 DEF Counts, StoreTyped, TaskTyped
  <1> QED
    BY <1>3, <1>4, <1>5 DEF Drain, WriteChunk

LEMMA FinishCounts ==
  ASSUME Counts, Finish
  PROVE  Counts'
  <1>1. op.pc = "recv" /\ UNCHANGED <<csize, upstream, meta, rows, chan, upl>>
    BY DEF Finish, At
  <1>2. CASE (Goto("cleanup") \/ Goto("await")) /\ UNCHANGED files
    BY <1>1, <1>2, WriteFails DEF PutLabels
  <1>3. CASE /\ op.buf # <<>>
             /\ files' = [files EXCEPT ![op.idx] = SubSeq(op.buf, 1, Len(op.buf))]
             /\ op' = [op EXCEPT !.pc = "await", !.idx = op.idx + 1,
                                 !.buf = SubSeq(op.buf, Len(op.buf) + 1, Len(op.buf))]
    <2> DEFINE k == Len(op.buf)
    <2>1. k \in 1..Len(op.buf)
      <3>1. op.buf \in Seq(Bytes)
        BY DEF Counts, OpTyped, Requests
      <3> QED
        BY <1>3, <3>1, EmptySeq
    <2> QED
      BY <1>1, <1>3, <2>1, WriteCounts
  <1> QED
    BY <1>2, <1>3 DEF Finish, WriteChunk

LEMMA AwaitCounts ==
  ASSUME Counts, Await
  PROVE  Counts'
  <1>1. op.pc = "await" /\ UNCHANGED <<csize, upstream, meta, files, chan, upl>>
    BY DEF Await, At
  <1>2. TaskTyped'
    BY <1>1 DEF Counts, TaskTyped
  <1>3. CASE rows' = rows \cup 0..(op.idx - 1) /\ Goto("register")
    <2>1. op.idx \in Nat /\ op.idx <= MaxBody + 1
      BY DEF Counts, OpTyped, Requests
    <2>2. 0..(op.idx - 1) \subseteq Indices
      BY <2>1, Bounds DEF Indices
    <2>3. StoreTyped'
      BY <1>1, <1>3, <2>2 DEF Counts, StoreTyped
    <2>4. OpTyped' /\ PutCounts' /\ GetCounts'
      BY <1>1, <1>3, GotoCounts DEF PutLabels
    <2> QED
      BY <1>2, <2>3, <2>4 DEF Counts
  <1>4. CASE op' = Rest("error") /\ UNCHANGED rows
    BY <1>1, <1>2, <1>4, RestCounts DEF Counts, StoreTyped
  <1> QED
    BY <1>3, <1>4 DEF Await

LEMMA RegisterCounts ==
  ASSUME Counts, Register
  PROVE  Counts'
  <1>1. /\ op.pc = "register" /\ UNCHANGED <<csize, upstream, rows, files, chan, upl>>
        /\ meta' = [length |-> op.decl, etag |-> op.decl]
        /\ op' = [Rest("ok") EXCEPT !.put = TRUE, !.n = op.n]
    BY DEF Register, At
  <1>2. op.n \in Nat /\ op.decl \in BodySizes
    BY <1>1 DEF Counts, OpTyped, Requests, PutCounts, PutLabels
  <1>3. Rest("ok") \in Requests
    BY RestFacts DEF Labels, Ends
  <1>4. op' \in Requests /\ op'.pc = "ok" /\ op'.put /\ op'.n = op.n /\ op'.got = 0 /\ op'.idx = 0
    <2>1. op' \in Requests
      BY <1>1, <1>2, <1>3 DEF Requests
    <2> QED
      BY <1>1, <2>1 DEF Rest
  <1>5. OpTyped'
    BY <1>2, <1>4, Bounds DEF OpTyped
  <1>6. PutCounts' /\ GetCounts'
    BY <1>4 DEF PutCounts, GetCounts, PutLabels, GetLabels, Cutting
  <1>7. StoreTyped'
    <2>1. meta' \in Metas
      BY <1>1, <1>2 DEF Metas
    <2> QED
      BY <1>1, <2>1 DEF Counts, StoreTyped
  <1>8. TaskTyped'
    BY <1>1 DEF Counts, TaskTyped
  <1> QED
    BY <1>5, <1>6, <1>7, <1>8 DEF Counts

(* Steps after which the request rests, and the others that leave it.      *)
LEMMA RestingCounts ==
  ASSUME Counts,
         Cleanup \/ Reply \/ Disconnect \/ (\E c \in ChunkSizes : Restart(c))
  PROVE  Counts'
  <1>1. PICK l \in {"idle", "nokey", "error"} : op' = Rest(l)
    BY DEF Cleanup, Reply, Disconnect, Restart
  <1>2. OpTyped' /\ PutCounts' /\ GetCounts'
    BY <1>1, RestCounts
  <1>3. CASE Cleanup
    <2>1. /\ files' = [i \in Indices |-> IF i <= op.idx THEN None ELSE files[i]]
          /\ UNCHANGED <<csize, upstream, meta, rows, chan, upl>>
      BY <1>3 DEF Cleanup
    <2> QED
      BY <1>2, <2>1 DEF Counts, StoreTyped, TaskTyped
  <1>4. CASE Reply \/ Disconnect
    <2>1. UNCHANGED <<csize, upstream, meta, rows, files, chan, upl>>
      BY <1>4 DEF Reply, Disconnect, cacheVars
    <2> QED
      BY <1>2, <2>1 DEF Counts, StoreTyped, TaskTyped
  <1>5. ASSUME NEW c \in ChunkSizes, Restart(c) PROVE Counts'
    <2>1. /\ csize' = c /\ chan' = <<>> /\ upl' = NoUpload
          /\ UNCHANGED <<upstream, meta, rows, files>>
      BY <1>5 DEF Restart, cacheVars
    <2>2. TaskTyped'
      <3>1. NoUpload \in Uploads /\ NoUpload.st # "run"
        BY DEF NoUpload, Uploads
      <3>2. <<>> \in Seq(Nat) /\ Len(<<>>) <= Capacity
        BY SizesAssumption
      <3> QED
        BY <2>1, <3>1, <3>2 DEF TaskTyped
    <2> QED
      BY <1>2, <2>1, <2>2 DEF Counts, StoreTyped
  <1> QED
    BY <1>3, <1>4, <1>5

LEMMA GetCountsStep ==
  ASSUME Counts, NEW h \in Headers, Get(h)
  PROVE  Counts'
  <1>1. upl.st # "run" /\ UNCHANGED <<csize, upstream, chan, upl>>
    BY DEF Get
  <1>2. TaskTyped'
    BY <1>1 DEF Counts, TaskTyped
  <1>3. CASE op' = Rest("nokey") /\ UNCHANGED cacheVars
    BY <1>1, <1>2, <1>3, RestCounts DEF Counts, StoreTyped, cacheVars
  <1> DEFINE s == Wanted(h, upstream).start
             e == Wanted(h, upstream).end
  <1>4. CASE /\ upstream # None /\ Refresh
             /\ op' = [Rest("open") EXCEPT !.range = h, !.size = upstream, !.start = s, !.end = e]
    <2>1. upstream \in BodySizes /\ upstream \in Nat
      BY <1>4, Bounds DEF Counts, StoreTyped
    <2>2. IsRange(h, upstream, s, e)
      BY <2>1, RangeOfHeader
    <2>3. s \in Nat /\ e \in Nat
      BY <2>2 DEF IsRange
    <2> HIDE DEF s, e
    <2>4. Rest("open") \in Requests
      BY RestFacts DEF Labels, GetLabels
    <2>5. /\ op' \in Requests /\ op'.pc = "open" /\ ~op'.put /\ op'.n = 0 /\ op'.got = 0
          /\ op'.idx = 0 /\ op'.range = h /\ op'.size = upstream /\ op'.start = s /\ op'.end = e
      <3>1. op' \in Requests
        BY <1>4, <2>1, <2>3, <2>4 DEF Requests
      <3> QED
        BY <1>4, <3>1 DEF Rest
    <2>6. OpTyped'
      BY <2>5, Bounds DEF OpTyped
    <2>7. PutCounts'
      BY <2>5 DEF PutCounts, PutLabels, Cutting
    <2>8. GetCounts'
      BY <1>1, <2>1, <2>2, <2>5 DEF GetCounts, GetLabels
    <2>9. StoreTyped'
      BY <1>1, <1>4, <2>1, RefreshTyped DEF Counts, StoreTyped
    <2> QED
      BY <1>2, <2>6, <2>7, <2>8, <2>9 DEF Counts
  <1> QED
    BY <1>3, <1>4 DEF Get

LEMMA OpenCounts ==
  ASSUME Counts, Open
  PROVE  /\ Counts'
         /\ ~(op.start >= op.end) => /\ op'.pc = "stream" /\ op'.start = op.start
                                     /\ op'.end = op.end /\ op'.body = op.body
                                     /\ op'.idx = FirstChunk(op.start, csize)
         /\ op.start >= op.end => op' = [op EXCEPT !.pc = "ok"]
  <1> DEFINE end == Least(op.end, upstream)
  <1>1. /\ op.pc = "open" /\ Refresh /\ UNCHANGED <<csize, upstream, chan, upl>>
        /\ op' = IF op.start >= end THEN [op EXCEPT !.pc = "ok"]
                   ELSE [op EXCEPT !.pc = "stream", !.end = end,
                                   !.idx = FirstChunk(op.start, csize)]
    BY DEF Open, At
  <1>2. /\ ~op.put /\ upl.st # "run" /\ upstream \in BodySizes /\ op.size = upstream
        /\ IsRange(op.range, upstream, op.start, op.end)
    BY <1>1 DEF Counts, GetCounts, GetLabels
  <1>3. /\ op.start \in Nat /\ op.end \in Nat /\ op.start <= op.end /\ op.end <= upstream
        /\ upstream \in Nat /\ upstream <= MaxBody /\ csize \in Nat \ {0} /\ MaxBody \in Nat
        /\ op \in Requests
    BY <1>2, Bounds DEF IsRange, Counts, StoreTyped, OpTyped
  <1>4. end = op.end
    BY <1>3 DEF Least
  <1> HIDE DEF end
  <1>5. TaskTyped' /\ StoreTyped'
    BY <1>1, <1>2, RefreshTyped DEF Counts, TaskTyped, StoreTyped
  <1>6. CASE op.start >= op.end
    <2>1. op' = [op EXCEPT !.pc = "ok"] /\ "ok" \in Labels
      BY <1>1, <1>4, <1>6 DEF Labels, Ends
    <2>2. /\ op' \in Requests /\ op'.pc = "ok" /\ op'.put = op.put /\ op'.n = op.n
          /\ op'.got = op.got /\ op'.idx = op.idx /\ op'.range = op.range
          /\ op'.size = op.size /\ op'.start = op.start /\ op'.end = op.end
      BY <1>3, <2>1 DEF Requests
    <2>3. OpTyped'
      BY <2>2 DEF Counts, OpTyped
    <2>4. PutCounts'
      BY <2>2 DEF PutCounts, PutLabels, Cutting
    <2>5. GetCounts'
      BY <1>1, <1>2, <2>2 DEF GetCounts
    <2> QED
      BY <1>3, <1>5, <1>6, <2>1, <2>3, <2>4, <2>5 DEF Counts
  <1>7. CASE ~(op.start >= op.end)
    <2> DEFINE first == FirstChunk(op.start, csize)
               last == LastChunk(op.end, csize)
    <2>1. op.start < op.end
      BY <1>3, <1>7
    <2>2. /\ first \in Nat /\ last \in Nat /\ first <= last /\ last < op.end
      BY <1>3, <2>1, ChunksOf
    <2> HIDE DEF first, last
    <2>3. first <= MaxBody + 1
      BY <1>3, <2>2
    <2>4. op' = [op EXCEPT !.pc = "stream", !.end = end, !.idx = first] /\ "stream" \in Labels
      BY <1>1, <1>4, <1>7 DEF Labels, GetLabels, first
    <2>5. /\ op' \in Requests /\ op'.pc = "stream" /\ op'.put = op.put /\ op'.n = op.n
          /\ op'.got = op.got /\ op'.idx = first /\ op'.range = op.range
          /\ op'.size = op.size /\ op'.start = op.start /\ op'.end = op.end
          /\ op'.body = op.body
      BY <1>3, <1>4, <2>2, <2>4 DEF Requests
    <2>6. OpTyped'
      BY <2>3, <2>5 DEF Counts, OpTyped
    <2>7. PutCounts'
      BY <2>5 DEF PutCounts, PutLabels, Cutting
    <2>8. first <= last /\ FirstChunk(op.start, csize) = first /\ LastChunk(op.end, csize) = last
      BY <2>2 DEF first, last
    <2>9. GetCounts'
      <3>1. first <= first
        BY <2>2
      <3> QED
        BY <1>1, <1>2, <2>1, <2>5, <2>8, <3>1 DEF GetCounts
    <2> QED
      BY <1>3, <1>5, <1>7, <2>5, <2>6, <2>7, <2>8, <2>9 DEF Counts
  <1> QED
    BY <1>6, <1>7

(* What a step of a stream knows of the range, the piece and the chunk.    *)
LEMMA StreamFacts ==
  ASSUME Counts, op.pc = "stream"
  PROVE  /\ ~op.put /\ upl.st # "run" /\ upstream \in BodySizes /\ op.size = upstream
         /\ IsRange(op.range, upstream, op.start, op.end)
         /\ upstream \in Nat /\ op.start \in Nat /\ op.end \in Nat /\ op.idx \in Nat
         /\ csize \in Nat \ {0} /\ op.body \in Seq(Bytes) /\ op \in Requests
         /\ op.start < op.end /\ op.end <= upstream /\ upstream <= MaxBody /\ MaxBody \in Nat
         /\ FirstChunk(op.start, csize) <= op.idx /\ op.idx <= LastChunk(op.end, csize)
         /\ LastChunk(op.end, csize) \in Nat /\ LastChunk(op.end, csize) < op.end
         /\ FirstChunk(op.start, csize) \in Nat
  <1>1. /\ ~op.put /\ upl.st # "run" /\ upstream \in BodySizes /\ op.size = upstream
        /\ IsRange(op.range, upstream, op.start, op.end) /\ op.start < op.end
        /\ FirstChunk(op.start, csize) <= op.idx /\ op.idx <= LastChunk(op.end, csize)
    BY DEF Counts, GetCounts, GetLabels
  <1>2. /\ upstream \in Nat /\ op.start \in Nat /\ op.end \in Nat /\ op.end <= upstream
        /\ upstream <= MaxBody /\ MaxBody \in Nat /\ csize \in Nat \ {0}
    BY <1>1, Bounds DEF IsRange, Counts, StoreTyped
  <1>3. op \in Requests /\ op.idx \in Nat /\ op.body \in Seq(Bytes)
    BY DEF Counts, OpTyped, Requests
  <1>4. /\ LastChunk(op.end, csize) \in Nat /\ LastChunk(op.end, csize) < op.end
        /\ FirstChunk(op.start, csize) \in Nat
    BY <1>1, <1>2, ChunksOf
  <1> QED
    BY <1>1, <1>2, <1>3, <1>4

(* A piece goes to the body of the response.                               *)
LEMMA AppendPiece ==
  ASSUME Counts, op.pc = "stream", NEW bytes \in Seq(Bytes),
         UNCHANGED <<csize, upstream, meta, rows, files, chan, upl>>,
         op' = [op EXCEPT !.pc = IF op.idx = LastChunk(op.end, csize) THEN "ok" ELSE "stream",
                          !.idx = op.idx + 1, !.body = op.body \o bytes]
  PROVE  /\ Counts'
         /\ op'.pc = IF op.idx = LastChunk(op.end, csize) THEN "ok" ELSE "stream"
         /\ op'.body = op.body \o bytes /\ op'.idx = op.idx + 1 /\ op'.put = op.put
         /\ op'.start = op.start /\ op'.end = op.end
  <1> DEFINE l == IF op.idx = LastChunk(op.end, csize) THEN "ok" ELSE "stream"
             b == op.body \o bytes
             i == op.idx + 1
             last == LastChunk(op.end, csize)
  <1>1. /\ ~op.put /\ upl.st # "run" /\ upstream \in BodySizes /\ op.size = upstream
        /\ IsRange(op.range, upstream, op.start, op.end)
        /\ op.idx \in Nat /\ op.body \in Seq(Bytes) /\ op \in Requests /\ op.start < op.end
    BY StreamFacts
  <1>2. /\ i <= MaxBody + 1 /\ FirstChunk(op.start, csize) <= i /\ (l = "stream" => i <= last)
    <2> DEFINE first == FirstChunk(op.start, csize)
    <2>1. /\ first \in Nat /\ last \in Nat /\ op.idx \in Nat /\ first <= op.idx /\ op.idx <= last
          /\ last < op.end /\ op.end \in Nat /\ op.end <= upstream /\ upstream \in Nat
          /\ upstream <= MaxBody /\ MaxBody \in Nat
      BY StreamFacts
    <2> HIDE DEF first, last
    <2>2. l = "stream" => op.idx # last
      BY DEF last
    <2> HIDE DEF l
    <2>3. i <= MaxBody + 1 /\ first <= i /\ (l = "stream" => i <= last)
      BY <2>1, <2>2
    <2> QED
      BY <2>3 DEF first
  <1>3. b \in Seq(Bytes) /\ i \in Nat /\ l \in Labels /\ l \in {"ok", "stream"}
    BY <1>1, ConcatProperties DEF Labels, Ends, GetLabels
  <1>4. op' = [op EXCEPT !.pc = l, !.idx = i, !.body = b]
    OBVIOUS
  <1> HIDE DEF l, b, i, last
  <1>5. /\ op' \in Requests /\ op'.pc = l /\ op'.put = op.put /\ op'.n = op.n
        /\ op'.got = op.got /\ op'.idx = i /\ op'.range = op.range
        /\ op'.size = op.size /\ op'.start = op.start /\ op'.end = op.end /\ op'.body = b
    BY <1>1, <1>3, <1>4 DEF Requests
  <1>6. OpTyped'
    BY <1>2, <1>5 DEF Counts, OpTyped
  <1>7. PutCounts'
    BY <1>3, <1>5 DEF PutCounts, PutLabels, Cutting
  <1>8. GetCounts'
    BY <1>1, <1>2, <1>3, <1>5 DEF GetCounts, last
  <1> QED
    BY <1>5, <1>6, <1>7, <1>8 DEF Counts, StoreTyped, TaskTyped, l, b, i

(* Tiling, for the piece that the stream is at.                            *)
LEMMA StreamTiling ==
  ASSUME Counts, op.pc = "stream"
  PROVE  LET i == op.idx
             C == csize
             end == op.end
             p == Piece(i, op.start, end, op.size, C)
             from == i * C + p.offset
             to == IF i = LastChunk(end, C) THEN end ELSE (i + 1) * C
         IN  /\ p.offset \in Nat /\ p.length \in Nat /\ i * C \in Nat /\ from \in Nat
             /\ from = Greatest(op.start, i * C) /\ from + p.length = to
             /\ from < to /\ to <= end /\ to \in Nat /\ op.start <= from
             /\ i # LastChunk(end, C) => to = Greatest(op.start, (i + 1) * C)
             /\ p.offset + p.length <= Least((i + 1) * C, op.size) - i * C
             /\ i * C <= Least((i + 1) * C, op.size) /\ Least((i + 1) * C, op.size) \in Nat
  <1>1. /\ csize \in Nat \ {0} /\ op.size \in Nat /\ op.start \in Nat /\ op.end \in Nat
        /\ op.start < op.end /\ op.end <= op.size /\ op.idx \in Nat
        /\ FirstChunk(op.start, csize) <= op.idx /\ op.idx <= LastChunk(op.end, csize)
    BY StreamFacts
  <1> QED
    BY <1>1, Tiling, Zenon

(* The bytes of a piece, from the chunk file or from the upstream.         *)
LEMMA ReadBytes ==
  ASSUME Counts, op.pc = "stream"
  PROVE  LET p == Piece(op.idx, op.start, op.end, op.size, csize)
             from == op.idx * csize + p.offset
         IN  /\ Slice(upstream, from, from + p.length) \in Seq(Bytes)
             /\ \A f \in Seq(Bytes) : Len(f) >= p.offset + p.length =>
                  SubSeq(f, p.offset + 1, p.offset + p.length) \in Seq(Bytes)
  <1> DEFINE p == Piece(op.idx, op.start, op.end, op.size, csize)
             from == op.idx * csize + p.offset
             to == IF op.idx = LastChunk(op.end, csize) THEN op.end ELSE (op.idx + 1) * csize
             mid == from + p.length
             far == p.offset + p.length
  <1>1. /\ upstream \in Nat /\ op.start \in Nat /\ op.end \in Nat /\ op.idx \in Nat
        /\ csize \in Nat \ {0} /\ op.start < op.end /\ op.end <= upstream /\ op.size = upstream
        /\ FirstChunk(op.start, csize) <= op.idx /\ op.idx <= LastChunk(op.end, csize)
    BY StreamFacts
  <1>2. /\ p.offset \in Nat /\ p.length \in Nat /\ from \in Nat /\ mid = to
        /\ from < to /\ to <= op.end /\ to \in Nat
    BY StreamTiling, Zenon
  <1> HIDE DEF p, from, to
  <1>3. from <= mid /\ mid <= upstream /\ mid \in Nat
    BY <1>1, <1>2
  <1>4. far \in Nat /\ p.offset <= far
    BY <1>2
  <1> HIDE DEF mid, far
  <1>5. Slice(upstream, from, mid) \in Seq(Bytes)
    BY <1>1, <1>2, <1>3, SliceIs
  <1>6. ASSUME NEW f \in Seq(Bytes), Len(f) >= far
        PROVE  SubSeq(f, p.offset + 1, far) \in Seq(Bytes)
    <2>1. far <= Len(f)
      BY <1>4, <1>6
    <2> QED
      BY <1>2, <1>4, <2>1, Cut
  <1> QED
    BY <1>5, <1>6 DEF p, from, mid, far

LEMMA ReadCounts ==
  ASSUME Counts, ReadPiece
  PROVE  Counts'
  <1> DEFINE p == Piece(op.idx, op.start, op.end, op.size, csize)
             from == op.idx * csize + p.offset
             far == p.offset + p.length
             hit == op.idx \in rows
             broken == files[op.idx] = None \/ Len(files[op.idx]) < far
             bytes == IF hit THEN SubSeq(files[op.idx], p.offset + 1, far)
                             ELSE Slice(upstream, from, from + p.length)
  <1>1. /\ op.pc = "stream" /\ UNCHANGED <<csize, upstream, meta, rows, files, chan, upl>>
        /\ IF hit /\ broken
             THEN op' = Rest("error")
             ELSE op' = [op EXCEPT !.pc = IF op.idx = LastChunk(op.end, csize) THEN "ok"
                                                                              ELSE "stream",
                                   !.idx = op.idx + 1, !.body = op.body \o bytes]
    BY DEF ReadPiece, At, cacheVars
  <1>2. CASE op' = Rest("error")
    BY <1>1, <1>2, RestCounts DEF Counts, StoreTyped, TaskTyped
  <1>3. CASE ~(hit /\ broken)
    <2>1. /\ Slice(upstream, from, from + p.length) \in Seq(Bytes)
          /\ \A f \in Seq(Bytes) : Len(f) >= far => SubSeq(f, p.offset + 1, far) \in Seq(Bytes)
      BY <1>1, ReadBytes
    <2>2. ASSUME hit PROVE files[op.idx] \in Seq(Bytes) /\ Len(files[op.idx]) >= far
      <3>1. files[op.idx] \in Seq(Bytes) \cup {None} /\ files[op.idx] # None
        BY <1>3, <2>2 DEF Counts, StoreTyped
      <3>2. far \in Int
        <4>2. p.offset \in Nat /\ p.length \in Nat
          BY <1>1, StreamTiling, Zenon
        <4> HIDE DEF p
        <4> QED
          BY <4>2
      <3> HIDE DEF far, p
      <3> QED
        BY <1>3, <2>2, <3>1, <3>2
    <2>3. bytes \in Seq(Bytes)
      <3> HIDE DEF far, from, p
      <3> QED
        BY <2>1, <2>2
    <2>4. op' = [op EXCEPT !.pc = IF op.idx = LastChunk(op.end, csize) THEN "ok" ELSE "stream",
                           !.idx = op.idx + 1, !.body = op.body \o bytes]
      BY <1>1, <1>3
    <2> HIDE DEF bytes
    <2> QED
      BY <1>1, <2>3, <2>4, AppendPiece
  <1> QED
    BY <1>1, <1>2, <1>3

(* The upload task, the worker and other clients.                          *)
LEMMA OutsideCounts ==
  ASSUME Counts,
         \/ UploadTask
         \/ Evict
         \/ \E n \in BodySizes : DirectWrite(n)
         \/ UNCHANGED vars
  PROVE  Counts'
  <1>1. /\ chan \in Seq(Nat) /\ Len(chan) <= Capacity /\ Len(chan) \in Nat
        /\ upl \in Uploads /\ (upl.st = "run" => upl.decl \in BodySizes)
        /\ <<>> \in Seq(Nat) /\ Len(<<>>) <= Capacity
    BY SizesAssumption DEF Counts, TaskTyped
  <1>2. CASE Pull
    <2>1. /\ upl.st = "run" /\ chan # <<>> /\ chan' = Tail(chan)
          /\ upl' = [upl EXCEPT !.got = upl.got + Head(chan)]
          /\ UNCHANGED <<csize, upstream, meta, rows, files, op>>
      BY <1>2 DEF Pull, cacheVars
    <2>2. Head(chan) \in Nat /\ chan' \in Seq(Nat) /\ Len(chan') = Len(chan) - 1
      BY <1>1, <2>1, HeadTailProperties
    <2>3. upl' \in Uploads /\ upl'.st = upl.st /\ upl'.decl = upl.decl
      <3> DEFINE g == upl.got + Head(chan)
      <3>1. g \in Nat
        BY <1>1, <2>2 DEF Uploads
      <3>2. upl' = [upl EXCEPT !.got = g]
        BY <2>1
      <3> HIDE DEF g
      <3> QED
        BY <1>1, <3>1, <3>2 DEF Uploads
    <2>4. TaskTyped'
      <3>1. Len(chan') <= Capacity
        BY <1>1, <2>2, SizesAssumption
      <3> QED
        BY <1>1, <2>2, <2>3, <3>1 DEF TaskTyped
    <2> QED
      BY <2>1, <2>3, <2>4 DEF Counts, StoreTyped, OpTyped, PutCounts, GetCounts
  <1>3. CASE UploadDone \/ UploadFails
    <2>1. /\ upl.st = "run" /\ chan' = <<>>
          /\ upl' = [upl EXCEPT !.st = "ok"] \/ upl' = [upl EXCEPT !.st = "fail"]
          /\ upstream' = upstream \/ upstream' = upl.decl
          /\ UNCHANGED <<csize, meta, rows, files, op>>
      BY <1>3 DEF UploadDone, UploadFails, cacheVars
    <2>2. upl' \in Uploads /\ upl'.st # "run"
      BY <1>1, <2>1 DEF Uploads
    <2>3. TaskTyped'
      BY <1>1, <2>1, <2>2 DEF TaskTyped
    <2>4. StoreTyped'
      BY <1>1, <2>1 DEF Counts, StoreTyped
    <2>5. OpTyped' /\ PutCounts'
      BY <2>1 DEF Counts, OpTyped, PutCounts
    <2>6. GetCounts'
      <3>1. ~(op.pc \in GetLabels \/ (op.pc = "ok" /\ ~op.put))
        BY <2>1 DEF Counts, GetCounts
      <3> QED
        BY <2>1, <3>1 DEF GetCounts, GetLabels
    <2> QED
      BY <2>3, <2>4, <2>5, <2>6 DEF Counts
  <1>4. CASE Evict
    <2>1. UNCHANGED <<csize, upstream, meta, op, chan, upl>>
      BY <1>4 DEF Evict, EvictList, EvictFile, EvictRow, cacheVars
    <2>2. rows' \subseteq rows
      BY <1>4 DEF Evict, EvictList, EvictFile, EvictRow, cacheVars
    <2>3. UNCHANGED files \/ \E i \in Indices : files' = [files EXCEPT ![i] = None]
      BY <1>4 DEF Evict, EvictList, EvictFile, EvictRow, cacheVars
    <2>4. StoreTyped'
      BY <2>1, <2>2, <2>3 DEF Counts, StoreTyped
    <2> QED
      BY <2>1, <2>4 DEF Counts, TaskTyped, OpTyped, PutCounts, GetCounts
  <1>5. ASSUME NEW n \in BodySizes, DirectWrite(n) PROVE Counts'
    <2>1. /\ op.pc = "idle" /\ upstream' = n
          /\ UNCHANGED <<csize, meta, rows, files, op, chan, upl>>
      BY <1>5 DEF DirectWrite, Idle, At, cacheVars
    <2>2. GetCounts'
      BY <2>1 DEF GetCounts, GetLabels
    <2> QED
      BY <2>1, <2>2 DEF Counts, StoreTyped, TaskTyped, OpTyped, PutCounts
  <1>6. CASE UNCHANGED vars
    BY <1>6 DEF vars, Counts, StoreTyped, TaskTyped, OpTyped, PutCounts, GetCounts
  <1> QED
    BY <1>2, <1>3, <1>4, <1>5, <1>6 DEF UploadTask

LEMMA NextCounts == Counts /\ [Next]_vars => Counts'
  <1> SUFFICES ASSUME Counts, [Next]_vars PROVE Counts'
    OBVIOUS
  <1>1. ASSUME NEW n \in BodySizes, NEW d \in Declared, Put(n, d) PROVE Counts'
    BY <1>1, PutCountsStep
  <1>2. ASSUME NEW h \in Headers, Get(h) PROVE Counts'
    BY <1>2, GetCountsStep
  <1>3. CASE Handle
    BY <1>3, ReceiveCounts, SendCounts, DrainCounts, FinishCounts, AwaitCounts,
       RegisterCounts, RestingCounts, OpenCounts, ReadCounts DEF Handle
  <1>4. CASE ReceiveError
    BY <1>4, WriteFails DEF ReceiveError, At, PutLabels, cacheVars
  <1>5. CASE Disconnect \/ \E c \in ChunkSizes : Restart(c)
    BY <1>5, RestingCounts
  <1> QED
    BY <1>1, <1>2, <1>3, <1>4, <1>5, OutsideCounts DEF Next

LEMMA WorkerInvariant == Spec => [](Counts /\ WorkerTyped)
  <1>1. Init => WorkerTyped
    BY DEF Init, NoPass, WorkerTyped
  <1>2. Counts /\ WorkerTyped /\ [Next]_vars => WorkerTyped'
    <2> SUFFICES ASSUME Counts, WorkerTyped, [Next]_vars PROVE WorkerTyped'
      OBVIOUS
    <2>1. CASE Evict
      <3>1. CASE EvictList
        <4>1. evict' = [evict EXCEPT !.todo = rows] /\ taken' = taken
          BY <3>1 DEF EvictList
        <4> QED
          BY <4>1 DEF WorkerTyped, Counts, StoreTyped
      <3>2. ASSUME NEW i \in Indices, EvictFile(i) PROVE WorkerTyped'
        <4>1. /\ evict' = [todo |-> evict.todo \ {i}, cur |-> {i}]
              /\ taken' = taken \cup {i} \/ taken' = {}
          BY <3>2 DEF EvictFile, Take
        <4> QED
          BY <4>1 DEF WorkerTyped
      <3>3. CASE EvictRow
        <4>1. /\ evict' = [evict EXCEPT !.cur = {}]
              /\ taken' = taken \cup evict.cur \/ taken' = {}
          BY <3>3 DEF EvictRow, Take
        <4> QED
          BY <4>1 DEF WorkerTyped
      <3> QED
        BY <2>1, <3>1, <3>2, <3>3 DEF Evict
    <2>2. CASE evict' \in {evict, NoPass} /\ taken' \in {taken, {}}
      <3>1. NoPass \in [todo : SUBSET Indices, cur : SUBSET Indices]
        BY DEF NoPass
      <3> QED
        BY <2>2, <3>1 DEF WorkerTyped
    <2>3. ASSUME ~Evict PROVE evict' \in {evict, NoPass} /\ taken' \in {taken, {}}
      <3>1. CASE Next
        BY <2>3, <3>1 DEF Next, Handle, UploadTask, Put, DirectWrite, Get, Receive, Send, Drain,
           Finish, Await, Register, Cleanup, Open, ReadPiece, Reply, ReceiveError, Pull, UploadDone,
           UploadFails, Disconnect, Restart, worker
      <3>2. CASE UNCHANGED vars
        BY <3>2 DEF vars, worker
      <3> QED
        BY <3>1, <3>2
    <2> QED
      BY <2>1, <2>2, <2>3
  <1>3. Init => Counts
    BY InitCounts
  <1>4. Counts /\ [Next]_vars => Counts'
    BY NextCounts
  <1> QED
    BY <1>1, <1>2, <1>3, <1>4, PTL DEF Spec

(* Type correctness, whatever the chunk sizes, the bodies and their pieces,*)
(* with declared lengths or without: a PUT never cuts more chunks than the *)
(* longest body has bytes (write_and_cache_object), a GET never goes past  *)
(* the last chunk of its range (read_range), and the channel keeps within  *)
(* its capacity.                                                           *)
THEOREM ByteTypes == Spec => []TypeOK
  <1>1. Counts /\ WorkerTyped => TypeOK
    <2> SUFFICES ASSUME Counts, WorkerTyped PROVE TypeOK
      OBVIOUS
    <2>1. meta # None => meta.length \in BodySizes /\ meta.etag \in BodySizes
      BY DEF Counts, StoreTyped, Metas
    <2>2. op.pc \in Labels /\ op.idx \in Nat /\ op.got \in Nat /\ op.n \in Nat
      BY DEF Counts, OpTyped, Requests
    <2>3. op.idx \in 0..(MaxBody + 1) /\ op.got \in 0..op.n
      BY <2>2, Bounds DEF Counts, OpTyped
    <2>4. upl.st \in {"none", "run", "ok", "fail"} /\ Len(chan) <= Capacity
      BY DEF Counts, TaskTyped, Uploads
    <2>5. evict.todo \subseteq Indices /\ evict.cur \subseteq Indices /\ taken \subseteq Indices
      BY DEF WorkerTyped
    <2> QED
      BY <2>1, <2>2, <2>3, <2>4, <2>5 DEF Counts, StoreTyped, TypeOK, Labels
  <1> QED
    BY <1>1, WorkerInvariant, PTL

-----------------------------------------------------------------------------
(* The bytes stay right.                                                   *)

LEMMA CountIs ==
  ASSUME NEW n \in Nat, NEW c \in Nat \ {0}, NEW i \in Nat
  PROVE  /\ i * c = n => ChunkCount(n, c) = i
         /\ i * c < n /\ n <= i * c + c => ChunkCount(n, c) = i + 1
  <1> DEFINE q == (n - 1) \div c
             x == i * c
  <1>1. CASE n = 0
    <2>1. x \in Nat /\ (x = 0 => i = 0)
      BY Product
    <2> HIDE DEF x
    <2>2. x = n => ChunkCount(n, c) = i
      BY <1>1, <2>1 DEF ChunkCount
    <2>3. ~(x < n)
      BY <1>1, <2>1
    <2> QED
      BY <2>2, <2>3 DEF x
  <1>2. CASE n > 0
    <2> DEFINE m == n - 1
    <2>1. m \in Nat /\ q = m \div c
      BY <1>2
    <2> HIDE DEF m
    <2>2. q \in Nat /\ q * c <= m /\ m < (q + 1) * c
      BY <2>1, Division
    <2>3. ChunkCount(n, c) = q + 1
      BY <1>2 DEF ChunkCount
    <2> HIDE DEF q
    <2> DEFINE j == q + 1
               l == i + 1
               y == q * c
               z == j * c
               w == l * c
    <2>4. /\ j \in Nat /\ l \in Nat /\ x \in Nat /\ y \in Nat /\ z \in Nat /\ w \in Nat
          /\ w = x + c /\ z = y + c
      BY <2>2, Product
    <2>5. /\ (q < i <=> y < x) /\ (i < j <=> x < z) /\ (q < l <=> y < w)
          /\ (j < i <=> z < x)
      <3> HIDE DEF j, l
      <3> QED
        BY <2>2, <2>4, Product
    <2>6. y <= n - 1 /\ n - 1 < z
      BY <2>2 DEF m
    <2> HIDE DEF x, y, z, w
    <2>7. x = n => j = i
      <3>1. x = n => q < i /\ ~(j < i)
        BY <2>4, <2>5, <2>6
      <3> QED
        BY <2>2, <3>1
    <2>8. x < n /\ n <= x + c => j = i + 1
      <3>1. x < n /\ n <= x + c => i < j /\ q < l
        BY <2>4, <2>5, <2>6
      <3> QED
        BY <2>2, <3>1
    <2> HIDE DEF j
    <2>9. ChunkCount(n, c) = j
      BY <2>3 DEF j
    <2> QED
      BY <2>7, <2>8, <2>9 DEF x
  <1> QED
    BY <1>1, <1>2

LEMMA CountWithin ==
  ASSUME NEW n \in Nat, NEW c \in Nat \ {0}
  PROVE  ChunkCount(n, c) \in Nat /\ ChunkCount(n, c) <= n
  <1>1. CASE n = 0
    BY <1>1 DEF ChunkCount
  <1>2. CASE n > 0
    <2> DEFINE m == n - 1
               q == m \div c
    <2>1. m \in Nat
      BY <1>2
    <2> HIDE DEF m
    <2>2. q \in Nat /\ q * c <= m
      BY <2>1, Division
    <2>3. ChunkCount(n, c) = q + 1
      BY <1>2 DEF ChunkCount, m
    <2> HIDE DEF q
    <2>4. q <= q * c /\ q * c \in Nat
      BY <2>2, Product
    <2> DEFINE x == q * c
    <2>5. q <= x /\ x \in Nat /\ x <= m
      BY <2>2, <2>4
    <2> HIDE DEF x
    <2>6. q <= m
      BY <2>1, <2>2, <2>5
    <2> QED
      BY <2>1, <2>2, <2>3, <2>6 DEF m
  <1> QED
    BY <1>1, <1>2

(* What drop_cache_for_object leaves: nothing.                             *)
LEMMA DropsAll ==
  ASSUME Counts, RowsOK, op.pc # "register", DropCache
  PROVE  rows' = {}
  <1>1. meta # None => rows \subseteq Dropped
    BY DEF RowsOK, Dropped
  <1> QED
    BY <1>1 DEF RowsOK, DropCache

LEMMA RefreshRows ==
  ASSUME Counts, RowsOK, op.pc # "register", Refresh, upstream \in BodySizes, UNCHANGED csize
  PROVE  RowsOK' /\ meta' = [length |-> upstream, etag |-> upstream]
  <1> DEFINE new == [length |-> upstream, etag |-> upstream]
  <1>1. new # None /\ new.length = upstream /\ new.etag = upstream
    BY NoMetaAssumption
  <1>2. meta' = new
    BY DEF Refresh
  <1> HIDE DEF new
  <1>3. CASE meta = new
    <2>1. UNCHANGED <<meta, rows, files>>
      BY <1>2, <1>3 DEF Refresh, new
    <2> QED
      <3>1. RowsOK'
        BY <1>1, <1>3, <2>1 DEF RowsOK, Chunk
      <3> QED
        BY <1>2, <3>1 DEF new
  <1>4. CASE meta # new
    <2>1. rows' = {}
      <3>1. CASE meta = None
        BY <3>1 DEF Refresh, RowsOK
      <3>2. CASE meta # None
        BY <1>4, <3>2, DropsAll DEF Refresh, new
      <3> QED
        BY <3>1, <3>2
    <2> QED
      BY <1>1, <1>2, <2>1 DEF RowsOK, new
  <1> QED
    BY <1>3, <1>4

(* Until a PUT registers them there are no rows, so no step harms one.     *)
LEMMA PutRows ==
  ASSUME RowsOK, PutOK, op.pc \in PutLabels, op.pc # "register"
  PROVE  /\ meta = None /\ rows = {}
         /\ UNCHANGED <<meta, rows>> => RowsOK'
  BY DEF RowsOK, PutOK

LEMMA NoGet ==
  ASSUME op'.pc \in PutLabels \cup {"idle", "nokey", "error"}
  PROVE  GetOK'
  BY DEF GetOK, PutLabels, GetLabels

LEMMA NoPut ==
  ASSUME op'.pc \notin PutLabels
  PROVE  PutOK'
  BY DEF PutOK, PutLabels, Cutting

LEMMA RestOK ==
  ASSUME NEW l \in {"idle", "nokey", "error"}, op' = Rest(l)
  PROVE  PutOK' /\ GetOK'
  <1>1. op'.pc = l
    BY DEF Rest
  <1>2. l \notin PutLabels
    BY DEF PutLabels
  <1> QED
    BY <1>1, <1>2, NoGet, NoPut

LEMMA PutContents ==
  ASSUME Counts, Contents, FALSE \notin Declared,
         NEW n \in BodySizes, NEW d \in Declared, Put(n, d)
  PROVE  Contents'
  <1>1. d = TRUE /\ n \in Nat /\ csize \in Nat \ {0}
    BY SizesAssumption DEF Counts, StoreTyped
  <1>2. /\ op' = [Rest("recv") EXCEPT !.put = TRUE, !.n = n, !.decl = n]
        /\ meta' = None /\ DropCache /\ chan' = <<>>
        /\ upl' = [st |-> "run", got |-> 0, n |-> n, decl |-> op'.decl]
        /\ csize' = csize
    BY <1>1 DEF Put
  <1>3. Rest("recv") \in Requests
    BY RestFacts DEF Labels, PutLabels
  <1>4. /\ op'.pc = "recv" /\ op'.n = n /\ op'.decl = n
        /\ op'.got = 0 /\ op'.piece = 0 /\ op'.buf = <<>> /\ op'.idx = 0
    BY <1>2, <1>3 DEF Rest
  <1>5. RowsOK'
    <2>1. rows' = {}
      BY <1>2, DropsAll DEF Contents, Put, Idle, At
    <2> QED
      BY <1>2, <2>1 DEF RowsOK
  <1>6. PutOK'
    <2> DEFINE z == 0
    <2>1. op'.idx * csize' = z /\ op'.got - op'.piece = z /\ z \in Nat /\ z <= z /\ z + z = z
      BY <1>1, <1>2, <1>4
    <2>2. Slice(n, z, z) = <<>>
      <3> HIDE DEF z
      <3> QED
        BY <1>1, <2>1, SliceNone
    <2>3. upl'.got = z /\ Sum(chan') = z /\ upl'.st = "run" /\ upl'.decl = n
      BY <1>2, <1>4, SumEmpty
    <2>4. 0..(op'.idx - 1) = {}
      BY <1>4
    <2> HIDE DEF z
    <2> QED
      BY <1>2, <1>4, <2>1, <2>2, <2>3, <2>4 DEF PutOK, PutLabels, Cutting
  <1>7. GetOK'
    BY <1>4, NoGet DEF PutLabels
  <1> QED
    BY <1>5, <1>6, <1>7 DEF Contents

(* The steps of a PUT that only move it on.                                *)
LEMMA MoveContents ==
  ASSUME Counts, Contents, op.pc \in PutLabels, op.pc # "register",
         UNCHANGED <<csize, upstream, meta, rows, files, upl, taken>>,
         NEW l \in {"send", "recv", "cleanup"},
         op'.pc = l, op'.n = op.n, op'.decl = op.decl,
         op.pc = "drain" \/ l # "recv",
         l # "cleanup" => /\ op.pc \in Cutting /\ UNCHANGED chan
                          /\ op'.buf = op.buf /\ op'.idx = op.idx
                          /\ op'.got - op'.piece = op.got - op.piece
  PROVE  Contents'
  <1>1. RowsOK'
    BY PutRows DEF Contents
  <1>2. GetOK'
    BY NoGet DEF PutLabels
  <1>3. PutOK'
    <2>1. CASE l = "cleanup"
      BY <2>1 DEF Contents, PutOK, PutLabels, Cutting
    <2>2. CASE l # "cleanup"
      <3>1. op'.pc \in Cutting /\ op'.pc # "await" /\ op'.pc \in PutLabels
        BY <2>2 DEF Cutting, PutLabels
      <3> QED
        BY <2>2, <3>1 DEF Contents, PutOK, Written, Cutting
    <2> QED
      BY <2>1, <2>2
  <1> QED
    BY <1>1, <1>2, <1>3 DEF Contents

LEMMA ReceiveContents ==
  ASSUME Counts, Contents, (\E k \in 1..MaxPiece : Receive(k)) \/ ReceiveError
  PROVE  Contents'
  <1>1. /\ op \in Requests /\ op.got \in Nat /\ op.pc = "recv"
        /\ UNCHANGED <<csize, upstream, meta, rows, files, chan, upl, taken>>
    BY DEF Counts, OpTyped, Requests, Receive, ReceiveError, At, cacheVars, worker
  <1>2. op.piece = 0
    BY <1>1 DEF Counts, PutCounts
  <1>3. ASSUME NEW k \in 1..MaxPiece, Receive(k) PROVE Contents'
    <2>0. k \in Nat
      BY SizesAssumption
    <2>1. op' = [op EXCEPT !.pc = "send", !.piece = k, !.got = op.got + k]
      BY <1>3 DEF Receive
    <2>2. /\ op'.pc = "send" /\ op'.piece = k /\ op'.got = op.got + k
          /\ op'.n = op.n /\ op'.decl = op.decl /\ op'.buf = op.buf /\ op'.idx = op.idx
      BY <1>1, <2>1 DEF Requests
    <2>3. op'.got - op'.piece = op.got - op.piece
      BY <1>1, <1>2, <2>0, <2>2
    <2> QED
      BY <1>1, <2>2, <2>3, MoveContents DEF PutLabels, Cutting
  <1>4. CASE ReceiveError
    <2>1. op' = [op EXCEPT !.pc = "cleanup"]
      BY <1>4 DEF ReceiveError, Goto
    <2>2. op'.pc = "cleanup" /\ op'.n = op.n /\ op'.decl = op.decl
      BY <1>1, <2>1 DEF Requests
    <2> QED
      BY <1>1, <2>2, MoveContents DEF PutLabels
  <1> QED
    BY <1>3, <1>4

LEMMA SendContents ==
  ASSUME Counts, Contents, Send
  PROVE  Contents'
  <1>1. op.pc = "send" /\ UNCHANGED <<csize, upstream, meta, rows, files, upl, taken>>
    BY DEF Send, At, cacheVars, worker
  <1>2. /\ op \in Requests /\ op.got \in Nat /\ op.piece \in Nat /\ op.n \in Nat
        /\ op.idx \in Nat /\ op.buf \in Seq(Bytes) /\ Len(op.buf) \in Nat /\ op.got <= op.n
        /\ csize \in Nat \ {0} /\ chan \in Seq(Nat) /\ upl.got \in Nat
    BY Bounds DEF Counts, OpTyped, Requests, StoreTyped, TaskTyped, Uploads
  <1>3. /\ op.piece <= op.got /\ op.idx * csize + Len(op.buf) = op.got - op.piece
    BY <1>1 DEF Counts, PutCounts, Cutting
  <1>4. CASE upl.st # "run" /\ Goto("cleanup")
    <2>1. op'.pc = "cleanup" /\ op'.n = op.n /\ op'.decl = op.decl
      BY <1>2, <1>4 DEF Goto, Requests
    <2> QED
      BY <1>1, <2>1, MoveContents DEF PutLabels
  <1>5. CASE /\ upl.st = "run" /\ chan' = Append(chan, op.piece)
             /\ op' = [op EXCEPT !.pc = "drain", !.piece = 0,
                                 !.buf = op.buf \o Slice(op.n, op.got - op.piece, op.got)]
    <2> DEFINE a == op.got - op.piece
               c == op.idx * csize
               b == op.buf \o Slice(op.n, a, op.got)
    <2>1. op' = [op EXCEPT !.pc = "drain", !.piece = 0, !.buf = b]
      BY <1>5
    <2>2. /\ op.buf = Slice(op.n, c, a) /\ upl.got + Sum(chan) = a
          /\ \A i \in 0..(op.idx - 1) : Written(i, Slice(op.n, i * csize, (i + 1) * csize))
          /\ meta = None /\ op.decl = op.n /\ upl.decl = op.decl
      BY <1>1, <1>5 DEF Contents, PutOK, Cutting, PutLabels
    <2>3. a \in Nat /\ c \in Nat /\ c + Len(op.buf) = a /\ a <= op.got /\ a + op.piece = op.got
      BY <1>2, <1>3
    <2> HIDE DEF a, c
    <2>4. c <= a
      BY <1>2, <2>3
    <2>5. b = Slice(op.n, c, op.got)
      <3>0. /\ op.n \in Nat /\ c \in Nat /\ a \in Nat /\ op.got \in Nat
            /\ c <= a /\ a <= op.got /\ op.got <= op.n
        BY <1>2, <2>3, <2>4
      <3>1. Slice(op.n, c, a) \o Slice(op.n, a, op.got) = Slice(op.n, c, op.got)
        BY <3>0, SliceConcat, Zenon
      <3> QED
        BY <2>2, <3>1, Zenon
    <2> HIDE DEF b
    <2>6. /\ op'.pc = "drain" /\ op'.piece = 0 /\ op'.buf = b /\ op'.n = op.n
          /\ op'.decl = op.decl /\ op'.got = op.got /\ op'.idx = op.idx
      BY <1>2, <2>1 DEF Requests
    <2>7. upl.got + Sum(chan') = op.got
      <3>1. Sum(chan) \in Nat /\ Sum(chan') = Sum(chan) + op.piece
        BY <1>2, <1>5, SumEmpty, SumAppend
      <3> QED
        BY <1>2, <2>2, <2>3, <3>1
    <2>8. op'.got - op'.piece = op.got
      BY <1>2, <2>6
    <2>9. op'.idx * csize' = c
      BY <1>1, <2>6 DEF c
    <2>10. PutOK'
      BY <1>1, <1>5, <2>2, <2>5, <2>6, <2>7, <2>8, <2>9 DEF PutOK, Written, PutLabels, Cutting
    <2>11. RowsOK' /\ GetOK'
      BY <1>1, <2>6, PutRows, NoGet DEF Contents, PutLabels
    <2> QED
      BY <2>10, <2>11 DEF Contents
  <1> QED
    BY <1>4, <1>5 DEF Send

(* The first k bytes of the buffer are the next of the body, and the other *)
(* ones follow.                                                            *)
LEMMA CutBuffer ==
  ASSUME Counts, Contents, op.pc \in {"recv", "drain"}, NEW k \in 1..Len(op.buf)
  PROVE  /\ SubSeq(op.buf, 1, k) = Slice(op.n, op.idx * csize, op.idx * csize + k)
         /\ SubSeq(op.buf, k + 1, Len(op.buf)) = Slice(op.n, op.idx * csize + k, op.got)
         /\ op.idx * csize \in Nat /\ op.idx * csize + Len(op.buf) = op.got
         /\ op.idx \in Nat /\ op.got \in Nat /\ op.got <= op.n /\ op.n \in Nat
         /\ Len(op.buf) \in Nat /\ k \in Nat /\ k <= Len(op.buf) /\ csize \in Nat \ {0}
  <1> DEFINE c == op.idx * csize
             m == Len(op.buf)
  <1>1. /\ op.got \in Nat /\ op.n \in Nat /\ op.idx \in Nat /\ m \in Nat /\ op.got <= op.n
        /\ csize \in Nat \ {0} /\ op.piece = 0 /\ c + m = op.got - op.piece
    BY Bounds DEF Counts, OpTyped, Requests, StoreTyped, PutCounts, Cutting
  <1>2. op.buf = Slice(op.n, c, op.got - op.piece)
    BY DEF Contents, PutOK, Cutting
  <1>3. c \in Nat
    BY <1>1
  <1> HIDE DEF c, m
  <1>4. op.got - op.piece = op.got /\ c + m = op.got /\ k \in Nat /\ k <= m
    BY <1>1 DEF m
  <1>5. op.buf = Slice(op.n, c, op.got)
    BY <1>2, <1>4, Zenon
  <1> DEFINE f == k + 1
             x == c + k
             one == 1
  <1>6. CutAt(op.n, c, op.got, one, k, c, x) /\ CutAt(op.n, c, op.got, f, m, x, op.got)
    BY <1>1, <1>3, <1>4 DEF CutAt
  <1> HIDE DEF f, x, one
  <1>7. SubSeq(Slice(op.n, c, op.got), one, k) = Slice(op.n, c, x)
    BY <1>6, SliceCut
  <1>8. SubSeq(Slice(op.n, c, op.got), f, m) = Slice(op.n, x, op.got)
    BY <1>6, SliceCut
  <1>9. SubSeq(op.buf, 1, k) = Slice(op.n, c, c + k)
    BY <1>5, <1>7, Zenon DEF one, x
  <1>10. SubSeq(op.buf, k + 1, m) = Slice(op.n, c + k, op.got)
    BY <1>5, <1>8, Zenon DEF f, x
  <1> QED
    BY <1>1, <1>3, <1>4, <1>9, <1>10 DEF c, m

LEMMA DrainContents ==
  ASSUME Counts, Contents, Drain
  PROVE  Contents'
  <1>1. op.pc = "drain" /\ UNCHANGED <<csize, upstream, meta, rows, chan, upl, taken>>
    BY DEF Drain, At, worker
  <1>2. csize \in Nat \ {0} /\ Len(op.buf) \in Nat /\ op \in Requests
    BY Bounds DEF Counts, StoreTyped, OpTyped, Requests
  <1>3. ASSUME NEW l \in {"cleanup", "recv"}, Goto(l), UNCHANGED files PROVE Contents'
    <2>1. /\ op'.pc = l /\ op'.n = op.n /\ op'.decl = op.decl /\ op'.buf = op.buf
          /\ op'.idx = op.idx /\ op'.got = op.got /\ op'.piece = op.piece
      BY <1>2, <1>3 DEF Goto, Requests
    <2> QED
      BY <1>1, <1>3, <2>1, MoveContents DEF PutLabels, Cutting
  <1>4. CASE /\ Len(op.buf) >= csize
             /\ files' = [files EXCEPT ![op.idx] = SubSeq(op.buf, 1, csize)]
             /\ op' = [op EXCEPT !.pc = "drain", !.idx = op.idx + 1,
                                 !.buf = SubSeq(op.buf, csize + 1, Len(op.buf))]
    <2> DEFINE c == op.idx * csize
               i == op.idx + 1
    <2>1. csize \in 1..Len(op.buf)
      BY <1>2, <1>4
    <2>2. /\ op'.pc = "drain" /\ op'.idx = i
          /\ op'.buf = SubSeq(op.buf, csize + 1, Len(op.buf))
          /\ op'.n = op.n /\ op'.decl = op.decl /\ op'.got = op.got
          /\ op'.piece = op.piece /\ op.idx \in Indices
      BY <1>1, <1>4, <2>1, WriteCounts
    <2>3. /\ SubSeq(op.buf, 1, csize) = Slice(op.n, c, c + csize)
          /\ SubSeq(op.buf, csize + 1, Len(op.buf)) = Slice(op.n, c + csize, op.got)
          /\ op.idx \in Nat /\ op.got \in Nat /\ c \in Nat
      BY <1>1, <2>1, CutBuffer
    <2>4. i * csize = c + csize
      BY <1>2, <2>3, Product
    <2> HIDE DEF c
    <2>5. op.piece = 0 /\ op.got - op.piece = op.got
      <3>1. op.piece = 0
        BY <1>1 DEF Counts, PutCounts
      <3> QED
        BY <2>3, <3>1
    <2>6. ASSUME NEW j \in 0..(i - 1)
          PROVE  Written(j, Slice(op.n, j * csize, (j + 1) * csize))'
      <3>1. CASE j = op.idx
        <4>1. files'[op.idx] = SubSeq(op.buf, 1, csize)
          BY <1>4, <2>2 DEF Counts, StoreTyped
        <4>2. files'[op.idx] = Slice(op.n, op.idx * csize, (op.idx + 1) * csize)
          BY <2>3, <2>4, <4>1, Zenon DEF c
        <4> QED
          BY <1>1, <2>2, <3>1, <4>2 DEF Written
      <3>2. CASE j # op.idx
        <4>1. j \in 0..(op.idx - 1)
          BY <2>3, <3>2
        <4>2. Written(j, Slice(op.n, j * csize, (j + 1) * csize))
          BY <1>1, <4>1 DEF Contents, PutOK, Cutting
        <4>3. files'[j] = files[j]
          <5>1. j \in Indices
            BY <2>2, <2>3, <4>1, Bounds DEF Indices
          <5> QED
            BY <1>4, <3>2, <5>1 DEF Counts, StoreTyped
        <4> QED
          BY <1>1, <2>2, <4>2, <4>3 DEF Written
      <3> QED
        BY <3>1, <3>2
    <2>7. /\ meta = None /\ op.decl = op.n /\ upl.decl = op.decl /\ upl.st # "none"
          /\ (upl.st = "ok" => upstream = op.n)
          /\ (upl.st = "run" => upl.got + Sum(chan) = op.got - op.piece)
      BY <1>1 DEF Contents, PutOK, PutLabels, Cutting
    <2>8. op'.buf = Slice(op'.n, op'.idx * csize', op'.got - op'.piece)
      <3> HIDE DEF i
      <3>1. op'.buf = Slice(op.n, i * csize, op.got - op.piece)
        BY <2>2, <2>3, <2>4, <2>5, Zenon
      <3> QED
        BY <1>1, <2>2, <3>1, Zenon
    <2>9. \A j \in 0..(op'.idx - 1) : Written(j, Slice(op.n, j * csize, (j + 1) * csize))'
      <3> HIDE DEF i
      <3> QED
        BY <1>1, <2>2, <2>6, Zenon
    <2> HIDE DEF i
    <2>10. PutOK'
      BY <1>1, <2>2, <2>7, <2>8, <2>9 DEF PutOK, PutLabels, Cutting
    <2>11. RowsOK' /\ GetOK'
      BY <1>1, <2>2, PutRows, NoGet DEF Contents, PutLabels
    <2> QED
      BY <2>10, <2>11 DEF Contents
  <1> QED
    BY <1>3, <1>4 DEF Drain, WriteChunk

(* A chunk that was cut whole is a chunk of the object.                    *)
LEMMA WholeChunk ==
  ASSUME csize \in Nat \ {0}, NEW n \in Nat, NEW k \in Nat, k * csize <= n, NEW i \in 0..(k - 1)
  PROVE  Slice(n, i * csize, (i + 1) * csize) = Chunk(n, i)
  <1> DEFINE j == i + 1
             x == j * csize
             y == k * csize
  <1>1. i \in Nat /\ j \in Nat /\ j <= k
    OBVIOUS
  <1>2. x \in Nat /\ y \in Nat /\ x <= y
    <2> HIDE DEF j
    <2> QED
      BY <1>1, Product
  <1>3. y <= n
    OBVIOUS
  <1> HIDE DEF x, y
  <1>4. Least(x, n) = x
    BY <1>2, <1>3 DEF Least
  <1> QED
    BY <1>4 DEF Chunk, x

LEMMA FinishContents ==
  ASSUME Counts, Contents, Finish
  PROVE  Contents'
  <1> DEFINE c == op.idx * csize
  <1>1. /\ op.pc = "recv" /\ op.got = op.n
        /\ UNCHANGED <<csize, upstream, meta, rows, chan, upl, taken>>
    BY DEF Finish, At, worker
  <1>2. /\ csize \in Nat \ {0} /\ Len(op.buf) \in Nat /\ op \in Requests /\ op.idx \in Nat
        /\ op.buf \in Seq(Bytes) /\ op.n \in Nat
    BY Bounds DEF Counts, StoreTyped, OpTyped, Requests
  <1>3. /\ meta = None /\ op.decl = op.n /\ upl.decl = op.decl /\ upl.st # "none"
        /\ (upl.st = "ok" => upstream = op.n)
        /\ \A i \in 0..(op.idx - 1) : Written(i, Slice(op.n, i * csize, (i + 1) * csize))
    BY <1>1 DEF Contents, PutOK, PutLabels, Cutting
  <1>4. op.piece = 0 /\ c + Len(op.buf) = op.got - op.piece /\ Len(op.buf) < csize
    BY <1>1 DEF Counts, PutCounts, Cutting
  <1>5. c \in Nat
    BY <1>2
  <1>6. c + Len(op.buf) = op.n /\ c <= op.n
    <2> HIDE DEF c
    <2> QED
      BY <1>1, <1>2, <1>4, <1>5
  <1>7. \A i \in 0..(op.idx - 1) : Written(i, Chunk(op.n, i))
    BY <1>2, <1>3, <1>6, WholeChunk
  <1> HIDE DEF c
  <1>8. CASE Goto("cleanup") /\ UNCHANGED files
    <2>1. /\ op'.pc = "cleanup" /\ op'.n = op.n /\ op'.decl = op.decl
      BY <1>2, <1>8 DEF Goto, Requests
    <2> QED
      BY <1>1, <1>8, <2>1, MoveContents DEF PutLabels
  <1>9. ASSUME op'.pc = "await", op'.n = op.n, op'.decl = op.decl,
               op'.idx = ChunkCount(op.n, csize),
               \A i \in 0..(op'.idx - 1) : Written(i, Chunk(op.n, i))'
        PROVE  Contents'
    <2>1. PutOK'
      BY <1>1, <1>3, <1>9 DEF PutOK, PutLabels, Cutting
    <2>2. RowsOK' /\ GetOK'
      BY <1>1, <1>9, PutRows, NoGet DEF Contents, PutLabels
    <2> QED
      BY <2>1, <2>2 DEF Contents
  <1>10. CASE op.buf = <<>> /\ Goto("await") /\ UNCHANGED files
    <2>1. op'.pc = "await" /\ op'.n = op.n /\ op'.decl = op.decl /\ op'.idx = op.idx
      BY <1>2, <1>10 DEF Goto, Requests
    <2>2. c = op.n
      BY <1>5, <1>6, <1>10
    <2>3. op.idx = ChunkCount(op.n, csize)
      BY <1>2, <2>2, CountIs DEF c
    <2> QED
      BY <1>1, <1>7, <1>9, <1>10, <2>1, <2>3 DEF Written, Chunk
  <1>11. CASE /\ op.buf # <<>>
              /\ files' = [files EXCEPT ![op.idx] = SubSeq(op.buf, 1, Len(op.buf))]
              /\ op' = [op EXCEPT !.pc = "await", !.idx = op.idx + 1,
                                  !.buf = SubSeq(op.buf, Len(op.buf) + 1, Len(op.buf))]
    <2> DEFINE k == Len(op.buf)
               i == op.idx + 1
    <2>1. k \in 1..Len(op.buf) /\ k > 0 /\ k \in Nat
      BY <1>2, <1>11, EmptySeq
    <2>2. /\ op'.pc = "await" /\ op'.idx = i /\ op'.n = op.n /\ op'.decl = op.decl
          /\ op.idx \in Indices
      BY <1>1, <1>11, <2>1, WriteCounts
    <2>3. SubSeq(op.buf, 1, k) = Slice(op.n, c, c + k)
      BY <1>1, <2>1, CutBuffer DEF c
    <2>4. c + k = op.n /\ c < op.n /\ op.n <= c + csize
      BY <1>2, <1>4, <1>5, <1>6, <2>1
    <2>5. ChunkCount(op.n, csize) = i
      BY <1>2, <2>4, CountIs DEF c
    <2>6. i * csize = c + csize
      BY <1>2, Product DEF c
    <2>7. Least(i * csize, op.n) = op.n
      <3>1. CASE c + csize <= op.n
        BY <1>2, <1>5, <2>4, <2>6, <3>1 DEF Least
      <3>2. CASE ~(c + csize <= op.n)
        BY <2>6, <3>2 DEF Least
      <3> QED
        BY <3>1, <3>2
    <2>8. Chunk(op.n, op.idx) = SubSeq(op.buf, 1, k)
      <3>1. Chunk(op.n, op.idx) = Slice(op.n, c, op.n)
        BY <2>7, Zenon DEF Chunk, c
      <3>2. Slice(op.n, c, c + k) = Slice(op.n, c, op.n)
        BY <2>4, Zenon
      <3> QED
        BY <2>3, <3>1, <3>2, Zenon
    <2>9. ASSUME NEW j \in 0..(i - 1) PROVE Written(j, Chunk(op.n, j))'
      <3>1. CASE j = op.idx
        BY <1>1, <1>11, <2>2, <2>8, <3>1 DEF Counts, StoreTyped, Written, Chunk
      <3>2. CASE j # op.idx
        <4>1. j \in 0..(op.idx - 1)
          BY <1>2, <3>2
        <4>2. j \in Indices
          BY <1>2, <2>2, <4>1, Bounds DEF Indices
        <4>3. files'[j] = files[j]
          BY <1>11, <3>2, <4>2 DEF Counts, StoreTyped
        <4> QED
          BY <1>1, <1>7, <2>2, <4>1, <4>3 DEF Written, Chunk
      <3> QED
        BY <3>1, <3>2
    <2> HIDE DEF i
    <2> QED
      BY <1>9, <2>2, <2>5, <2>9
  <1> QED
    BY <1>8, <1>10, <1>11 DEF Finish, WriteChunk

LEMMA AwaitContents ==
  ASSUME Counts, Contents, Await
  PROVE  Contents'
  <1>1. op.pc = "await" /\ UNCHANGED <<csize, upstream, meta, files, upl, taken>> /\ op \in Requests
    BY DEF Await, At, worker, Counts, OpTyped
  <1>2. meta = None /\ rows = {}
    BY <1>1, PutRows DEF Contents, PutLabels
  <1>3. CASE /\ upl.st = "ok"
             /\ rows' = rows \cup 0..(op.idx - 1)
             /\ Goto("register")
    <2>1. /\ op.decl = op.n /\ upl.decl = op.decl /\ upstream = op.n
          /\ op.idx = ChunkCount(op.n, csize)
          /\ \A i \in 0..(op.idx - 1) : Written(i, Chunk(op.n, i))
      BY <1>1, <1>3 DEF Contents, PutOK, PutLabels
    <2>2. op'.pc = "register" /\ op'.n = op.n /\ op'.decl = op.decl
      BY <1>1, <1>3 DEF Goto, Requests
    <2>3. rows' = 0..(ChunkCount(op.n, csize) - 1)
      BY <1>2, <1>3, <2>1
    <2>4. \A i \in 0..(ChunkCount(op.n, csize) - 1) :
             \/ i \in rows' /\ files'[i] = Chunk(op.n, i)'
             \/ i \in taken' /\ files'[i] \in {None, Chunk(op.n, i)'}
      BY <1>1, <2>1, <2>2, <2>3 DEF Written, Chunk
    <2>5. PutOK'
      BY <1>1, <1>2, <1>3, <2>1, <2>2, <2>3, <2>4 DEF PutOK, PutLabels, Cutting
    <2>6. RowsOK' /\ GetOK'
      BY <1>1, <1>2, <2>2, NoGet DEF RowsOK, PutLabels
    <2> QED
      BY <2>5, <2>6 DEF Contents
  <1>4. CASE op' = Rest("error") /\ UNCHANGED rows
    <2>1. RowsOK'
      BY <1>1, <1>4, PutRows DEF Contents, PutLabels
    <2> QED
      BY <1>4, <2>1, RestOK DEF Contents
  <1> QED
    BY <1>3, <1>4 DEF Await

LEMMA RegisterContents ==
  ASSUME Counts, Contents, Register
  PROVE  Contents'
  <1>1. /\ op.pc = "register" /\ UNCHANGED <<csize, rows, files>>
        /\ meta' = [length |-> op.decl, etag |-> op.decl]
        /\ op' = [Rest("ok") EXCEPT !.put = TRUE, !.n = op.n]
    BY DEF Register, At
  <1>2. /\ op.decl = op.n /\ op.decl \in BodySizes
        /\ rows \subseteq 0..(ChunkCount(op.n, csize) - 1)
        /\ \A i \in rows : files[i] \in {None, Chunk(op.n, i)}
    BY <1>1 DEF Counts, PutCounts, Contents, PutOK, PutLabels
  <1>3. meta' # None /\ meta'.length = op.n /\ meta'.etag = op.n
    BY <1>1, <1>2, NoMetaAssumption
  <1>4. RowsOK'
    BY <1>1, <1>2, <1>3 DEF RowsOK, Chunk
  <1>5. op'.pc = "ok" /\ op'.put
    BY <1>1 DEF Rest
  <1>6. GetOK' /\ PutOK'
    BY <1>5, NoPut DEF GetOK, GetLabels, PutLabels
  <1> QED
    BY <1>4, <1>6 DEF Contents

LEMMA RestingContents ==
  ASSUME Counts, Contents, ~Resize,
         Cleanup \/ Reply \/ Disconnect \/ (\E c \in ChunkSizes : Restart(c))
  PROVE  Contents'
  <1>1. PICK l \in {"idle", "nokey", "error"} : op' = Rest(l)
    BY DEF Cleanup, Reply, Disconnect, Restart
  <1>2. PutOK' /\ GetOK'
    BY <1>1, RestOK
  <1>3. RowsOK'
    <2>1. CASE Cleanup
      BY <2>1, PutRows DEF Cleanup, At, PutLabels, Contents
    <2>2. CASE Reply \/ Disconnect \/ \E c \in ChunkSizes : Restart(c)
      <3>1. UNCHANGED <<csize, meta, rows, files>> /\ op.pc # "register"
        BY <2>2 DEF Reply, Disconnect, Restart, At, Ends, cacheVars
      <3> QED
        BY <3>1 DEF Contents, RowsOK, Chunk
    <2> QED
      BY <2>1, <2>2
  <1> QED
    BY <1>2, <1>3 DEF Contents

(* The upload task: what it has taken from the channel it has, and what    *)
(* the upstream stores is the body of the PUT that waits for it.           *)
LEMMA UploadContents ==
  ASSUME Counts, Contents, UploadTask
  PROVE  Contents'
  <1>1. upl.st = "run" /\ upl \in Uploads /\ UNCHANGED <<csize, meta, rows, files, op, taken>>
    BY DEF UploadTask, Pull, UploadDone, UploadFails, cacheVars, worker, Counts, TaskTyped
  <1>2. RowsOK'
    BY <1>1 DEF Contents, RowsOK, Chunk
  <1>3. GetOK'
    <2>1. ~(op.pc \in GetLabels \/ (op.pc = "ok" /\ ~op.put))
      BY <1>1 DEF Counts, GetCounts
    <2> QED
      BY <1>1, <2>1 DEF GetOK, GetLabels
  <1>4. CASE op.pc \notin PutLabels
    BY <1>1, <1>2, <1>3, <1>4, NoPut DEF Contents
  <1>5. CASE op.pc \in PutLabels
    <2>1. meta = None /\ op.decl = op.n /\ upl.decl = op.decl
      BY <1>5 DEF Contents, PutOK
    <2>2. CASE Pull
      <3>1. /\ chan # <<>> /\ chan' = Tail(chan) /\ upstream' = upstream
            /\ upl' = [upl EXCEPT !.got = upl.got + Head(chan)]
        BY <2>2 DEF Pull
      <3>2. upl'.st = "run" /\ upl'.decl = upl.decl /\ upl'.got = upl.got + Head(chan)
        BY <1>1, <3>1 DEF Uploads
      <3>3. chan \in Seq(Nat) /\ upl.got \in Nat
        BY <1>1 DEF Counts, TaskTyped, Uploads
      <3>4. Head(chan) \in Nat /\ Tail(chan) \in Seq(Nat)
        BY <3>1, <3>3, HeadTailProperties
      <3>5. Sum(chan) = Head(chan) + Sum(chan') /\ Sum(chan') \in Nat
        BY <3>1, <3>3, <3>4, SumTail, SumEmpty
      <3>6. upl'.got + Sum(chan') = upl.got + Sum(chan)
        BY <3>2, <3>3, <3>4, <3>5
      <3>7. PutOK'
        BY <1>1, <1>5, <2>1, <3>1, <3>2, <3>6 DEF Contents, PutOK, Written, Chunk
      <3> QED
        BY <1>2, <1>3, <3>7 DEF Contents
    <2>3. CASE UploadDone \/ UploadFails
      <3>1. /\ \/ upl' = [upl EXCEPT !.st = "ok"] /\ upstream' = upl.decl
               \/ upl' = [upl EXCEPT !.st = "fail"]
        BY <2>3 DEF UploadDone, UploadFails
      <3>2. upl'.st \in {"ok", "fail"} /\ upl'.decl = upl.decl /\ (upl'.st = "ok" => upstream' = op.n)
        BY <1>1, <2>1, <3>1 DEF Uploads
      <3>3. PutOK'
        BY <1>1, <1>5, <2>1, <3>2 DEF Contents, PutOK, Written, Chunk
      <3> QED
        BY <1>2, <1>3, <3>3 DEF Contents
    <2> QED
      BY <2>2, <2>3 DEF UploadTask
  <1> QED
    BY <1>4, <1>5

(* The worker: what it deletes is gone or was there, and what a PUT has    *)
(* written and the worker deletes is taken.                                *)
LEMMA EvictContents ==
  ASSUME Counts, Contents, Evict
  PROVE  Contents'
  <1>1. UNCHANGED <<csize, upstream, meta, op, chan, upl>>
    BY DEF Evict, EvictList, EvictFile, EvictRow, cacheVars
  <1>2. op.put => /\ taken \subseteq taken'
                  /\ \A i \in rows \ rows' : i \in taken'
                  /\ \A i \in Indices : files'[i] # files[i] => i \in taken'
    <2>1. CASE EvictList
      BY <2>1 DEF EvictList, cacheVars
    <2>2. ASSUME NEW i \in Indices, EvictFile(i), op.put
          PROVE  /\ taken \subseteq taken'
                 /\ \A j \in rows \ rows' : j \in taken'
                 /\ \A j \in Indices : files'[j] # files[j] => j \in taken'
      <3>1. /\ taken' = taken \cup {i} /\ rows' = rows
            /\ files' = [files EXCEPT ![i] = None] \/ files' = files
        BY <2>2 DEF EvictFile, Take
      <3> QED
        BY <3>1 DEF Counts, StoreTyped
    <2>3. CASE EvictRow /\ op.put
      <3>1. /\ taken' = taken \cup evict.cur /\ files' = files
            /\ rows' = rows \ evict.cur \/ rows' = rows
        BY <2>3 DEF EvictRow, Take
      <3> QED
        BY <3>1
    <2> QED
      BY <2>1, <2>2, <2>3 DEF Evict
  <1>3. rows' \subseteq rows /\ \A i \in Indices : files'[i] \in {None, files[i]}
    <2>1. CASE EvictList \/ EvictRow
      BY <2>1 DEF EvictList, EvictRow, cacheVars
    <2>2. ASSUME NEW i \in Indices, EvictFile(i)
          PROVE  rows' \subseteq rows /\ \A j \in Indices : files'[j] \in {None, files[j]}
      <3>1. rows' = rows /\ (files' = [files EXCEPT ![i] = None] \/ files' = files)
        BY <2>2 DEF EvictFile
      <3> QED
        BY <3>1 DEF Counts, StoreTyped
    <2> QED
      BY <2>1, <2>2 DEF Evict
  <1>4. RowsOK'
    <2>1. \A i \in rows' : i \in rows /\ i \in Indices
      BY <1>3 DEF Counts, StoreTyped
    <2> QED
      BY <1>1, <1>3, <2>1 DEF Contents, RowsOK, Chunk
  <1>5. GetOK'
    BY <1>1 DEF Contents, GetOK
  <1>6. CASE op.pc \notin PutLabels
    BY <1>1, <1>4, <1>5, <1>6, NoPut DEF Contents
  <1>7. CASE op.pc \in PutLabels
    <2>1. op.put /\ op.idx \in Nat /\ op.idx <= MaxBody + 1
      BY <1>7 DEF Counts, PutCounts, OpTyped, Requests
    <2>2. 0..(op.idx - 1) \subseteq Indices
      BY <2>1, Bounds DEF Indices
    <2>3. ASSUME NEW i \in Indices, NEW b, Written(i, b) PROVE Written(i, b)'
      BY <1>2, <1>3, <2>1, <2>3 DEF Written
    <2>4. op.pc \in Cutting =>
            \A i \in 0..(op.idx - 1) : Written(i, Slice(op.n, i * csize, (i + 1) * csize))'
      <3> SUFFICES ASSUME op.pc \in Cutting, NEW i \in 0..(op.idx - 1)
                   PROVE  Written(i, Slice(op.n, i * csize, (i + 1) * csize))'
        OBVIOUS
      <3> DEFINE b == Slice(op.n, i * csize, (i + 1) * csize)
      <3>1. Written(i, b)
        BY DEF Contents, PutOK
      <3>2. b' = b
        BY <1>1
      <3> HIDE DEF b
      <3>3. Written(i, b)'
        BY <2>2, <2>3, <3>1, <3>2 DEF Written
      <3> QED
        BY <3>3 DEF b
    <2>5. op.pc = "await" => \A i \in 0..(op.idx - 1) : Written(i, Chunk(op.n, i))'
      <3> SUFFICES ASSUME op.pc = "await", NEW i \in 0..(op.idx - 1)
                   PROVE  Written(i, Chunk(op.n, i))'
        OBVIOUS
      <3> DEFINE b == Chunk(op.n, i)
      <3>1. Written(i, b)
        BY DEF Contents, PutOK
      <3>2. b' = b
        BY <1>1 DEF Chunk
      <3> HIDE DEF b
      <3>3. Written(i, b)'
        BY <2>2, <2>3, <3>1, <3>2 DEF Written
      <3> QED
        BY <3>3 DEF b
    <2>6. op.pc = "register" =>
            \A i \in 0..(ChunkCount(op.n, csize) - 1) :
               \/ i \in rows' /\ files'[i] = Chunk(op.n, i)
               \/ i \in taken' /\ files'[i] \in {None, Chunk(op.n, i)}
      <3> SUFFICES ASSUME op.pc = "register", NEW i \in 0..(ChunkCount(op.n, csize) - 1)
                   PROVE  \/ i \in rows' /\ files'[i] = Chunk(op.n, i)
                          \/ i \in taken' /\ files'[i] \in {None, Chunk(op.n, i)}
        OBVIOUS
      <3>1. i \in Indices
        <4>1. op.n \in BodySizes /\ csize \in ChunkSizes
          BY <1>7 DEF Counts, PutCounts, StoreTyped
        <4>2. op.n \in Nat /\ op.n <= MaxBody /\ MaxBody \in Nat /\ csize \in Nat \ {0}
          BY <4>1, Bounds
        <4>3. ChunkCount(op.n, csize) \in Nat /\ ChunkCount(op.n, csize) <= op.n
          BY <4>2, CountWithin
        <4> QED
          BY <4>2, <4>3 DEF Indices
      <3>2. \/ i \in rows /\ files[i] = Chunk(op.n, i)
            \/ i \in taken /\ files[i] \in {None, Chunk(op.n, i)}
        BY DEF Contents, PutOK
      <3> QED
        BY <1>2, <1>3, <2>1, <3>1, <3>2
    <2>7. PutOK'
      <3>1. \A i \in Nat : Chunk(op.n, i)' = Chunk(op.n, i)
        BY <1>1 DEF Chunk
      <3>2. /\ op.pc \in PutLabels =>
                 /\ meta = None /\ op.decl = op.n /\ upl.decl = op.decl
                 /\ upl.st # "none" /\ (upl.st = "ok" => upstream = op.n)
            /\ op.pc \in Cutting =>
                 /\ op.buf = Slice(op.n, op.idx * csize, op.got - op.piece)
                 /\ upl.st = "run" => upl.got + Sum(chan) = op.got - op.piece
            /\ op.pc = "await" => op.idx = ChunkCount(op.n, csize)
            /\ op.pc = "register" => /\ upl.st = "ok"
                                     /\ rows' \subseteq 0..(ChunkCount(op.n, csize) - 1)
        BY <1>3 DEF Contents, PutOK
      <3>3. op.pc = "register" =>
              \A i \in 0..(ChunkCount(op.n, csize) - 1) :
                 \/ i \in rows' /\ files'[i] = Chunk(op.n, i)'
                 \/ i \in taken' /\ files'[i] \in {None, Chunk(op.n, i)'}
        BY <2>6, <3>1
      <3> QED
        BY <1>1, <2>4, <2>5, <3>2, <3>3 DEF PutOK
    <2> QED
      BY <1>4, <1>5, <2>7 DEF Contents
  <1> QED
    BY <1>6, <1>7

LEMMA OutsideContents ==
  ASSUME Counts, Contents,
         \/ \E n \in BodySizes : DirectWrite(n)
         \/ UNCHANGED vars
  PROVE  Contents'
  <1>2. ASSUME NEW n \in BodySizes, DirectWrite(n) PROVE Contents'
    <2>1. op.pc = "idle" /\ UNCHANGED <<csize, meta, rows, files, op, chan, upl>>
      BY <1>2 DEF DirectWrite, Idle, At, cacheVars
    <2>2. RowsOK'
      BY <2>1 DEF Contents, RowsOK, Chunk
    <2> QED
      BY <2>1, <2>2, NoPut, NoGet DEF Contents, PutLabels
  <1>3. CASE UNCHANGED vars
    BY <1>3 DEF vars, worker, Contents, RowsOK, PutOK, GetOK, Written, Chunk
  <1> QED
    BY <1>2, <1>3

LEMMA GetContents ==
  ASSUME Counts, Contents, NEW h \in Headers, Get(h)
  PROVE  Contents'
  <1>1. UNCHANGED <<csize, upstream>>
    BY DEF Get
  <1>2. CASE op' = Rest("nokey") /\ UNCHANGED cacheVars
    <2>1. RowsOK'
      BY <1>1, <1>2 DEF Contents, RowsOK, Chunk, cacheVars, Get, Idle, At
    <2> QED
      BY <1>2, <2>1, RestOK DEF Contents
  <1>3. CASE /\ upstream # None /\ Refresh
             /\ op' = [Rest("open") EXCEPT !.range = h, !.size = upstream,
                                           !.start = Wanted(h, upstream).start,
                                           !.end = Wanted(h, upstream).end]
    <2>1. RowsOK' /\ meta' = [length |-> upstream, etag |-> upstream]
      BY <1>1, <1>3, RefreshRows DEF Contents, Counts, StoreTyped, Get, Idle, At
    <2>2. op'.pc = "open" /\ op'.body = <<>>
      BY <1>3 DEF Rest
    <2>3. GetOK' /\ PutOK'
      BY <1>1, <2>1, <2>2, NoPut DEF GetOK, PutLabels
    <2> QED
      BY <2>1, <2>3 DEF Contents
  <1> QED
    BY <1>2, <1>3 DEF Get

LEMMA OpenContents ==
  ASSUME Counts, Contents, Open
  PROVE  Contents'
  <1>1. op.pc = "open" /\ Refresh /\ UNCHANGED <<csize, upstream>>
    BY DEF Open, At
  <1>2. /\ upstream \in BodySizes /\ upstream \in Nat /\ op.start \in Nat /\ op.end \in Nat
        /\ csize \in Nat \ {0} /\ ~op.put /\ op \in Requests /\ op.start <= op.end
    BY <1>1, Bounds DEF Counts, GetCounts, GetLabels, IsRange, StoreTyped, OpTyped
  <1>3. RowsOK' /\ meta' = [length |-> upstream, etag |-> upstream]
    BY <1>1, <1>2, RefreshRows DEF Contents
  <1>4. op.body = <<>>
    BY <1>1 DEF Contents, GetOK
  <1>5. CASE op.start >= op.end
    <2>1. op' = [op EXCEPT !.pc = "ok"]
      BY <1>5, OpenCounts
    <2>2. op'.pc = "ok" /\ op'.body = <<>> /\ op'.start = op.start /\ op'.end = op.end
      BY <1>2, <1>4, <2>1 DEF Requests
    <2>3. Slice(upstream, op.start, op.end) = <<>>
      BY <1>2, <1>5, SliceNone
    <2>4. GetOK' /\ PutOK'
      BY <1>1, <2>2, <2>3, NoPut DEF GetOK, GetLabels, PutLabels
    <2> QED
      BY <1>3, <2>4 DEF Contents
  <1>6. CASE ~(op.start >= op.end)
    <2> DEFINE first == FirstChunk(op.start, csize)
    <2>1. /\ op'.pc = "stream" /\ op'.start = op.start /\ op'.end = op.end
          /\ op'.body = op.body /\ op'.idx = first
      BY <1>6, OpenCounts
    <2>2. first \in Nat /\ first * csize <= op.start
      BY <1>2, Division DEF FirstChunk
    <2> HIDE DEF first
    <2>3. Greatest(op.start, first * csize) = op.start
      <3> DEFINE x == first * csize
      <3>1. x \in Nat /\ x <= op.start
        BY <1>2, <2>2
      <3> HIDE DEF x
      <3>2. Greatest(op.start, x) = op.start
        BY <1>2, <3>1 DEF Greatest
      <3> QED
        BY <3>2 DEF x
    <2>4. Slice(upstream, op.start, op.start) = <<>>
      BY <1>2, SliceNone
    <2>5. GetOK' /\ PutOK'
      BY <1>1, <1>3, <1>4, <2>1, <2>3, <2>4, NoPut DEF GetOK, GetLabels, PutLabels
    <2> QED
      BY <1>3, <2>5 DEF Contents
  <1> QED
    BY <1>5, <1>6

(* A piece is the same bytes, whether from a chunk file or the upstream.   *)
LEMMA PieceIs ==
  ASSUME Counts, Contents, op.pc = "stream"
  PROVE  LET p == Piece(op.idx, op.start, op.end, op.size, csize)
             from == op.idx * csize + p.offset
         IN  op.idx \in rows /\ files[op.idx] # None =>
               SubSeq(files[op.idx], p.offset + 1, p.offset + p.length)
                 = Slice(upstream, from, from + p.length)
  <1> SUFFICES ASSUME op.idx \in rows, files[op.idx] # None
               PROVE  LET p == Piece(op.idx, op.start, op.end, op.size, csize)
                          from == op.idx * csize + p.offset
                      IN  SubSeq(files[op.idx], p.offset + 1, p.offset + p.length)
                            = Slice(upstream, from, from + p.length)
    OBVIOUS
  <1> DEFINE p == Piece(op.idx, op.start, op.end, op.size, csize)
             a == op.idx * csize
             e == Least((op.idx + 1) * csize, op.size)
             from == a + p.offset
             to == from + p.length
             m == p.offset + 1
             j == p.offset + p.length
  <1>1. meta = [length |-> upstream, etag |-> upstream] /\ op.size = upstream /\ upstream \in BodySizes
    BY StreamFacts DEF Contents, GetOK, GetLabels
  <1>2. files[op.idx] = Slice(upstream, a, e)
    <2>1. meta # None /\ meta.length = upstream
      BY <1>1, NoMetaAssumption
    <2> QED
      BY <1>1, <2>1 DEF Contents, RowsOK, Chunk
  <1>3. /\ p.offset \in Nat /\ p.length \in Nat /\ a \in Nat
        /\ p.offset + p.length <= e - a /\ a <= e /\ e \in Nat
    BY StreamTiling, Zenon
  <1>4. upstream \in Nat /\ e <= upstream
    <2>1. upstream \in Nat /\ op.idx \in Nat /\ csize \in Nat
      BY <1>1, StreamFacts
    <2> DEFINE b == (op.idx + 1) * csize
    <2>2. b \in Nat
      BY <2>1
    <2> HIDE DEF b
    <2>3. Least(b, upstream) <= upstream
      BY <2>1, <2>2 DEF Least
    <2> QED
      BY <1>1, <2>1, <2>3 DEF b
  <1> HIDE DEF p, a, e
  <1>5. CutAt(upstream, a, e, m, j, from, to)
    BY <1>3, <1>4 DEF CutAt
  <1> HIDE DEF from, to, m, j
  <1>6. SubSeq(Slice(upstream, a, e), m, j) = Slice(upstream, from, to)
    BY <1>5, SliceCut
  <1> QED
    BY <1>2, <1>6, Zenon DEF p, a, from, to, m, j

LEMMA ReadContents ==
  ASSUME Counts, Contents, ReadPiece
  PROVE  Contents'
  <1> DEFINE p == Piece(op.idx, op.start, op.end, op.size, csize)
             from == op.idx * csize + p.offset
             far == p.offset + p.length
             hit == op.idx \in rows
             broken == files[op.idx] = None \/ Len(files[op.idx]) < far
             last == LastChunk(op.end, csize)
             bytes == IF hit THEN SubSeq(files[op.idx], p.offset + 1, far)
                             ELSE Slice(upstream, from, from + p.length)
             piece == Slice(upstream, from, from + p.length)
             to == IF op.idx = last THEN op.end ELSE (op.idx + 1) * csize
  <1>1. /\ op.pc = "stream" /\ UNCHANGED <<csize, upstream, meta, rows, files, chan, upl>>
        /\ IF hit /\ broken
             THEN op' = Rest("error")
             ELSE op' = [op EXCEPT !.pc = IF op.idx = last THEN "ok" ELSE "stream",
                                   !.idx = op.idx + 1, !.body = op.body \o bytes]
    BY DEF ReadPiece, At, cacheVars
  <1>2. RowsOK'
    BY <1>1 DEF Contents, RowsOK, Chunk
  <1>3. CASE op' = Rest("error")
    BY <1>2, <1>3, RestOK DEF Contents
  <1>4. CASE ~(hit /\ broken)
    <2>1. bytes = piece
      BY <1>1, <1>4, PieceIs, Zenon
    <2>2. piece \in Seq(Bytes)
      BY <1>1, ReadBytes
    <2>3. op' = [op EXCEPT !.pc = IF op.idx = last THEN "ok" ELSE "stream",
                           !.idx = op.idx + 1, !.body = op.body \o piece]
      <3> HIDE DEF bytes, piece, last, hit, broken
      <3> QED
        BY <1>1, <1>4, <2>1
    <2> HIDE DEF bytes, piece
    <2>4. /\ op'.pc = IF op.idx = last THEN "ok" ELSE "stream"
          /\ op'.body = op.body \o piece /\ op'.idx = op.idx + 1 /\ op'.put = op.put
          /\ op'.start = op.start /\ op'.end = op.end
      BY <1>1, <2>2, <2>3, AppendPiece
    <2>5. /\ upstream \in Nat /\ op.start \in Nat /\ op.end <= upstream /\ op.end \in Nat /\ ~op.put
      BY <1>1, StreamFacts
    <2>6. /\ from \in Nat /\ from = Greatest(op.start, op.idx * csize) /\ from + p.length = to
          /\ from < to /\ to <= op.end /\ to \in Nat /\ op.start <= from
          /\ op.idx # last => to = Greatest(op.start, (op.idx + 1) * csize)
      BY <1>1, StreamTiling, Zenon
    <2>7. op.body = Slice(upstream, op.start, from)
      BY <1>1, <2>6 DEF Contents, GetOK
    <2>8. piece = Slice(upstream, from, to)
      BY <2>6, Zenon DEF piece
    <2> HIDE DEF from, p
    <2>9. op'.body = Slice(upstream, op.start, to)
      <3> HIDE DEF to
      <3>1. /\ upstream \in Nat /\ op.start \in Nat /\ from \in Nat /\ to \in Nat
            /\ op.start <= from /\ from <= to /\ to <= upstream
        BY <2>5, <2>6
      <3>2. Slice(upstream, op.start, from) \o Slice(upstream, from, to) = Slice(upstream, op.start, to)
        BY <3>1, SliceConcat, Zenon
      <3> QED
        BY <2>4, <2>7, <2>8, <3>2, Zenon
    <2>10. CASE op.idx = last
      <3>1. op'.pc = "ok" /\ op'.body = Slice(upstream, op.start, op.end)
        BY <2>4, <2>9, <2>10
      <3>2. GetOK' /\ PutOK'
        BY <1>1, <2>4, <3>1, NoPut DEF GetOK, GetLabels, PutLabels
      <3> QED
        BY <1>2, <3>2 DEF Contents
    <2>11. CASE op.idx # last
      <3>1. /\ op'.pc = "stream"
            /\ op'.body = Slice(upstream, op.start, Greatest(op.start, op'.idx * csize))
        <4> HIDE DEF to, last
        <4> QED
          BY <2>4, <2>6, <2>9, <2>11
      <3>2. meta = [length |-> upstream, etag |-> upstream]
        BY <1>1 DEF Contents, GetOK, GetLabels
      <3>3. GetOK' /\ PutOK'
        BY <1>1, <2>4, <3>1, <3>2, NoPut DEF GetOK, GetLabels, PutLabels
      <3> QED
        BY <1>2, <3>3 DEF Contents
    <2> QED
      BY <2>10, <2>11
  <1> QED
    BY <1>1, <1>3, <1>4

LEMMA NextContents ==
  ASSUME ~Resize, FALSE \notin Declared
  PROVE  Counts /\ Contents /\ [Next]_vars => Contents'
  <1> SUFFICES ASSUME Counts, Contents, [Next]_vars PROVE Contents'
    OBVIOUS
  <1>1. ASSUME NEW n \in BodySizes, NEW d \in Declared, Put(n, d) PROVE Contents'
    BY <1>1, PutContents
  <1>2. ASSUME NEW h \in Headers, Get(h) PROVE Contents'
    BY <1>2, GetContents
  <1>3. CASE Handle
    BY <1>3, ReceiveContents, SendContents, DrainContents, FinishContents, AwaitContents,
       RegisterContents, RestingContents, OpenContents, ReadContents DEF Handle
  <1>4. CASE ReceiveError
    BY <1>4, ReceiveContents
  <1>5. CASE Disconnect \/ \E c \in ChunkSizes : Restart(c)
    BY <1>5, RestingContents
  <1>6. CASE UploadTask
    BY <1>6, UploadContents
  <1>7. CASE Evict
    BY <1>7, EvictContents
  <1> QED
    BY <1>1, <1>2, <1>3, <1>4, <1>5, <1>6, <1>7, OutsideContents DEF Next

(* The bytes of chunk files, buffers, the channel and responses are those  *)
(* of the objects they belong to.                                          *)
LEMMA ContentsInvariant ==
  ASSUME ~Resize, FALSE \notin Declared
  PROVE  Spec => [](Counts /\ Contents)
  <1>1. Init => Counts /\ Contents
    <2> SUFFICES ASSUME Init PROVE Counts /\ Contents
      OBVIOUS
    <2>1. op.pc = "idle" /\ meta = None /\ rows = {}
      BY DEF Init, Rest
    <2>2. Contents
      BY <2>1 DEF Contents, RowsOK, PutOK, GetOK, PutLabels, Cutting, GetLabels
    <2> QED
      BY <2>2, InitCounts
  <1>2. Counts /\ Contents /\ [Next]_vars => Counts' /\ Contents'
    BY NextCounts, NextContents
  <1> QED
    BY <1>1, <1>2, PTL DEF Spec

(* write_and_cache_object, with a chunk size that stays and PUTs that state*)
(* their length: whenever it waits for the next piece, chunk files and     *)
(* buffer hold the bytes that the upload task has been given, in order,    *)
(* whatever the sizes of pieces and chunks, failures and interleavings;    *)
(* a file that is missing was on the list of the worker (check_and_evict), *)
(* which deletes without looking whether the chunk is another by then.     *)
THEOREM TeeAlways ==
  ASSUME ~Resize, FALSE \notin Declared
  PROVE  Spec => []TeeAgrees
  <1>1. Counts /\ Contents => TeeAgrees
    <2> SUFFICES ASSUME Counts, Contents, op.pc = "recv" PROVE TeeAgrees
      BY DEF TeeAgrees, At
    <2>1. op.got \in Nat /\ op.piece = 0
      BY DEF Counts, OpTyped, Requests, PutCounts
    <2>2. op.got - op.piece = op.got
      BY <2>1
    <2>3. op.idx * csize + Len(op.buf) = op.got - op.piece
      BY DEF Counts, PutCounts, Cutting
    <2>4. /\ op.buf = Slice(op.n, op.idx * csize, op.got - op.piece)
          /\ \A i \in 0..(op.idx - 1) : Written(i, Slice(op.n, i * csize, (i + 1) * csize))
          /\ upl.st = "run" => upl.got + Sum(chan) = op.got - op.piece
      BY DEF Contents, PutOK, Cutting
    <2> QED
      BY <2>2, <2>3, <2>4 DEF TeeAgrees, Written
  <1> QED
    BY <1>1, ContentsInvariant, PTL

(* From the end of its upload to its answer 200, a PUT has its body in the *)
(* upstream and rows for chunks of it only, and each chunk has its row and *)
(* its bytes in the chunk file unless the worker has deleted one of them   *)
(* since the PUT began; with the answer the body's length and ETag are     *)
(* recorded.                                                               *)
THEOREM WholePut ==
  ASSUME ~Resize, FALSE \notin Declared
  PROVE  Spec => PutIsWhole
  <1> DEFINE Whole == At("register") /\ op.decl = op.n =>
               /\ upstream = op.n
               /\ op'.pc = "ok" => meta' = [length |-> upstream, etag |-> upstream]
               /\ rows' \subseteq 0..(ChunkCount(op.n, csize) - 1)
               /\ \A i \in 0..(ChunkCount(op.n, csize) - 1) :
                    LET chunk == Slice(op.n, i * csize, Least((i + 1) * csize, op.n)) IN
                    \/ i \in rows' /\ files'[i] = chunk
                    \/ i \in taken' /\ files'[i] \in {None, chunk}
  <1>1. Counts /\ Contents /\ [Next]_vars => [Whole]_vars
    <2> SUFFICES ASSUME Counts, Contents, Next, op.pc = "register"
                 PROVE  /\ upstream = op.n
                        /\ op'.pc = "ok" => meta' = [length |-> upstream, etag |-> upstream]
                        /\ rows' \subseteq 0..(ChunkCount(op.n, csize) - 1)
                        /\ \A i \in 0..(ChunkCount(op.n, csize) - 1) :
                             \/ i \in rows' /\ files'[i] = Chunk(op.n, i)
                             \/ i \in taken' /\ files'[i] \in {None, Chunk(op.n, i)}
      BY DEF At, Chunk
    <2>1. /\ upstream = op.n /\ op.decl = op.n /\ upl.st = "ok"
          /\ rows \subseteq 0..(ChunkCount(op.n, csize) - 1)
          /\ \A i \in 0..(ChunkCount(op.n, csize) - 1) :
               \/ i \in rows /\ files[i] = Chunk(op.n, i)
               \/ i \in taken /\ files[i] \in {None, Chunk(op.n, i)}
      BY DEF Contents, PutOK, PutLabels
    <2>2. Register \/ Evict
      BY <2>1 DEF Next, Handle, UploadTask, Put, DirectWrite, Get, Idle, At, Receive, Send,
         Drain, Finish, Await, Cleanup, Open, ReadPiece, Reply, Ends, ReceiveError, Pull,
         UploadDone, UploadFails, Disconnect, Restart
    <2>3. CASE Register
      BY <2>1, <2>3 DEF Register, worker
    <2>4. CASE Evict
      <3>1. op' = op /\ csize' = csize /\ op.pc # "ok"
        BY <2>4 DEF Evict, EvictList, EvictFile, EvictRow
      <3>2. PutOK'
        BY <2>4, EvictContents DEF Contents
      <3>3. \A i \in Nat : Chunk(op.n, i)' = Chunk(op.n, i)
        BY <3>1 DEF Chunk
      <3>4. /\ rows' \subseteq 0..(ChunkCount(op.n, csize) - 1)
            /\ \A i \in 0..(ChunkCount(op.n, csize) - 1) :
                 \/ i \in rows' /\ files'[i] = Chunk(op.n, i)'
                 \/ i \in taken' /\ files'[i] \in {None, Chunk(op.n, i)'}
        BY <3>1, <3>2 DEF PutOK
      <3> QED
        BY <2>1, <3>1, <3>3, <3>4
    <2> QED
      BY <2>2, <2>3, <2>4
  <1> QED
    BY <1>1, ContentsInvariant, PTL DEF Spec, PutIsWhole

(* A GET that succeeds returns the bytes its Range header asks for, of the *)
(* object the upstream has, and as many as its Content-Length says: the    *)
(* ranges of parse_range and the pieces of read_range fit for every object *)
(* size, chunk size and header, whatever part of the object is cached.     *)
THEOREM ServedRange ==
  ASSUME ~Resize, FALSE \notin Declared
  PROVE  Spec => []RangeIsServed
  <1>1. Counts /\ Contents => RangeIsServed
    <2> SUFFICES ASSUME Counts, Contents, op.pc = "ok", ~op.put, ~Overflows(op.range)
                 PROVE  /\ Len(op.body) = Greatest(op.end - op.start, 0)
                        /\ op.body \in IF Asked(op.range, upstream) # {}
                                         THEN {Reference(op.range)} ELSE {<<>>, Body(upstream)}
      BY DEF RangeIsServed, At
    <2>1. upstream \in BodySizes /\ IsRange(op.range, upstream, op.start, op.end)
      BY DEF Counts, GetCounts
    <2>2. op.body = Slice(upstream, op.start, op.end)
      BY DEF Contents, GetOK
    <2>3. /\ upstream \in Nat /\ op.start \in Nat /\ op.end \in Nat /\ op.start <= op.end
          /\ op.end <= upstream
      BY <2>1, Bounds DEF IsRange
    <2>4. Len(op.body) = op.end - op.start
      <3>1. Len(Slice(upstream, op.start, op.end)) = op.end - op.start
        BY <2>3, SliceIs, Zenon
      <3> QED
        BY <2>2, <3>1, Zenon
    <2>5. Greatest(op.end - op.start, 0) = op.end - op.start
      BY <2>3 DEF Greatest
    <2>6. Slice(upstream, op.start, op.end)
            \in IF Asked(op.range, upstream) # {} THEN {Reference(op.range)}
                ELSE {<<>>, Body(upstream)}
      BY <2>1, <2>3, Referenced
    <2> QED
      BY <2>2, <2>4, <2>5, <2>6, Zenon
  <1> QED
    BY <1>1, ContentsInvariant, PTL

=============================================================================
