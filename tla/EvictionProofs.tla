--------------------------- MODULE EvictionProofs ---------------------------
(***************************************************************************)
(* Proofs about the eviction worker: what a pass has freed, for any set of *)
(* chunks, any sizes and any limit.                                        *)
(***************************************************************************)
EXTENDS Eviction, FiniteSetTheorems, TLAPS

-----------------------------------------------------------------------------
(* Sums over Chunks.  The library's induction theorems take an operator as *)
(* a parameter; those on minimal elements take a set, and serve as well.   *)

(* A set of numbers that has 0 and, with each, the next one, has them all. *)
LEMMA Induction ==
  ASSUME NEW P \in SUBSET Nat, 0 \in P, \A n \in P : n + 1 \in P
  PROVE  P = Nat
  <1> DEFINE R == OpToRel(<, Nat)
  <1> SUFFICES ASSUME Nat \ P # {} PROVE FALSE
    OBVIOUS
  <1>1. IsWellFoundedOn(R, Nat)
    BY NatLessThanWellFounded, Zenon DEF OpToRel
  <1>2. \A a, b \in Nat : a < b => <<a, b>> \in R
    BY DEF OpToRel
  <1> HIDE DEF R
  <1>3. PICK x \in Nat \ P : \A y \in Nat \ P : ~(<<y, x>> \in R)
    <2>1. Nat \ P \subseteq Nat
      OBVIOUS
    <2> QED
      BY <1>1, <2>1, WFMin
  <1>4. x # 0 /\ x - 1 \in Nat /\ x - 1 < x
    BY <1>3
  <1>5. x - 1 \in P
    BY <1>2, <1>3, <1>4
  <1> QED
    BY <1>3, <1>5

Pick(s) == CHOOSE x \in s : TRUE

(* f adds up the weights w of every set of chunks, as MapThenSumSet does.  *)
Adds(f, w) ==
  f = [s \in SUBSET Chunks |-> IF s = {} THEN 0 ELSE w[Pick(s)] + f[s \ {Pick(s)}]]

Weights == [Chunks -> Int]
Sizing(rs) == [c \in Chunks |-> SizeOf(rs[c])]

LEMMA TotalAdds ==
  ASSUME NEW rs, \E f : Adds(f, Sizing(rs))
  PROVE  \E f : Adds(f, Sizing(rs)) /\ Total(rs) = f[Chunks]
  <1> DEFINE Rec(f) == f = [s \in SUBSET Chunks |->
                              IF s = {} THEN 0
                              ELSE LET x == CHOOSE x \in s : TRUE
                                   IN  SizeOf(rs[x]) + f[s \ {x}]]
  <1>1. \A f : Adds(f, Sizing(rs)) <=> Rec(f)
    <2> TAKE f
    <2>1. \A s \in SUBSET Chunks : s # {} => Pick(s) \in Chunks
      BY DEF Pick
    <2>2. \A s \in SUBSET Chunks :
            (IF s = {} THEN 0 ELSE Sizing(rs)[Pick(s)] + f[s \ {Pick(s)}])
            = IF s = {} THEN 0 ELSE LET x == CHOOSE x \in s : TRUE
                                    IN  SizeOf(rs[x]) + f[s \ {x}]
      BY <2>1 DEF Sizing, Pick
    <2> QED
      BY <2>2 DEF Adds
  <1>2. Total(rs) = (CHOOSE f : Rec(f))[Chunks]
    BY DEF Total, MapThenSumSet, MapThenFoldSet
  <1> HIDE DEF Rec
  <1>3. Rec(CHOOSE f : Rec(f))
    BY <1>1
  <1> QED
    BY <1>1, <1>2, <1>3

(* The sets of at most n chunks.                                           *)
UpTo(n) == {s \in SUBSET Chunks : Cardinality(s) <= n}

AddsTo(f, w, n) ==
  f = [s \in UpTo(n) |-> IF s = {} THEN 0 ELSE w[Pick(s)] + f[s \ {Pick(s)}]]

LEMMA Picked ==
  ASSUME NEW s \in SUBSET Chunks, s # {}
  PROVE  /\ Pick(s) \in s /\ Pick(s) \in Chunks /\ s \ {Pick(s)} \in SUBSET Chunks
         /\ IsFiniteSet(s) /\ Cardinality(s) \in Nat
         /\ Cardinality(s \ {Pick(s)}) = Cardinality(s) - 1
  <1>1. Pick(s) \in s
    BY DEF Pick
  <1>2. IsFiniteSet(s)
    BY FS_Subset, ChunksAssumption
  <1>3. Cardinality(s) \in Nat
    BY <1>2, FS_CardinalityType
  <1>4. Cardinality(s \ {Pick(s)}) = Cardinality(s) - 1
    BY <1>1, <1>2, FS_RemoveElement
  <1> QED
    BY <1>1, <1>2, <1>3, <1>4

(* The recursion of MapThenSumSet has a solution: cardinality by           *)
(* cardinality.                                                            *)
LEMMA AddsExists ==
  ASSUME NEW w
  PROVE  \E f : Adds(f, w)
  <1> DEFINE P == {n \in Nat : \E f : AddsTo(f, w, n)}
  <1>1. 0 \in P
    <2> DEFINE f == [s \in UpTo(0) |-> 0]
    <2>1. \A s \in UpTo(0) : s = {}
      <3> TAKE s \in UpTo(0)
      <3>1. IsFiniteSet(s) /\ Cardinality(s) <= 0
        BY FS_Subset, ChunksAssumption DEF UpTo
      <3>2. Cardinality(s) = 0
        BY <3>1, FS_CardinalityType
      <3> QED
        BY <3>1, <3>2, FS_EmptySet
    <2>2. AddsTo(f, w, 0)
      BY <2>1 DEF AddsTo
    <2> QED
      BY <2>2
  <1>2. ASSUME NEW n \in P PROVE n + 1 \in P
    <2>1. PICK f : AddsTo(f, w, n)
      BY <1>2
    <2> DEFINE g == [s \in UpTo(n + 1) |->
                       IF s = {} THEN 0 ELSE w[Pick(s)] + f[s \ {Pick(s)}]]
    <2>2. n \in Nat
      BY <1>2
    <2>3. ASSUME NEW s \in UpTo(n + 1), s # {}
          PROVE  s \ {Pick(s)} \in UpTo(n) /\ s \ {Pick(s)} \in UpTo(n + 1)
      BY <2>2, <2>3, Picked DEF UpTo
    <2>4. ASSUME NEW s \in UpTo(n) PROVE f[s] = g[s]
      <3>1. s \in UpTo(n + 1)
        <4>1. Cardinality(s) \in Nat /\ Cardinality(s) <= n
          BY FS_Subset, FS_CardinalityType, ChunksAssumption DEF UpTo
        <4> QED
          BY <2>2, <4>1 DEF UpTo
      <3>2. f[s] = IF s = {} THEN 0 ELSE w[Pick(s)] + f[s \ {Pick(s)}]
        BY <2>1 DEF AddsTo
      <3> QED
        BY <3>1, <3>2
    <2>5. AddsTo(g, w, n + 1)
      <3>1. \A s \in UpTo(n + 1) : s # {} => f[s \ {Pick(s)}] = g[s \ {Pick(s)}]
        BY <2>3, <2>4
      <3> DEFINE h == [s \in UpTo(n + 1) |->
                         IF s = {} THEN 0 ELSE w[Pick(s)] + g[s \ {Pick(s)}]]
      <3>2. g = h
        <4>1. \A s \in UpTo(n + 1) : g[s] = h[s]
          <5> TAKE s \in UpTo(n + 1)
          <5>1. s # {} => f[s \ {Pick(s)}] = g[s \ {Pick(s)}]
            BY <3>1
          <5>2. g[s] = IF s = {} THEN 0 ELSE w[Pick(s)] + f[s \ {Pick(s)}]
            OBVIOUS
          <5> HIDE DEF g
          <5> QED
            BY <5>1, <5>2
        <4> QED
          BY <4>1, Zenon
      <3> HIDE DEF g
      <3> QED
        BY <3>2 DEF AddsTo
    <2> HIDE DEF g
    <2> QED
      BY <2>2, <2>5
  <1>3. P = Nat
    <2> HIDE DEF P
    <2>1. P \in SUBSET Nat
      BY DEF P
    <2> QED
      BY <1>1, <1>2, <2>1, Induction
  <1>4. PICK f : AddsTo(f, w, Cardinality(Chunks))
    BY <1>3, FS_CardinalityType, ChunksAssumption
  <1>5. UpTo(Cardinality(Chunks)) = SUBSET Chunks
    BY FS_Subset, ChunksAssumption DEF UpTo
  <1> QED
    BY <1>4, <1>5 DEF Adds, AddsTo

(* A property of sets of chunks that {} has, and that a set has if it is   *)
(* left when an element is picked, holds of Chunks.                        *)
LEMMA SetInduction ==
  ASSUME NEW Q \in SUBSET (SUBSET Chunks), {} \in Q,
         \A s \in SUBSET Chunks : s # {} /\ s \ {Pick(s)} \in Q => s \in Q
  PROVE  Chunks \in Q
  <1> DEFINE P == {n \in Nat : UpTo(n) \subseteq Q}
  <1>1. 0 \in P
    <2>1. ASSUME NEW s \in UpTo(0) PROVE s = {}
      <3>1. IsFiniteSet(s) /\ Cardinality(s) <= 0
        BY FS_Subset, ChunksAssumption DEF UpTo
      <3>2. Cardinality(s) = 0
        BY <3>1, FS_CardinalityType
      <3> QED
        BY <3>1, <3>2, FS_EmptySet
    <2> QED
      BY <2>1
  <1>2. ASSUME NEW n \in P PROVE n + 1 \in P
    <2>1. n \in Nat /\ UpTo(n) \subseteq Q
      BY <1>2
    <2>2. ASSUME NEW s \in UpTo(n + 1), s # {} PROVE s \ {Pick(s)} \in UpTo(n)
      BY <2>1, <2>2, Picked DEF UpTo
    <2>3. \A s \in UpTo(n + 1) : s \in Q
      BY <2>1, <2>2 DEF UpTo
    <2> QED
      BY <2>1, <2>3
  <1>3. P = Nat
    <2> HIDE DEF P
    <2>1. P \in SUBSET Nat
      BY DEF P
    <2> QED
      BY <1>1, <1>2, <2>1, Induction
  <1>4. Cardinality(Chunks) \in P
    BY <1>3, FS_CardinalityType, ChunksAssumption
  <1>5. Chunks \in UpTo(Cardinality(Chunks))
    BY FS_Subset, ChunksAssumption DEF UpTo
  <1> QED
    BY <1>4, <1>5

(* The sum of the weights w of all chunks.                                 *)
SumOf(w) == (CHOOSE f : Adds(f, w))[Chunks]

LEMMA Summed ==
  ASSUME NEW w, NEW f, Adds(f, w)
  PROVE  /\ f[{}] = 0
         /\ \A s \in SUBSET Chunks : s # {} => f[s] = w[Pick(s)] + f[s \ {Pick(s)}]
  BY DEF Adds

(* Two functions that add up the same weights agree.                       *)
LEMMA SumUnique ==
  ASSUME NEW w, NEW f, Adds(f, w)
  PROVE  f[Chunks] = SumOf(w)
  <1> DEFINE g == CHOOSE f_1 : Adds(f_1, w)
             Q == {s \in SUBSET Chunks : f[s] = g[s]}
  <1>1. Adds(g, w)
    OBVIOUS
  <1> HIDE DEF g
  <1>2. {} \in Q
    BY <1>1, Summed
  <1>3. ASSUME NEW s \in SUBSET Chunks, s # {}, s \ {Pick(s)} \in Q PROVE s \in Q
    BY <1>1, <1>3, Summed
  <1>4. Chunks \in Q
    <2> HIDE DEF Q
    <2>1. Q \in SUBSET (SUBSET Chunks)
      BY DEF Q
    <2> QED
      BY <1>2, <1>3, <2>1, SetInduction
  <1> QED
    BY <1>4 DEF SumOf, g

LEMMA TotalIsSum ==
  ASSUME NEW rs
  PROVE  Total(rs) = SumOf(Sizing(rs))
  BY AddsExists, TotalAdds, SumUnique

(* The sum of integers is one.                                             *)
LEMMA SumType ==
  ASSUME NEW w \in Weights
  PROVE  SumOf(w) \in Int
  <1>1. PICK f : Adds(f, w)
    BY AddsExists
  <1> DEFINE Q == {s \in SUBSET Chunks : f[s] \in Int}
  <1>2. {} \in Q
    BY <1>1, Summed
  <1>3. ASSUME NEW s \in SUBSET Chunks, s # {}, s \ {Pick(s)} \in Q PROVE s \in Q
    <2>1. w[Pick(s)] \in Int
      BY <1>3, Picked DEF Weights
    <2>2. f[s] = w[Pick(s)] + f[s \ {Pick(s)}]
      BY <1>1, <1>3, Summed
    <2> QED
      BY <1>3, <2>1, <2>2
  <1>4. Chunks \in Q
    <2> HIDE DEF Q
    <2>1. Q \in SUBSET (SUBSET Chunks)
      BY DEF Q
    <2> QED
      BY <1>2, <1>3, <2>1, SetInduction
  <1> QED
    BY <1>1, <1>4, SumUnique

(* Sums are monotonic.                                                     *)
LEMMA SumMonotonic ==
  ASSUME NEW v \in Weights, NEW w \in Weights, \A c \in Chunks : v[c] <= w[c]
  PROVE  SumOf(v) <= SumOf(w)
  <1>1. PICK f : Adds(f, v)
    BY AddsExists
  <1>2. PICK g : Adds(g, w)
    BY AddsExists
  <1> DEFINE Q == {s \in SUBSET Chunks : f[s] \in Int /\ g[s] \in Int /\ f[s] <= g[s]}
  <1>3. {} \in Q
    BY <1>1, <1>2, Summed
  <1>4. ASSUME NEW s \in SUBSET Chunks, s # {}, s \ {Pick(s)} \in Q PROVE s \in Q
    <2>1. v[Pick(s)] \in Int /\ w[Pick(s)] \in Int /\ v[Pick(s)] <= w[Pick(s)]
      BY <1>4, Picked DEF Weights
    <2>2. f[s] = v[Pick(s)] + f[s \ {Pick(s)}]
      BY <1>1, <1>4, Summed
    <2>3. g[s] = w[Pick(s)] + g[s \ {Pick(s)}]
      BY <1>2, <1>4, Summed
    <2> QED
      BY <1>4, <2>1, <2>2, <2>3
  <1>5. Chunks \in Q
    <2> HIDE DEF Q
    <2>1. Q \in SUBSET (SUBSET Chunks)
      BY DEF Q
    <2> QED
      BY <1>3, <1>4, <2>1, SetInduction
  <1>6. f[Chunks] <= g[Chunks]
    BY <1>5
  <1> QED
    BY <1>1, <1>2, <1>6, SumUnique

(* The sum of two weights is the sum of their sums.                        *)
LEMMA SumAdd ==
  ASSUME NEW v \in Weights, NEW w \in Weights
  PROVE  SumOf([c \in Chunks |-> v[c] + w[c]]) = SumOf(v) + SumOf(w)
  <1> DEFINE u == [c \in Chunks |-> v[c] + w[c]]
  <1>1. PICK f : Adds(f, v)
    BY AddsExists
  <1>2. PICK g : Adds(g, w)
    BY AddsExists
  <1>3. PICK h : Adds(h, u)
    BY AddsExists
  <1> DEFINE Q == {s \in SUBSET Chunks : f[s] \in Int /\ g[s] \in Int /\ h[s] = f[s] + g[s]}
  <1>4. {} \in Q
    BY <1>1, <1>2, <1>3, Summed
  <1>5. ASSUME NEW s \in SUBSET Chunks, s # {}, s \ {Pick(s)} \in Q PROVE s \in Q
    <2>1. v[Pick(s)] \in Int /\ w[Pick(s)] \in Int /\ u[Pick(s)] = v[Pick(s)] + w[Pick(s)]
      BY <1>5, Picked DEF Weights
    <2> HIDE DEF u
    <2>2. /\ f[s] = v[Pick(s)] + f[s \ {Pick(s)}] /\ g[s] = w[Pick(s)] + g[s \ {Pick(s)}]
          /\ h[s] = u[Pick(s)] + h[s \ {Pick(s)}]
      BY <1>1, <1>2, <1>3, <1>5, Summed
    <2> QED
      BY <1>5, <2>1, <2>2
  <1>6. Chunks \in Q
    <2> HIDE DEF Q
    <2>1. Q \in SUBSET (SUBSET Chunks)
      BY DEF Q
    <2> QED
      BY <1>4, <1>5, <2>1, SetInduction
  <1>7. h[Chunks] = f[Chunks] + g[Chunks]
    BY <1>6
  <1> HIDE DEF u
  <1>8. SumOf(u) = SumOf(v) + SumOf(w)
    BY <1>1, <1>2, <1>3, <1>7, SumUnique
  <1> QED
    BY <1>8 DEF u

(* A single weight that is not 0 is the sum.                               *)
LEMMA SumSingle ==
  ASSUME NEW e \in Chunks, NEW n \in Int
  PROVE  SumOf([c \in Chunks |-> IF c = e THEN n ELSE 0]) = n
  <1> DEFINE w == [c \in Chunks |-> IF c = e THEN n ELSE 0]
  <1>1. PICK f : Adds(f, w)
    BY AddsExists
  <1> DEFINE Q == {s \in SUBSET Chunks : f[s] = IF e \in s THEN n ELSE 0}
  <1>2. {} \in Q
    BY <1>1, Summed
  <1>3. ASSUME NEW s \in SUBSET Chunks, s # {}, s \ {Pick(s)} \in Q PROVE s \in Q
    <2>1. Pick(s) \in s /\ w[Pick(s)] = IF Pick(s) = e THEN n ELSE 0
      BY <1>3, Picked
    <2> HIDE DEF w
    <2>2. f[s] = w[Pick(s)] + f[s \ {Pick(s)}]
      BY <1>1, <1>3, Summed
    <2>3. f[s \ {Pick(s)}] = IF e \in s \ {Pick(s)} THEN n ELSE 0
      BY <1>3
    <2>4. f[s] = IF e \in s THEN n ELSE 0
      BY <2>1, <2>2, <2>3
    <2> QED
      BY <2>4
  <1>4. Chunks \in Q
    <2> HIDE DEF Q
    <2>1. Q \in SUBSET (SUBSET Chunks)
      BY DEF Q
    <2> QED
      BY <1>2, <1>3, <2>1, SetInduction
  <1>5. f[Chunks] = n
    BY <1>4
  <1> HIDE DEF w
  <1>6. SumOf(w) = n
    BY <1>1, <1>5, SumUnique
  <1> QED
    BY <1>6 DEF w

LEMMA SumZero ==
  SumOf([c \in Chunks |-> 0]) = 0
  <1> DEFINE z == [c \in Chunks |-> 0]
  <1>1. z \in Weights /\ z = [c \in Chunks |-> z[c] + z[c]]
    <2>1. \A c \in Chunks : z[c] = 0 /\ z[c] + z[c] = 0
      OBVIOUS
    <2>2. z \in Weights
      BY DEF Weights
    <2>3. z = [c \in Chunks |-> z[c] + z[c]]
      BY <2>1, Zenon
    <2> HIDE DEF z
    <2> QED
      BY <2>2, <2>3
  <1> HIDE DEF z
  <1>2. SumOf(z) = SumOf(z) + SumOf(z)
    BY <1>1, SumAdd
  <1>3. SumOf(z) \in Int
    BY <1>1, SumType
  <1>4. SumOf(z) = 0
    <2>1. \A n \in Int : n = n + n => n = 0
      OBVIOUS
    <2> QED
      BY <1>2, <1>3, <2>1
  <1> QED
    BY <1>4 DEF z

(* One weight changes.                                                     *)
LEMMA SumUpdate ==
  ASSUME NEW v \in Weights, NEW w \in Weights, NEW e \in Chunks,
         \A c \in Chunks \ {e} : v[c] = w[c]
  PROVE  SumOf(v) = SumOf(w) + (v[e] - w[e])
  <1> DEFINE n == v[e] - w[e]
             d == [c \in Chunks |-> IF c = e THEN n ELSE 0]
  <1>1. n \in Int
    BY DEF Weights
  <1>2. d \in Weights
    BY <1>1 DEF Weights
  <1>3. v = [c \in Chunks |-> w[c] + d[c]]
    <2>1. ASSUME NEW c \in Chunks PROVE v[c] = w[c] + d[c]
      BY DEF Weights
    <2> QED
      BY <2>1 DEF Weights
  <1>4. SumOf(d) = n
    BY <1>1, SumSingle
  <1> HIDE DEF d, n
  <1>5. SumOf(v) = SumOf(w) + SumOf(d)
    BY <1>2, <1>3, SumAdd
  <1> QED
    BY <1>4, <1>5 DEF n

-----------------------------------------------------------------------------
(* The books of a pass.                                                    *)

Rows == [Chunks -> Row \cup {None}]

(* Of each chunk, the bytes that the pass has still to free, and those of  *)
(* its row beyond them.                                                    *)
Left(p) == [c \in Chunks |-> IF c \in p.todo THEN p.list[c].size ELSE 0]
Over(rs, p) == [c \in Chunks |-> IF SizeOf(rs[c]) > Left(p)[c]
                                   THEN SizeOf(rs[c]) - Left(p)[c] ELSE 0]

Typed ==
  /\ rows \in Rows
  /\ now \in 0..MaxTime
  /\ touch \in [Readers -> [chunk : Chunks, row : Row] \cup {None}]
  /\ pass \in [on : BOOLEAN, list : Rows, todo : SUBSET Chunks, need : Int,
               freed : Int, added : Nat]
  /\ pass.todo \subseteq Listed(pass.list)
  /\ writes \in 0..MaxWrites

(* Every byte listed is freed or still to be freed.                        *)
Accounted == pass.freed + SumOf(Left(pass)) = Total(pass.list)

(* What rows have beyond the candidates left came after the listing.       *)
Bounded ==
  pass.on => /\ pass.need = Total(pass.list) - TargetSize
             /\ SumOf(Over(rows, pass)) <= pass.added

(* The candidates left are no older than those evicted.                    *)
Ordered ==
  \A c \in Listed(pass.list) \ pass.todo, d \in pass.todo :
    pass.list[c].at <= pass.list[d].at

EvictInv == Typed /\ Accounted /\ Bounded /\ Ordered

LEMMA RowFacts ==
  ASSUME NEW rs \in Rows, NEW c \in Chunks
  PROVE  /\ SizeOf(rs[c]) \in Nat
         /\ rs[c] # None => rs[c].size \in Nat /\ rs[c].at \in Int /\ SizeOf(rs[c]) = rs[c].size
  <1>1. rs[c] = None \/ rs[c] \in Row
    BY DEF Rows
  <1>2. ASSUME rs[c] \in Row
        PROVE  rs[c].size \in Nat /\ rs[c].at \in Int /\ SizeOf(rs[c]) = rs[c].size
    <2>1. rs[c].size \in Sizes /\ rs[c].at \in 0..MaxTime
      BY <1>2 DEF Row
    <2>2. SizeOf(rs[c]) = rs[c].size
      BY <1>2, NoneAssumption DEF SizeOf
    <2>3. rs[c].size \in Nat
      BY <2>1, SizesAssumption
    <2>4. rs[c].at \in Int
      BY <2>1, BoundsAssumption
    <2> QED
      BY <2>2, <2>3, <2>4
  <1>3. rs[c] = None => SizeOf(rs[c]) = 0
    BY DEF SizeOf
  <1> QED
    BY <1>1, <1>2, <1>3

LEMMA WeightFacts ==
  ASSUME NEW rs \in Rows, NEW p,
         p.list \in Rows, p.todo \subseteq Listed(p.list)
  PROVE  /\ Sizing(rs) \in Weights /\ Left(p) \in Weights /\ Over(rs, p) \in Weights
         /\ \A c \in Chunks : /\ Sizing(rs)[c] \in Nat /\ Left(p)[c] \in Nat
                              /\ Over(rs, p)[c] \in Nat
                              /\ Sizing(rs)[c] <= Left(p)[c] + Over(rs, p)[c]
  <1>1. ASSUME NEW c \in Chunks
        PROVE  /\ SizeOf(rs[c]) \in Nat
               /\ c \in p.todo => p.list[c].size \in Nat
    BY RowFacts DEF Listed
  <1>2. \A c \in Chunks : Left(p)[c] \in Nat
    BY <1>1 DEF Left
  <1>3. \A c \in Chunks : Sizing(rs)[c] = SizeOf(rs[c])
    BY DEF Sizing
  <1>4. \A c \in Chunks : Over(rs, p)[c] = IF SizeOf(rs[c]) > Left(p)[c]
                                             THEN SizeOf(rs[c]) - Left(p)[c] ELSE 0
    BY DEF Over
  <1>5. \A c \in Chunks : /\ Sizing(rs)[c] \in Nat /\ Left(p)[c] \in Nat
                          /\ Over(rs, p)[c] \in Nat
                          /\ Sizing(rs)[c] <= Left(p)[c] + Over(rs, p)[c]
    BY <1>1, <1>2, <1>3, <1>4
  <1>6. /\ Sizing(rs) = [c \in Chunks |-> Sizing(rs)[c]]
        /\ Left(p) = [c \in Chunks |-> Left(p)[c]]
        /\ Over(rs, p) = [c \in Chunks |-> Over(rs, p)[c]]
    BY DEF Sizing, Left, Over
  <1> QED
    BY <1>5, <1>6 DEF Weights

LEMMA SumNat ==
  ASSUME NEW w \in Weights, \A c \in Chunks : w[c] \in Nat
  PROVE  SumOf(w) \in Nat
  <1> DEFINE z == [c \in Chunks |-> 0]
  <1>1. z \in Weights /\ (\A c \in Chunks : z[c] <= w[c]) /\ SumOf(z) = 0
    BY SumZero DEF Weights
  <1> HIDE DEF z
  <1>2. SumOf(z) <= SumOf(w)
    BY <1>1, SumMonotonic
  <1> QED
    BY <1>1, <1>2, SumType

(* Without a pass nothing is listed.                                       *)
LEMMA OffFacts ==
  /\ Off \in [on : BOOLEAN, list : Rows, todo : SUBSET Chunks, need : Int,
              freed : Int, added : Nat]
  /\ ~Off.on /\ Off.todo = {} /\ Off.freed = 0 /\ Off.added = 0
  /\ Off.freed + SumOf(Left(Off)) = Total(Off.list)
  /\ Listed(Off.list) = {}
  <1>1. NoRows \in Rows
    BY DEF NoRows, Rows
  <1>2. /\ Off \in [on : BOOLEAN, list : Rows, todo : SUBSET Chunks, need : Int,
                    freed : Int, added : Nat]
        /\ ~Off.on /\ Off.todo = {} /\ Off.freed = 0 /\ Off.added = 0 /\ Off.list = NoRows
    BY <1>1 DEF Off
  <1>3. Listed(NoRows) = {}
    BY DEF Listed, NoRows
  <1>4. Left(Off) = [c \in Chunks |-> 0]
    BY <1>2 DEF Left
  <1>5. Sizing(NoRows) = [c \in Chunks |-> 0]
    BY DEF Sizing, NoRows, SizeOf
  <1>6. SumOf(Left(Off)) = 0
    BY <1>4, SumZero
  <1>7. Total(NoRows) = 0
    BY <1>5, SumZero, TotalIsSum
  <1> QED
    BY <1>2, <1>3, <1>6, <1>7

LEMMA InitEvict == Init => EvictInv
  <1> SUFFICES ASSUME Init PROVE EvictInv
    OBVIOUS
  <1>1. Typed
    <2>1. rows \in Rows
      BY DEF Init, NoRows, Rows
    <2>2. now \in 0..MaxTime /\ writes \in 0..MaxWrites
      BY BoundsAssumption DEF Init
    <2>3. touch \in [Readers -> [chunk : Chunks, row : Row] \cup {None}]
      BY DEF Init
    <2> QED
      BY <2>1, <2>2, <2>3, OffFacts DEF Init, Typed
  <1>2. Accounted /\ Bounded /\ Ordered
    BY OffFacts DEF Init, Accounted, Bounded, Ordered
  <1> QED
    BY <1>1, <1>2 DEF EvictInv

(* A pass that is off, whatever rows and tasks do.                         *)
LEMMA OffKeeps ==
  ASSUME pass' = Off
  PROVE  /\ Accounted' /\ Bounded' /\ Ordered'
         /\ pass' \in [on : BOOLEAN, list : Rows, todo : SUBSET Chunks, need : Int,
                       freed : Int, added : Nat]
         /\ (pass.todo \subseteq Listed(pass.list))'
  <1>1. Accounted'
    BY OffFacts DEF Accounted
  <1>2. Bounded'
    BY OffFacts DEF Bounded
  <1>3. Ordered' /\ (pass.todo \subseteq Listed(pass.list))'
    BY OffFacts DEF Ordered
  <1> QED
    BY <1>1, <1>2, <1>3, OffFacts

(* The rows of chunk e change: what they have over changes there alone.    *)
LEMMA OverStep ==
  ASSUME NEW rs \in Rows, NEW new \in Rows, NEW p, NEW e \in Chunks,
         p.list \in Rows, p.todo \subseteq Listed(p.list),
         \A c \in Chunks \ {e} : new[c] = rs[c]
  PROVE  SumOf(Over(new, p)) = SumOf(Over(rs, p)) + (Over(new, p)[e] - Over(rs, p)[e])
  <1>1. Over(new, p) \in Weights /\ Over(rs, p) \in Weights
    BY WeightFacts
  <1>2. \A c \in Chunks \ {e} : Over(new, p)[c] = Over(rs, p)[c]
    BY DEF Over
  <1> HIDE DEF Over
  <1> QED
    BY <1>1, <1>2, SumUpdate

(* put_chunk.                                                              *)
LEMMA WriteKeeps ==
  ASSUME EvictInv, NEW e \in Chunks, NEW row \in Row, WriteRow(e, row)
  PROVE  /\ rows' \in Rows
         /\ pass' \in [on : BOOLEAN, list : Rows, todo : SUBSET Chunks, need : Int,
                       freed : Int, added : Nat]
         /\ (pass.todo \subseteq Listed(pass.list))'
         /\ Accounted' /\ Bounded' /\ Ordered'
  <1> DEFINE growth == SizeOf(row) - SizeOf(rows[e])
  <1>1. Typed
    BY DEF EvictInv
  <1>2. rows' \in Rows /\ rows'[e] = row /\ \A c \in Chunks \ {e} : rows'[c] = rows[c]
    BY <1>1 DEF WriteRow, Typed, Rows
  <1>3. SizeOf(row) \in Nat /\ SizeOf(rows[e]) \in Nat
    BY <1>1, <1>2, RowFacts DEF Typed
  <1>4. /\ pass'.list = pass.list /\ pass'.todo = pass.todo /\ pass'.on = pass.on
        /\ pass'.freed = pass.freed /\ pass'.need = pass.need
        /\ pass'.added = IF pass.on /\ growth > 0 THEN pass.added + growth ELSE pass.added
    BY <1>1 DEF WriteRow, Typed
  <1>5. pass' \in [on : BOOLEAN, list : Rows, todo : SUBSET Chunks, need : Int,
                   freed : Int, added : Nat]
    <2> DEFINE n == IF pass.on /\ growth > 0 THEN pass.added + growth ELSE pass.added
    <2>1. n \in Nat
      BY <1>1, <1>3 DEF Typed
    <2>2. pass' = [pass EXCEPT !.added = n]
      BY DEF WriteRow
    <2> HIDE DEF n
    <2> QED
      BY <1>1, <2>1, <2>2 DEF Typed
  <1>6. Left(pass') = Left(pass) /\ Over(rows', pass') = Over(rows', pass)
    BY <1>4 DEF Left, Over
  <1>7. Bounded'
    <2>1. SUFFICES ASSUME pass.on PROVE SumOf(Over(rows', pass)) <= pass'.added
      BY <1>4, <1>6, EvictInv DEF EvictInv, Bounded
    <2> DEFINE was == Over(rows, pass)[e]
               is == Over(rows', pass)[e]
    <2>2. /\ was = IF SizeOf(rows[e]) > Left(pass)[e] THEN SizeOf(rows[e]) - Left(pass)[e] ELSE 0
          /\ is = IF SizeOf(row) > Left(pass)[e] THEN SizeOf(row) - Left(pass)[e] ELSE 0
      BY <1>2 DEF Over
    <2>3. Left(pass)[e] \in Nat
      BY <1>1, WeightFacts DEF Typed
    <2>4. is - was <= IF growth > 0 THEN growth ELSE 0
      BY <1>3, <2>2, <2>3
    <2>5. SumOf(Over(rows', pass)) = SumOf(Over(rows, pass)) + (is - was)
      BY <1>1, <1>2, OverStep DEF Typed
    <2>6. SumOf(Over(rows, pass)) \in Int /\ SumOf(Over(rows, pass)) <= pass.added
      BY <1>1, <2>1, WeightFacts, SumType DEF Typed, EvictInv, Bounded
    <2>7. is \in Int /\ was \in Int
      BY <1>3, <2>2, <2>3
    <2>8. pass.added \in Nat
      BY <1>1 DEF Typed
    <2> HIDE DEF is, was
    <2> QED
      BY <1>3, <1>4, <2>1, <2>4, <2>5, <2>6, <2>7, <2>8
  <1>8. Accounted' /\ Ordered' /\ (pass.todo \subseteq Listed(pass.list))'
    BY <1>1, <1>4, <1>6 DEF EvictInv, Accounted, Ordered, Typed
  <1> QED
    BY <1>2, <1>5, <1>7, <1>8

(* drop_cache_for_object: a row goes.                                      *)
LEMMA DropKeeps ==
  ASSUME EvictInv, NEW e \in Chunks, Drop(e)
  PROVE  EvictInv'
  <1>1. Typed
    BY DEF EvictInv
  <1>2. /\ rows' \in Rows /\ rows'[e] = None /\ \A c \in Chunks \ {e} : rows'[c] = rows[c]
        /\ UNCHANGED <<now, touch, pass, writes>>
    BY <1>1 DEF Drop, Typed, Rows
  <1>3. Typed' /\ Accounted' /\ Ordered'
    BY <1>1, <1>2 DEF EvictInv, Typed, Accounted, Ordered
  <1>4. Bounded'
    <2>1. SUFFICES ASSUME pass.on PROVE SumOf(Over(rows', pass)) <= pass.added
      BY <1>2 DEF EvictInv, Bounded
    <2>2. Over(rows', pass)[e] = 0
      <3>1. Left(pass)[e] \in Nat /\ SizeOf(rows'[e]) = 0
        BY <1>1, <1>2, WeightFacts DEF Typed, SizeOf
      <3> QED
        BY <3>1 DEF Over
    <2>3. Over(rows, pass)[e] \in Nat /\ SumOf(Over(rows, pass)) \in Int
      BY <1>1, WeightFacts, SumType DEF Typed
    <2>4. SumOf(Over(rows', pass)) =
            SumOf(Over(rows, pass)) + (Over(rows', pass)[e] - Over(rows, pass)[e])
      BY <1>1, <1>2, OverStep DEF Typed
    <2>5. SumOf(Over(rows, pass)) <= pass.added /\ pass.added \in Nat
      BY <1>1, <2>1 DEF EvictInv, Bounded, Typed
    <2> QED
      BY <2>2, <2>3, <2>4, <2>5
  <1> QED
    BY <1>3, <1>4 DEF EvictInv

(* The steps of PUTs and GETs.                                             *)
LEMMA RequestKeeps ==
  ASSUME EvictInv,
         \/ \E c \in Chunks, n \in Sizes : Register(c, n)
         \/ \E r \in Readers : TouchWrite(r) \/ \E c \in Chunks : TouchRead(r, c)
  PROVE  EvictInv'
  <1>1. Typed
    BY DEF EvictInv
  <1>2. ASSUME NEW c \in Chunks, NEW n \in Sizes, Register(c, n) PROVE EvictInv'
    <2>1. [size |-> n, at |-> now] \in Row
      BY <1>1 DEF Row, Typed
    <2>2. /\ WriteRow(c, [size |-> n, at |-> now]) /\ writes < MaxWrites
          /\ writes' = writes + 1 /\ UNCHANGED <<now, touch>>
      BY <1>2 DEF Register
    <2>3. writes' \in 0..MaxWrites
      BY <1>1, <2>2, BoundsAssumption DEF Typed
    <2> QED
      BY <1>1, <2>1, <2>2, <2>3, WriteKeeps DEF Typed, EvictInv
  <1>3. ASSUME NEW r \in Readers, TouchWrite(r) PROVE EvictInv'
    <2>1. touch[r].chunk \in Chunks /\ touch[r].row \in Row
      BY <1>1, <1>3 DEF TouchWrite, Typed
    <2>2. /\ WriteRow(touch[r].chunk, touch[r].row)
          /\ touch' = [touch EXCEPT ![r] = None] /\ UNCHANGED <<now, writes>>
      BY <1>3 DEF TouchWrite
    <2>3. touch' \in [Readers -> [chunk : Chunks, row : Row] \cup {None}]
      BY <1>1, <2>2 DEF Typed
    <2> QED
      BY <1>1, <2>1, <2>2, <2>3, WriteKeeps DEF Typed, EvictInv
  <1>4. ASSUME NEW r \in Readers, NEW c \in Chunks, TouchRead(r, c) PROVE EvictInv'
    <2>1. /\ rows[c] # None /\ writes < MaxWrites /\ writes' = writes + 1
          /\ touch' = [touch EXCEPT ![r] = [chunk |-> c, row |-> [rows[c] EXCEPT !.at = now]]]
          /\ UNCHANGED <<rows, now, pass>>
      BY <1>4 DEF TouchRead
    <2>2. rows[c] \in Row /\ now \in 0..MaxTime
      BY <1>1, <2>1 DEF Typed, Rows
    <2>3. [rows[c] EXCEPT !.at = now] \in Row
      BY <2>2 DEF Row
    <2>4. touch' \in [Readers -> [chunk : Chunks, row : Row] \cup {None}]
      BY <1>1, <2>1, <2>3 DEF Typed
    <2>5. writes' \in 0..MaxWrites
      BY <1>1, <2>1, BoundsAssumption DEF Typed
    <2>6. Typed'
      BY <1>1, <2>1, <2>4, <2>5 DEF Typed
    <2> QED
      BY <2>1, <2>6 DEF EvictInv, Accounted, Bounded, Ordered
  <1> QED
    BY <1>2, <1>3, <1>4

(* list_all_chunks, when the rows are beyond the limit.                    *)
LEMMA StartKeeps ==
  ASSUME EvictInv, StartPass
  PROVE  EvictInv'
  <1> DEFINE need == Total(rows) - TargetSize
             p == [on |-> TRUE, list |-> rows, todo |-> Listed(rows), need |-> need,
                   freed |-> 0, added |-> 0]
  <1>1. Typed /\ pass' = p /\ UNCHANGED <<rows, now, touch, writes>>
    BY DEF EvictInv, StartPass, Off
  <1>2. /\ p.on = TRUE /\ p.list = rows /\ p.todo = Listed(rows) /\ p.freed = 0
        /\ p.added = 0 /\ p.need = Total(rows) - TargetSize
    OBVIOUS
  <1>3. Total(rows) = SumOf(Sizing(rows)) /\ Sizing(rows) \in Weights /\ Total(rows) \in Int
    <2>1. Sizing(rows) \in Weights
      BY <1>1, OffFacts, WeightFacts DEF Typed
    <2> QED
      BY <2>1, TotalIsSum, SumType
  <1>4. TargetSize \in Int
    BY SizesAssumption DEF TargetSize
  <1>5. Listed(rows) \subseteq Chunks
    BY DEF Listed
  <1>6. p \in [on : BOOLEAN, list : Rows, todo : SUBSET Chunks, need : Int,
               freed : Int, added : Nat]
    <2>1. rows \in Rows /\ need \in Int /\ Listed(rows) \in SUBSET Chunks
      BY <1>1, <1>3, <1>4, <1>5 DEF Typed
    <2> HIDE DEF need
    <2> QED
      BY <2>1
  <1>7. Left(p) = Sizing(rows)
    <2>1. ASSUME NEW c \in Chunks
          PROVE  (IF c \in p.todo THEN p.list[c].size ELSE 0) = SizeOf(rows[c])
      BY <1>2 DEF Listed, SizeOf
    <2> HIDE DEF p
    <2> QED
      BY <2>1 DEF Left, Sizing
  <1>8. Over(rows, p) = [c \in Chunks |-> 0]
    <2> HIDE DEF p
    <2>1. ASSUME NEW c \in Chunks
          PROVE  ~(SizeOf(rows[c]) > Left(p)[c])
      <3>1. Left(p)[c] = SizeOf(rows[c])
        BY <1>7 DEF Sizing
      <3>2. SizeOf(rows[c]) \in Nat
        BY <1>1, RowFacts DEF Typed
      <3> QED
        BY <3>1, <3>2
    <2> QED
      BY <2>1 DEF Over
  <1> HIDE DEF p
  <1>9. Typed'
    BY <1>1, <1>2, <1>6 DEF Typed
  <1>10. Accounted' /\ Bounded'
    <2>1. 0 + SumOf(Left(p)) = Total(rows)
      BY <1>3, <1>7
    <2>2. SumOf(Over(rows, p)) = 0
      BY <1>8, SumZero
    <2> QED
      BY <1>1, <1>2, <2>1, <2>2 DEF Accounted, Bounded
  <1>11. Ordered'
    BY <1>1, <1>2 DEF Ordered
  <1> QED
    BY <1>9, <1>10, <1>11 DEF EvictInv

(* delete_chunk of the next candidate.                                     *)
LEMMA EvictKeeps ==
  ASSUME EvictInv, NEW e \in Chunks, EvictChunk(e)
  PROVE  EvictInv'
  <1>1. Typed
    BY DEF EvictInv
  <1>2. /\ pass.on /\ e \in pass.todo
        /\ \A d \in pass.todo : pass.list[e].at <= pass.list[d].at
        /\ rows' = [rows EXCEPT ![e] = None]
        /\ pass' = [pass EXCEPT !.todo = @ \ {e}, !.freed = @ + pass.list[e].size]
        /\ UNCHANGED <<now, touch, writes>>
    BY DEF EvictChunk, IsNext
  <1>3. /\ pass'.list = pass.list /\ pass'.todo = pass.todo \ {e} /\ pass'.on = pass.on
        /\ pass'.freed = pass.freed + pass.list[e].size /\ pass'.need = pass.need
        /\ pass'.added = pass.added
    BY <1>1, <1>2 DEF Typed
  <1>4. rows' \in Rows /\ rows'[e] = None /\ \A c \in Chunks \ {e} : rows'[c] = rows[c]
    BY <1>1, <1>2 DEF Typed, Rows
  <1>5. pass.list[e].size \in Nat /\ pass.list \in Rows /\ pass.freed \in Int
    BY <1>1, <1>2, RowFacts DEF Typed, Listed
  <1>6. Typed'
    <2>1. pass' \in [on : BOOLEAN, list : Rows, todo : SUBSET Chunks, need : Int,
                     freed : Int, added : Nat]
      <3> DEFINE n == pass.freed + pass.list[e].size
                 t == pass.todo \ {e}
      <3>1. n \in Int /\ t \in SUBSET Chunks
        BY <1>1, <1>5 DEF Typed
      <3>2. pass' = [pass EXCEPT !.todo = t, !.freed = n]
        BY <1>2
      <3> HIDE DEF n, t
      <3> QED
        BY <1>1, <3>1, <3>2 DEF Typed
    <2> QED
      BY <1>1, <1>2, <1>3, <1>4, <2>1 DEF Typed
  <1>7. /\ Left(pass) \in Weights /\ Left(pass') \in Weights
        /\ Left(pass)[e] = pass.list[e].size /\ Left(pass')[e] = 0
        /\ \A c \in Chunks \ {e} : Left(pass')[c] = Left(pass)[c]
    <2>1. Left(pass) \in Weights /\ Left(pass') \in Weights
      BY <1>1, <1>6, WeightFacts DEF Typed
    <2> QED
      BY <1>2, <1>3, <2>1 DEF Left
  <1>8. Accounted'
    <2>1. SumOf(Left(pass')) = SumOf(Left(pass)) + (Left(pass')[e] - Left(pass)[e])
      BY <1>7, SumUpdate
    <2>2. SumOf(Left(pass)) \in Int
      BY <1>7, SumType
    <2>3. pass.freed + SumOf(Left(pass)) = Total(pass.list)
      BY DEF EvictInv, Accounted
    <2> QED
      BY <1>3, <1>5, <1>7, <2>1, <2>2, <2>3 DEF Accounted
  <1>9. Bounded'
    <2>1. Over(rows, pass) \in Weights /\ Over(rows', pass') \in Weights
      BY <1>1, <1>6, WeightFacts DEF Typed
    <2>2. \A c \in Chunks : Over(rows', pass')[c] <= Over(rows, pass)[c]
      <3> TAKE c \in Chunks
      <3>1. /\ Over(rows', pass')[c] = IF SizeOf(rows'[c]) > Left(pass')[c]
                                         THEN SizeOf(rows'[c]) - Left(pass')[c] ELSE 0
            /\ Over(rows, pass)[c] = IF SizeOf(rows[c]) > Left(pass)[c]
                                       THEN SizeOf(rows[c]) - Left(pass)[c] ELSE 0
        BY DEF Over
      <3>2. /\ SizeOf(rows[c]) \in Nat /\ Left(pass)[c] \in Nat
            /\ Over(rows, pass)[c] \in Nat
        BY <1>1, RowFacts, WeightFacts DEF Typed
      <3>3. CASE c = e
        BY <1>4, <1>7, <3>1, <3>2, <3>3 DEF SizeOf
      <3>4. CASE c # e
        BY <1>4, <1>7, <3>1, <3>2, <3>4
      <3> QED
        BY <3>3, <3>4
    <2>3. SumOf(Over(rows', pass')) <= SumOf(Over(rows, pass))
      BY <2>1, <2>2, SumMonotonic
    <2>4. /\ SumOf(Over(rows', pass')) \in Int /\ SumOf(Over(rows, pass)) \in Int
          /\ pass.added \in Nat
      BY <1>1, <2>1, SumType DEF Typed
    <2>5. SumOf(Over(rows, pass)) <= pass.added /\ pass.need = Total(pass.list) - TargetSize
      BY <1>2 DEF EvictInv, Bounded
    <2>6. SumOf(Over(rows', pass')) <= pass.added
      BY <2>3, <2>4, <2>5
    <2> QED
      BY <1>3, <2>5, <2>6 DEF Bounded
  <1>10. Ordered'
    BY <1>2, <1>3 DEF EvictInv, Ordered
  <1> QED
    BY <1>6, <1>8, <1>9, <1>10 DEF EvictInv

LEMMA NextEvict ==
  ASSUME EvictInv, [Next]_vars
  PROVE  EvictInv'
  <1>1. Typed
    BY DEF EvictInv
  <1>2. CASE NoPass \/ UNCHANGED vars
    BY <1>2 DEF NoPass, vars, EvictInv, Typed, Accounted, Bounded, Ordered
  <1>3. CASE EndPass
    <2>1. pass' = Off /\ UNCHANGED <<rows, now, touch, writes>>
      BY <1>3 DEF EndPass
    <2> QED
      BY <1>1, <2>1, OffKeeps DEF Typed, EvictInv
  <1>4. CASE Tick
    <2>1. now' \in 0..MaxTime /\ UNCHANGED <<rows, touch, pass, writes>>
      BY <1>1, <1>4, BoundsAssumption DEF Tick, Typed
    <2> QED
      BY <2>1 DEF EvictInv, Typed, Accounted, Bounded, Ordered
  <1>5. CASE Restart
    <2>1. /\ touch' \in [Readers -> [chunk : Chunks, row : Row] \cup {None}]
          /\ pass' = Off /\ UNCHANGED <<rows, now>>
      BY <1>5 DEF Restart
    <2>2. writes' \in 0..MaxWrites
      BY <1>1, <1>5, BoundsAssumption DEF Restart, Typed
    <2> QED
      BY <1>1, <2>1, <2>2, OffKeeps DEF Typed, EvictInv
  <1> QED
    BY <1>2, <1>3, <1>4, <1>5, StartKeeps, EvictKeeps, DropKeeps, RequestKeeps DEF Next, Worker

LEMMA EvictInvariant == Spec => []EvictInv
  BY InitEvict, NextEvict, PTL DEF Spec

(* The rows, the listing and the touches of GETs stay well formed while    *)
(* PUTs, GETs and drops change rows under a pass, and check_and_evict      *)
(* never counts more as freed than it has listed.                          *)
THEOREM EvictionTypes == Spec => []TypeOK
  <1>1. ASSUME EvictInv PROVE pass.freed <= Total(pass.list)
    <2>1. SumOf(Left(pass)) \in Nat
      BY <1>1, WeightFacts, SumNat DEF EvictInv, Typed
    <2> QED
      BY <1>1, <2>1 DEF EvictInv, Accounted, Typed
  <1>2. ASSUME EvictInv PROVE TypeOK
    BY <1>1, <1>2 DEF EvictInv, Typed, TypeOK, Rows
  <1> QED
    BY <1>2, EvictInvariant, PTL

(* A pass of check_and_evict that ends has brought the rows down to the    *)
(* target but for what was written since it made its list, however the     *)
(* rows were touched, replaced, dropped and brought back meanwhile, for    *)
(* any number of chunks and GETs, any sizes and any limit.                 *)
THEOREM FreesEnough == Spec => PassFreesEnough
  <1>1. ASSUME EvictInv, pass.on, EndPass
        PROVE  Total(rows) <= TargetSize + pass.added
    <2> DEFINE sz == Sizing(rows)
               l == Left(pass)
               o == Over(rows, pass)
               u == [c \in Chunks |-> l[c] + o[c]]
    <2>1. /\ sz \in Weights /\ l \in Weights /\ o \in Weights
          /\ \A c \in Chunks : l[c] \in Nat /\ o[c] \in Nat /\ sz[c] <= l[c] + o[c]
      BY <1>1, WeightFacts DEF EvictInv, Typed
    <2>2. pass.todo = {} => l = [c \in Chunks |-> 0]
      BY DEF Left
    <2>3. /\ SumOf(o) <= pass.added /\ pass.need = Total(pass.list) - TargetSize
          /\ pass.freed + SumOf(l) = Total(pass.list)
          /\ pass.added \in Nat /\ pass.freed \in Int
          /\ pass.freed >= pass.need \/ pass.todo = {}
      BY <1>1 DEF EvictInv, Typed, Bounded, Accounted, EndPass
    <2>4. TargetSize \in Nat
      BY SizesAssumption DEF TargetSize
    <2> HIDE DEF sz, l, o
    <2>5. u \in Weights /\ \A c \in Chunks : sz[c] <= u[c]
      BY <2>1 DEF Weights
    <2>6. SumOf(u) = SumOf(l) + SumOf(o)
      BY <2>1, SumAdd
    <2> HIDE DEF u
    <2>7. SumOf(sz) <= SumOf(u)
      BY <2>1, <2>5, SumMonotonic
    <2>8. SumOf(sz) \in Int /\ SumOf(u) \in Int /\ SumOf(l) \in Int /\ SumOf(o) \in Int
      BY <2>1, <2>5, SumType
    <2>9. pass.todo = {} => SumOf(l) = 0
      BY <2>2, SumZero
    <2>10. SumOf(l) <= TargetSize
      BY <2>3, <2>4, <2>8, <2>9
    <2>11. SumOf(sz) <= TargetSize + pass.added
      BY <2>3, <2>4, <2>6, <2>7, <2>8, <2>10
    <2> QED
      BY <2>11, TotalIsSum DEF sz
  <1>2. ASSUME EvictInv, [Next]_vars
        PROVE  [pass.on /\ EndPass => Total(rows) <= TargetSize + pass.added]_vars
    BY <1>1, <1>2
  <1> QED
    BY <1>2, EvictInvariant, PTL DEF Spec, PassFreesEnough

(* candidates.sort_by_key: whenever a pass of check_and_evict ends, early  *)
(* or at the end of its list, no chunk that it has spared was, at its      *)
(* start, older than one that it has evicted.                              *)
THEOREM EvictsOldest == Spec => LeastRecentlyUsed
  <1>1. ASSUME EvictInv, [Next]_vars
        PROVE  [pass.on /\ EndPass =>
                  \A c \in Listed(pass.list) \ pass.todo, d \in pass.todo :
                    pass.list[c].at <= pass.list[d].at]_vars
    BY <1>1 DEF EvictInv, Ordered
  <1> QED
    BY <1>1, EvictInvariant, PTL DEF Spec, LeastRecentlyUsed

=============================================================================
