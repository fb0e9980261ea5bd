--------------------------- MODULE BuilderProofs ---------------------------
(***************************************************************************)
(* Builders that share arrays stay apart: proofs of OneOwner, Isolated and *)
(* Built for any number of builders, any depth and any records.            *)
(*                                                                         *)
(* The invariant is a conjunction of predicates on memory m, slices ls,    *)
(* histories g and st, so that it can be stated of the values that a call  *)
(* computes before they become the next state.                             *)
(***************************************************************************)
EXTENDS Builder, NumberFacts, FiniteSetTheorems, SequenceTheorems, TLAPS

\* whatever a call may write
Heads ==
  {Lit(l, TRUE) : l \in Letters \cup {"none"}} \cup {Lit(l, FALSE) : l \in Letters \cup {"none"}}
Numbers == {"num", "val"} \X Nat
Byte == Heads \cup Numbers

Slice == [arr : Arrays \cup {0}, len : Nat, cap : Nat]
Level == [lit : Letters \cup {"none"}, id : Stamps, bytes : Seq(Byte)]

MemOK(m) == m \in [Arrays -> Seq(Byte)]
LevelsOK(ls) ==
  /\ ls \in [Builders -> Seq(Slice)]
  /\ \A b \in Builders : Len(ls[b]) \in 1..MaxDepth
GivenOK(g, ls) ==
  /\ g \in [Builders -> Seq(Level)]
  /\ \A b \in Builders : Len(g[b]) = Len(ls[b])

\* a slice lies within its array
SliceOK(m, s) ==
  /\ s.len <= s.cap
  /\ s.arr = 0 => s.cap = 0
  /\ s.arr # 0 => s.cap <= Len(m[s.arr])

\* where s may append in place it harms no byte of r, nor does r append there
Apart(s, r) == s.arr = r.arr /\ s.cap > s.len => r.cap = r.len /\ r.len <= s.len

Owned(ls, m) ==
  /\ \A b \in Builders : \A k \in 1..Len(ls[b]) : SliceOK(m, ls[b][k])
  /\ \A b, c \in Builders : \A k \in 1..Len(ls[b]), j \in 1..Len(ls[c]) :
       b # c \/ k # j => Apart(ls[b][k], ls[c][j])

\* what level k of a builder with the history h has to hold
Due(h, k) == h[k].bytes \o (IF k = Len(h) THEN <<>> ELSE Mark(h[k + 1].lit, h[k + 1].id))
BuiltAt(m, l, h) == \A k \in 1..Len(h) : BytesOf(m, l[k]) = Due(h, k)

InvOf(m, ls, g, st) ==
  /\ MemOK(m)
  /\ LevelsOK(ls)
  /\ GivenOK(g, ls)
  /\ st \subseteq Builders
  /\ Owned(ls, m)
  /\ \A b \in Builders \ st : BuiltAt(m, ls[b], g[b])

IInv == InvOf(mem, levels, given, strayed)
-----------------------------------------------------------------------------
(* Arrays *)

\* There are levels for MaxDepth arrays in each builder.
LEMMA FewReferenced ==
  ASSUME NEW ls \in [Builders -> Seq(Slice)], NEW B \in SUBSET Builders,
         \A c \in Builders : Len(ls[c]) <= MaxDepth,
         \A c \in Builders \ B : ls[c] = <<>>
  PROVE  /\ IsFiniteSet(Arrays \ Referenced(ls))
         /\ Cardinality(Arrays \ Referenced(ls)) \in Nat
         /\ Cardinality(Arrays \ Referenced(ls)) >=
              Cardinality(Builders) * MaxDepth + 1 - Cardinality(B) * MaxDepth
<1> DEFINE P == B \X (1..MaxDepth)
           f == [p \in P |-> ls[p[1]][p[2]].arr]
           R == {f[p] : p \in P}
<1>1. MaxDepth \in Nat /\ IsFiniteSet(Builders) /\ Cardinality(Builders) \in Nat
  BY BuilderAssumption, FS_CardinalityType
<1>2. IsFiniteSet(B) /\ Cardinality(B) \in Nat
  BY <1>1, FS_Subset, FS_CardinalityType
<1>3. IsFiniteSet(1..MaxDepth) /\ Cardinality(1..MaxDepth) = MaxDepth
  BY <1>1, FS_Interval
<1>4. IsFiniteSet(P) /\ Cardinality(P) = Cardinality(B) * MaxDepth
  BY <1>2, <1>3, FS_Product
<1>5. f \in Surjection(P, R)
  BY DEF Surjection
<1>6. IsFiniteSet(R) /\ Cardinality(R) <= Cardinality(B) * MaxDepth
  <2> HIDE DEF P, f, R
  <2> QED
    BY <1>4, <1>5, FS_Surjection
<1>7. Referenced(ls) \subseteq R
  <2> SUFFICES ASSUME NEW c \in Builders, NEW s \in Range(ls[c])
               PROVE  s.arr \in R
    BY DEF Referenced
  <2>1. PICK k \in DOMAIN ls[c] : s = ls[c][k]
    BY DEF Range
  <2>2. DOMAIN ls[c] = 1..Len(ls[c]) /\ Len(ls[c]) \in Nat /\ Len(ls[c]) <= MaxDepth
    BY LenProperties
  <2>3. c \in B
    BY <2>2, EmptySeq
  <2>4. <<c, k>> \in P
    BY <2>2, <2>3, <1>1
  <2> QED
    BY <2>1, <2>4
<1> DEFINE n == Cardinality(Builders) * MaxDepth
<1>8. n \in Nat /\ Cardinality(B) * MaxDepth \in Nat
  BY <1>1, <1>2
<1>9. IsFiniteSet(Arrays) /\ Cardinality(Arrays) = n + 1
  <2>1. IsFiniteSet(1..(n + 1)) /\ Cardinality(1..(n + 1)) = n + 1
    <3> HIDE DEF n
    <3> QED
      BY <1>8, FS_Interval
  <2> QED
    BY <2>1 DEF Arrays
<1>10. /\ IsFiniteSet(Arrays \ Referenced(ls))
       /\ Cardinality(Arrays \ Referenced(ls)) = Cardinality(Arrays) - Cardinality(Arrays \cap Referenced(ls))
  BY <1>9, FS_Difference
<1>11. Cardinality(Arrays \cap Referenced(ls)) <= Cardinality(R)
  <2> HIDE DEF R
  <2>1. Arrays \cap Referenced(ls) \in SUBSET R
    BY <1>7
  <2> QED
    BY <2>1, <1>6, FS_Subset
<1>12. /\ Cardinality(Arrays \ Referenced(ls)) \in Nat /\ Cardinality(R) \in Nat
       /\ Cardinality(Arrays \cap Referenced(ls)) \in Nat
  <2> HIDE DEF R
  <2> QED
    BY <1>6, <1>9, <1>10, FS_CardinalityType, FS_Intersection
<1> HIDE DEF R, n
<1> QED
  BY <1>6, <1>8, <1>9, <1>10, <1>11, <1>12 DEF n

\* So append always finds an array that nothing points to,
LEMMA SpareArray ==
  ASSUME LevelsOK(levels)
  PROVE  Unused \in Arrays /\ Unused \notin Referenced(levels)
<1>1. Cardinality(Arrays \ Referenced(levels)) >= 1
  <2>1. Cardinality(Builders) * MaxDepth \in Nat
    BY BuilderAssumption, FS_CardinalityType
  <2>2. /\ levels \in [Builders -> Seq(Slice)]
        /\ \A c \in Builders : Len(levels[c]) <= MaxDepth
        /\ \A c \in Builders \ Builders : levels[c] = <<>>
        /\ Builders \in SUBSET Builders
    BY BuilderAssumption DEF LevelsOK
  <2>3. /\ Cardinality(Arrays \ Referenced(levels)) \in Nat
        /\ Cardinality(Arrays \ Referenced(levels)) >=
             Cardinality(Builders) * MaxDepth + 1 - Cardinality(Builders) * MaxDepth
    BY <2>2, FewReferenced
  <2> QED
    BY <2>1, <2>3
<1>2. Arrays \ Referenced(levels) # {}
  BY <1>1, FS_EmptySet
<1> QED
  BY <1>2 DEF Unused

\* and a copy of a builder one for each of its levels.
LEMMA SpareArrays ==
  ASSUME NEW b \in Builders, LevelsOK(levels)
  PROVE  LET spare == Arrays \ Referenced([levels EXCEPT ![b] = <<>>])
         IN  IsFiniteSet(spare) /\ Cardinality(spare) \in Nat /\ Cardinality(spare) >= MaxDepth
<1> DEFINE ls == [levels EXCEPT ![b] = <<>>]
           B == Builders \ {b}
<1>1. ls \in [Builders -> Seq(Slice)]
  BY DEF LevelsOK
<1>2. \A c \in Builders : Len(ls[c]) <= MaxDepth
  BY BuilderAssumption, EmptySeq DEF LevelsOK
<1>3. \A c \in Builders \ B : ls[c] = <<>>
  BY DEF LevelsOK
<1>4. /\ IsFiniteSet(Arrays \ Referenced(ls))
      /\ Cardinality(Arrays \ Referenced(ls)) \in Nat
      /\ Cardinality(Arrays \ Referenced(ls)) >=
           Cardinality(Builders) * MaxDepth + 1 - Cardinality(B) * MaxDepth
  <2> HIDE DEF ls
  <2> QED
    BY <1>1, <1>2, <1>3, FewReferenced
<1>5. Cardinality(Builders) \in Nat /\ Cardinality(B) = Cardinality(Builders) - 1 /\ MaxDepth \in Nat
  BY BuilderAssumption, FS_RemoveElement, FS_CardinalityType
<1>6. \A n, d \in Int : (n - 1) * d = n * d - d
  OBVIOUS
<1>7. Cardinality(B) * MaxDepth = Cardinality(Builders) * MaxDepth - MaxDepth
  BY <1>5, <1>6
<1>8. Cardinality(Builders) * MaxDepth \in Nat
  BY <1>5
<1> QED
  BY <1>4, <1>5, <1>7, <1>8

\* A finite set of numbers has a k-th element for each k up to its size.
LEMMA KthElement ==
  ASSUME NEW T \in SUBSET (Nat \ {0}), IsFiniteSet(T), NEW k \in Nat, k >= 1, k <= Cardinality(T),
         NEW N \in Nat, T \subseteq 1..N
  PROVE  \E a \in T : Cardinality(1..a \cap T) = k
<1> DEFINE C(n) == Cardinality((1..n) \cap T)
           S == {n \in Nat : C(n) >= k}
<1>1. ASSUME NEW n \in Nat PROVE IsFiniteSet((1..n) \cap T) /\ C(n) \in Nat
  BY FS_Intersection, FS_CardinalityType
<1>2. N \in S
  <2>1. (1..N) \cap T = T
    OBVIOUS
  <2> QED
    BY <2>1
<1>3. PICK a \in S : \A n \in S : a <= n
  <2>1. S \subseteq Nat
    OBVIOUS
  <2> HIDE DEF S
  <2> QED
    BY <1>2, <2>1, LeastNumber
<1>4. a \in Nat /\ C(a) >= k
  OBVIOUS
<1>5. a # 0
  <2>1. (1..0) \cap T = {}
    OBVIOUS
  <2>2. C(0) = 0
    BY <2>1, FS_EmptySet
  <2> QED
    BY <1>4, <2>2
<1>6. a - 1 \in Nat /\ C(a - 1) \in Nat /\ C(a) \in Nat
  <2>1. a - 1 \in Nat
    BY <1>4, <1>5
  <2> HIDE DEF C
  <2> QED
    BY <1>1, <1>4, <2>1
<1>7. C(a - 1) < k
  <2>1. a - 1 \notin S
    BY <1>3, <1>6
  <2> QED
    BY <2>1, <1>6
<1>8. a \in T
  <2> SUFFICES ASSUME a \notin T PROVE FALSE
    OBVIOUS
  <2>1. (1..a) \cap T = (1..(a - 1)) \cap T
    BY <1>4
  <2> QED
    BY <2>1, <1>4, <1>7, <1>6
<1>9. (1..a) \cap T = ((1..(a - 1)) \cap T) \cup {a}
  BY <1>8, <1>4, <1>5
<1>10. IsFiniteSet((1..(a - 1)) \cap T) /\ a \notin (1..(a - 1)) \cap T
  BY <1>1, <1>6
<1>11. Cardinality(((1..(a - 1)) \cap T) \cup {a}) = C(a - 1) + 1
  <2> DEFINE Q == (1..(a - 1)) \cap T
  <2>1. IsFiniteSet(Q) /\ a \notin Q
    BY <1>10
  <2> HIDE DEF Q
  <2>2. Cardinality(Q \cup {a}) = Cardinality(Q) + 1
    BY <2>1, FS_AddElement
  <2> QED
    BY <2>2 DEF Q
<1>12. C(a) = k
  BY <1>4, <1>6, <1>7, <1>9, <1>11
<1> QED
  BY <1>8, <1>12
-----------------------------------------------------------------------------
(* Bytes *)

\* The weights of the bytes of a length are the powers of Base.
LEMMA Weights == Powers(ByteWeight, Base, 4) /\ Base \in Nat \ {0, 1, 2}
<1>1. Base \in Nat \ {0, 1, 2}
  BY TlvBytesAssumption
<1>2. PICK p, N : p = ByteWeight /\ N = 4
  OBVIOUS
<1>3. p = [k \in 0..N |-> IF k = 0 THEN 1 ELSE Base * p[k - 1]]
  <2>1. \E g : g = [k \in 0..N |-> IF k = 0 THEN 1 ELSE Base * g[k - 1]]
    <3>1. N \in Nat /\ Base \in Nat \ {0}
      BY <1>1, <1>2
    <3> QED
      BY <3>1, PowerFunction
  <2> QED
    BY <1>2, <2>1 DEF ByteWeight
<1>4. Powers(p, Base, N)
  BY <1>1, <1>2, <1>3, PowersOf
<1> QED
  BY <1>1, <1>2, <1>4

LEMMA ByteFacts ==
  /\ <<>> \in Seq(Byte)
  /\ \A v \in Stamps \cup Values : v \in Seq(Byte) /\ Len(v) \in Nat
  /\ \A n \in Nat : Num(n) \in Byte
  /\ \A l \in Letters \cup {"none"} : Lit(l, TRUE) \in Byte /\ Lit(l, FALSE) \in Byte
  /\ \A n \in Nat : PutUint32(n) \in Seq(Byte) /\ Len(PutUint32(n)) = 4
  /\ \A n \in Nat : Zeroes(n) \in Seq(Byte) /\ Len(Zeroes(n)) = n
<1>1. <<>> \in Seq(Byte)
  OBVIOUS
<1>2. ASSUME NEW v \in Stamps \cup Values PROVE v \in Seq(Byte) /\ Len(v) \in Nat
  <2>1. v \in Seq({"val"} \X (0..(Base - 1)))
    BY BuilderAssumption
  <2>2. {"val"} \X (0..(Base - 1)) \subseteq Byte
    BY DEF Byte, Numbers
  <2>3. v \in Seq(Byte)
    BY <2>1, <2>2, SeqMonotonic
  <2> QED
    BY <2>3, LenProperties
<1>3. \A n \in Nat : Num(n) \in Byte
  BY DEF Byte, Numbers, Num
<1>4. ASSUME NEW l \in Letters \cup {"none"} PROVE Lit(l, TRUE) \in Byte /\ Lit(l, FALSE) \in Byte
  <2>1. Lit(l, TRUE) \in Heads
    BY Zenon DEF Heads
  <2>2. Lit(l, FALSE) \in Heads
    BY Zenon DEF Heads
  <2> QED
    BY <2>1, <2>2, Zenon DEF Byte
<1>5. ASSUME NEW n \in Nat PROVE PutUint32(n) \in Seq(Byte) /\ Len(PutUint32(n)) = 4
  <2>1. ASSUME NEW k \in 1..4 PROVE Num((n \div ByteWeight[k - 1]) % Base) \in Byte
    <3>1. PICK w : w = ByteWeight[k - 1]
      OBVIOUS
    <3>2. w \in Nat \ {0} /\ Base \in Nat \ {0}
      <4>1. k - 1 \in 0..4
        OBVIOUS
      <4> QED
        BY <3>1, <4>1, Weights DEF Powers
    <3>3. n \div w \in Nat
      BY <3>2
    <3>4. (n \div w) % Base \in Nat
      BY <3>2, <3>3
    <3> QED
      BY <1>3, <3>1, <3>4
  <2> QED
    BY <2>1 DEF PutUint32
<1>6. ASSUME NEW n \in Nat PROVE Zeroes(n) \in Seq(Byte) /\ Len(Zeroes(n)) = n
  BY <1>3 DEF Zeroes
<1> QED
  BY <1>1, <1>2, <1>3, <1>4, <1>5, <1>6

LEMMA Joined ==
  ASSUME NEW u \in Seq(Byte), NEW v \in Seq(Byte), NEW w, w = u \o v
  PROVE  w \in Seq(Byte) /\ Len(u) \in Nat /\ Len(v) \in Nat /\ Len(w) = Len(u) + Len(v)
OBVIOUS

LEMMA JoinedAt ==
  ASSUME NEW u \in Seq(Byte), NEW v \in Seq(Byte), NEW w, w = u \o v
  PROVE  /\ \A i \in 1..Len(u) : w[i] = u[i]
         /\ \A i \in 1..Len(v) : w[i + Len(u)] = v[i]
OBVIOUS

LEMMA JoinedThree ==
  ASSUME NEW u \in Seq(Byte), NEW v \in Seq(Byte), NEW w \in Seq(Byte)
  PROVE  (u \o v) \o w = u \o (v \o w)
BY ConcatAssociative

\* What a slice shows of its array.
LEMMA BytesTyped ==
  ASSUME NEW m, MemOK(m), NEW s \in Slice, SliceOK(m, s)
  PROVE  /\ BytesOf(m, s) \in Seq(Byte)
         /\ Len(BytesOf(m, s)) = s.len
         /\ \A i \in 1..s.len : BytesOf(m, s)[i] = m[s.arr][i]
<1>1. s.len \in Nat /\ s.cap \in Nat /\ s.arr \in Arrays \cup {0}
  BY DEF Slice
<1>2. CASE s.arr = 0
  BY <1>1, <1>2 DEF BytesOf, SliceOK
<1>3. CASE s.arr # 0
  <2>1. m[s.arr] \in Seq(Byte) /\ s.len <= Len(m[s.arr])
    BY <1>1, <1>3 DEF MemOK, SliceOK
  <2>2. \A i \in 1..s.len : m[s.arr][i] \in Byte
    BY <1>1, <2>1
  <2>3. /\ SubSeq(m[s.arr], 1, s.len) \in Seq(Byte)
        /\ Len(SubSeq(m[s.arr], 1, s.len)) = s.len
        /\ \A i \in 1..s.len : SubSeq(m[s.arr], 1, s.len)[i] = m[s.arr][i]
    BY <1>1, <2>1, <2>2
  <2> QED
    BY <1>3, <2>3 DEF BytesOf
<1> QED
  BY <1>2, <1>3

\* A slice shows the same if the part of the array that it covers is the same.
LEMMA SameBytes ==
  ASSUME NEW m, MemOK(m), NEW n, MemOK(n), NEW s \in Slice, SliceOK(m, s), SliceOK(n, s),
         s.arr # 0 => \A i \in 1..s.len : n[s.arr][i] = m[s.arr][i]
  PROVE  BytesOf(n, s) = BytesOf(m, s)
<1>1. CASE s.arr = 0
  BY <1>1 DEF BytesOf
<1>2. CASE s.arr # 0
  <2>1. /\ BytesOf(m, s) \in Seq(Byte) /\ BytesOf(n, s) \in Seq(Byte)
        /\ Len(BytesOf(m, s)) = s.len /\ Len(BytesOf(n, s)) = s.len
    BY BytesTyped
  <2>2. \A i \in 1..s.len : BytesOf(n, s)[i] = BytesOf(m, s)[i]
    BY <1>2, BytesTyped
  <2> QED
    BY <2>1, <2>2, SeqEqual
<1> QED
  BY <1>1, <1>2

\* Clearing the arrays that nothing points to shows nowhere.
Cleaned(ls, m) == [a \in Arrays |-> IF a \in Referenced(ls) THEN m[a] ELSE <<>>]

LEMMA CleanedFacts ==
  ASSUME NEW ls, NEW m, LevelsOK(ls), MemOK(m)
  PROVE  /\ MemOK(Cleaned(ls, m))
         /\ \A b \in Builders : \A k \in 1..Len(ls[b]) :
              /\ ls[b][k] \in Slice
              /\ SliceOK(m, ls[b][k]) => SliceOK(Cleaned(ls, m), ls[b][k])
              /\ BytesOf(Cleaned(ls, m), ls[b][k]) = BytesOf(m, ls[b][k])
<1>1. MemOK(Cleaned(ls, m))
  BY DEF MemOK, Cleaned
<1>2. ASSUME NEW b \in Builders, NEW k \in 1..Len(ls[b])
      PROVE  /\ ls[b][k] \in Slice
             /\ SliceOK(m, ls[b][k]) => SliceOK(Cleaned(ls, m), ls[b][k])
             /\ BytesOf(Cleaned(ls, m), ls[b][k]) = BytesOf(m, ls[b][k])
  <2>1. ls[b] \in Seq(Slice) /\ ls[b][k] \in Slice /\ k \in DOMAIN ls[b]
    BY LenProperties DEF LevelsOK
  <2>2. ls[b][k].arr \in Referenced(ls)
    BY <2>1 DEF Referenced, Range
  <2>3. ls[b][k].arr # 0 => Cleaned(ls, m)[ls[b][k].arr] = m[ls[b][k].arr]
    BY <2>1, <2>2 DEF Cleaned, Slice
  <2> QED
    BY <2>1, <2>3 DEF SliceOK, BytesOf
<1> QED
  BY <1>1, <1>2

\* the builders other than b are as they were
Unmoved(b, m, ls, n, l) ==
  \A c \in Builders \ {b} :
    /\ l[c] = ls[c]
    /\ \A k \in 1..Len(ls[c]) : BytesOf(n, ls[c][k]) = BytesOf(m, ls[c][k])
SameHistory(b, g, st, h, t) ==
  \A c \in Builders \ {b} : h[c] = g[c] /\ (c \in t <=> c \in st)

\* What is left to show of a call on builder b: that the slices are still
\* apart, that it changes no other builder, and that b holds what it should.
LEMMA CallOn ==
  ASSUME NEW m, NEW ls, NEW g, NEW st, InvOf(m, ls, g, st),
         NEW n, NEW l, NEW h, NEW t, NEW b \in Builders,
         MemOK(n), LevelsOK(l), GivenOK(h, l), t \subseteq Builders, Owned(l, n),
         Unmoved(b, m, ls, n, l), SameHistory(b, g, st, h, t),
         b \notin t => BuiltAt(n, l[b], h[b])
  PROVE  InvOf(Cleaned(l, n), l, h, t) /\ Unmoved(b, m, ls, Cleaned(l, n), l)
<1>1. MemOK(Cleaned(l, n))
  BY CleanedFacts
<1>2. Owned(l, Cleaned(l, n))
  BY CleanedFacts DEF Owned
<1>3. ASSUME NEW c \in Builders \ t PROVE BuiltAt(Cleaned(l, n), l[c], h[c])
  <2>1. Len(h[c]) = Len(l[c])
    BY DEF GivenOK
  <2>2. BuiltAt(n, l[c], h[c])
    <3>1. CASE c = b
      BY <3>1, <1>3
    <3>2. CASE c # b
      <4>1. c \in Builders \ st /\ l[c] = ls[c] /\ h[c] = g[c]
        BY <3>2, <1>3 DEF Unmoved, SameHistory
      <4>2. BuiltAt(m, l[c], h[c])
        BY <4>1 DEF InvOf
      <4> QED
        BY <2>1, <3>2, <4>1, <4>2 DEF BuiltAt, Unmoved
    <3> QED
      BY <3>1, <3>2
  <2> QED
    BY <2>1, <2>2, CleanedFacts DEF BuiltAt
<1>4. Unmoved(b, m, ls, Cleaned(l, n), l)
  BY CleanedFacts DEF Unmoved
<1> QED
  BY <1>1, <1>2, <1>3, <1>4 DEF InvOf
-----------------------------------------------------------------------------
(* Writing a slice *)

\* s is in an array of its own
WroteNew(ls, m, n, s) ==
  /\ s \in Slice /\ s.arr \in Arrays /\ s.arr \notin Referenced(ls)
  /\ MemOK(n) /\ SliceOK(n, s)
  /\ \A a \in Arrays : a # s.arr => n[a] = m[a]

\* s is the slice r after an append in place
WroteOn(m, r, n, s) ==
  /\ s \in Slice /\ s.arr = r.arr /\ s.cap = r.cap /\ r.len <= s.len
  /\ MemOK(n) /\ SliceOK(n, s)
  /\ \A a \in Arrays : a # s.arr => n[a] = m[a]
  /\ s.arr # 0 => Len(n[s.arr]) = Len(m[s.arr]) /\ \A i \in 1..r.len : n[s.arr][i] = m[s.arr][i]
  /\ s.len = r.len => n = m

LEMMA NewArrayFacts ==
  ASSUME NEW m, MemOK(m), NEW bytes \in Seq(Byte), NEW slack \in Nat,
         NEW x, x = NewArray(m, bytes, slack), LevelsOK(levels)
  PROVE  /\ WroteNew(levels, m, x.mem, x.s)
         /\ BytesOf(x.mem, x.s) = bytes
<1> DEFINE w == bytes \o Zeroes(slack)
           n == [m EXCEPT ![Unused] = w]
           s == [arr |-> Unused, len |-> Len(bytes), cap |-> Len(bytes) + slack]
<1>1. Unused \in Arrays /\ Unused \notin Referenced(levels)
  BY SpareArray
<1>2. NewArray(m, bytes, slack) = [mem |-> n, s |-> s]
  BY DEF NewArray, Cell
<1>3. w \in Seq(Byte) /\ Len(w) = Len(bytes) + slack /\ \A i \in 1..Len(bytes) : w[i] = bytes[i]
  <2>1. Zeroes(slack) \in Seq(Byte) /\ Len(Zeroes(slack)) = slack
    BY ByteFacts
  <2>2. Len(bytes) \in Nat
    OBVIOUS
  <2> QED
    BY <2>1, <2>2, Joined, SMTT(30)
<1>4. n \in [Arrays -> Seq(Byte)] /\ n[Unused] = w /\ \A a \in Arrays : a # Unused => n[a] = m[a]
  <2> HIDE DEF w
  <2> QED
    BY <1>1, <1>3 DEF MemOK
<1>5. s \in Slice /\ s.arr = Unused /\ s.len = Len(bytes) /\ s.cap = Len(bytes) + slack
  BY <1>1 DEF Slice
<1>6. Unused # 0
  BY <1>1, BuilderAssumption, FS_CardinalityType DEF Arrays
<1>7. MemOK(n) /\ SliceOK(n, s)
  <2> HIDE DEF n, s, w
  <2> QED
    BY <1>3, <1>4, <1>5, <1>6 DEF MemOK, SliceOK
<1>8. BytesOf(n, s) = bytes
  <2> HIDE DEF n, s, w
  <2>1. /\ BytesOf(n, s) \in Seq(Byte) /\ Len(BytesOf(n, s)) = Len(bytes)
        /\ \A i \in 1..Len(bytes) : BytesOf(n, s)[i] = w[i]
    BY <1>4, <1>5, <1>7, BytesTyped
  <2> QED
    BY <2>1, <1>3, SeqEqual
<1>9. WroteNew(levels, m, n, s)
  <2> HIDE DEF n, s
  <2> QED
    BY <1>1, <1>4, <1>5, <1>7 DEF WroteNew
<1>10. x.mem = n /\ x.s = s
  BY <1>2
<1> HIDE DEF n, s
<1> QED
  BY <1>4, <1>5, <1>8, <1>9, <1>10

\* append, in place or not, adds the bytes.
LEMMA AppendFacts ==
  ASSUME LevelsOK(levels), NEW m, MemOK(m), NEW r \in Slice, SliceOK(m, r),
         NEW bytes \in Seq(Byte), NEW slack \in Nat
  PROVE  LET x == AppendTo(Cell(m, r), bytes, slack)
         IN  /\ WroteNew(levels, m, x.mem, x.s) \/ WroteOn(m, r, x.mem, x.s)
             /\ BytesOf(x.mem, x.s) = BytesOf(m, r) \o bytes
<1> DEFINE x == AppendTo(Cell(m, r), bytes, slack)
           n == r.len + Len(bytes)
           w == [k \in DOMAIN m[r.arr] |->
                   IF k \in (r.len + 1)..n THEN bytes[k - r.len] ELSE m[r.arr][k]]
<1> SUFFICES /\ WroteNew(levels, m, x.mem, x.s) \/ WroteOn(m, r, x.mem, x.s)
             /\ BytesOf(x.mem, x.s) = BytesOf(m, r) \o bytes
  OBVIOUS
<1>1. x = IF n > r.cap THEN NewArray(m, BytesOf(m, r) \o bytes, slack)
          ELSE IF bytes = <<>> THEN Cell(m, r)
          ELSE [mem |-> [m EXCEPT ![r.arr] = w], s |-> [r EXCEPT !.len = n]]
  BY DEF AppendTo, Cell
<1>2. /\ r.arr \in Arrays \cup {0} /\ r.len \in Nat /\ r.cap \in Nat /\ r.len <= r.cap
      /\ Len(bytes) \in Nat /\ n \in Nat
      /\ BytesOf(m, r) \in Seq(Byte) /\ Len(BytesOf(m, r)) = r.len
      /\ \A i \in 1..r.len : BytesOf(m, r)[i] = m[r.arr][i]
  BY BytesTyped DEF Slice, SliceOK
<1>3. CASE n > r.cap
  <2>1. PICK z \in Seq(Byte) : z = BytesOf(m, r) \o bytes
    <3>1. BytesOf(m, r) \o bytes \in Seq(Byte)
      BY <1>2
    <3> QED
      BY <3>1
  <2>2. PICK y : y = NewArray(m, z, slack)
    OBVIOUS
  <2>3. x = y
    BY <1>1, <1>3, <2>1, <2>2
  <2>4. WroteNew(levels, m, y.mem, y.s) /\ BytesOf(y.mem, y.s) = z
    BY <2>2, NewArrayFacts
  <2> QED
    BY <2>1, <2>3, <2>4
<1>4. CASE n <= r.cap /\ bytes = <<>>
  <2>1. x = Cell(m, r) /\ x.mem = m /\ x.s = r
    BY <1>1, <1>2, <1>4 DEF Cell
  <2>2. WroteOn(m, r, m, r)
    BY <1>2 DEF WroteOn
  <2>3. BytesOf(m, r) = BytesOf(m, r) \o bytes
    BY <1>2, <1>4, ConcatEmptySeq
  <2> QED
    BY <2>1, <2>2, <2>3
<1>5. CASE n <= r.cap /\ bytes # <<>>
  <2> DEFINE m2 == [m EXCEPT ![r.arr] = w]
             s == [r EXCEPT !.len = n]
  <2>1. x.mem = m2 /\ x.s = s
    BY <1>1, <1>2, <1>5
  <2>2. Len(bytes) > 0 /\ n > r.len
    BY <1>2, <1>5, EmptySeq
  <2>3. r.arr \in Arrays /\ r.arr # 0
    BY <1>2, <1>5, <2>2 DEF SliceOK
  <2>4. m[r.arr] \in Seq(Byte) /\ r.cap <= Len(m[r.arr]) /\ DOMAIN m[r.arr] = 1..Len(m[r.arr])
    BY <2>3 DEF MemOK, SliceOK
  <2>5. /\ w \in Seq(Byte) /\ Len(w) = Len(m[r.arr])
        /\ \A k \in 1..Len(m[r.arr]) :
             w[k] = IF k \in (r.len + 1)..n THEN bytes[k - r.len] ELSE m[r.arr][k]
    <3> DEFINE L == Len(m[r.arr])
    <3>1. L \in Nat
      BY <2>4
    <3>2. \A k \in 1..L : (IF k \in (r.len + 1)..n THEN bytes[k - r.len] ELSE m[r.arr][k]) \in Byte
      <4> TAKE k \in 1..L
      <4>1. k \in (r.len + 1)..n => k - r.len \in 1..Len(bytes)
        BY <1>2
      <4> QED
        BY <4>1, <2>4
    <3>3. w = [k \in 1..L |-> IF k \in (r.len + 1)..n THEN bytes[k - r.len] ELSE m[r.arr][k]]
      BY <2>4
    <3> HIDE DEF L
    <3>4. w \in Seq(Byte) /\ Len(w) = L
      BY <3>1, <3>2, <3>3
    <3>5. \A k \in 1..L : w[k] = IF k \in (r.len + 1)..n THEN bytes[k - r.len] ELSE m[r.arr][k]
      BY <3>3
    <3> QED
      BY <3>4, <3>5 DEF L
  <2>6. m2 \in [Arrays -> Seq(Byte)] /\ m2[r.arr] = w /\ \A a \in Arrays : a # r.arr => m2[a] = m[a]
    <3> HIDE DEF w
    <3> QED
      BY <2>3, <2>5 DEF MemOK
  <2>7. s \in Slice /\ s.arr = r.arr /\ s.cap = r.cap /\ s.len = n
    BY <1>2 DEF Slice
  <2> HIDE DEF m2, s, w
  <2>8. MemOK(m2) /\ SliceOK(m2, s)
    BY <1>5, <2>3, <2>4, <2>5, <2>6, <2>7 DEF MemOK, SliceOK
  <2>9. \A i \in 1..r.len : w[i] = m[r.arr][i]
    BY <1>2, <2>4, <2>5
  <2>10. WroteOn(m, r, m2, s)
    BY <1>2, <2>2, <2>5, <2>6, <2>7, <2>8, <2>9 DEF WroteOn
  <2>11. BytesOf(m2, s) = BytesOf(m, r) \o bytes
    <3>1. /\ BytesOf(m2, s) \in Seq(Byte) /\ Len(BytesOf(m2, s)) = n
          /\ \A i \in 1..n : BytesOf(m2, s)[i] = w[i]
      BY <2>6, <2>7, <2>8, BytesTyped
    <3> DEFINE t == BytesOf(m, r) \o bytes
    <3>2. /\ t \in Seq(Byte) /\ Len(t) = n
          /\ \A i \in 1..r.len : t[i] = BytesOf(m, r)[i]
          /\ \A i \in (r.len + 1)..n : t[i] = bytes[i - r.len]
      <4>1. PICK y \in Seq(Byte) : y = BytesOf(m, r)
        BY <1>2
      <4>2. PICK z : z = y \o bytes
        OBVIOUS
      <4>3. z \in Seq(Byte) /\ Len(z) = Len(y) + Len(bytes)
        BY <4>2, Joined
      <4>4. \A i \in 1..Len(y) : z[i] = y[i]
        BY <4>2, JoinedAt
      <4>5. \A i \in 1..Len(bytes) : z[i + Len(y)] = bytes[i]
        BY <4>2, JoinedAt
      <4>6. ASSUME NEW i \in (r.len + 1)..n PROVE z[i] = bytes[i - r.len]
        <5>1. i - r.len \in 1..Len(bytes) /\ (i - r.len) + Len(y) = i
          BY <1>2, <4>1
        <5> QED
          BY <4>5, <5>1
      <4> QED
        BY <1>2, <4>1, <4>2, <4>3, <4>4, <4>6
    <3> HIDE DEF t
    <3>3. ASSUME NEW i \in 1..n PROVE BytesOf(m2, s)[i] = t[i]
      <4>1. i \in 1..Len(m[r.arr])
        BY <1>2, <1>5, <2>4
      <4> QED
        BY <4>1, <3>1, <3>2, <2>5, <1>2
    <3>4. BytesOf(m2, s) = t
      BY <3>1, <3>2, <3>3, SeqEqual
    <3> QED
      BY <3>4 DEF t
  <2> QED
    BY <2>1, <2>10, <2>11
<1> HIDE DEF x
<1>6. n > r.cap \/ n <= r.cap
  BY <1>2
<1> QED
  BY <1>3, <1>4, <1>5, <1>6

\* the slices l differ from ls in level k of b at most, but may end sooner or
\* go on with empty levels
Besides(b, k, ls, l) ==
  /\ \A c \in Builders \ {b} : l[c] = ls[c]
  /\ \A j \in 1..Len(l[b]) : j # k => l[b][j] = IF j <= Len(ls[b]) THEN ls[b][j] ELSE Nil
Wrote(b, k, ls, m, n, s) ==
  WroteNew(ls, m, n, s) \/ (k <= Len(ls[b]) /\ WroteOn(m, ls[b][k], n, s))

\* One slice of b is written, the levels above it are gone or nil: the slices
\* stay apart and all others show what they showed.
LEMMA OneSlice ==
  ASSUME NEW m, NEW ls, MemOK(m), LevelsOK(ls), Owned(ls, m),
         NEW n, NEW l, LevelsOK(l),
         NEW b \in Builders, NEW k \in 1..Len(l[b]),
         Besides(b, k, ls, l), Wrote(b, k, ls, m, n, l[b][k])
  PROVE  /\ MemOK(n) /\ Owned(l, n)
         /\ \A c \in Builders : \A j \in 1..Len(l[c]) :
              c # b \/ j # k => BytesOf(n, l[c][j]) = BytesOf(m, l[c][j])
<1> DEFINE s == l[b][k]
           r == ls[b][k]
           Old(o) == \E c \in Builders : \E j \in 1..Len(ls[c]) : (c # b \/ j # k) /\ o = ls[c][j]
<1>a. /\ \A c \in Builders \ {b} : l[c] = ls[c]
      /\ \A j \in 1..Len(l[b]) :
           j # k => l[b][j] = Nil \/ (j <= Len(ls[b]) /\ l[b][j] = ls[b][j])
  BY DEF Besides
<1>b. WroteNew(ls, m, n, s) \/ (k <= Len(ls[b]) /\ WroteOn(m, r, n, s))
  BY DEF Wrote
<1>1. MemOK(n)
  BY <1>b DEF WroteNew, WroteOn
<1>2. ASSUME NEW c \in Builders, NEW j \in 1..Len(l[c]), c # b \/ j # k
      PROVE  l[c][j] = Nil \/ Old(l[c][j])
  <2>1. CASE c # b
    BY <1>a, <2>1
  <2>2. CASE c = b
    <3>1. Len(ls[b]) \in Nat /\ Len(l[b]) \in Nat
      BY DEF LevelsOK
    <3> QED
      BY <1>a, <1>2, <2>2, <3>1
  <2> QED
    BY <2>1, <2>2
<1>3. s \in Slice /\ SliceOK(n, s) /\ s.len \in Nat /\ s.cap \in Nat /\ s.len <= s.cap
  BY <1>b DEF WroteNew, WroteOn, SliceOK, Slice
<1>4. ASSUME NEW o, Old(o)
      PROVE  /\ o \in Slice /\ SliceOK(m, o) /\ o.arr \in Referenced(ls)
             /\ o.arr \in Arrays \cup {0} /\ o.len \in Nat /\ o.cap \in Nat
  <2>0. PICK c \in Builders : \E j \in 1..Len(ls[c]) : (c # b \/ j # k) /\ o = ls[c][j]
    BY <1>4
  <2>1. PICK j \in 1..Len(ls[c]) : (c # b \/ j # k) /\ o = ls[c][j]
    BY <2>0
  <2>2. ls[c] \in Seq(Slice) /\ j \in DOMAIN ls[c] /\ o \in Slice
    BY <2>1, LenProperties DEF LevelsOK
  <2>3. o.arr \in Referenced(ls)
    BY <2>1, <2>2 DEF Referenced, Range
  <2> QED
    BY <2>1, <2>2, <2>3 DEF Owned, Slice
\* the slice that is written in place
<1>5. ASSUME WroteOn(m, r, n, s), k <= Len(ls[b])
      PROVE  /\ r \in Slice /\ SliceOK(m, r) /\ r.len \in Nat /\ r.cap \in Nat
             /\ \A o : Old(o) => Apart(r, o) /\ Apart(o, r)
  <2>1. k \in 1..Len(ls[b]) /\ ls[b] \in Seq(Slice)
    <3>1. Len(ls[b]) \in Nat /\ Len(l[b]) \in Nat
      BY DEF LevelsOK
    <3> QED
      BY <3>1, <1>5 DEF LevelsOK
  <2>2. r \in Slice /\ SliceOK(m, r)
    BY <2>1 DEF Owned
  <2>3. \A o : Old(o) => Apart(r, o) /\ Apart(o, r)
    BY <2>1 DEF Owned
  <2> QED
    BY <2>2, <2>3 DEF Slice
<1> HIDE DEF Old
<1>6. ASSUME NEW o, o = Nil \/ Old(o)
      PROVE  o \in Slice /\ SliceOK(n, o) /\ Apart(s, o) /\ Apart(o, s) /\ BytesOf(n, o) = BytesOf(m, o)
  <2>1. CASE o = Nil
    <3>1. o.arr = 0 /\ o.len = 0 /\ o.cap = 0 /\ o \in Slice
      BY <2>1 DEF Nil, Slice
    <3> QED
      BY <1>3, <3>1 DEF SliceOK, Apart, BytesOf
  <2>2. CASE Old(o) /\ WroteNew(ls, m, n, s)
    <3>1. o.arr # s.arr
      BY <1>4, <2>2 DEF WroteNew
    <3>2. o.arr # 0 => n[o.arr] = m[o.arr]
      BY <1>4, <2>2, <3>1 DEF WroteNew
    <3> QED
      BY <1>4, <2>2, <3>1, <3>2 DEF SliceOK, Apart, BytesOf
  <2>3. CASE Old(o) /\ k <= Len(ls[b]) /\ WroteOn(m, r, n, s)
    <3> HIDE DEF s, r
    <3>1. /\ o \in Slice /\ SliceOK(m, o)
          /\ o.arr \in Arrays \cup {0} /\ o.len \in Nat /\ o.cap \in Nat /\ o.len <= o.cap
      BY <1>4, <2>3 DEF SliceOK
    <3>2. /\ Apart(r, o) /\ Apart(o, r) /\ r.len \in Nat /\ r.cap \in Nat /\ r.len <= r.cap
      BY <1>5, <2>3 DEF SliceOK
    <3>3. s.arr = r.arr /\ s.cap = r.cap /\ r.len <= s.len
      BY <2>3 DEF WroteOn
    <3>4. Apart(s, o) /\ Apart(o, s)
      BY <1>3, <3>1, <3>2, <3>3 DEF Apart
    <3>5. CASE s.len = r.len
      <4>1. n = m
        BY <2>3, <3>5 DEF WroteOn
      <4> QED
        BY <3>1, <3>4, <4>1
    <3>6. CASE s.len # r.len /\ o.arr = s.arr
      <4>1. r.len < r.cap /\ o.len <= r.len
        BY <1>3, <3>1, <3>2, <3>3, <3>6 DEF Apart
      <4>2. o.arr # 0 => Len(n[o.arr]) = Len(m[o.arr]) /\ \A i \in 1..o.len : n[o.arr][i] = m[o.arr][i]
        BY <2>3, <3>1, <3>2, <3>3, <3>6, <4>1 DEF WroteOn
      <4>3. SliceOK(n, o)
        BY <3>1, <4>2 DEF SliceOK
      <4> QED
        BY <1>1, <3>1, <3>4, <4>2, <4>3, SameBytes
    <3>7. CASE o.arr # s.arr
      <4>1. o.arr # 0 => n[o.arr] = m[o.arr]
        BY <2>3, <3>1, <3>7 DEF WroteOn
      <4> QED
        BY <3>1, <3>4, <4>1 DEF SliceOK, BytesOf
    <3> QED
      BY <3>5, <3>6, <3>7
  <2> QED
    BY <1>b, <1>6, <2>1, <2>2, <2>3
\* two slices that are not written
<1>7. ASSUME NEW c \in Builders, NEW d \in Builders, NEW i \in 1..Len(l[c]), NEW j \in 1..Len(l[d]),
             c # d \/ i # j, c # b \/ i # k, d # b \/ j # k
      PROVE  Apart(l[c][i], l[d][j])
  <2>1. CASE l[c][i] = Nil
    BY <2>1 DEF Apart, Nil
  <2>2. CASE l[c][i] # Nil /\ l[d][j] = Nil
    <3>1. Old(l[c][i]) /\ l[c][i].len \in Nat
      BY <1>2, <1>4, <1>7, <2>2
    <3> QED
      BY <2>2, <3>1 DEF Apart, Nil
  <2>3. CASE l[c][i] # Nil /\ l[d][j] # Nil
    <3>1. /\ i \in 1..Len(ls[c]) /\ l[c][i] = ls[c][i]
          /\ j \in 1..Len(ls[d]) /\ l[d][j] = ls[d][j]
      <4>1. Len(ls[b]) \in Nat /\ Len(l[b]) \in Nat
        BY DEF LevelsOK
      <4>2. i \in 1..Len(ls[c]) /\ l[c][i] = ls[c][i]
        BY <1>a, <1>7, <2>3, <4>1
      <4>3. j \in 1..Len(ls[d]) /\ l[d][j] = ls[d][j]
        BY <1>a, <1>7, <2>3, <4>1
      <4> QED
        BY <4>2, <4>3
    <3> QED
      BY <1>7, <3>1 DEF Owned
  <2> QED
    BY <2>1, <2>2, <2>3
<1>8. ASSUME NEW c \in Builders, NEW i \in 1..Len(l[c]) PROVE SliceOK(n, l[c][i])
  <2>1. CASE c = b /\ i = k
    BY <1>3, <2>1
  <2>2. CASE c # b \/ i # k
    BY <1>2, <1>6, <2>2
  <2> QED
    BY <2>1, <2>2
<1>9. ASSUME NEW c \in Builders, NEW d \in Builders, NEW i \in 1..Len(l[c]), NEW j \in 1..Len(l[d]),
             c # d \/ i # j
      PROVE  Apart(l[c][i], l[d][j])
  <2>1. CASE c = b /\ i = k
    <3>1. d # b \/ j # k
      BY <1>9, <2>1
    <3>2. Apart(s, l[d][j])
      BY <1>2, <1>6, <3>1
    <3> QED
      BY <2>1, <3>2
  <2>2. CASE d = b /\ j = k
    <3>1. c # b \/ i # k
      BY <1>9, <2>2
    <3>2. Apart(l[c][i], s)
      BY <1>2, <1>6, <3>1
    <3> QED
      BY <2>2, <3>2
  <2>3. CASE (c # b \/ i # k) /\ (d # b \/ j # k)
    BY <1>7, <1>9, <2>3
  <2> QED
    BY <2>1, <2>2, <2>3
<1>10. Owned(l, n)
  BY <1>8, <1>9 DEF Owned
<1>11. ASSUME NEW c \in Builders, NEW j \in 1..Len(l[c]), c # b \/ j # k
       PROVE  BytesOf(n, l[c][j]) = BytesOf(m, l[c][j])
  BY <1>2, <1>6, <1>11
<1> QED
  BY <1>1, <1>10, <1>11

LEMMA NewArrayShape ==
  ASSUME NEW m, NEW bytes, NEW slack
  PROVE  /\ NewArray(m, bytes, slack).s.arr = Unused
         /\ NewArray(m, bytes, slack).s.len = Len(bytes)
BY DEF NewArray, Cell

LEMMA AppendWhere ==
  ASSUME NEW m, NEW r \in Slice, NEW bytes, NEW slack
  PROVE  AppendTo(Cell(m, r), bytes, slack).s.arr \in {r.arr, Unused}
BY DEF AppendTo, NewArray, Cell, Slice
-----------------------------------------------------------------------------
(* Records *)

\* the bytes of a header, by names that hide how they are made
LEMMA HeadFacts ==
  ASSUME NEW lit \in Letters \cup {"none"}, NEW n \in Nat, NEW h, h = HeadOf(lit, n)
  PROVE  /\ h \in Seq(Byte) /\ h # <<>>
         /\ h[1] \in Byte
         /\ Tail(h) \in Seq(Byte)
         /\ h = <<h[1]>> \o Tail(h)
<1>1. PICK x : x = Lit(lit, TRUE)
  OBVIOUS
<1>2. PICK y : y = Lit(lit, FALSE)
  OBVIOUS
<1>3. PICK p : p = PutUint32(n)
  OBVIOUS
<1>4. x \in Byte /\ y \in Byte
  BY <1>1, <1>2, ByteFacts, Zenon
<1>5. Num(n) \in Byte /\ p \in Seq(Byte)
  BY <1>3, ByteFacts
<1>6. h = IF n <= Base - 1 THEN <<x, Num(n)>> ELSE <<y>> \o p
  BY <1>1, <1>2, <1>3, Zenon DEF HeadOf
<1>7. <<x, Num(n)>> \in Seq(Byte) /\ <<x, Num(n)>> # <<>>
  BY <1>4, <1>5
<1>8. <<y>> \o p \in Seq(Byte) /\ <<y>> \o p # <<>>
  <2>1. <<y>> \in Seq(Byte) /\ Len(<<y>>) = 1
    BY <1>4
  <2>2. Len(<<y>> \o p) = Len(<<y>>) + Len(p) /\ Len(p) \in Nat /\ <<y>> \o p \in Seq(Byte)
    BY <1>5, <2>1
  <2>3. Len(<<y>> \o p) # 0
    BY <2>1, <2>2
  <2> QED
    BY <2>2, <2>3, EmptySeq
<1>9. h \in Seq(Byte) /\ h # <<>>
  BY <1>6, <1>7, <1>8
<1>10. h[1] \in Byte /\ Tail(h) \in Seq(Byte) /\ Len(h) \in Nat /\ Len(Tail(h)) = Len(h) - 1
  BY <1>9
<1>11. h = <<h[1]>> \o Tail(h)
  <2>1. SubSeq(h, 1, Len(h)) = <<h[1]>> \o SubSeq(h, 2, Len(h))
    <3>1. 1 \in 1..Len(h) /\ Len(h) \in 1..Len(h) /\ 1 + 1 = 2
      BY <1>9, EmptySeq
    <3> QED
      BY <1>9, <3>1, SubSeqRecursiveFirst
  <2>2. SubSeq(h, 1, Len(h)) = h /\ Tail(h) = SubSeq(h, 2, Len(h))
    BY <1>9, SubSeqFull, TailIsSubSeq
  <2> QED
    BY <2>1, <2>2
<1> QED
  BY <1>9, <1>10, <1>11

\* Only the first byte of a header depends on the letter.
LEMMA HeadShape ==
  ASSUME NEW lit, NEW n \in Nat
  PROVE  /\ HeadOf(lit, n)[1] = Lit(lit, n <= Base - 1)
         /\ Tail(HeadOf(lit, n)) = IF n <= Base - 1 THEN <<Num(n)>> ELSE PutUint32(n)
<1>1. PICK x, y, u : x = Lit(lit, TRUE) /\ y = Lit(lit, FALSE) /\ u = Num(n)
  OBVIOUS
<1>2. PICK p : p = PutUint32(n)
  OBVIOUS
<1>3. p \in Seq(Byte)
  BY <1>2, ByteFacts
<1>4. CASE n <= Base - 1
  <2>1. HeadOf(lit, n) = <<x, u>>
    BY <1>1, <1>4 DEF HeadOf
  <2>2. <<x, u>>[1] = x /\ Tail(<<x, u>>) = <<u>>
    OBVIOUS
  <2>3. (n <= Base - 1) = TRUE
    BY <1>4
  <2> QED
    BY <1>1, <2>1, <2>2, <2>3
<1>5. CASE ~(n <= Base - 1)
  <2>1. HeadOf(lit, n) = <<y>> \o p
    BY <1>1, <1>2, <1>5 DEF HeadOf
  <2>2. (<<y>> \o p)[1] = y /\ Tail(<<y>> \o p) = p
    <3>1. PICK S : S = Byte \cup {y}
      OBVIOUS
    <3>2. p \in Seq(S) /\ y \in S
      <4>1. Byte \subseteq S
        BY <3>1
      <4> QED
        BY <1>3, <3>1, <4>1, SeqMonotonic
    <3>3. PICK o \in Seq(S) : o = <<y>> /\ Len(o) = 1 /\ o[1] = y
      <4>1. <<y>> \in Seq(S) /\ Len(<<y>>) = 1 /\ <<y>>[1] = y
        BY <3>2
      <4> QED
        BY <4>1
    <3>4. PICK w : w = o \o p
      OBVIOUS
    <3>5. /\ w \in Seq(S) /\ Len(w) = 1 + Len(p) /\ Len(p) \in Nat
          /\ \A i \in 1..(1 + Len(p)) : w[i] = IF i <= 1 THEN o[i] ELSE p[i - 1]
      BY <3>2, <3>3, <3>4, ConcatProperties
    <3>6. w[1] = y
      BY <3>3, <3>5
    <3>7. w # <<>>
      BY <3>5, EmptySeq
    <3>8. Tail(w) \in Seq(S) /\ Len(Tail(w)) = Len(p) /\ \A i \in 1..Len(p) : Tail(w)[i] = w[i + 1]
      BY <3>5, <3>7, HeadTailProperties
    <3>9. \A i \in 1..Len(p) : Tail(w)[i] = p[i]
      BY <3>5, <3>8
    <3>10. Tail(w) = p
      BY <3>2, <3>8, <3>9, SeqEqual
    <3> QED
      BY <3>3, <3>4, <3>6, <3>10
  <2>3. (n <= Base - 1) = FALSE
    BY <1>5
  <2> QED
    BY <1>1, <1>2, <1>5, <2>1, <2>2, <2>3
<1> QED
  BY <1>4, <1>5

LEMMA LowerFacts ==
  /\ \A y \in Byte : Lower(y) \in Byte
  /\ \A l : Lower(Lit(l, FALSE)) = Lit(l, TRUE)
  /\ \A y \in Byte : y[1] # "lit" => y[2] \in Nat
<1>1. ASSUME NEW y \in Heads PROVE Lower(y) \in Heads /\ y[1] = "lit"
  <2>1. PICK l \in Letters \cup {"none"} : y = Lit(l, TRUE) \/ y = Lit(l, FALSE)
    BY Zenon DEF Heads
  <2>2. y[1] = "lit" /\ y[2] = l
    <3>1. PICK short : y = <<"lit", l, short>>
      BY <2>1, Zenon DEF Lit
    <3> QED
      BY <3>1
  <2>3. Lower(y) = Lit(l, TRUE)
    BY <2>2, Zenon DEF Lower
  <2>4. Lit(l, TRUE) \in Heads
    BY Zenon DEF Heads
  <2> QED
    BY <2>2, <2>3, <2>4
<1>2. ASSUME NEW y \in Numbers PROVE Lower(y) \in Numbers /\ y[2] \in Nat
  <2>1. PICK t \in {"num", "val"}, n \in Nat : y = <<t, n>>
    BY DEF Numbers
  <2>2. n + CaseBit \in Nat
    BY BuilderAssumption
  <2>3. Lower(y) = y \/ Lower(y) = <<t, n + CaseBit>>
    BY <2>1 DEF Lower
  <2> QED
    BY <2>1, <2>2, <2>3 DEF Numbers
<1>3. \A l : Lower(Lit(l, FALSE)) = Lit(l, TRUE)
  BY DEF Lower, Lit
<1> QED
  BY <1>1, <1>2, <1>3 DEF Byte

\* FIRST and Outo write what WriteTLKV writes.
LEMMA RecordFacts ==
  ASSUME NEW lit \in Letters \cup {"none"}, NEW id \in Stamps, NEW val \in Seq(Byte)
  PROVE  /\ WriteTLKV(lit, id, val) \in Seq(Byte)
         /\ WriteTLKV(lit, id, val) =
              HeadOf(lit, Len(val) + Len(id) + 1) \o ((<<Num(Len(id))>> \o id) \o val)
         /\ FIRSTBytes(lit, id, val) = WriteTLKV(lit, id, val)
<1>1. id \in Seq(Byte) /\ Len(id) \in Nat /\ Len(id) <= Base - 1 /\ Base \in Nat
  BY ByteFacts, BuilderAssumption, TlvBytesAssumption
<1>2. Len(val) \in Nat
  OBVIOUS
<1>3. PICK k : k = <<Num(Len(id))>>
  OBVIOUS
<1>4. k \in Seq(Byte) /\ Len(k) = 1
  BY <1>1, <1>3, ByteFacts
<1>5. PICK n \in Nat : n = Len(val) + Len(id) + 1
  BY <1>1, <1>2
<1>6. PICK u : u = k \o id
  OBVIOUS
<1>7. u \in Seq(Byte) /\ Len(u) = Len(k) + Len(id)
  BY <1>1, <1>4, <1>6, Joined
<1>8. PICK v : v = u \o val
  OBVIOUS
<1>9. v \in Seq(Byte) /\ Len(v) = Len(u) + Len(val)
  BY <1>7, <1>8, Joined
<1>10. Len(v) = n
  BY <1>1, <1>2, <1>4, <1>5, <1>7, <1>9
<1>11. PICK h : h = HeadOf(lit, n)
  OBVIOUS
<1>12. h \in Seq(Byte)
  BY <1>11, HeadFacts
<1>13. WriteTLKV(lit, id, val) = WriteTLV(lit, v)
  <2>1. ~(Len(id) > Base - 1)
    BY <1>1
  <2> QED
    BY <2>1, <1>3, <1>6, <1>8, Zenon DEF WriteTLKV
<1>14. WriteTLV(lit, v) = h \o v
  <2>1. ~(Len(v) > Base - 1) <=> n <= Base - 1
    BY <1>1, <1>10
  <2> QED
    BY <2>1, <1>10, <1>11, Zenon DEF WriteTLV, HeadOf
<1>15. h \o v \in Seq(Byte)
  BY <1>9, <1>12
<1>16. FIRSTBytes(lit, id, val) = ((h \o k) \o id) \o val
  BY <1>3, <1>5, <1>11 DEF FIRSTBytes
<1>17. ((h \o k) \o id) \o val = h \o v
  <2>1. (h \o k) \o id = h \o u
    BY <1>1, <1>4, <1>6, <1>12, JoinedThree
  <2>2. (h \o u) \o val = h \o v
    BY <1>7, <1>8, <1>12, JoinedThree
  <2> QED
    BY <2>1, <2>2
<1> QED
  BY <1>3, <1>5, <1>6, <1>8, <1>11, <1>13, <1>14, <1>15, <1>16, <1>17

LEMMA Bracketed ==
  ASSUME NEW x \in Byte, NEW y \in Byte, NEW d \in Seq(Byte), NEW z, z = (<<x>> \o d) \o <<y>>
  PROVE  /\ z \in Seq(Byte) /\ Len(d) \in Nat /\ Len(z) = Len(d) + 2
         /\ z[1] = x
         /\ \A i \in 1..Len(d) : z[i + 1] = d[i]
         /\ z[Len(d) + 2] = y
<1>0. <<x>> \in Seq(Byte) /\ <<y>> \in Seq(Byte)
  OBVIOUS
<1>1. PICK u \in Seq(Byte) : u = <<x>>
  BY <1>0, Zenon
<1>2. PICK v \in Seq(Byte) : v = <<y>>
  BY <1>0, Zenon
<1>3. Len(u) = 1 /\ u[1] = x /\ Len(v) = 1 /\ v[1] = y /\ Len(d) \in Nat
  BY <1>1, <1>2
<1>4. PICK w \in Seq(Byte) : w = u \o d
  BY Joined
<1>5. Len(w) = Len(u) + Len(d)
  BY <1>4, Joined
<1>6. \A i \in 1..Len(u) : w[i] = u[i]
  BY <1>4, JoinedAt
<1>7. \A i \in 1..Len(d) : w[i + Len(u)] = d[i]
  BY <1>4, JoinedAt
<1>8. z = w \o v
  BY <1>1, <1>2, <1>4
<1>9. z \in Seq(Byte) /\ Len(z) = Len(w) + Len(v)
  BY <1>8, Joined
<1>10. \A i \in 1..Len(w) : z[i] = w[i]
  BY <1>8, JoinedAt
<1>11. \A i \in 1..Len(v) : z[i + Len(w)] = v[i]
  BY <1>8, JoinedAt
<1>12. Len(w) = Len(d) + 1 /\ Len(z) = Len(d) + 2
  BY <1>3, <1>5, <1>9
<1>13. z[1] = x
  <2>1. 1 \in 1..Len(w) /\ 1 \in 1..Len(u)
    BY <1>3, <1>12
  <2> QED
    BY <2>1, <1>3, <1>6, <1>10
<1>14. ASSUME NEW i \in 1..Len(d) PROVE z[i + 1] = d[i]
  <2>1. i + 1 \in 1..Len(w) /\ i + 1 = i + Len(u)
    BY <1>3, <1>12
  <2> QED
    BY <2>1, <1>7, <1>10
<1>15. z[Len(d) + 2] = y
  <2>1. 1 \in 1..Len(v) /\ 1 + Len(w) = Len(d) + 2
    BY <1>3, <1>12
  <2> QED
    BY <2>1, <1>3, <1>11
<1> QED
  BY <1>3, <1>9, <1>12, <1>13, <1>14, <1>15

LEMMA MarkFacts ==
  ASSUME NEW lit \in Letters \cup {"none"}, NEW id \in Stamps, NEW z, z = Mark(lit, id)
  PROVE  /\ z \in Seq(Byte) /\ Len(id) \in Nat /\ Len(z) = Len(id) + 2
         /\ z[1] = Lit(lit, FALSE)
         /\ \A i \in 1..Len(id) : z[i + 1] = id[i]
         /\ z[Len(id) + 2] = Num(Len(id))
<1>1. id \in Seq(Byte) /\ Len(id) \in Nat
  BY ByteFacts
<1>2. PICK x \in Byte : x = Lit(lit, FALSE)
  BY ByteFacts, Zenon
<1>3. PICK y \in Byte : y = Num(Len(id))
  BY <1>1, ByteFacts
<1>4. z = (<<x>> \o id) \o <<y>>
  BY <1>2, <1>3, Zenon DEF Mark
<1>5. PICK d \in Seq(Byte) : d = id
  BY <1>1
<1>6. z = (<<x>> \o d) \o <<y>>
  BY <1>4, <1>5
<1>7. /\ z \in Seq(Byte) /\ Len(z) = Len(d) + 2
      /\ z[1] = x
      /\ \A i \in 1..Len(d) : z[i + 1] = d[i]
      /\ z[Len(d) + 2] = y
  BY <1>6, Bracketed
<1> QED
  BY <1>1, <1>2, <1>3, <1>5, <1>7, Zenon
-----------------------------------------------------------------------------
(* Calls *)

\* a call on b leaves the other builders alone
Kept(b, l, n) ==
  MemOK(n) /\ LevelsOK(l) /\ Owned(l, n) /\ Unmoved(b, mem, levels, n, l)

\* and of b's levels only k changes, to w; levels above what b had are empty
Written(b, k, l, n, w) ==
  /\ Kept(b, l, n)
  /\ k \in 1..Len(l[b]) /\ BytesOf(n, l[b][k]) = w
  /\ \A j \in 1..Len(l[b]) : j # k =>
       IF j <= Len(levels[b]) THEN BytesOf(n, l[b][j]) = BytesOf(mem, levels[b][j])
       ELSE BytesOf(n, l[b][j]) = <<>>

Only(b) == \A c \in Builders \ {b} : Contents(c)' = Contents(c)

LEMMA Step ==
  ASSUME IInv, NEW b \in Builders, NEW l, NEW n, Kept(b, l, n),
         levels' = l, mem' = Cleaned(l, n),
         GivenOK(given', l), strayed' \subseteq Builders,
         SameHistory(b, given, strayed, given', strayed'),
         b \notin strayed' => BuiltAt(n, l[b], given'[b])
  PROVE  IInv' /\ Only(b)
<1>1. /\ InvOf(Cleaned(l, n), l, given', strayed')
      /\ Unmoved(b, mem, levels, Cleaned(l, n), l)
  <2>1. PICK m, ls, g, st, h, t :
          m = mem /\ ls = levels /\ g = given /\ st = strayed /\ h = given' /\ t = strayed'
    OBVIOUS
  <2>2. InvOf(m, ls, g, st)
    BY <2>1 DEF IInv
  <2>3. /\ MemOK(n) /\ LevelsOK(l) /\ Owned(l, n) /\ GivenOK(h, l) /\ t \subseteq Builders
        /\ Unmoved(b, m, ls, n, l) /\ SameHistory(b, g, st, h, t)
        /\ b \notin t => BuiltAt(n, l[b], h[b])
    BY <2>1 DEF Kept
  <2>4. InvOf(Cleaned(l, n), l, h, t) /\ Unmoved(b, m, ls, Cleaned(l, n), l)
    BY <2>2, <2>3, CallOn
  <2> QED
    BY <2>1, <2>4
<1>2. IInv'
  BY <1>1 DEF IInv
<1>3. ASSUME NEW c \in Builders \ {b} PROVE Contents(c)' = Contents(c)
  <2>1. levels'[c] = levels[c]
    BY <1>1 DEF Unmoved
  <2>2. DOMAIN levels[c] = 1..Len(levels[c])
    BY LenProperties DEF IInv, InvOf, LevelsOK
  <2>3. \A k \in DOMAIN levels[c] : BytesOf(mem', levels[c][k]) = BytesOf(mem, levels[c][k])
    BY <1>1, <2>2 DEF Unmoved
  <2>4. /\ Contents(c)' = [k \in DOMAIN levels'[c] |-> BytesOf(mem', levels'[c][k])]
        /\ Contents(c) = [k \in DOMAIN levels[c] |-> BytesOf(mem, levels[c][k])]
    BY DEF Contents
  <2> QED
    BY <2>1, <2>3, <2>4
<1> QED
  BY <1>2, <1>3 DEF Only

LEMMA PutSlice ==
  ASSUME IInv, NEW b \in Builders, NEW l, NEW n, LevelsOK(l), NEW k \in 1..Len(l[b]),
         Besides(b, k, levels, l), Wrote(b, k, levels, mem, n, l[b][k])
  PROVE  Written(b, k, l, n, BytesOf(n, l[b][k]))
<1>1. PICK m, ls : m = mem /\ ls = levels
  OBVIOUS
<1>2. MemOK(m) /\ LevelsOK(ls) /\ Owned(ls, m)
  BY <1>1 DEF IInv, InvOf
<1>3. Besides(b, k, ls, l) /\ Wrote(b, k, ls, m, n, l[b][k])
  BY <1>1
<1>4. /\ MemOK(n) /\ Owned(l, n)
      /\ \A c \in Builders : \A j \in 1..Len(l[c]) :
           c # b \/ j # k => BytesOf(n, l[c][j]) = BytesOf(m, l[c][j])
  BY <1>2, <1>3, OneSlice
<1>5. Unmoved(b, mem, levels, n, l)
  BY <1>1, <1>4 DEF Unmoved, Besides
<1>6. Kept(b, l, n)
  BY <1>4, <1>5 DEF Kept
<1>7. ASSUME NEW j \in 1..Len(l[b]), j # k
      PROVE  IF j <= Len(levels[b]) THEN BytesOf(n, l[b][j]) = BytesOf(mem, levels[b][j])
             ELSE BytesOf(n, l[b][j]) = <<>>
  <2>1. BytesOf(n, l[b][j]) = BytesOf(mem, l[b][j])
    BY <1>1, <1>4, <1>7
  <2>2. BytesOf(mem, Nil) = <<>>
    BY DEF BytesOf, Nil
  <2> QED
    BY <1>7, <2>1, <2>2 DEF Besides
<1> QED
  BY <1>6, <1>7 DEF Written

\* append on the last level, with nothing or an empty level after it
LEMMA GrowFacts ==
  ASSUME IInv, NEW b \in Builders, NEW bytes \in Seq(Byte), NEW slack \in Nat,
         NEW x, x = AppendTo(LastOf(b), bytes, slack)
  PROVE  LET k == Len(levels[b])
             w == BytesOf(mem, levels[b][k]) \o bytes
             l == WithLast(levels, b, x.s)
             more == [l EXCEPT ![b] = Append(@, Nil)]
         IN  /\ Len(l[b]) = k /\ Written(b, k, l, x.mem, w)
             /\ k < MaxDepth => Len(more[b]) = k + 1 /\ Written(b, k, more, x.mem, w)
<1> DEFINE k == Len(levels[b])
           r == levels[b][k]
           w == BytesOf(mem, r) \o bytes
           l == WithLast(levels, b, x.s)
           more == [l EXCEPT ![b] = Append(@, Nil)]
<1>1. LevelsOK(levels) /\ MemOK(mem) /\ Owned(levels, mem)
  BY DEF IInv, InvOf
<1>2. levels[b] \in Seq(Slice) /\ k \in Nat /\ k \in 1..k /\ k <= MaxDepth /\ MaxDepth \in Nat
  BY <1>1, BuilderAssumption DEF LevelsOK
<1>3. r \in Slice /\ SliceOK(mem, r)
  BY <1>1, <1>2 DEF Owned
<1>4. x = AppendTo(Cell(mem, r), bytes, slack)
  BY DEF LastOf, Last
<1>5. /\ WroteNew(levels, mem, x.mem, x.s) \/ WroteOn(mem, r, x.mem, x.s)
      /\ BytesOf(x.mem, x.s) = w
  <2>1. PICK m, s : m = mem /\ s = r
    OBVIOUS
  <2>2. /\ WroteNew(levels, m, x.mem, x.s) \/ WroteOn(m, s, x.mem, x.s)
        /\ BytesOf(x.mem, x.s) = BytesOf(m, s) \o bytes
    BY <1>1, <1>3, <1>4, <2>1, AppendFacts
  <2> QED
    BY <2>1, <2>2
<1>6. x.s \in Slice /\ Nil \in Slice
  BY <1>5 DEF WroteNew, WroteOn, Nil, Slice
<1>7. /\ l \in [Builders -> Seq(Slice)] /\ Len(l[b]) = k /\ l[b][k] = x.s
      /\ \A c \in Builders \ {b} : l[c] = levels[c]
      /\ \A j \in 1..k : j # k => l[b][j] = levels[b][j]
  <2>1. /\ [levels[b] EXCEPT ![k] = x.s] \in Seq(Slice)
        /\ Len([levels[b] EXCEPT ![k] = x.s]) = k
        /\ \A j \in 1..k : [levels[b] EXCEPT ![k] = x.s][j] = IF j = k THEN x.s ELSE levels[b][j]
    BY <1>2, <1>6, ExceptSeq
  <2>2. levels \in [Builders -> Seq(Slice)]
    BY <1>1 DEF LevelsOK
  <2>3. l = [levels EXCEPT ![b] = [levels[b] EXCEPT ![k] = x.s]]
    BY DEF WithLast
  <2> HIDE DEF l
  <2>4. l \in [Builders -> Seq(Slice)] /\ l[b] = [levels[b] EXCEPT ![k] = x.s]
    BY <2>1, <2>2, <2>3
  <2>5. \A c \in Builders \ {b} : l[c] = levels[c]
    BY <2>2, <2>3
  <2> QED
    BY <1>2, <2>1, <2>4, <2>5
<1> HIDE DEF l
<1>8. LevelsOK(l)
  BY <1>1, <1>7 DEF LevelsOK
<1>9. Written(b, k, l, x.mem, w)
  <2>1. k \in 1..Len(l[b])
    BY <1>2, <1>7
  <2>2. Besides(b, k, levels, l) /\ Wrote(b, k, levels, mem, x.mem, l[b][k])
    BY <1>2, <1>5, <1>7 DEF Besides, Wrote
  <2>3. Written(b, k, l, x.mem, BytesOf(x.mem, l[b][k]))
    BY <1>8, <2>1, <2>2, PutSlice
  <2> QED
    BY <1>5, <1>7, <2>3
<1>10. ASSUME k < MaxDepth PROVE Len(more[b]) = k + 1 /\ Written(b, k, more, x.mem, w)
  <2>1. /\ Append(l[b], Nil) \in Seq(Slice)
        /\ Len(Append(l[b], Nil)) = k + 1
        /\ \A j \in 1..k : Append(l[b], Nil)[j] = l[b][j]
        /\ Append(l[b], Nil)[k + 1] = Nil
    BY <1>6, <1>7, AppendProperties
  <2>2. more \in [Builders -> Seq(Slice)] /\ more[b] = Append(l[b], Nil)
    BY <1>7, <2>1
  <2>3. \A c \in Builders \ {b} : more[c] = levels[c]
    BY <1>7
  <2> HIDE DEF more
  <2>4. LevelsOK(more)
    <3>1. Len(more[b]) \in 1..MaxDepth
      BY <1>2, <1>10, <2>1, <2>2
    <3> QED
      BY <1>1, <2>2, <2>3, <3>1 DEF LevelsOK
  <2>5. k \in 1..Len(more[b]) /\ more[b][k] = x.s
    BY <1>2, <1>7, <2>1, <2>2
  <2>6. \A j \in 1..Len(more[b]) :
          j # k => more[b][j] = IF j <= Len(levels[b]) THEN levels[b][j] ELSE Nil
    <3> SUFFICES ASSUME NEW j \in 1..(k + 1), j # k
                 PROVE  more[b][j] = IF j <= k THEN levels[b][j] ELSE Nil
      BY <2>1, <2>2
    <3>1. CASE j <= k
      BY <1>2, <1>7, <2>1, <2>2, <3>1
    <3>2. CASE ~(j <= k)
      <4>1. j = k + 1
        BY <1>2, <3>2
      <4> QED
        BY <2>1, <2>2, <3>2, <4>1
    <3> QED
      BY <3>1, <3>2
  <2>7. Besides(b, k, levels, more) /\ Wrote(b, k, levels, mem, x.mem, more[b][k])
    <3>1. Besides(b, k, levels, more)
      BY <2>3, <2>6, Zenon DEF Besides
    <3>2. k <= Len(levels[b])
      BY <1>2
    <3> QED
      BY <1>5, <2>5, <3>1, <3>2, Zenon DEF Wrote
  <2>8. Written(b, k, more, x.mem, BytesOf(x.mem, more[b][k]))
    BY <2>4, <2>5, <2>7, PutSlice
  <2> QED
    BY <1>5, <2>1, <2>2, <2>5, <2>8
<1> QED
  BY <1>7, <1>9, <1>10 DEF l

LEMMA BecomesFacts ==
  ASSUME NEW l, NEW n, Becomes(l, n)
  PROVE  levels' = l /\ mem' = Cleaned(l, n)
BY DEF Becomes, Cleaned

LEMMA GivenFacts ==
  ASSUME IInv, NEW b \in Builders
  PROVE  /\ given \in [Builders -> Seq(Level)] /\ given[b] \in Seq(Level)
         /\ levels \in [Builders -> Seq(Slice)] /\ levels[b] \in Seq(Slice)
         /\ Len(given[b]) = Len(levels[b])
         /\ Len(levels[b]) \in Nat /\ Len(levels[b]) >= 1 /\ Len(levels[b]) <= MaxDepth
         /\ MaxDepth \in Nat
         /\ \A k \in 1..Len(levels[b]) :
              /\ given[b][k].lit \in Letters \cup {"none"}
              /\ given[b][k].id \in Stamps
              /\ given[b][k].bytes \in Seq(Byte)
              /\ levels[b][k] \in Slice /\ SliceOK(mem, levels[b][k])
<1>1. MemOK(mem) /\ LevelsOK(levels) /\ GivenOK(given, levels) /\ Owned(levels, mem)
  BY DEF IInv, InvOf
<1>2. /\ given \in [Builders -> Seq(Level)] /\ given[b] \in Seq(Level)
      /\ levels \in [Builders -> Seq(Slice)] /\ levels[b] \in Seq(Slice)
      /\ Len(given[b]) = Len(levels[b]) /\ Len(levels[b]) \in 1..MaxDepth
  BY <1>1 DEF LevelsOK, GivenOK
<1>3. MaxDepth \in Nat
  BY BuilderAssumption
<1>4. Len(levels[b]) \in Nat /\ Len(levels[b]) >= 1 /\ Len(levels[b]) <= MaxDepth
  BY <1>2, <1>3
<1>5. ASSUME NEW k \in 1..Len(levels[b])
      PROVE  /\ given[b][k].lit \in Letters \cup {"none"}
             /\ given[b][k].id \in Stamps
             /\ given[b][k].bytes \in Seq(Byte)
             /\ levels[b][k] \in Slice /\ SliceOK(mem, levels[b][k])
  <2>1. given[b][k] \in Level /\ levels[b][k] \in Slice
    BY <1>2
  <2>2. SliceOK(mem, levels[b][k])
    BY <1>1 DEF Owned
  <2> QED
    BY <2>1, <2>2 DEF Level
<1> QED
  BY <1>2, <1>3, <1>4, <1>5

\* More bytes in the last level of b, and the same in its history.
LEMMA GaveMore ==
  ASSUME IInv, NEW b \in Builders, NEW bytes \in Seq(Byte), NEW rec \in Seq(Byte),
         Grow(b, bytes), given' = Give(b, rec), strayed' \subseteq Builders,
         \A c \in Builders \ {b} : c \in strayed' <=> c \in strayed,
         b \notin strayed' => b \notin strayed /\ rec = bytes
  PROVE  IInv' /\ Only(b)
<1>1. PICK slack \in {0, Slack} :
        LET x == AppendTo(LastOf(b), bytes, slack)
        IN  Room /\ Becomes(WithLast(levels, b, x.s), x.mem)
  BY DEF Grow
<1>2. slack \in Nat
  BY BuilderAssumption
<1>3. PICK x : x = AppendTo(LastOf(b), bytes, slack)
  OBVIOUS
<1>4. PICK l, n : l = WithLast(levels, b, x.s) /\ n = x.mem
  OBVIOUS
<1>5. levels' = l /\ mem' = Cleaned(l, n)
  BY <1>1, <1>3, <1>4, BecomesFacts
<1> DEFINE k == Len(levels[b])
           w == BytesOf(mem, levels[b][k]) \o bytes
           e == [given[b][k] EXCEPT !.bytes = given[b][k].bytes \o rec]
           hb == [given[b] EXCEPT ![k] = e]
<1>6. Len(l[b]) = k /\ Written(b, k, l, n, w)
  BY <1>2, <1>3, <1>4, GrowFacts
<1>7. /\ given \in [Builders -> Seq(Level)] /\ given[b] \in Seq(Level)
      /\ Len(given[b]) = k /\ k \in Nat /\ k >= 1
  BY GivenFacts
<1>8. given' = [given EXCEPT ![b] = hb]
  BY <1>7 DEF Give
<1>9. e \in Level /\ e.bytes = given[b][k].bytes \o rec
  <2>1. k \in 1..k
    BY <1>7
  <2>2. given[b][k] \in Level /\ given[b][k].bytes \in Seq(Byte)
    <3>1. given[b][k] \in Level
      BY <1>7, <2>1
    <3> QED
      BY <3>1 DEF Level
  <2>3. given[b][k].bytes \o rec \in Seq(Byte)
    BY <2>2
  <2> QED
    BY <2>2, <2>3 DEF Level
<1>10. /\ hb \in Seq(Level) /\ Len(hb) = k /\ hb[k] = e
       /\ \A j \in 1..k : hb[j].lit = given[b][j].lit /\ hb[j].id = given[b][j].id
       /\ \A j \in 1..k : j # k => hb[j] = given[b][j]
  <2>1. k \in 1..Len(given[b])
    BY <1>7
  <2>2. e.lit = given[b][k].lit /\ e.id = given[b][k].id
    <3>1. given[b][k] \in Level
      BY <1>7, <2>1
    <3> QED
      BY <3>1 DEF Level
  <2> HIDE DEF e
  <2>3. /\ hb \in Seq(Level) /\ Len(hb) = Len(given[b])
        /\ \A j \in 1..Len(given[b]) : hb[j] = IF j = k THEN e ELSE given[b][j]
    BY <1>7, <1>9, <2>1, ExceptSeq
  <2> HIDE DEF hb
  <2> QED
    BY <1>7, <2>1, <2>2, <2>3
<1> HIDE DEF e, hb
<1>11. given'[b] = hb /\ \A c \in Builders \ {b} : given'[c] = given[c]
  BY <1>7, <1>8
<1>12. GivenOK(given', l)
  <2>1. given' \in [Builders -> Seq(Level)]
    BY <1>7, <1>8, <1>10
  <2>2. ASSUME NEW c \in Builders PROVE Len(given'[c]) = Len(l[c])
    <3>1. CASE c = b
      BY <3>1, <1>6, <1>10, <1>11
    <3>2. CASE c # b
      <4>1. l[c] = levels[c] /\ given'[c] = given[c]
        BY <3>2, <1>6, <1>11 DEF Written, Kept, Unmoved
      <4>2. Len(given[c]) = Len(levels[c])
        BY GivenFacts
      <4> QED
        BY <4>1, <4>2
    <3> QED
      BY <3>1, <3>2
  <2> QED
    BY <2>1, <2>2 DEF GivenOK
<1>13. ASSUME b \notin strayed' PROVE BuiltAt(n, l[b], hb)
  <2>1. rec = bytes /\ BuiltAt(mem, levels[b], given[b])
    BY <1>13 DEF IInv, InvOf
  <2> SUFFICES ASSUME NEW j \in 1..k PROVE BytesOf(n, l[b][j]) = Due(hb, j)
    BY <1>10 DEF BuiltAt
  <2>2. BytesOf(mem, levels[b][j]) = Due(given[b], j)
    BY <1>7, <2>1 DEF BuiltAt
  <2>3. CASE j # k
    <3>1. BytesOf(n, l[b][j]) = BytesOf(mem, levels[b][j])
      BY <1>6, <1>7, <2>3 DEF Written
    <3>2. j + 1 \in 1..k
      BY <1>7, <2>3
    <3>3. hb[j].bytes = given[b][j].bytes
      BY <1>10, <2>3
    <3>4. hb[j + 1].lit = given[b][j + 1].lit /\ hb[j + 1].id = given[b][j + 1].id
      BY <1>10, <3>2
    <3>5. Due(hb, j) = Due(given[b], j)
      BY <1>7, <1>10, <2>3, <3>3, <3>4 DEF Due
    <3> QED
      BY <2>2, <3>1, <3>5
  <2>4. CASE j = k
    <3>1. PICK u \in Seq(Byte) : u = given[b][k].bytes
      BY <2>4, GivenFacts
    <3>2. Due(given[b], k) = u \o <<>>
      BY <1>7, <3>1 DEF Due
    <3>3. Due(hb, k) = (u \o rec) \o <<>>
      BY <1>9, <1>10, <3>1 DEF Due
    <3>4. u \o <<>> = u /\ u \o rec \in Seq(Byte)
      BY ConcatEmptySeq
    <3>5. (u \o rec) \o <<>> = u \o rec
      BY <3>4, ConcatEmptySeq
    <3>6. BytesOf(n, l[b][k]) = BytesOf(mem, levels[b][k]) \o bytes
      BY <1>6 DEF Written
    <3> QED
      BY <2>1, <2>2, <2>4, <3>2, <3>3, <3>4, <3>5, <3>6
  <2> QED
    BY <2>3, <2>4
<1>14. Kept(b, l, n) /\ SameHistory(b, given, strayed, given', strayed')
  BY <1>6, <1>11 DEF Written, SameHistory
<1> QED
  BY <1>5, <1>11, <1>12, <1>13, <1>14, Step

LEMMA FIRSTStep ==
  ASSUME IInv, NEW b \in Builders, NEW lit \in Letters, NEW id \in Stamps, NEW val \in Values,
         FIRST(b, lit, id, val)
  PROVE  IInv' /\ Only(b)
<1>1. val \in Seq(Byte) /\ lit \in Letters \cup {"none"}
  BY ByteFacts
<1>2. PICK rec \in Seq(Byte) : rec = WriteTLKV(lit, id, val)
  BY <1>1, RecordFacts
<1>3. FIRSTBytes(lit, id, val) = rec
  BY <1>1, <1>2, RecordFacts
<1>4. Grow(b, rec) /\ given' = Give(b, rec) /\ strayed' = strayed
  BY <1>2, <1>3 DEF FIRST
<1>5. strayed \subseteq Builders
  BY DEF IInv, InvOf
<1> QED
  BY <1>4, <1>5, GaveMore

LEMMA StreamStep ==
  ASSUME IInv, NEW b \in Builders, NEW c \in Builders \ {b}, Stream(b, c)
  PROVE  IInv' /\ Only(b)
<1>1. /\ Len(levels[c]) = 1 /\ Grow(b, BytesOf(mem, levels[c][1]))
      /\ given' = Give(b, given[c][1].bytes)
      /\ strayed' = IF c \in strayed THEN strayed \cup {b} ELSE strayed
  BY DEF Stream
<1>2. levels[c][1] \in Slice /\ SliceOK(mem, levels[c][1]) /\ given[c][1].bytes \in Seq(Byte)
  BY <1>1, GivenFacts
<1>3. PICK bytes \in Seq(Byte) : bytes = BytesOf(mem, levels[c][1])
  <2>1. BytesOf(mem, levels[c][1]) \in Seq(Byte)
    BY <1>2, BytesTyped DEF IInv, InvOf
  <2> QED
    BY <2>1
<1>4. PICK rec \in Seq(Byte) : rec = given[c][1].bytes
  BY <1>2
<1>5. strayed \subseteq Builders
  BY DEF IInv, InvOf
<1>6. ASSUME c \notin strayed PROVE rec = bytes
  <2>1. BuiltAt(mem, levels[c], given[c]) /\ Len(given[c]) = 1
    BY <1>1, <1>6, GivenFacts DEF IInv, InvOf
  <2>2. bytes = Due(given[c], 1)
    BY <1>3, <2>1 DEF BuiltAt
  <2>3. Due(given[c], 1) = rec \o <<>>
    BY <1>4, <2>1 DEF Due
  <2> QED
    BY <2>2, <2>3, ConcatEmptySeq
<1>7. Grow(b, bytes) /\ given' = Give(b, rec) /\ strayed' \subseteq Builders
  BY <1>1, <1>3, <1>4, <1>5
<1>8. \A d \in Builders \ {b} : d \in strayed' <=> d \in strayed
  BY <1>1
<1>9. b \notin strayed' => b \notin strayed /\ rec = bytes
  BY <1>1, <1>6
<1> QED
  BY <1>7, <1>8, <1>9, GaveMore

LEMMA StrayIntoStep ==
  ASSUME IInv, NEW b \in Builders, NEW lit \in Letters, StrayInto(b, lit)
  PROVE  IInv' /\ Only(b)
<1>1. PICK x \in Byte : x = Lit(lit, FALSE)
  BY ByteFacts, Zenon
<1>2. Num(0) \in Byte
  BY ByteFacts
<1>3. PICK bytes \in Seq(Byte) : bytes = <<Lit(lit, FALSE), Num(0)>>
  <2>1. <<x, Num(0)>> \in Seq(Byte)
    BY <1>2
  <2> QED
    BY <1>1, <2>1, Zenon
<1>4. Grow(b, bytes) /\ strayed' = strayed \cup {b} /\ given' = given
  BY <1>3, Zenon DEF StrayInto
<1>5. PICK slack \in {0, Slack} :
        LET y == AppendTo(LastOf(b), bytes, slack)
        IN  Room /\ Becomes(WithLast(levels, b, y.s), y.mem)
  BY <1>4 DEF Grow
<1>6. slack \in Nat
  BY BuilderAssumption
<1>7. PICK y : y = AppendTo(LastOf(b), bytes, slack)
  OBVIOUS
<1>8. PICK l, n : l = WithLast(levels, b, y.s) /\ n = y.mem
  OBVIOUS
<1>9. levels' = l /\ mem' = Cleaned(l, n)
  BY <1>5, <1>7, <1>8, BecomesFacts
<1>10. Len(l[b]) = Len(levels[b]) /\ Kept(b, l, n)
  BY <1>6, <1>7, <1>8, GrowFacts DEF Written
<1>11. GivenOK(given', l)
  <2>1. GivenOK(given, levels)
    BY DEF IInv, InvOf
  <2> QED
    BY <1>4, <1>10, <2>1 DEF GivenOK, Kept, Unmoved
<1>12. strayed \subseteq Builders
  BY DEF IInv, InvOf
<1>13. strayed' \subseteq Builders /\ b \in strayed' /\ SameHistory(b, given, strayed, given', strayed')
  BY <1>4, <1>12 DEF SameHistory
<1> QED
  BY <1>9, <1>10, <1>11, <1>13, Step

LEMMA IntoStep ==
  ASSUME IInv, NEW b \in Builders, NEW lit \in Letters, NEW id \in Stamps, Into(b, lit, id)
  PROVE  IInv' /\ Only(b)
<1>1. PICK bytes : bytes = Mark(lit, id)
  OBVIOUS
<1>2. bytes \in Seq(Byte)
  BY <1>1, MarkFacts
<1>3. PICK slack \in {0, Slack} :
        LET x == AppendTo(LastOf(b), bytes, slack)
        IN  /\ Len(levels[b]) < MaxDepth
            /\ Becomes([WithLast(levels, b, x.s) EXCEPT ![b] = Append(@, Nil)], x.mem)
            /\ given' = [given EXCEPT ![b] = Append(@, [lit |-> lit, id |-> id, bytes |-> <<>>])]
            /\ strayed' = strayed
  BY <1>1 DEF Into
<1>4. slack \in Nat
  BY BuilderAssumption
<1>5. PICK x : x = AppendTo(LastOf(b), bytes, slack)
  OBVIOUS
<1>6. PICK l, n : l = [WithLast(levels, b, x.s) EXCEPT ![b] = Append(@, Nil)] /\ n = x.mem
  OBVIOUS
<1>7. levels' = l /\ mem' = Cleaned(l, n)
  BY <1>3, <1>5, <1>6, BecomesFacts
<1> DEFINE k == Len(levels[b])
           w == BytesOf(mem, levels[b][k]) \o bytes
           e == [lit |-> lit, id |-> id, bytes |-> <<>>]
           hb == Append(given[b], e)
<1>8. Len(l[b]) = k + 1 /\ Written(b, k, l, n, w)
  <2>1. k < MaxDepth
    BY <1>3
  <2> QED
    BY <1>2, <1>4, <1>5, <1>6, <2>1, GrowFacts
<1>9. /\ given \in [Builders -> Seq(Level)] /\ given[b] \in Seq(Level)
      /\ Len(given[b]) = k /\ k \in Nat /\ k >= 1
  BY GivenFacts
<1>10. given' = [given EXCEPT ![b] = hb] /\ strayed' = strayed
  BY <1>3
<1>11. e \in Level /\ e.lit = lit /\ e.id = id /\ e.bytes = <<>>
  BY ByteFacts DEF Level
<1> HIDE DEF e
<1>12. /\ hb \in Seq(Level) /\ Len(hb) = k + 1 /\ hb[k + 1] = e
       /\ \A j \in 1..k : hb[j] = given[b][j]
  BY <1>9, <1>11, AppendProperties
<1> HIDE DEF hb
<1>13. given'[b] = hb /\ \A c \in Builders \ {b} : given'[c] = given[c]
  BY <1>9, <1>10
<1>14. GivenOK(given', l)
  <2>1. given' \in [Builders -> Seq(Level)]
    BY <1>9, <1>10, <1>12
  <2>2. ASSUME NEW c \in Builders PROVE Len(given'[c]) = Len(l[c])
    <3>1. CASE c = b
      BY <3>1, <1>8, <1>12, <1>13
    <3>2. CASE c # b
      <4>1. l[c] = levels[c] /\ given'[c] = given[c]
        BY <3>2, <1>8, <1>13 DEF Written, Kept, Unmoved
      <4>2. Len(given[c]) = Len(levels[c])
        BY GivenFacts
      <4> QED
        BY <4>1, <4>2
    <3> QED
      BY <3>1, <3>2
  <2> QED
    BY <2>1, <2>2 DEF GivenOK
<1>15. ASSUME b \notin strayed' PROVE BuiltAt(n, l[b], hb)
  <2>1. BuiltAt(mem, levels[b], given[b])
    BY <1>10, <1>15 DEF IInv, InvOf
  <2> SUFFICES ASSUME NEW j \in 1..(k + 1) PROVE BytesOf(n, l[b][j]) = Due(hb, j)
    BY <1>12 DEF BuiltAt
  <2>2. j \in 1..k => BytesOf(mem, levels[b][j]) = Due(given[b], j)
    BY <1>9, <2>1 DEF BuiltAt
  <2>3. CASE j < k
    <3>1. BytesOf(n, l[b][j]) = BytesOf(mem, levels[b][j])
      BY <1>8, <1>9, <2>3 DEF Written
    <3>2. hb[j] = given[b][j] /\ hb[j + 1] = given[b][j + 1] /\ j # Len(hb) /\ j # Len(given[b])
      BY <1>9, <1>12, <2>3, SMTT(30)
    <3>3. Due(hb, j) = Due(given[b], j)
      BY <3>2 DEF Due
    <3> QED
      BY <1>9, <2>2, <2>3, <3>1, <3>3
  <2>4. CASE j = k
    <3>1. PICK u \in Seq(Byte) : u = given[b][k].bytes
      BY <1>9, <2>4, GivenFacts
    <3>2. Due(given[b], k) = u \o <<>>
      BY <1>9, <3>1 DEF Due
    <3>3. Due(hb, k) = u \o bytes
      <4>1. k \in 1..k /\ k # Len(hb)
        BY <1>9, <1>12
      <4>2. hb[k].bytes = u /\ hb[k + 1].lit = lit /\ hb[k + 1].id = id
        BY <1>11, <1>12, <3>1, <4>1
      <4> QED
        BY <1>1, <4>1, <4>2 DEF Due
    <3>4. u \o <<>> = u
      BY ConcatEmptySeq
    <3>5. BytesOf(n, l[b][k]) = BytesOf(mem, levels[b][k]) \o bytes
      BY <1>8 DEF Written
    <3>6. BytesOf(mem, levels[b][k]) = u
      BY <1>9, <2>2, <2>4, <3>2, <3>4
    <3> QED
      BY <2>4, <3>3, <3>5, <3>6
  <2>5. CASE j = k + 1
    <3>1. ~(j <= k) /\ j # k /\ j \in 1..Len(l[b])
      BY <1>8, <1>9, <2>5
    <3>2. BytesOf(n, l[b][j]) = <<>>
      BY <1>8, <3>1 DEF Written
    <3>3. Due(hb, j) = <<>> \o <<>>
      BY <1>11, <1>12, <2>5 DEF Due
    <3> QED
      BY <3>2, <3>3, ConcatEmptySeq, EmptySeq
  <2> QED
    BY <1>9, <2>3, <2>4, <2>5
<1>16. strayed' \subseteq Builders
  BY <1>10 DEF IInv, InvOf
<1>17. Kept(b, l, n) /\ SameHistory(b, given, strayed, given', strayed')
  BY <1>8, <1>10, <1>13 DEF Written, SameHistory
<1> QED
  BY <1>7, <1>13, <1>14, <1>15, <1>16, <1>17, Step

FourJoin(t, k, d, v) == ((t \o k) \o d) \o v = t \o ((k \o d) \o v)
LEMMA JoinedFour ==
  ASSUME NEW t \in Seq(Byte), NEW k \in Seq(Byte), NEW d \in Seq(Byte), NEW v \in Seq(Byte)
  PROVE  FourJoin(t, k, d, v)
<1>1. PICK kd : kd = k \o d
  OBVIOUS
<1>2. kd \in Seq(Byte)
  BY <1>1, Joined
<1>3. (t \o k) \o d = t \o kd
  BY <1>1, JoinedThree
<1>4. (t \o kd) \o v = t \o (kd \o v)
  BY <1>2, JoinedThree, SMTT(30)
<1> QED
  BY <1>1, <1>3, <1>4, Zenon DEF FourJoin

\* the header of a container is split between the mark and the append
Reorder(u, a, t, x) == (u \o a) \o (t \o x) = u \o ((a \o t) \o x)
LEMMA Reordered ==
  ASSUME NEW u \in Seq(Byte), NEW a \in Seq(Byte), NEW t \in Seq(Byte), NEW x \in Seq(Byte)
  PROVE  Reorder(u, a, t, x)
<1>1. PICK r : r = t \o x
  OBVIOUS
<1>2. r \in Seq(Byte)
  BY <1>1, Joined
<1>3. (a \o t) \o x = a \o r
  BY <1>1, JoinedThree
<1>4. (u \o a) \o r = u \o (a \o r)
  BY <1>2, JoinedThree, SMTT(30)
<1> QED
  BY <1>1, <1>3, <1>4, Zenon DEF Reorder

\* What Outo reads back from the slice under the last one.
Marked(A, c, u, lit, id) ==
  /\ Len(u) \in Nat /\ Len(id) \in Nat /\ Len(c) = Len(u) + Len(id) + 2
  /\ A[Len(c)] = Num(Len(id))
  /\ SubSeq(A, Len(c) - Len(id), Len(c) - 1) = id
  /\ A[Len(u) + 1] = Lit(lit, FALSE)
  /\ \A i \in 1..Len(u) : A[i] = u[i]

LEMMA MarkRead ==
  ASSUME NEW u \in Seq(Byte), NEW lit \in Letters \cup {"none"}, NEW id \in Stamps,
         NEW A \in Seq(Byte), NEW c \in Seq(Byte), c = u \o Mark(lit, id),
         Len(c) <= Len(A), \A i \in 1..Len(c) : A[i] = c[i]
  PROVE  Marked(A, c, u, lit, id)
<1>1. PICK z : z = Mark(lit, id)
  OBVIOUS
<1>2. z \in Seq(Byte) /\ Len(id) \in Nat /\ Len(z) = Len(id) + 2
  BY <1>1, MarkFacts
<1>3. z[1] = Lit(lit, FALSE) /\ z[Len(id) + 2] = Num(Len(id))
  BY <1>1, MarkFacts, Zenon
<1>4. \A i \in 1..Len(id) : z[i + 1] = id[i]
  BY <1>1, MarkFacts
<1>5. PICK y \in Seq(Byte) : y = z
  BY <1>2
<1>6. c = u \o y
  BY <1>1, <1>5
<1>7. Len(u) \in Nat /\ Len(c) = Len(u) + Len(y)
  BY <1>6, Joined
<1>8. \A i \in 1..Len(u) : c[i] = u[i]
  BY <1>6, JoinedAt
<1>9. \A i \in 1..Len(y) : c[i + Len(u)] = y[i]
  BY <1>6, JoinedAt
<1>10. Len(c) = Len(u) + Len(id) + 2
  BY <1>2, <1>5, <1>7
<1>11. ASSUME NEW i \in 1..(Len(id) + 2) PROVE A[i + Len(u)] = z[i]
  <2>1. i \in 1..Len(y) /\ i + Len(u) \in 1..Len(c)
    BY <1>2, <1>5, <1>7, <1>10
  <2> QED
    BY <1>5, <1>9, <2>1
<1>12. A[Len(c)] = Num(Len(id))
  <2>1. Len(id) + 2 \in 1..(Len(id) + 2) /\ (Len(id) + 2) + Len(u) = Len(c)
    BY <1>2, <1>7, <1>10
  <2>2. A[(Len(id) + 2) + Len(u)] = z[Len(id) + 2]
    BY <1>11, <2>1
  <2> QED
    BY <1>3, <2>1, <2>2
<1>13. A[Len(u) + 1] = Lit(lit, FALSE)
  <2>1. 1 \in 1..(Len(id) + 2) /\ 1 + Len(u) = Len(u) + 1
    BY <1>2, <1>7
  <2>2. A[1 + Len(u)] = z[1]
    BY <1>11, <2>1
  <2> QED
    BY <1>3, <2>1, <2>2
<1>16. \A i \in 1..Len(u) : A[i] = u[i]
  <2> TAKE i \in 1..Len(u)
  <2>1. i \in 1..Len(c)
    BY <1>2, <1>7, <1>10
  <2> QED
    BY <1>8, <2>1
<1>17. SubSeq(A, Len(c) - Len(id), Len(c) - 1) = id
  <2>1. PICK d \in Seq(Byte) : d = id
    BY ByteFacts
  <2>0. Len(c) - Len(id) \in Int /\ Len(c) - 1 \in Int
    BY <1>2, <1>7, <1>10
  <2>2. PICK p \in Int, q \in Int : p = Len(c) - Len(id) /\ q = Len(c) - 1
    BY <2>0
  <2>3. q - p + 1 = Len(d) /\ (p <= q \/ Len(d) = 0) /\ p = Len(u) + 2 /\ q <= Len(A) /\ p >= 1
    BY <1>2, <1>7, <1>10, <2>1, <2>2
  <2>4. \A i \in p..q : A[i] \in Byte
    BY <2>2, <2>3
  <2>5. PICK e : e = SubSeq(A, p, q)
    OBVIOUS
  <2>6. /\ e \in Seq(Byte) /\ Len(e) = IF p <= q THEN q - p + 1 ELSE 0
        /\ \A i \in 1..(q - p + 1) : e[i] = A[p + i - 1]
    BY <2>2, <2>4, <2>5, SubSeqProperties
  <2>7. Len(e) = Len(d)
    BY <2>2, <2>3, <2>6
  <2>8. ASSUME NEW i \in 1..Len(e) PROVE e[i] = d[i]
    <3>0. i \in 1..Len(id) /\ q - p + 1 = Len(id)
      BY <2>1, <2>3, <2>7
    <3>1. /\ i \in 1..(q - p + 1) /\ i \in 1..Len(id)
          /\ i + 1 \in 1..(Len(id) + 2) /\ p + i - 1 = (i + 1) + Len(u)
      BY <1>2, <1>7, <2>3, <3>0
    <3>2. e[i] = A[(i + 1) + Len(u)]
      BY <2>6, <3>1
    <3>3. A[(i + 1) + Len(u)] = z[i + 1]
      BY <1>11, <3>1
    <3> QED
      BY <1>4, <2>1, <3>1, <3>2, <3>3
  <2>9. e = d
    BY <2>6, <2>7, <2>8, SeqEqual
  <2> QED
    BY <2>1, <2>2, <2>5, <2>9
<1> QED
  BY <1>2, <1>7, <1>10, <1>12, <1>13, <1>16, <1>17, Zenon DEF Marked

\* The mark is cut off and its letter written over.
CutMem(m, s, u, y) == [m EXCEPT ![s.arr][Len(u) + 1] = y]
CutSlice(s, u) == [s EXCEPT !.len = Len(u) + 1]
Cut(m, s, u, y, n, r) ==
  /\ MemOK(n) /\ r \in Slice /\ r.arr = s.arr /\ SliceOK(n, r)
  /\ \A a \in Arrays : a # s.arr => n[a] = m[a]
  /\ BytesOf(n, r) = u \o <<y>>

LEMMA CutFacts ==
  ASSUME NEW m, MemOK(m), NEW s \in Slice, SliceOK(m, s), s.arr # 0,
         NEW u \in Seq(Byte), s.len > Len(u), \A i \in 1..Len(u) : m[s.arr][i] = u[i],
         NEW y \in Byte, NEW n, n = CutMem(m, s, u, y),
         NEW r, r = CutSlice(s, u)
  PROVE  Cut(m, s, u, y, n, r)
<1>1. /\ s.arr \in Arrays /\ s.len \in Nat /\ s.cap \in Nat /\ s.len <= s.cap
      /\ s.cap <= Len(m[s.arr]) /\ m[s.arr] \in Seq(Byte) /\ m \in [Arrays -> Seq(Byte)]
      /\ Len(m[s.arr]) \in Nat
  BY DEF Slice, SliceOK, MemOK
<1>2. PICK at \in Nat : at = Len(u) + 1
  OBVIOUS
<1>3. at \in 1..Len(m[s.arr]) /\ at <= s.len
  BY <1>1, <1>2
<1>4. PICK z : z = [m[s.arr] EXCEPT ![at] = y]
  OBVIOUS
<1>5. /\ z \in Seq(Byte) /\ Len(z) = Len(m[s.arr])
      /\ \A i \in 1..Len(m[s.arr]) : z[i] = IF i = at THEN y ELSE m[s.arr][i]
  BY <1>1, <1>3, <1>4, ExceptSeq
<1>6. n = [m EXCEPT ![s.arr] = z]
  BY <1>1, <1>2, <1>4 DEF CutMem
<1>7. n \in [Arrays -> Seq(Byte)] /\ n[s.arr] = z /\ \A a \in Arrays : a # s.arr => n[a] = m[a]
  BY <1>1, <1>5, <1>6
<1>8. r \in Slice /\ r.arr = s.arr /\ r.len = at /\ r.cap = s.cap
  BY <1>1, <1>2 DEF Slice, CutSlice
<1>9. MemOK(n) /\ SliceOK(n, r)
  BY <1>1, <1>3, <1>5, <1>7, <1>8 DEF MemOK, SliceOK
<1>10. /\ BytesOf(n, r) \in Seq(Byte) /\ Len(BytesOf(n, r)) = at
       /\ \A i \in 1..at : BytesOf(n, r)[i] = z[i]
  <2>1. /\ BytesOf(n, r) \in Seq(Byte) /\ Len(BytesOf(n, r)) = r.len
        /\ \A i \in 1..r.len : BytesOf(n, r)[i] = n[r.arr][i]
    BY <1>8, <1>9, BytesTyped
  <2> QED
    BY <1>7, <1>8, <2>1
<1>11. PICK w : w = u \o <<y>>
  OBVIOUS
<1>12. w \in Seq(Byte) /\ Len(w) = at /\ (\A i \in 1..Len(u) : w[i] = u[i]) /\ w[at] = y
  <2>1. <<y>> \in Seq(Byte) /\ Len(<<y>>) = 1
    OBVIOUS
  <2>2. PICK o \in Seq(Byte) : o = <<y>>
    BY <2>1
  <2>3. w = u \o o /\ Len(o) = 1 /\ o[1] = y
    BY <1>11, <2>2
  <2>4. w \in Seq(Byte) /\ Len(u) \in Nat /\ Len(w) = Len(u) + Len(o)
    BY <2>3, Joined
  <2>5. \A i \in 1..Len(u) : w[i] = u[i]
    BY <2>3, JoinedAt
  <2>6. w[1 + Len(u)] = o[1]
    <3>1. 1 \in 1..Len(o)
      BY <2>3
    <3>2. \A i \in 1..Len(o) : w[i + Len(u)] = o[i]
      BY <2>3, JoinedAt, ZenonT(60)
    <3> QED
      BY <3>1, <3>2
  <2>7. 1 + Len(u) = at
    BY <1>2, <2>4
  <2> QED
    BY <1>2, <2>3, <2>4, <2>5, <2>6, <2>7
<1>13. ASSUME NEW i \in 1..at PROVE BytesOf(n, r)[i] = w[i]
  <2>1. i \in 1..Len(m[s.arr]) /\ (i # at => i \in 1..Len(u))
    BY <1>1, <1>2, <1>3
  <2> QED
    BY <2>1, <1>5, <1>10, <1>12
<1>14. BytesOf(n, r) = w
  BY <1>10, <1>12, <1>13, SeqEqual
<1> QED
  BY <1>7, <1>8, <1>9, <1>11, <1>14 DEF Cut

\* The header, split between the cut and the append, with what follows it.
SplitRecord(lit, id, u, v, h, rest) ==
  /\ h[1] \in Byte /\ rest \in Seq(Byte)
  /\ (u \o <<h[1]>>) \o rest = u \o WriteTLKV(lit, id, v)

LEMMA RecordSplit ==
  ASSUME NEW lit \in Letters \cup {"none"}, NEW id \in Stamps, NEW u \in Seq(Byte), NEW v \in Seq(Byte),
         NEW h, h = HeadOf(lit, Len(v) + 1 + Len(id)),
         NEW rest, rest = Tail(h) \o <<Num(Len(id))>> \o id \o v
  PROVE  SplitRecord(lit, id, u, v, h, rest)
<1>1. Len(id) \in Nat /\ id \in Seq(Byte) /\ Len(v) \in Nat
  BY ByteFacts
<1>2. PICK n : n = Len(v) + Len(id) + 1
  OBVIOUS
<1>3. n \in Nat /\ h = HeadOf(lit, n)
  BY <1>1, <1>2
<1>4. h \in Seq(Byte) /\ h[1] \in Byte /\ Tail(h) \in Seq(Byte) /\ h = <<h[1]>> \o Tail(h)
  BY <1>3, HeadFacts
<1>5. PICK t, a, k : t = Tail(h) /\ a = <<h[1]>> /\ k = <<Num(Len(id))>>
  OBVIOUS
<1>6. t \in Seq(Byte) /\ a \in Seq(Byte) /\ k \in Seq(Byte)
  BY <1>1, <1>4, <1>5, ByteFacts
<1>7. rest = ((t \o k) \o id) \o v
  BY <1>5, Zenon
<1>8. PICK x : x = (k \o id) \o v
  OBVIOUS
<1>9. x \in Seq(Byte)
  <2>1. PICK kd : kd = k \o id
    OBVIOUS
  <2>2. kd \in Seq(Byte)
    BY <1>1, <1>6, <2>1, Joined
  <2> QED
    BY <1>8, <2>1, <2>2, Joined
<1>10. rest = t \o x
  <2>1. FourJoin(t, k, id, v)
    BY <1>1, <1>6, JoinedFour
  <2> QED
    BY <1>7, <1>8, <2>1, Zenon DEF FourJoin
<1>11. rest \in Seq(Byte)
  BY <1>6, <1>9, <1>10, Joined
<1>12. (u \o a) \o (t \o x) = u \o ((a \o t) \o x)
  <2>1. Reorder(u, a, t, x)
    BY <1>6, <1>9, Reordered
  <2> QED
    BY <2>1, Zenon DEF Reorder
<1>13. WriteTLKV(lit, id, v) = h \o x
  <2>1. WriteTLKV(lit, id, v) = HeadOf(lit, Len(v) + Len(id) + 1) \o ((<<Num(Len(id))>> \o id) \o v)
    BY RecordFacts
  <2> QED
    BY <1>2, <1>3, <1>5, <1>8, <2>1, Zenon
<1>14. h = a \o t
  BY <1>4, <1>5, Zenon
<1> QED
  BY <1>4, <1>5, <1>10, <1>11, <1>12, <1>13, <1>14, Zenon DEF SplitRecord

\* The clone that is cut, of whatever bytes, its last one in lower case or not.
CutOff(m, s, at, n, r) ==
  /\ at <= s.len /\ r = [s EXCEPT !.len = at]
  /\ n = m \/ (at > 0 /\ n = [m EXCEPT ![s.arr][at] = Lower(@)])

LEMMA CutSafe ==
  ASSUME NEW m, MemOK(m), NEW s \in Slice, SliceOK(m, s), s.arr # 0,
         NEW at \in Nat, NEW n, NEW r, CutOff(m, s, at, n, r)
  PROVE  /\ MemOK(n) /\ r \in Slice /\ r.arr = s.arr /\ SliceOK(n, r)
         /\ \A a \in Arrays : a # s.arr => n[a] = m[a]
<1>1. /\ s.arr \in Arrays /\ s.len \in Nat /\ s.cap \in Nat /\ s.len <= s.cap
      /\ s.cap <= Len(m[s.arr]) /\ m[s.arr] \in Seq(Byte) /\ m \in [Arrays -> Seq(Byte)]
      /\ Len(m[s.arr]) \in Nat
  BY DEF Slice, SliceOK, MemOK
<1>2. r \in Slice /\ r.arr = s.arr /\ r.len = at /\ r.cap = s.cap /\ at <= s.len
  BY <1>1 DEF Slice, CutOff
<1>3. CASE n = m
  BY <1>1, <1>2, <1>3 DEF MemOK, SliceOK
<1>4. CASE at > 0 /\ n = [m EXCEPT ![s.arr][at] = Lower(@)]
  <2>1. at \in 1..Len(m[s.arr])
    BY <1>1, <1>2, <1>4
  <2>2. PICK y : y = Lower(m[s.arr][at])
    OBVIOUS
  <2>3. y \in Byte
    <3>1. m[s.arr][at] \in Byte
      BY <1>1, <2>1
    <3> QED
      BY <2>2, <3>1, LowerFacts
  <2>4. PICK z : z = [m[s.arr] EXCEPT ![at] = y]
    OBVIOUS
  <2>5. z \in Seq(Byte) /\ Len(z) = Len(m[s.arr])
    BY <1>1, <2>1, <2>3, <2>4, ExceptSeq
  <2>6. n = [m EXCEPT ![s.arr] = z]
    BY <1>4, <2>2, <2>4
  <2>7. n \in [Arrays -> Seq(Byte)] /\ n[s.arr] = z /\ \A a \in Arrays : a # s.arr => n[a] = m[a]
    BY <1>1, <2>5, <2>6
  <2> QED
    BY <1>1, <1>2, <2>5, <2>7 DEF MemOK, SliceOK
<1> QED
  BY <1>3, <1>4 DEF CutOff

\* What Outo looks at.
LEMMA UnderFacts ==
  ASSUME IInv, NEW b \in Builders, Len(levels[b]) > 1
  PROVE  /\ Under(b) \in Slice /\ SliceOK(mem, Under(b))
         /\ BytesOf(mem, Under(b)) \in Seq(Byte) /\ Len(BytesOf(mem, Under(b))) = Under(b).len
         /\ Inner(b) \in Seq(Byte) /\ Len(Inner(b)) \in Nat /\ MemOK(mem)
<1>1. PICK k : k = Len(levels[b])
  OBVIOUS
<1>2. k \in 1..Len(levels[b]) /\ k - 1 \in 1..Len(levels[b]) /\ MemOK(mem)
  BY <1>1, GivenFacts DEF IInv, InvOf
<1>3. /\ levels[b][k] \in Slice /\ SliceOK(mem, levels[b][k])
      /\ levels[b][k - 1] \in Slice /\ SliceOK(mem, levels[b][k - 1])
  BY <1>2, GivenFacts
<1>4. Under(b) = levels[b][k - 1] /\ Inner(b) = BytesOf(mem, levels[b][k])
  BY <1>1 DEF Under, Inner, Last
<1>5. BytesOf(mem, levels[b][k]) \in Seq(Byte)
  BY <1>2, <1>3, BytesTyped
<1> QED
  BY <1>2, <1>3, <1>4, <1>5, BytesTyped, LenProperties

\* The level that is wrapped up: c and v are what the two levels hold, y is the
\* clone, cut to r in the memory m, and rest is appended to it.
Wrapping(b, slack, c, a, v, y, h, at, m, r, rest) ==
  /\ c = BytesOf(mem, Under(b)) /\ a = IDLen(b) /\ v = Inner(b)
  /\ y = NewArray(mem, c, slack) /\ h = WrappedHead(b) /\ at = Len(c) - a - 1
  /\ m = IF h[1][3] THEN [y.mem EXCEPT ![y.s.arr][at] = Lower(@)] ELSE y.mem
  /\ r = [y.s EXCEPT !.len = at]
  /\ rest = Tail(h) \o <<Num(a)>> \o SubSeq(y.mem[y.s.arr], Len(c) - a, Len(c) - 1) \o v

\* y is a clone of the bytes c
IsClone(c, y) ==
  /\ MemOK(y.mem) /\ y.s \in Slice /\ SliceOK(y.mem, y.s) /\ y.s.arr = Unused
  /\ Unused \in Arrays \ Referenced(levels) /\ Unused # 0
  /\ \A a \in Arrays : a # Unused => y.mem[a] = mem[a]
  /\ y.s.len = Len(c) /\ y.mem[Unused] \in Seq(Byte) /\ Len(c) <= Len(y.mem[Unused])
  /\ \A i \in 1..Len(c) : y.mem[Unused][i] = c[i]

LEMMA CloneMade ==
  ASSUME IInv, NEW c \in Seq(Byte), NEW slack \in Nat, NEW y, y = NewArray(mem, c, slack)
  PROVE  IsClone(c, y)
<1>1. LevelsOK(levels) /\ MemOK(mem)
  BY DEF IInv, InvOf
<1>2. /\ WroteNew(levels, mem, y.mem, y.s) /\ BytesOf(y.mem, y.s) = c
      /\ y.s.arr = Unused /\ y.s.len = Len(c)
  <2>1. PICK m : m = mem
    OBVIOUS
  <2>2. WroteNew(levels, m, y.mem, y.s) /\ BytesOf(y.mem, y.s) = c
    BY <1>1, <2>1, NewArrayFacts
  <2>3. y.s.arr = Unused /\ y.s.len = Len(c)
    BY NewArrayShape
  <2> QED
    BY <2>1, <2>2, <2>3
<1>3. Unused \in Arrays /\ Unused \notin Referenced(levels) /\ Unused # 0
  <2>1. Unused \in Arrays /\ Unused \notin Referenced(levels)
    BY <1>1, SpareArray
  <2> QED
    BY <2>1, BuilderAssumption, FS_CardinalityType DEF Arrays
<1>4. PICK q, s : q = y.mem /\ s = y.s
  OBVIOUS
<1>5. /\ MemOK(q) /\ s \in Slice /\ SliceOK(q, s) /\ s.arr = Unused
      /\ \A a \in Arrays : a # Unused => q[a] = mem[a]
  BY <1>2, <1>4 DEF WroteNew
<1>6. PICK A : A = q[Unused]
  OBVIOUS
<1>7. A \in Seq(Byte) /\ Len(c) <= Len(A) /\ \A i \in 1..Len(c) : A[i] = c[i]
  <2>1. A \in Seq(Byte) /\ Len(A) \in Nat
    BY <1>3, <1>5, <1>6 DEF MemOK
  <2>2. s.len \in Nat /\ s.cap \in Nat /\ s.len <= s.cap /\ s.cap <= Len(A)
    BY <1>3, <1>5, <1>6 DEF Slice, SliceOK
  <2>3. \A i \in 1..s.len : BytesOf(q, s)[i] = q[s.arr][i]
    BY <1>5, BytesTyped
  <2>4. s.len = Len(c) /\ BytesOf(q, s) = c
    BY <1>2, <1>4
  <2> QED
    BY <1>5, <1>6, <2>1, <2>2, <2>3, <2>4
<1> QED
  BY <1>2, <1>3, <1>4, <1>5, <1>6, <1>7 DEF IsClone

\* Of any builder that Outo does not panic on: the level goes to an array of
\* its own.
LEMMA WrappedNew ==
  ASSUME IInv, NEW b \in Builders, HasMark(b), NEW slack \in Nat,
         NEW x, x = Wrapped(b, slack),
         NEW c, NEW a, NEW v, NEW y, NEW h, NEW at, NEW m, NEW r, NEW rest,
         Wrapping(b, slack, c, a, v, y, h, at, m, r, rest)
  PROVE  WroteNew(levels, mem, x.mem, x.s) /\ BytesOf(x.mem, x.s) = BytesOf(m, r) \o rest
<1>0. LevelsOK(levels) /\ MemOK(mem)
  BY DEF IInv, InvOf
<1>1. PICK u : u = Under(b)
  OBVIOUS
<1>2. /\ Len(levels[b]) > 1 /\ u.len > 0 /\ Last(c)[1] # "lit" /\ a <= MaxID /\ u.len > a
      /\ h[1][3] => u.len > a + 1
  BY <1>1 DEF HasMark, Wrapping
<1>3. /\ u \in Slice /\ SliceOK(mem, u) /\ c \in Seq(Byte) /\ Len(c) = u.len /\ v \in Seq(Byte)
      /\ Len(v) \in Nat
  BY <1>1, <1>2, UnderFacts DEF Wrapping
<1>4. u.arr # 0
  BY <1>2, <1>3 DEF SliceOK, Slice
<1>5. a \in Nat /\ Len(c) \in Nat /\ Len(c) > 0
  <2>1. Len(c) \in Nat /\ Len(c) > 0
    BY <1>2, <1>3, LenProperties
  <2>2. Last(c) \in Byte
    BY <1>3, <2>1 DEF Last
  <2>3. a = Last(c)[2]
    BY DEF Wrapping, IDLen
  <2> QED
    BY <1>2, <2>1, <2>2, <2>3, LowerFacts
<1>6. at \in Nat /\ at <= Len(c) /\ (h[1][3] => at > 0)
  <2>1. at = Len(c) - a - 1
    BY DEF Wrapping
  <2>2. at \in Nat /\ at <= Len(c)
    BY <1>2, <1>3, <1>5, <2>1
  <2>3. ASSUME h[1][3] PROVE at > 0
    <3>1. u.len > a + 1
      BY <1>2, <2>3, Zenon
    <3> QED
      BY <1>3, <1>5, <2>1, <3>1
  <2> QED
    BY <2>2, <2>3, Zenon
<1>7. IsClone(c, y)
  BY <1>3, CloneMade DEF Wrapping
<1>8. PICK q, s, A : q = y.mem /\ s = y.s /\ A = y.mem[y.s.arr]
  OBVIOUS
<1>9. /\ MemOK(q) /\ s \in Slice /\ SliceOK(q, s) /\ s.arr = Unused /\ s.arr # 0 /\ s.len = Len(c)
      /\ Unused \in Arrays /\ Unused \notin Referenced(levels)
      /\ A \in Seq(Byte) /\ Len(c) <= Len(A) /\ Len(A) \in Nat
      /\ \A e \in Arrays : e # Unused => q[e] = mem[e]
  BY <1>7, <1>8, LenProperties DEF IsClone
<1>10. PICK id : id = SubSeq(A, Len(c) - a, Len(c) - 1)
  OBVIOUS
<1>11. id \in Seq(Byte)
  <2>1. PICK i \in Int, j \in Int : i = Len(c) - a /\ j = Len(c) - 1
    BY <1>5
  <2>2. i >= 1 /\ j <= Len(A)
    BY <1>2, <1>3, <1>5, <1>9, <2>1
  <2>3. \A e \in i..j : A[e] \in Byte
    BY <1>9, <2>1, <2>2
  <2>4. SubSeq(A, i, j) \in Seq(Byte)
    BY <2>1, <2>3, SubSeqProperties
  <2> QED
    BY <1>10, <2>1, <2>4
<1>12. Tail(h) \in Seq(Byte)
  <2>1. PICK n : n = Len(v) + 1 + a
    OBVIOUS
  <2>2. n \in Nat
    BY <1>3, <1>5, <2>1
  <2>3. h = HeadOf("none", n)
    BY <2>1 DEF Wrapping, WrappedHead
  <2> QED
    BY <2>2, <2>3, HeadFacts
<1>13. rest \in Seq(Byte)
  <2>1. PICK t, k : t = Tail(h) /\ k = <<Num(a)>>
    OBVIOUS
  <2>2. t \in Seq(Byte) /\ k \in Seq(Byte)
    BY <1>5, <1>12, <2>1, ByteFacts
  <2>3. rest = ((t \o k) \o id) \o v
    BY <1>8, <1>10, <2>1 DEF Wrapping
  <2>4. PICK tk : tk = t \o k
    OBVIOUS
  <2>5. tk \in Seq(Byte)
    BY <2>2, <2>4, Joined
  <2>6. PICK e : e = tk \o id
    OBVIOUS
  <2>7. e \in Seq(Byte)
    BY <1>11, <2>5, <2>6, Joined
  <2> QED
    BY <1>3, <2>3, <2>4, <2>6, <2>7, Joined
<1>14. /\ MemOK(m) /\ r \in Slice /\ r.arr = s.arr /\ SliceOK(m, r)
       /\ \A e \in Arrays : e # s.arr => m[e] = q[e]
  <2>1. m = q \/ (at > 0 /\ m = [q EXCEPT ![s.arr][at] = Lower(@)])
    <3>1. m = IF h[1][3] THEN [q EXCEPT ![s.arr][at] = Lower(@)] ELSE q
      BY <1>8 DEF Wrapping
    <3> QED
      BY <1>6, <3>1, Zenon
  <2>2. r = [s EXCEPT !.len = at] /\ at <= s.len
    BY <1>6, <1>8, <1>9 DEF Wrapping
  <2>3. MemOK(q) /\ s \in Slice /\ SliceOK(q, s) /\ s.arr # 0 /\ at \in Nat
    BY <1>6, <1>9
  <2> QED
    <3>1. CutOff(q, s, at, m, r)
      BY <2>1, <2>2 DEF CutOff
    <3> QED
      BY <2>3, <3>1, CutSafe
<1>15. x = AppendTo(Cell(m, r), rest, slack)
  <2> DEFINE w == SlicesClone(mem, Under(b), slack)
             di == SubSeq(w.mem[w.s.arr], w.s.len - IDLen(b), w.s.len - 1)
             ta == w.s.len - IDLen(b) - 1
             cut == Cell(IF WrappedHead(b)[1][3] THEN [w.mem EXCEPT ![w.s.arr][ta] = Lower(@)]
                         ELSE w.mem, [w.s EXCEPT !.len = ta])
             more == Tail(WrappedHead(b)) \o <<Num(IDLen(b))>> \o di \o Inner(b)
  <2>1. x = AppendTo(cut, more, slack)
    BY DEF Wrapped
  <2>2. w = y
    BY <1>1, <1>4 DEF SlicesClone, Wrapping
  <2> HIDE DEF w
  <2>3. w.mem[w.s.arr] = A /\ w.s.len = Len(c) /\ w.mem = q /\ w.s = s /\ IDLen(b) = a
        /\ WrappedHead(b) = h /\ Inner(b) = v
    BY <1>8, <1>9, <2>2 DEF Wrapping
  <2>4. di = id /\ ta = at
    BY <1>10, <2>3 DEF Wrapping
  <2> HIDE DEF di, ta
  <2>5. cut = Cell(m, r)
    BY <1>8, <2>3, <2>4 DEF Wrapping
  <2>6. more = rest
    BY <1>8, <1>10, <2>3, <2>4 DEF Wrapping
  <2> HIDE DEF cut, more
  <2> QED
    BY <2>1, <2>5, <2>6
<1>16. /\ WroteNew(levels, m, x.mem, x.s) \/ WroteOn(m, r, x.mem, x.s)
       /\ BytesOf(x.mem, x.s) = BytesOf(m, r) \o rest
       /\ x.s.arr \in {r.arr, Unused}
  <2>1. /\ WroteNew(levels, m, x.mem, x.s) \/ WroteOn(m, r, x.mem, x.s)
        /\ BytesOf(x.mem, x.s) = BytesOf(m, r) \o rest
    BY <1>0, <1>13, <1>14, <1>15, AppendFacts
  <2>2. x.s.arr \in {r.arr, Unused}
    BY <1>14, <1>15, AppendWhere
  <2> QED
    BY <2>1, <2>2
<1>17. WroteNew(levels, mem, x.mem, x.s)
  <2>1. x.s.arr = Unused
    BY <1>9, <1>14, <1>16
  <2>2. x.s \in Slice /\ MemOK(x.mem) /\ SliceOK(x.mem, x.s)
    BY <1>16 DEF WroteNew, WroteOn
  <2>3. \A e \in Arrays : e # x.s.arr => x.mem[e] = m[e]
    BY <1>16 DEF WroteNew, WroteOn
  <2>4. \A e \in Arrays : e # Unused => m[e] = mem[e]
    BY <1>9, <1>14
  <2> QED
    BY <1>9, <2>1, <2>2, <2>3, <2>4 DEF WroteNew
<1> QED
  BY <1>16, <1>17

\* The mark of a builder that no call strayed from stands.
Standing(b, k, lit, id, u, v, c) ==
  /\ k \in Nat /\ Len(levels[b]) = k + 1 /\ Len(given[b]) = k + 1
  /\ lit = given[b][k + 1].lit /\ id = given[b][k + 1].id
  /\ v = given[b][k + 1].bytes /\ u = given[b][k].bytes
  /\ lit \in Letters \cup {"none"} /\ id \in Stamps /\ v \in Seq(Byte) /\ u \in Seq(Byte)
  /\ c = BytesOf(mem, Under(b)) /\ c \in Seq(Byte) /\ Len(c) = Under(b).len
  /\ c = u \o Mark(lit, id) /\ Inner(b) = v

LEMMA MarkStands ==
  ASSUME IInv, NEW b \in Builders \ strayed, NEW k, k = Len(levels[b]) - 1, k > 0
  PROVE  /\ \E lit, id, u, v, c : Standing(b, k, lit, id, u, v, c)
         /\ HasMark(b)
<1>1. LevelsOK(levels) /\ MemOK(mem) /\ BuiltAt(mem, levels[b], given[b])
  BY DEF IInv, InvOf
<1>2. /\ Len(given[b]) = k + 1 /\ Len(levels[b]) = k + 1 /\ k \in Nat
      /\ k \in 1..Len(levels[b]) /\ k + 1 \in 1..Len(levels[b]) /\ levels[b] \in Seq(Slice)
  BY GivenFacts
<1>3. PICK lit, id, u, v :
        /\ lit = given[b][k + 1].lit /\ id = given[b][k + 1].id
        /\ v = given[b][k + 1].bytes /\ u = given[b][k].bytes
  OBVIOUS
<1>4. lit \in Letters \cup {"none"} /\ id \in Stamps /\ v \in Seq(Byte) /\ u \in Seq(Byte)
  BY <1>2, <1>3, GivenFacts
<1>5. PICK c : c = BytesOf(mem, Under(b))
  OBVIOUS
<1>6. Under(b) = levels[b][k]
  BY <1>2 DEF Under
<1>7. c \in Seq(Byte) /\ Len(c) = Under(b).len
  BY <1>2, <1>5, UnderFacts
<1>8. c = u \o Mark(lit, id)
  <2>1. k # k + 1 /\ k \in 1..Len(given[b])
    BY <1>2
  <2>2. BytesOf(mem, levels[b][k]) = Due(given[b], k)
    BY <1>1, <2>1 DEF BuiltAt
  <2> QED
    BY <1>2, <1>3, <1>5, <1>6, <2>1, <2>2 DEF Due
<1>9. Inner(b) = v
  <2>1. k + 1 \in 1..Len(given[b])
    BY <1>2
  <2>2. BytesOf(mem, levels[b][k + 1]) = Due(given[b], k + 1)
    BY <1>1, <2>1 DEF BuiltAt
  <2>3. Due(given[b], k + 1) = v \o <<>>
    BY <1>2, <1>3 DEF Due
  <2>4. v \o <<>> = v
    BY <1>4, ConcatEmptySeq
  <2> QED
    BY <1>2, <2>2, <2>3, <2>4 DEF Last, Inner
<1>10. Standing(b, k, lit, id, u, v, c)
  BY <1>2, <1>3, <1>4, <1>5, <1>7, <1>8, <1>9 DEF Standing
<1>11. Marked(c, c, u, lit, id)
  <2>1. Len(c) <= Len(c)
    BY <1>7, LenProperties
  <2> QED
    BY <1>4, <1>7, <1>8, <2>1, MarkRead
<1>12. HasMark(b)
  <2>1. Len(u) \in Nat /\ Len(id) \in Nat /\ Len(c) = Len(u) + Len(id) + 2 /\ c[Len(c)] = Num(Len(id))
    BY <1>11 DEF Marked
  <2>2. Last(c) = <<"num", Len(id)>>
    BY <2>1 DEF Last, Num
  <2>3. IDLen(b) = Len(id)
    BY <1>5, <2>2 DEF IDLen
  <2>4. Len(id) <= MaxID
    BY <1>4, BuilderAssumption
  <2>5. Under(b).len > 0 /\ Under(b).len > Len(id) /\ Under(b).len > Len(id) + 1 /\ Len(levels[b]) > 1
    BY <1>2, <1>7, <2>1
  <2> QED
    BY <1>5, <2>2, <2>3, <2>4, <2>5 DEF HasMark
<1> QED
  BY <1>10, <1>12

\* memory that is written what it holds
LEMMA SameWritten ==
  ASSUME NEW m \in [Arrays -> Seq(Byte)], NEW a \in Arrays, NEW at \in 1..Len(m[a]),
         NEW y, y = m[a][at]
  PROVE  [m EXCEPT ![a][at] = y] = m
<1>1. [m[a] EXCEPT ![at] = y] = m[a]
  <2>1. m[a] \in [1..Len(m[a]) -> Byte]
    OBVIOUS
  <2> QED
    BY <2>1
<1>2. [m EXCEPT ![a] = m[a]] = m
  OBVIOUS
<1> QED
  BY <1>1, <1>2

\* The container that is closed, and what is under it.
LEMMA WrappedFacts ==
  ASSUME IInv, NEW b \in Builders \ strayed, NEW k, k = Len(levels[b]) - 1, k > 0,
         NEW slack \in Nat, NEW x, x = Wrapped(b, slack)
  PROVE  LET top == given[b][k + 1]
         IN  BytesOf(x.mem, x.s) = given[b][k].bytes \o WriteTLKV(top.lit, top.id, top.bytes)
<1>1. PICK lit, id, u, v, c : Standing(b, k, lit, id, u, v, c)
  BY MarkStands
<1>2. HasMark(b)
  BY MarkStands
<1>3. /\ lit \in Letters \cup {"none"} /\ id \in Stamps /\ v \in Seq(Byte) /\ u \in Seq(Byte)
      /\ c = BytesOf(mem, Under(b)) /\ c \in Seq(Byte) /\ c = u \o Mark(lit, id) /\ Inner(b) = v
      /\ Len(v) \in Nat /\ Len(id) \in Nat
  <2>1. id \in Stamps /\ v \in Seq(Byte)
    BY <1>1 DEF Standing
  <2> QED
    BY <1>1, <2>1, ByteFacts, LenProperties DEF Standing
<1>4. PICK y : y = NewArray(mem, c, slack)
  OBVIOUS
<1>5. PICK q, s, A : q = y.mem /\ s = y.s /\ A = y.mem[y.s.arr]
  OBVIOUS
<1>6. /\ MemOK(q) /\ s \in Slice /\ SliceOK(q, s) /\ s.arr # 0 /\ s.arr \in Arrays /\ s.len = Len(c)
      /\ A \in Seq(Byte) /\ Len(c) <= Len(A) /\ \A i \in 1..Len(c) : A[i] = c[i]
  <2>1. IsClone(c, y)
    BY <1>3, <1>4, CloneMade
  <2>2. PICK e : e = Unused
    OBVIOUS
  <2> QED
    BY <1>5, <2>1, <2>2 DEF IsClone
<1>7. Marked(A, c, u, lit, id)
  BY <1>3, <1>6, MarkRead
<1>8. /\ Len(u) \in Nat /\ Len(c) = Len(u) + Len(id) + 2 /\ A[Len(c)] = Num(Len(id))
      /\ SubSeq(A, Len(c) - Len(id), Len(c) - 1) = id
      /\ A[Len(u) + 1] = Lit(lit, FALSE) /\ \A i \in 1..Len(u) : A[i] = u[i]
  BY <1>7, Zenon DEF Marked
<1>9. IDLen(b) = Len(id)
  <2>1. Len(c) \in 1..Len(c)
    BY <1>3, <1>8
  <2>2. c[Len(c)] = <<"num", Len(id)>>
    BY <1>6, <1>8, <2>1 DEF Num
  <2> QED
    BY <1>3, <2>2 DEF IDLen, Last
<1>10. PICK n : n = Len(v) + 1 + Len(id)
  OBVIOUS
<1>11. n \in Nat
  BY <1>3, <1>10
<1>12. PICK g, h : g = WrappedHead(b) /\ h = HeadOf(lit, n)
  OBVIOUS
<1>13. /\ g[1] = Lit("none", n <= Base - 1) /\ h[1] = Lit(lit, n <= Base - 1) /\ Tail(g) = Tail(h)
  <2>1. g = HeadOf("none", n)
    BY <1>3, <1>9, <1>10, <1>12 DEF WrappedHead
  <2> QED
    BY <1>11, <1>12, <2>1, HeadShape, Zenon
<1>14. PICK at, rest : at = Len(u) + 1 /\ rest = Tail(h) \o <<Num(Len(id))>> \o id \o v
  OBVIOUS
<1>15. PICK h1, m, r : h1 = h[1] /\ m = CutMem(q, s, u, h1) /\ r = CutSlice(s, u)
  OBVIOUS
<1>16. m = IF g[1][3] THEN [y.mem EXCEPT ![y.s.arr][at] = Lower(@)] ELSE y.mem
  <2>1. CASE n <= Base - 1
    <3>0. (n <= Base - 1) = TRUE
      BY <2>1
    <3>1. g[1] = Lit("none", TRUE) /\ h1 = Lit(lit, TRUE)
      BY <1>13, <1>15, <3>0, Zenon
    <3>2. g[1][3] = TRUE
      BY <3>1 DEF Lit
    <3>3. Lower(A[at]) = h1
      BY <1>8, <1>14, <3>1, LowerFacts, Zenon
    <3>4. [y.mem EXCEPT ![y.s.arr][at] = Lower(@)] = [q EXCEPT ![s.arr][at] = h1]
      BY <1>5, <3>3
    <3> QED
      BY <1>14, <1>15, <3>2, <3>4 DEF CutMem
  <2>2. CASE ~(n <= Base - 1)
    <3>0. (n <= Base - 1) = FALSE
      BY <2>2
    <3>1. g[1] = Lit("none", FALSE) /\ h1 = Lit(lit, FALSE)
      BY <1>13, <1>15, <3>0, Zenon
    <3>2. g[1][3] = FALSE
      BY <3>1 DEF Lit
    <3>3. q[s.arr][at] = h1
      BY <1>5, <1>8, <1>14, <3>1, Zenon
    <3>4. q \in [Arrays -> Seq(Byte)] /\ s.arr \in Arrays /\ at \in 1..Len(q[s.arr])
      <4>1. Len(A) \in Nat /\ Len(c) \in Nat
        BY <1>3, <1>6, LenProperties
      <4>2. at \in 1..Len(A)
        BY <1>3, <1>6, <1>8, <1>14, <4>1
      <4> QED
        BY <1>5, <1>6, <4>2 DEF MemOK
    <3>5. [q EXCEPT ![s.arr][at] = h1] = q
      BY <3>3, <3>4, SameWritten
    <3> QED
      BY <1>5, <1>14, <1>15, <3>2, <3>5 DEF CutMem
  <2> QED
    BY <2>1, <2>2
<1>17. Wrapping(b, slack, c, Len(id), v, y, g, at, m, r, rest)
  <2>1. at = Len(c) - Len(id) - 1
    BY <1>3, <1>8, <1>14
  <2>2. r = [y.s EXCEPT !.len = at]
    BY <1>5, <1>14, <1>15 DEF CutSlice
  <2>3. rest = Tail(g) \o <<Num(Len(id))>> \o SubSeq(y.mem[y.s.arr], Len(c) - Len(id), Len(c) - 1) \o v
    BY <1>5, <1>8, <1>13, <1>14
  <2> QED
    BY <1>3, <1>4, <1>9, <1>12, <1>16, <2>1, <2>2, <2>3 DEF Wrapping
<1>18. BytesOf(x.mem, x.s) = BytesOf(m, r) \o rest
  BY <1>2, <1>17, WrappedNew
<1>19. /\ h1 \in Byte /\ (u \o <<h1>>) \o rest = u \o WriteTLKV(lit, id, v)
  <2>1. SplitRecord(lit, id, u, v, h, rest)
    BY <1>3, <1>10, <1>12, <1>14, RecordSplit, Zenon
  <2> QED
    BY <1>15, <2>1, Zenon DEF SplitRecord
<1>20. BytesOf(m, r) = u \o <<h1>>
  <2>1. s.len > Len(u) /\ \A i \in 1..Len(u) : q[s.arr][i] = u[i]
    BY <1>3, <1>5, <1>6, <1>8
  <2>2. Cut(q, s, u, h1, m, r)
    BY <1>3, <1>6, <1>15, <1>19, <2>1, CutFacts
  <2> QED
    BY <2>2, Zenon DEF Cut
<1>21. BytesOf(x.mem, x.s) = u \o WriteTLKV(lit, id, v)
  BY <1>18, <1>19, <1>20, Zenon
<1> QED
  BY <1>1, <1>21, Zenon DEF Standing

\* Whatever builder it is, the level goes to an array of its own.
LEMMA WrappedApart ==
  ASSUME IInv, NEW b \in Builders, HasMark(b), NEW slack \in Nat, NEW x, x = Wrapped(b, slack)
  PROVE  WroteNew(levels, mem, x.mem, x.s)
<1>1. PICK c, a, v, h : /\ c = BytesOf(mem, Under(b)) /\ a = IDLen(b) /\ v = Inner(b)
                        /\ h = WrappedHead(b)
  OBVIOUS
<1>2. PICK y, at : y = NewArray(mem, c, slack) /\ at = Len(c) - a - 1
  OBVIOUS
<1>3. PICK m, r : /\ m = IF h[1][3] THEN [y.mem EXCEPT ![y.s.arr][at] = Lower(@)] ELSE y.mem
                  /\ r = [y.s EXCEPT !.len = at]
  OBVIOUS
<1>4. PICK rest :
        rest = Tail(h) \o <<Num(a)>> \o SubSeq(y.mem[y.s.arr], Len(c) - a, Len(c) - 1) \o v
  OBVIOUS
<1>5. Wrapping(b, slack, c, a, v, y, h, at, m, r, rest)
  BY <1>1, <1>2, <1>3, <1>4 DEF Wrapping
<1> QED
  BY <1>5, WrappedNew

\* The last level is dropped and the one under it replaced.
Shortened(S, f, b, k, e, g) ==
  /\ g \in [Builders -> Seq(S)] /\ Len(g[b]) = k /\ g[b][k] = e
  /\ \A j \in 1..k : j # k => g[b][j] = f[b][j]
  /\ \A c \in Builders \ {b} : g[c] = f[c]

LEMMA ShortenedFacts ==
  ASSUME NEW S, NEW f \in [Builders -> Seq(S)], NEW b \in Builders,
         NEW k, k = Len(f[b]) - 1, k > 0, NEW e \in S,
         NEW g, g = WithLast([f EXCEPT ![b] = Front(@)], b, e)
  PROVE  Shortened(S, f, b, k, e, g)
<1>1. f[b] \in Seq(S) /\ Len(f[b]) \in Nat /\ k \in Nat
  OBVIOUS
<1>2. PICK t : t = Front(f[b])
  OBVIOUS
<1>3. t \in Seq(S) /\ Len(t) = k /\ \A j \in 1..k : t[j] = f[b][j]
  <2>1. \A i \in 1..k : f[b][i] \in S
    BY <1>1
  <2>2. t = SubSeq(f[b], 1, k)
    BY <1>2 DEF Front
  <2> QED
    BY <1>1, <2>1, <2>2
<1>4. k \in 1..Len(t)
  BY <1>1, <1>3
<1>5. PICK u : u = [t EXCEPT ![k] = e]
  OBVIOUS
<1>6. /\ u \in Seq(S) /\ Len(u) = k
      /\ \A j \in 1..k : u[j] = IF j = k THEN e ELSE t[j]
  BY <1>3, <1>4, <1>5, ExceptSeq
<1>7. PICK d : d = [f EXCEPT ![b] = t]
  OBVIOUS
<1>8. d[b] = t /\ d \in [Builders -> Seq(S)] /\ \A c \in Builders \ {b} : d[c] = f[c]
  BY <1>3, <1>7
<1>9. g = [d EXCEPT ![b] = u]
  BY <1>2, <1>3, <1>5, <1>7, <1>8 DEF WithLast
<1>10. g \in [Builders -> Seq(S)] /\ g[b] = u /\ \A c \in Builders \ {b} : g[c] = f[c]
  BY <1>6, <1>8, <1>9
<1> QED
  BY <1>3, <1>4, <1>6, <1>10 DEF Shortened

LEMMA OutoStep ==
  ASSUME IInv, NEW b \in Builders, Outo(b)
  PROVE  IInv' /\ Only(b)
<1>1. PICK slack \in {0, Slack} :
        LET x == Wrapped(b, slack)
        IN  Becomes(WithLast([levels EXCEPT ![b] = Front(@)], b, x.s), x.mem)
  BY DEF Outo
<1>2. slack \in Nat
  BY BuilderAssumption
<1>3. HasMark(b) /\ Len(levels[b]) > 1 /\ strayed' = strayed
  BY DEF Outo, HasMark
<1>4. PICK k : k = Len(levels[b]) - 1
  OBVIOUS
<1>5. /\ given \in [Builders -> Seq(Level)] /\ given[b] \in Seq(Level)
      /\ levels \in [Builders -> Seq(Slice)]
      /\ Len(given[b]) = k + 1 /\ Len(levels[b]) = k + 1 /\ k \in Nat /\ k > 0 /\ k < MaxDepth /\ MaxDepth \in Nat
      /\ k \in 1..Len(levels[b]) /\ k + 1 \in 1..Len(levels[b])
  BY <1>3, <1>4, GivenFacts
<1>6. PICK x : x = Wrapped(b, slack)
  OBVIOUS
<1>7. PICK rec : rec = WriteTLKV(given[b][k + 1].lit, given[b][k + 1].id, given[b][k + 1].bytes)
  OBVIOUS
<1>8. /\ WroteNew(levels, mem, x.mem, x.s)
      /\ b \notin strayed => BytesOf(x.mem, x.s) = given[b][k].bytes \o rec
  <2>1. WroteNew(levels, mem, x.mem, x.s)
    BY <1>2, <1>3, <1>6, WrappedApart
  <2>2. ASSUME b \notin strayed PROVE BytesOf(x.mem, x.s) = given[b][k].bytes \o rec
    BY <1>2, <1>4, <1>5, <1>6, <1>7, <2>2, WrappedFacts
  <2> QED
    BY <2>1, <2>2
<1>9. rec \in Seq(Byte) /\ given[b][k].bytes \in Seq(Byte) /\ given[b][k] \in Level
  <2>1. given[b][k].bytes \in Seq(Byte) /\ given[b][k] \in Level
    BY <1>5, GivenFacts
  <2>2. /\ given[b][k + 1].lit \in Letters \cup {"none"} /\ given[b][k + 1].id \in Stamps
        /\ given[b][k + 1].bytes \in Seq(Byte)
    BY <1>5, GivenFacts
  <2> QED
    BY <1>7, <2>1, <2>2, RecordFacts
<1>10. PICK l, n : l = WithLast([levels EXCEPT ![b] = Front(@)], b, x.s) /\ n = x.mem
  OBVIOUS
<1>11. levels' = l /\ mem' = Cleaned(l, n)
  BY <1>1, <1>6, <1>10, BecomesFacts
<1>12. x.s \in Slice
  BY <1>8 DEF WroteNew
<1>13. Shortened(Slice, levels, b, k, x.s, l)
  <2>1. PICK f, s : f = levels /\ s = x.s
    OBVIOUS
  <2>2. Shortened(Slice, f, b, k, s, l)
    BY <1>4, <1>5, <1>10, <1>12, <2>1, ShortenedFacts
  <2> QED
    BY <2>1, <2>2
<1>14. LevelsOK(l)
  <2>1. LevelsOK(levels)
    BY DEF IInv, InvOf
  <2> QED
    <3>1. l \in [Builders -> Seq(Slice)] /\ Len(l[b]) = k /\ \A c \in Builders \ {b} : l[c] = levels[c]
      BY <1>13 DEF Shortened
    <3>2. k \in 1..MaxDepth
      BY <1>5
    <3>3. \A c \in Builders : Len(levels[c]) \in 1..MaxDepth
      BY <2>1 DEF LevelsOK
    <3>4. \A c \in Builders : Len(l[c]) \in 1..MaxDepth
      BY <3>1, <3>2, <3>3
    <3> QED
      BY <3>1, <3>4 DEF LevelsOK
<1>15. Written(b, k, l, n, BytesOf(n, l[b][k])) /\ l[b][k] = x.s
  <2>1. k \in 1..Len(l[b]) /\ l[b][k] = x.s
    BY <1>5, <1>13 DEF Shortened
  <2>2. Besides(b, k, levels, l)
    <3>1. /\ Len(l[b]) = k /\ \A c \in Builders \ {b} : l[c] = levels[c]
          /\ \A j \in 1..k : j # k => l[b][j] = levels[b][j]
      BY <1>13 DEF Shortened
    <3>2. \A j \in 1..k : j <= Len(levels[b])
      BY <1>5
    <3> QED
      BY <3>1, <3>2 DEF Besides
  <2>3. Wrote(b, k, levels, mem, n, l[b][k])
    BY <1>8, <1>10, <2>1 DEF Wrote
  <2>4. Written(b, k, l, n, BytesOf(n, l[b][k]))
    BY <1>14, <2>1, <2>2, <2>3, PutSlice
  <2> QED
    BY <2>1, <2>4
<1> DEFINE e == [given[b][k] EXCEPT !.bytes = given[b][k].bytes \o rec]
<1>16. given' = WithLast([given EXCEPT ![b] = Front(@)], b, e)
  <2>1. Last(given[b]) = given[b][k + 1] /\ given[b][Len(given[b]) - 1] = given[b][k]
    BY <1>5 DEF Last
  <2> QED
    BY <1>7, <2>1 DEF Outo
<1>17. /\ e \in Level /\ e.bytes = given[b][k].bytes \o rec
       /\ e.lit = given[b][k].lit /\ e.id = given[b][k].id
  <2>1. given[b][k].bytes \o rec \in Seq(Byte)
    BY <1>9
  <2> QED
    BY <1>9, <2>1 DEF Level
<1> HIDE DEF e
<1>18. Shortened(Level, given, b, k, e, given')
  <2>1. PICK f, d, g : f = given /\ d = e /\ g = given'
    OBVIOUS
  <2>2. /\ f \in [Builders -> Seq(Level)] /\ k = Len(f[b]) - 1 /\ k > 0 /\ d \in Level
        /\ g = WithLast([f EXCEPT ![b] = Front(@)], b, d)
    BY <1>5, <1>16, <1>17, <2>1
  <2>3. Shortened(Level, f, b, k, d, g)
    BY <2>2, ShortenedFacts
  <2> QED
    BY <2>1, <2>3
<1>19. GivenOK(given', l)
  <2>1. GivenOK(given, levels)
    BY DEF IInv, InvOf
  <2> QED
    BY <1>13, <1>18, <2>1 DEF GivenOK, Shortened
<1>20. ASSUME b \notin strayed' PROVE BuiltAt(n, l[b], given'[b])
  <2>1. BuiltAt(mem, levels[b], given[b]) /\ b \notin strayed
    BY <1>3, <1>20 DEF IInv, InvOf
  <2>2. Len(given'[b]) = k /\ given'[b][k] = e /\ \A j \in 1..k : j # k => given'[b][j] = given[b][j]
    BY <1>18 DEF Shortened
  <2> SUFFICES ASSUME NEW j \in 1..k PROVE BytesOf(n, l[b][j]) = Due(given'[b], j)
    BY <2>2 DEF BuiltAt
  <2>3. CASE j = k
    <3>1. PICK u : u = given[b][k].bytes \o rec
      OBVIOUS
    <3>2. u \in Seq(Byte)
      BY <1>9, <3>1
    <3>3. Due(given'[b], k) = u \o <<>>
      BY <1>17, <2>2, <3>1 DEF Due
    <3>4. BytesOf(n, l[b][k]) = u
      BY <1>8, <1>10, <1>15, <2>1, <3>1
    <3> QED
      BY <2>3, <3>2, <3>3, <3>4, ConcatEmptySeq
  <2>4. CASE j # k
    <3>1. j \in 1..Len(l[b]) /\ j \in 1..Len(given[b]) /\ j <= Len(levels[b]) /\ j + 1 \in 1..k /\ j # k + 1
      BY <1>5, <1>13, <2>4 DEF Shortened
    <3>2. BytesOf(n, l[b][j]) = BytesOf(mem, levels[b][j])
      BY <1>15, <2>4, <3>1 DEF Written
    <3>3. BytesOf(mem, levels[b][j]) = Due(given[b], j)
      BY <2>1, <3>1 DEF BuiltAt
    <3>4. given'[b][j] = given[b][j]
      BY <2>2, <2>4
    <3>5. given'[b][j + 1].lit = given[b][j + 1].lit /\ given'[b][j + 1].id = given[b][j + 1].id
      BY <1>17, <2>2, <3>1
    <3>6. Due(given'[b], j) = Due(given[b], j)
      BY <1>5, <2>2, <2>4, <3>1, <3>4, <3>5 DEF Due
    <3> QED
      BY <3>2, <3>3, <3>6
  <2> QED
    BY <2>3, <2>4
<1>21. strayed' \subseteq Builders /\ SameHistory(b, given, strayed, given', strayed')
  <2>1. strayed \subseteq Builders
    BY DEF IInv, InvOf
  <2> QED
    BY <1>3, <1>18, <2>1 DEF SameHistory, Shortened
<1>22. Kept(b, l, n)
  BY <1>15 DEF Written
<1> QED
  BY <1>11, <1>19, <1>20, <1>21, <1>22, Step

LEMMA StrayOutoStep ==
  ASSUME IInv, NEW b \in Builders, StrayOuto(b)
  PROVE  IInv' /\ Only(b)
<1>1. PICK slack \in {0, Slack} :
        LET x == Wrapped(b, slack)
        IN  Becomes([levels EXCEPT ![b][Len(levels[b]) - 1] = x.s], x.mem)
  BY DEF StrayOuto
<1>2. slack \in Nat
  BY BuilderAssumption
<1>3. HasMark(b) /\ Len(levels[b]) > 1 /\ strayed' = strayed \cup {b} /\ given' = given
  BY DEF StrayOuto, HasMark
<1>4. PICK k : k = Len(levels[b]) - 1
  OBVIOUS
<1>5. /\ levels \in [Builders -> Seq(Slice)] /\ levels[b] \in Seq(Slice)
      /\ Len(levels[b]) = k + 1 /\ k \in Nat /\ k > 0 /\ k \in 1..Len(levels[b])
  BY <1>3, <1>4, GivenFacts
<1>6. PICK x : x = Wrapped(b, slack)
  OBVIOUS
<1>7. WroteNew(levels, mem, x.mem, x.s)
  BY <1>2, <1>3, <1>6, WrappedApart
<1>8. x.s \in Slice
  BY <1>7 DEF WroteNew
<1>9. PICK t : t = [levels[b] EXCEPT ![k] = x.s]
  OBVIOUS
<1>10. /\ t \in Seq(Slice) /\ Len(t) = Len(levels[b])
       /\ \A j \in 1..Len(levels[b]) : t[j] = IF j = k THEN x.s ELSE levels[b][j]
  BY <1>5, <1>8, <1>9, ExceptSeq
<1>11. PICK l, n : l = [levels EXCEPT ![b] = t] /\ n = x.mem
  OBVIOUS
<1>12. levels' = l /\ mem' = Cleaned(l, n)
  <2>1. [levels EXCEPT ![b][Len(levels[b]) - 1] = x.s] = l
    BY <1>4, <1>9, <1>11
  <2> QED
    BY <1>1, <1>6, <1>11, <2>1, BecomesFacts
<1>13. l \in [Builders -> Seq(Slice)] /\ l[b] = t /\ \A c \in Builders \ {b} : l[c] = levels[c]
  BY <1>5, <1>10, <1>11
<1>14. LevelsOK(l)
  <2>1. LevelsOK(levels)
    BY DEF IInv, InvOf
  <2> QED
    BY <1>10, <1>13, <2>1 DEF LevelsOK
<1>15. Kept(b, l, n)
  <2>1. k \in 1..Len(l[b]) /\ l[b][k] = x.s
    BY <1>5, <1>10, <1>13
  <2>2. Besides(b, k, levels, l)
    BY <1>5, <1>10, <1>13 DEF Besides
  <2>3. Wrote(b, k, levels, mem, n, l[b][k])
    BY <1>7, <1>11, <2>1 DEF Wrote
  <2>4. Written(b, k, l, n, BytesOf(n, l[b][k]))
    BY <1>14, <2>1, <2>2, <2>3, PutSlice
  <2> QED
    BY <2>4 DEF Written
<1>16. GivenOK(given', l)
  <2>1. GivenOK(given, levels)
    BY DEF IInv, InvOf
  <2> QED
    BY <1>3, <1>10, <1>13, <2>1 DEF GivenOK
<1>17. /\ strayed' \subseteq Builders /\ b \in strayed'
       /\ SameHistory(b, given, strayed, given', strayed')
  <2>1. strayed \subseteq Builders
    BY DEF IInv, InvOf
  <2> QED
    BY <1>3, <2>1 DEF SameHistory
<1> QED
  BY <1>12, <1>15, <1>16, <1>17, Step
-----------------------------------------------------------------------------
(* Builders made anew *)

\* t can take the place of b's slices in the memory n
Fits(b, t, n) ==
  /\ MemOK(n) /\ t \in Seq(Slice) /\ Len(t) \in 1..MaxDepth
  /\ \A k \in 1..Len(t) : SliceOK(n, t[k])
  /\ \A k, j \in 1..Len(t) : k # j => Apart(t[k], t[j])
  /\ \A d \in Builders \ {b} : \A j \in 1..Len(levels[d]) :
       /\ SliceOK(n, levels[d][j])
       /\ BytesOf(n, levels[d][j]) = BytesOf(mem, levels[d][j])
       /\ \A k \in 1..Len(t) : Apart(t[k], levels[d][j]) /\ Apart(levels[d][j], t[k])

LEMMA Replaced ==
  ASSUME IInv, NEW b \in Builders, NEW t, NEW n, Fits(b, t, n),
         NEW h \in Seq(Level), Len(h) = Len(t),
         Becomes([levels EXCEPT ![b] = t], n), given' = [given EXCEPT ![b] = h],
         strayed' \subseteq Builders, \A d \in Builders \ {b} : d \in strayed' <=> d \in strayed,
         b \notin strayed' => BuiltAt(n, t, h)
  PROVE  IInv' /\ Only(b)
<1>1. PICK l : l = [levels EXCEPT ![b] = t]
  OBVIOUS
<1>2. levels' = l /\ mem' = Cleaned(l, n)
  BY <1>1, BecomesFacts
<1>3. LevelsOK(levels) /\ GivenOK(given, levels) /\ Owned(levels, mem)
  BY DEF IInv, InvOf
<1>4. t \in Seq(Slice) /\ Len(t) \in 1..MaxDepth
  BY DEF Fits
<1>5. l \in [Builders -> Seq(Slice)] /\ l[b] = t /\ \A d \in Builders \ {b} : l[d] = levels[d]
  BY <1>1, <1>3, <1>4 DEF LevelsOK
<1>6. LevelsOK(l)
  BY <1>3, <1>4, <1>5 DEF LevelsOK
<1>7. Owned(l, n)
  <2>1. ASSUME NEW d \in Builders, NEW k \in 1..Len(l[d]) PROVE SliceOK(n, l[d][k])
    BY <1>5 DEF Fits
  <2>2. ASSUME NEW d \in Builders, NEW e \in Builders, NEW k \in 1..Len(l[d]), NEW j \in 1..Len(l[e]),
               d # e \/ k # j
        PROVE  Apart(l[d][k], l[e][j])
    <3>1. CASE d = b /\ e = b
      BY <1>5, <2>2, <3>1 DEF Fits
    <3>2. CASE d = b /\ e # b
      BY <1>5, <3>2 DEF Fits
    <3>3. CASE d # b /\ e = b
      BY <1>5, <3>3 DEF Fits
    <3>4. CASE d # b /\ e # b
      BY <1>3, <1>5, <2>2, <3>4 DEF Owned
    <3> QED
      BY <3>1, <3>2, <3>3, <3>4
  <2> QED
    BY <2>1, <2>2 DEF Owned
<1>8. Kept(b, l, n)
  <2>1. Unmoved(b, mem, levels, n, l)
    BY <1>5 DEF Unmoved, Fits
  <2>2. MemOK(n)
    BY DEF Fits
  <2> QED
    BY <1>6, <1>7, <2>1, <2>2 DEF Kept
<1>9. given'[b] = h /\ \A d \in Builders \ {b} : given'[d] = given[d]
  BY <1>3 DEF GivenOK
<1>10. GivenOK(given', l)
  <2>1. given' \in [Builders -> Seq(Level)]
    BY <1>3 DEF GivenOK
  <2> QED
    BY <1>3, <1>5, <1>9, <2>1 DEF GivenOK
<1>11. SameHistory(b, given, strayed, given', strayed')
  BY <1>9 DEF SameHistory
<1>12. b \notin strayed' => BuiltAt(n, l[b], given'[b])
  BY <1>5, <1>9
<1> QED
  BY <1>2, <1>8, <1>10, <1>11, <1>12, Step

\* a nil slice is apart from every other
LEMMA NilFacts ==
  /\ Nil \in Slice
  /\ \A m : SliceOK(m, Nil) /\ BytesOf(m, Nil) = <<>>
  /\ \A s \in Slice : Apart(Nil, s) /\ Apart(s, Nil)
BY DEF Nil, Slice, SliceOK, BytesOf, Apart

LEMMA NewBuilderStep ==
  ASSUME IInv, NEW b \in Builders, NewBuilder(b)
  PROVE  IInv' /\ Only(b)
<1>1. /\ Becomes([levels EXCEPT ![b] = <<Nil>>], mem) /\ strayed' = strayed \ {b}
      /\ given' = [given EXCEPT ![b] = <<[lit |-> "none", id |-> <<>>, bytes |-> <<>>]>>]
  BY DEF NewBuilder
<1>2. PICK t, e : t = <<Nil>> /\ e = [lit |-> "none", id |-> <<>>, bytes |-> <<>>]
  OBVIOUS
<1>3. t \in Seq(Slice) /\ Len(t) = 1 /\ t[1] = Nil
  BY <1>2, NilFacts
<1>4. e \in Level /\ e.bytes = <<>>
  <2>1. "none" \in Letters \cup {"none"} /\ <<>> \in Stamps /\ <<>> \in Seq(Byte)
    BY BuilderAssumption
  <2> QED
    BY <1>2, <2>1 DEF Level
<1>5. PICK h : h = <<e>>
  OBVIOUS
<1>6. h \in Seq(Level) /\ Len(h) = 1 /\ h[1] = e
  BY <1>4, <1>5
<1>7. Fits(b, t, mem)
  <2>1. MemOK(mem) /\ Owned(levels, mem) /\ LevelsOK(levels)
    BY DEF IInv, InvOf
  <2>2. Len(t) \in 1..MaxDepth
    BY <1>3, BuilderAssumption
  <2>3. \A k \in 1..Len(t) : t[k] = Nil
    BY <1>3
  <2>4. ASSUME NEW d \in Builders, NEW j \in 1..Len(levels[d])
        PROVE  levels[d][j] \in Slice /\ SliceOK(mem, levels[d][j])
    BY GivenFacts
  <2> QED
    BY <1>3, <2>1, <2>2, <2>3, <2>4, NilFacts DEF Fits
<1>8. BuiltAt(mem, t, h)
  <2>1. Due(h, 1) = <<>> \o <<>>
    BY <1>4, <1>6 DEF Due
  <2>2. Due(h, 1) = <<>>
    BY <2>1
  <2> QED
    BY <1>3, <1>6, <2>2, NilFacts DEF BuiltAt
<1>9. strayed \subseteq Builders
  BY DEF IInv, InvOf
<1>10. PICK n : n = mem
  OBVIOUS
<1> QED
  BY <1>1, <1>2, <1>3, <1>5, <1>6, <1>7, <1>8, <1>9, <1>10, Replaced

\* the histories after Clone and Copy
LEMMA FollowsFacts ==
  ASSUME IInv, NEW b \in Builders, NEW c \in Builders \ {b}, Follows(b, c)
  PROVE  /\ given' = [given EXCEPT ![b] = given[c]] /\ strayed' \subseteq Builders
         /\ \A d \in Builders \ {b} : d \in strayed' <=> d \in strayed
         /\ b \in strayed' <=> c \in strayed
BY DEF IInv, InvOf, Follows

LEMMA CloneStep ==
  ASSUME IInv, NEW b \in Builders, NEW c \in Builders \ {b}, Clone(b, c)
  PROVE  IInv' /\ Only(b)
<1>1. /\ Becomes([levels EXCEPT ![b] = [k \in DOMAIN levels[c] |-> Capped(levels[c][k])]], mem)
      /\ Follows(b, c)
  BY DEF Clone
<1>2. PICK t, n, h : t = [k \in DOMAIN levels[c] |-> Capped(levels[c][k])] /\ n = mem /\ h = given[c]
  OBVIOUS
<1>3. /\ levels[c] \in Seq(Slice) /\ DOMAIN levels[c] = 1..Len(levels[c]) /\ Len(levels[c]) \in Nat
      /\ Len(levels[c]) \in 1..MaxDepth /\ h \in Seq(Level) /\ Len(h) = Len(levels[c])
  BY <1>2, GivenFacts
<1>4. ASSUME NEW k \in 1..Len(levels[c])
      PROVE  /\ Capped(levels[c][k]) \in Slice
             /\ Capped(levels[c][k]).arr = levels[c][k].arr
             /\ Capped(levels[c][k]).len = levels[c][k].len
             /\ Capped(levels[c][k]).cap = levels[c][k].len
             /\ levels[c][k].len \in Nat /\ levels[c][k].cap \in Nat
  <2>1. levels[c][k] \in Slice
    BY <1>3
  <2> QED
    BY <2>1 DEF Capped, Slice
<1>5. t \in Seq(Slice) /\ Len(t) = Len(levels[c]) /\ \A k \in 1..Len(levels[c]) : t[k] = Capped(levels[c][k])
  BY <1>2, <1>3, <1>4
<1>6. ASSUME NEW k \in 1..Len(levels[c])
      PROVE  SliceOK(mem, t[k]) /\ BytesOf(mem, t[k]) = BytesOf(mem, levels[c][k])
  <2>1. SliceOK(mem, levels[c][k])
    BY GivenFacts
  <2>2. /\ t[k] \in Slice /\ t[k].arr = levels[c][k].arr /\ t[k].len = levels[c][k].len
        /\ t[k].cap = levels[c][k].len /\ levels[c][k].len \in Nat /\ levels[c][k].cap \in Nat
    BY <1>4, <1>5
  <2>3. levels[c][k].arr # 0 => Len(mem[levels[c][k].arr]) \in Nat
    <3>1. levels[c][k] \in Slice /\ MemOK(mem)
      BY <1>3 DEF IInv, InvOf
    <3> QED
      BY <3>1 DEF Slice, MemOK
  <2> QED
    BY <2>1, <2>2, <2>3 DEF SliceOK, BytesOf
<1>7. ASSUME NEW k \in 1..Len(levels[c]), NEW s PROVE Apart(t[k], s)
  BY <1>4, <1>5 DEF Apart
<1>8. ASSUME NEW k \in 1..Len(levels[c]), NEW d \in Builders, NEW j \in 1..Len(levels[d])
      PROVE  Apart(levels[d][j], t[k])
  <2>1. /\ t[k].arr = levels[c][k].arr /\ t[k].len = levels[c][k].len
        /\ t[k].cap = levels[c][k].len /\ levels[c][k].len \in Nat
    BY <1>4, <1>5
  <2>2. CASE d = c /\ j = k
    BY <2>1, <2>2 DEF Apart
  <2>3. CASE d # c \/ j # k
    <3>1. Apart(levels[d][j], levels[c][k])
      BY <2>3 DEF IInv, InvOf, Owned
    <3> QED
      BY <2>1, <3>1 DEF Apart
  <2> QED
    BY <2>2, <2>3
<1>9. Fits(b, t, mem)
  <2>1. MemOK(mem)
    BY DEF IInv, InvOf
  <2>2. ASSUME NEW d \in Builders, NEW j \in 1..Len(levels[d]) PROVE SliceOK(mem, levels[d][j])
    BY GivenFacts
  <2> QED
    BY <1>3, <1>5, <1>6, <1>7, <1>8, <2>1, <2>2 DEF Fits
<1>10. ASSUME c \notin strayed PROVE BuiltAt(mem, t, h)
  <2>1. BuiltAt(mem, levels[c], h)
    BY <1>2, <1>10 DEF IInv, InvOf
  <2> QED
    BY <1>3, <1>6, <2>1 DEF BuiltAt
<1>11. /\ given' = [given EXCEPT ![b] = given[c]] /\ strayed' \subseteq Builders
       /\ \A d \in Builders \ {b} : d \in strayed' <=> d \in strayed
       /\ b \in strayed' <=> c \in strayed
  BY <1>1, FollowsFacts
<1> QED
  BY <1>1, <1>2, <1>3, <1>5, <1>9, <1>10, <1>11, Replaced

\* an array for each level of a copy
SpareFor(b) == Arrays \ Referenced([levels EXCEPT ![b] = <<>>])
Kth(T, k) == CHOOSE a \in T : Cardinality(1..a \cap T) = k
Enough(T) == \A k \in 1..MaxDepth : Kth(T, k) \in T /\ Cardinality(1..Kth(T, k) \cap T) = k

LEMMA FreeArrays ==
  ASSUME IInv, NEW b \in Builders, NEW T, T = SpareFor(b)
  PROVE  Enough(T)
<1> SUFFICES ASSUME NEW k \in 1..MaxDepth
             PROVE  Kth(T, k) \in T /\ Cardinality(1..Kth(T, k) \cap T) = k
  BY DEF Enough
<1>1. IsFiniteSet(T) /\ Cardinality(T) \in Nat /\ Cardinality(T) >= MaxDepth
  <2>1. LevelsOK(levels)
    BY DEF IInv, InvOf
  <2> QED
    BY <2>1, SpareArrays DEF SpareFor
<1>2. MaxDepth \in Nat
  BY BuilderAssumption
<1>3. PICK N \in Nat : Arrays = 1..N
  <2>1. Cardinality(Builders) * MaxDepth + 1 \in Nat
    BY BuilderAssumption, FS_CardinalityType
  <2> QED
    BY <2>1 DEF Arrays
<1>4. T \subseteq 1..N /\ T \in SUBSET (Nat \ {0})
  BY <1>3 DEF SpareFor
<1>5. k \in Nat /\ k >= 1 /\ k <= Cardinality(T)
  BY <1>1, <1>2
<1>6. \E i \in T : Cardinality(1..i \cap T) = k
  BY <1>1, <1>4, <1>5, KthElement
<1> QED
  BY <1>6, Zenon DEF Kth

\* the copies of levels[c] in arrays of their own
CopyOf(s, free, slack) ==
  IF s.arr = 0 THEN Nil ELSE [arr |-> free, len |-> s.len, cap |-> s.len + slack]
IsCopy(s, free, slack, r) ==
  /\ r \in Slice /\ r.arr \in {0, free} /\ (r.arr = 0 => r = Nil) /\ (r.arr = 0 <=> s.arr = 0)
  /\ r.arr # 0 => r.len = s.len /\ r.cap = s.len + slack

LEMMA CopyOfFacts ==
  ASSUME NEW s \in Slice, NEW free \in Arrays, NEW slack \in Nat, NEW r, r = CopyOf(s, free, slack)
  PROVE  IsCopy(s, free, slack, r)
<1>1. free # 0
  BY BuilderAssumption, FS_CardinalityType DEF Arrays
<1>2. CASE s.arr = 0
  BY <1>2, NilFacts DEF CopyOf, Nil, IsCopy
<1>3. CASE s.arr # 0
  <2>1. r = [arr |-> free, len |-> s.len, cap |-> s.len + slack]
    BY <1>3 DEF CopyOf
  <2>2. s.len \in Nat
    BY DEF Slice
  <2> QED
    BY <1>1, <1>3, <2>1, <2>2 DEF Slice, IsCopy
<1> QED
  BY <1>2, <1>3

\* An array that holds the bytes and spare capacity.
HoldsCopy(m, s, n, slack, r) == n[r.arr] = BytesOf(m, s) \o Zeroes(slack)

LEMMA CopyHolds ==
  ASSUME NEW m, MemOK(m), NEW n, MemOK(n), NEW s \in Slice, SliceOK(m, s),
         NEW slack \in Nat, NEW free, NEW r, IsCopy(s, free, slack, r), r.arr # 0,
         HoldsCopy(m, s, n, slack, r)
  PROVE  SliceOK(n, r) /\ BytesOf(n, r) = BytesOf(m, s)
<1>0. r \in Slice /\ r.len = s.len /\ r.cap = s.len + slack
  BY DEF IsCopy
<1>1. PICK u : u = BytesOf(m, s)
  OBVIOUS
<1>2. u \in Seq(Byte) /\ Len(u) = s.len /\ s.len \in Nat
  BY <1>1, BytesTyped DEF Slice
<1>3. PICK z : z = Zeroes(slack)
  OBVIOUS
<1>4. z \in Seq(Byte) /\ Len(z) = slack
  BY <1>3, ByteFacts
<1>5. PICK w : w = u \o z
  OBVIOUS
<1>6. w \in Seq(Byte) /\ Len(w) = Len(u) + Len(z)
  BY <1>2, <1>4, <1>5, Joined
<1>7. \A i \in 1..Len(u) : w[i] = u[i]
  BY <1>2, <1>4, <1>5, JoinedAt
<1>8. n[r.arr] = w
  BY <1>1, <1>3, <1>5 DEF HoldsCopy
<1>9. SliceOK(n, r)
  BY <1>0, <1>2, <1>4, <1>6, <1>8 DEF SliceOK
<1>10. /\ BytesOf(n, r) \in Seq(Byte) /\ Len(BytesOf(n, r)) = r.len
       /\ \A i \in 1..r.len : BytesOf(n, r)[i] = w[i]
  BY <1>0, <1>8, <1>9, BytesTyped
<1>11. BytesOf(n, r) = u
  <2>1. Len(BytesOf(n, r)) = Len(u) /\ \A i \in 1..Len(u) : BytesOf(n, r)[i] = u[i]
    BY <1>0, <1>2, <1>7, <1>10
  <2> QED
    BY <1>2, <1>10, <2>1, SeqEqual
<1> QED
  BY <1>1, <1>9, <1>11

LEMMA CopyStep ==
  ASSUME IInv, NEW b \in Builders, NEW c \in Builders \ {b}, Copy(b, c)
  PROVE  IInv' /\ Only(b)
<1> DEFINE Spare == Arrays \ Referenced([levels EXCEPT ![b] = <<>>])
           Free(k) == CHOOSE a \in Spare : Cardinality(1..a \cap Spare) = k
           Copies(slack) == [k \in DOMAIN levels[c] |->
                               IF levels[c][k].arr = 0 THEN Nil
                               ELSE [arr |-> Free(k), len |-> levels[c][k].len,
                                     cap |-> levels[c][k].len + slack]]
           Moved(slack) == [a \in Arrays |->
                              IF \E k \in DOMAIN Copies(slack) : Copies(slack)[k].arr = a
                              THEN BytesOf(mem, levels[c][CHOOSE k \in DOMAIN Copies(slack) : Copies(slack)[k].arr = a])
                                   \o Zeroes(slack)
                              ELSE mem[a]]
<1>1. PICK slack \in {0, Slack} : Becomes([levels EXCEPT ![b] = Copies(slack)], Moved(slack)) /\ Follows(b, c)
  BY DEF Copy
<1>2. slack \in Nat
  BY BuilderAssumption
<1>3. PICK t, n, h, T : t = Copies(slack) /\ n = Moved(slack) /\ h = given[c] /\ T = Spare
  OBVIOUS
<1>4. /\ levels[c] \in Seq(Slice) /\ DOMAIN levels[c] = 1..Len(levels[c]) /\ Len(levels[c]) \in Nat
      /\ Len(levels[c]) \in 1..MaxDepth /\ Len(levels[c]) <= MaxDepth /\ MaxDepth \in Nat
      /\ h \in Seq(Level) /\ Len(h) = Len(levels[c])
  <2>1. h = given[c]
    BY <1>3
  <2> HIDE DEF Spare, Free, Copies, Moved
  <2> QED
    BY <2>1, GivenFacts
<1>5. ASSUME NEW k \in 1..Len(levels[c])
      PROVE  Free(k) \in T /\ Cardinality(1..Free(k) \cap T) = k
  <2>1. k \in 1..MaxDepth
    BY <1>4
  <2>2. T = SpareFor(b)
    BY <1>3 DEF SpareFor
  <2>3. Free(k) = Kth(T, k)
    BY <1>3 DEF Kth
  <2> HIDE DEF Spare, Free, Copies, Moved
  <2>4. Enough(T)
    BY <2>2, FreeArrays
  <2> QED
    BY <2>1, <2>3, <2>4 DEF Enough
<1>6. T \subseteq Arrays /\ \A d \in Builders \ {b} : \A j \in 1..Len(levels[d]) : levels[d][j].arr \notin T
  <2>1. ASSUME NEW d \in Builders \ {b}, NEW j \in 1..Len(levels[d])
        PROVE  levels[d][j].arr \in Referenced([levels EXCEPT ![b] = <<>>])
    <3>1. PICK f : f = [levels EXCEPT ![b] = <<>>]
      OBVIOUS
    <3>2. f[d] = levels[d] /\ levels[d] \in Seq(Slice)
      BY <3>1, GivenFacts
    <3>3. j \in DOMAIN f[d]
      BY <3>2
    <3>4. levels[d][j] \in Range(f[d])
      BY <3>2, <3>3 DEF Range
    <3>5. levels[d][j].arr \in Referenced(f)
      BY <3>4 DEF Referenced
    <3> QED
      BY <3>1, <3>5
  <2> QED
    BY <1>3, <2>1
<1> HIDE DEF Spare, Free
<1>7. t = [k \in 1..Len(levels[c]) |-> CopyOf(levels[c][k], Free(k), slack)]
  BY <1>3, <1>4 DEF CopyOf
<1>8. n = [a \in Arrays |->
             IF \E k \in DOMAIN t : t[k].arr = a
             THEN BytesOf(mem, levels[c][CHOOSE k \in DOMAIN t : t[k].arr = a]) \o Zeroes(slack)
             ELSE mem[a]]
  BY <1>3
<1> HIDE DEF Copies, Moved
<1>9. ASSUME NEW k \in 1..Len(levels[c])
      PROVE  /\ t[k] = CopyOf(levels[c][k], Free(k), slack)
             /\ levels[c][k] \in Slice /\ SliceOK(mem, levels[c][k])
             /\ IsCopy(levels[c][k], Free(k), slack, t[k])
             /\ t[k] \in Slice /\ t[k].arr \in {0, Free(k)} /\ (t[k].arr = 0 => t[k] = Nil)
             /\ (t[k].arr = 0 <=> levels[c][k].arr = 0)
             /\ t[k].arr # 0 => t[k].len = levels[c][k].len /\ t[k].cap = levels[c][k].len + slack
  <2>1. t[k] = CopyOf(levels[c][k], Free(k), slack)
    BY <1>7
  <2>2. levels[c][k] \in Slice /\ SliceOK(mem, levels[c][k]) /\ Free(k) \in Arrays
    BY <1>5, <1>6, GivenFacts
  <2>3. PICK s, r, a : s = levels[c][k] /\ r = t[k] /\ a = Free(k)
    OBVIOUS
  <2>4. s \in Slice /\ a \in Arrays /\ r = CopyOf(s, a, slack)
    BY <2>1, <2>2, <2>3
  <2>5. IsCopy(s, a, slack, r)
    BY <1>2, <2>4, CopyOfFacts
  <2> QED
    BY <2>1, <2>2, <2>3, <2>5 DEF IsCopy
<1>10. t \in Seq(Slice) /\ Len(t) = Len(levels[c]) /\ DOMAIN t = 1..Len(levels[c])
  <2>1. PICK N : N = Len(levels[c])
    OBVIOUS
  <2>2. N \in Nat /\ \A k \in 1..N : t[k] \in Slice
    BY <1>4, <1>9, <2>1
  <2>3. t = [k \in 1..N |-> t[k]]
    BY <1>7, <2>1
  <2>4. t \in Seq(Slice) /\ Len(t) = N /\ DOMAIN t = 1..N
    BY <2>2, <2>3
  <2> QED
    BY <2>1, <2>4
\* no two levels have the same array
<1>11. ASSUME NEW k \in 1..Len(levels[c]), NEW j \in 1..Len(levels[c]), t[k].arr = t[j].arr, t[k].arr # 0
       PROVE  k = j
  <2>1. t[k].arr = Free(k) /\ t[j].arr = Free(j)
    BY <1>9, <1>11
  <2>2. Cardinality(1..Free(k) \cap T) = k /\ Cardinality(1..Free(j) \cap T) = j
    BY <1>5
  <2> QED
    BY <1>11, <2>1, <2>2
<1>12. ASSUME NEW k \in 1..Len(levels[c]), t[k].arr # 0
       PROVE  t[k].arr \in Arrays /\ n[t[k].arr] = BytesOf(mem, levels[c][k]) \o Zeroes(slack)
  <2>1. PICK a : a = t[k].arr
    OBVIOUS
  <2>2. a \in Arrays
    BY <1>5, <1>6, <1>9, <1>12, <2>1
  <2>3. PICK w : w = CHOOSE i \in DOMAIN t : t[i].arr = a
    OBVIOUS
  <2>4. w \in DOMAIN t /\ t[w].arr = a
    BY <1>10, <2>1, <2>3
  <2>5. w = k
    BY <1>10, <1>11, <1>12, <2>1, <2>4
  <2>6. \E j \in DOMAIN t : t[j].arr = a
    BY <2>4
  <2>7. n[a] = BytesOf(mem, levels[c][w]) \o Zeroes(slack)
    BY <1>8, <2>2, <2>3, <2>6
  <2> QED
    BY <2>1, <2>2, <2>5, <2>7
<1>13. ASSUME NEW a \in Arrays, a \notin T PROVE n[a] = mem[a]
  <2>1. ASSUME NEW k \in DOMAIN t PROVE t[k].arr # a
    <3>1. t[k].arr \in {0, Free(k)} /\ Free(k) \in T
      BY <1>5, <1>9, <1>10
    <3>2. a # 0
      BY BuilderAssumption, FS_CardinalityType DEF Arrays
    <3> QED
      BY <1>13, <3>1, <3>2
  <2> QED
    BY <1>8, <2>1
<1>14. MemOK(n)
  <2>1. MemOK(mem)
    BY DEF IInv, InvOf
  <2>2. ASSUME NEW a \in Arrays PROVE n[a] \in Seq(Byte)
    <3>1. CASE \E k \in DOMAIN t : t[k].arr = a
      <4>1. PICK k \in DOMAIN t : t[k].arr = a
        BY <3>1
      <4>2. a # 0
        BY BuilderAssumption, FS_CardinalityType DEF Arrays
      <4>3. k \in 1..Len(levels[c]) /\ n[a] = BytesOf(mem, levels[c][k]) \o Zeroes(slack)
        BY <1>10, <1>12, <4>1, <4>2
      <4>4. PICK u, z : u = BytesOf(mem, levels[c][k]) /\ z = Zeroes(slack)
        OBVIOUS
      <4>5. u \in Seq(Byte)
        BY <1>9, <2>1, <4>3, <4>4, BytesTyped
      <4>6. z \in Seq(Byte)
        BY <1>2, <4>4, ByteFacts
      <4> QED
        BY <4>3, <4>4, <4>5, <4>6, Joined
    <3>2. CASE ~ \E k \in DOMAIN t : t[k].arr = a
      BY <1>8, <2>1, <3>2 DEF MemOK
    <3> QED
      BY <3>1, <3>2
  <2>3. n = [a \in Arrays |-> n[a]]
    BY <1>8
  <2> QED
    BY <2>2, <2>3 DEF MemOK
<1>15. ASSUME NEW k \in 1..Len(levels[c])
       PROVE  SliceOK(n, t[k]) /\ BytesOf(n, t[k]) = BytesOf(mem, levels[c][k])
  <2>1. CASE t[k].arr = 0
    <3>1. BytesOf(mem, levels[c][k]) = <<>>
      BY <1>9, <2>1 DEF BytesOf
    <3> QED
      BY <1>9, <2>1, <3>1, NilFacts
  <2>2. CASE t[k].arr # 0
    <3>1. PICK m, s, r, a : m = mem /\ s = levels[c][k] /\ r = t[k] /\ a = Free(k)
      OBVIOUS
    <3>2. MemOK(m) /\ s \in Slice /\ SliceOK(m, s) /\ r.arr # 0
      BY <1>9, <2>2, <3>1 DEF IInv, InvOf
    <3>3. IsCopy(s, a, slack, r)
      BY <1>9, <3>1
    <3>5. HoldsCopy(m, s, n, slack, r)
      BY <1>12, <2>2, <3>1 DEF HoldsCopy
    <3>4. SliceOK(n, r) /\ BytesOf(n, r) = BytesOf(m, s)
      BY <1>2, <1>14, <3>2, <3>3, <3>5, CopyHolds
    <3> QED
      BY <3>1, <3>4
  <2> QED
    BY <2>1, <2>2
<1>16. ASSUME NEW k \in 1..Len(levels[c]), NEW s \in Slice, s.arr # t[k].arr \/ t[k] = Nil
       PROVE  Apart(t[k], s) /\ Apart(s, t[k])
  BY <1>9, <1>16, NilFacts DEF Apart
<1>17. Fits(b, t, n)
  <2>1. ASSUME NEW k \in 1..Len(t), NEW j \in 1..Len(t), k # j PROVE Apart(t[k], t[j])
    <3>1. k \in 1..Len(levels[c]) /\ j \in 1..Len(levels[c]) /\ t[j] \in Slice
      BY <1>9, <1>10
    <3>2. t[j].arr # t[k].arr \/ t[k] = Nil
      BY <1>9, <1>11, <2>1, <3>1
    <3> QED
      BY <1>16, <3>1, <3>2
  <2>2. ASSUME NEW d \in Builders \ {b}, NEW j \in 1..Len(levels[d])
        PROVE  /\ SliceOK(n, levels[d][j])
               /\ BytesOf(n, levels[d][j]) = BytesOf(mem, levels[d][j])
               /\ \A k \in 1..Len(t) : Apart(t[k], levels[d][j]) /\ Apart(levels[d][j], t[k])
    <3>1. levels[d][j] \in Slice /\ SliceOK(mem, levels[d][j])
      BY GivenFacts
    <3>2. levels[d][j].arr # 0 => n[levels[d][j].arr] = mem[levels[d][j].arr]
      BY <1>6, <1>13, <3>1 DEF Slice
    <3>3. ASSUME NEW k \in 1..Len(t) PROVE Apart(t[k], levels[d][j]) /\ Apart(levels[d][j], t[k])
      <4>1. k \in 1..Len(levels[c])
        BY <1>10
      <4>2. levels[d][j].arr # t[k].arr \/ t[k] = Nil
        BY <1>5, <1>6, <1>9, <4>1, ZenonT(60)
      <4> QED
        BY <1>16, <3>1, <4>1, <4>2
    <3> QED
      BY <3>1, <3>2, <3>3 DEF SliceOK, BytesOf
  <2>3. \A k \in 1..Len(t) : SliceOK(n, t[k])
    BY <1>10, <1>15
  <2>4. Len(t) \in 1..MaxDepth
    BY <1>4, <1>10
  <2> QED
    BY <1>10, <1>14, <2>1, <2>2, <2>3, <2>4 DEF Fits
<1>18. ASSUME c \notin strayed PROVE BuiltAt(n, t, h)
  <2>1. BuiltAt(mem, levels[c], h)
    BY <1>3, <1>18 DEF IInv, InvOf
  <2> QED
    BY <1>4, <1>15, <2>1 DEF BuiltAt
<1>19. /\ given' = [given EXCEPT ![b] = given[c]] /\ strayed' \subseteq Builders
       /\ \A d \in Builders \ {b} : d \in strayed' <=> d \in strayed
       /\ b \in strayed' <=> c \in strayed
  BY <1>1, FollowsFacts
<1>20. Becomes([levels EXCEPT ![b] = t], n)
  BY <1>1, <1>3
<1> QED
  BY <1>3, <1>4, <1>10, <1>17, <1>18, <1>19, <1>20, Replaced
-----------------------------------------------------------------------------
(* Theorems *)

LEMMA InitInv ==
  ASSUME Init
  PROVE  IInv
<1>1. PICK e : e = [lit |-> "none", id |-> <<>>, bytes |-> <<>>]
  OBVIOUS
<1>2. e \in Level /\ e.bytes = <<>>
  <2>1. "none" \in Letters \cup {"none"} /\ <<>> \in Stamps /\ <<>> \in Seq(Byte)
    BY BuilderAssumption
  <2> QED
    BY <1>1, <2>1 DEF Level
<1>3. PICK h, t : h = <<e>> /\ t = <<Nil>>
  OBVIOUS
<1>4. h \in Seq(Level) /\ Len(h) = 1 /\ h[1] = e /\ t \in Seq(Slice) /\ Len(t) = 1 /\ t[1] = Nil
  BY <1>2, <1>3, NilFacts
<1>5. /\ mem = [a \in Arrays |-> <<>>] /\ levels = [b \in Builders |-> t]
      /\ given = [b \in Builders |-> h] /\ strayed = {}
  BY <1>1, <1>3 DEF Init
<1>6. MemOK(mem)
  BY <1>5 DEF MemOK
<1>7. LevelsOK(levels) /\ GivenOK(given, levels)
  <2>1. levels \in [Builders -> Seq(Slice)] /\ given \in [Builders -> Seq(Level)]
    BY <1>4, <1>5
  <2>2. \A b \in Builders : levels[b] = t /\ given[b] = h
    BY <1>5
  <2>3. \A b \in Builders : Len(levels[b]) = 1 /\ Len(given[b]) = 1
    BY <1>4, <2>2
  <2>4. 1 \in 1..MaxDepth
    BY BuilderAssumption
  <2> QED
    BY <2>1, <2>3, <2>4 DEF LevelsOK, GivenOK
<1>8. Owned(levels, mem)
  <2>1. \A k \in 1..Len(t) : t[k] = Nil
    BY <1>4
  <2>2. \A b \in Builders : levels[b] = t
    BY <1>5
  <2>3. \A b \in Builders : \A k \in 1..Len(levels[b]) : levels[b][k] = Nil
    BY <2>1, <2>2
  <2> QED
    BY <2>3, NilFacts DEF Owned
<1>9. ASSUME NEW b \in Builders PROVE BuiltAt(mem, levels[b], given[b])
  <2>1. Due(h, 1) = <<>> \o <<>>
    BY <1>2, <1>4 DEF Due
  <2>2. Due(h, 1) = <<>>
    BY <2>1
  <2>3. BytesOf(mem, t[1]) = <<>>
    BY <1>4, NilFacts
  <2>4. levels[b] = t /\ given[b] = h
    BY <1>5
  <2>5. \A k \in 1..Len(h) : k = 1
    BY <1>4
  <2>6. BuiltAt(mem, t, h)
    BY <2>2, <2>3, <2>5 DEF BuiltAt
  <2> QED
    BY <2>4, <2>6
<1> QED
  BY <1>5, <1>6, <1>7, <1>8, <1>9 DEF IInv, InvOf

LEMMA NextInv ==
  ASSUME IInv, Next
  PROVE  IInv' /\ \E b \in Builders : Only(b)
<1>1. PICK b \in Builders :
        \/ \E lit \in Letters, id \in Stamps :
             (\E val \in Values : FIRST(b, lit, id, val)) \/ Into(b, lit, id)
        \/ \E lit \in Letters : StrayInto(b, lit)
        \/ Outo(b) \/ StrayOuto(b) \/ NewBuilder(b)
        \/ \E c \in Builders \ {b} : Clone(b, c) \/ Copy(b, c) \/ Stream(b, c)
  BY DEF Next
<1>2. CASE \E lit \in Letters, id \in Stamps, val \in Values : FIRST(b, lit, id, val)
  BY <1>2, FIRSTStep
<1>3. CASE \E lit \in Letters, id \in Stamps : Into(b, lit, id)
  BY <1>3, IntoStep
<1>4. CASE \E lit \in Letters : StrayInto(b, lit)
  BY <1>4, StrayIntoStep
<1>5. CASE Outo(b)
  BY <1>5, OutoStep
<1>6. CASE StrayOuto(b)
  BY <1>6, StrayOutoStep
<1>7. CASE NewBuilder(b)
  BY <1>7, NewBuilderStep
<1>8. CASE \E c \in Builders \ {b} : Clone(b, c)
  BY <1>8, CloneStep
<1>9. CASE \E c \in Builders \ {b} : Copy(b, c)
  BY <1>9, CopyStep
<1>10. CASE \E c \in Builders \ {b} : Stream(b, c)
  BY <1>10, StreamStep
<1> QED
  BY <1>1, <1>2, <1>3, <1>4, <1>5, <1>6, <1>7, <1>8, <1>9, <1>10

LEMMA StutterInv ==
  ASSUME IInv, UNCHANGED vars
  PROVE  IInv'
BY DEF IInv, vars

\* Whatever calls are made, memory, slices and histories keep to their types,
\* slices that share an array keep apart, and a builder that no call strayed
\* from holds the records it was given.
THEOREM BuilderInvariant == Spec => []IInv
<1>1. Init => IInv
  BY InitInv
<1>2. IInv /\ [Next]_vars => IInv'
  BY NextInv, StutterInv
<1> QED
  BY <1>1, <1>2, PTL DEF Spec

LEMMA InvOwner ==
  ASSUME IInv
  PROVE  OneOwner
<1>1. ASSUME NEW p \in Slices
      PROVE  /\ p[1] \in Builders /\ p[2] \in 1..Len(levels[p[1]])
             /\ SliceAt(p) = levels[p[1]][p[2]] /\ p = <<p[1], p[2]>>
             /\ SliceOK(mem, SliceAt(p))
  <2>1. p \in Builders \X (1..MaxDepth) /\ p[2] \in DOMAIN levels[p[1]]
    BY DEF Slices
  <2>2. p[1] \in Builders /\ p = <<p[1], p[2]>>
    BY <2>1
  <2>3. levels[p[1]] \in Seq(Slice)
    BY <2>2 DEF IInv, InvOf, LevelsOK
  <2>4. p[2] \in 1..Len(levels[p[1]])
    BY <2>1, <2>3
  <2>5. SliceOK(mem, levels[p[1]][p[2]])
    BY <2>2, <2>4 DEF IInv, InvOf, Owned
  <2> QED
    BY <2>2, <2>4, <2>5 DEF SliceAt
<1>2. ASSUME NEW p \in Slices, NEW r \in Slices, p # r PROVE Apart(SliceAt(p), SliceAt(r))
  <2>1. p[1] # r[1] \/ p[2] # r[2]
    BY <1>1, <1>2
  <2>2. Apart(levels[p[1]][p[2]], levels[r[1]][r[2]])
    BY <1>1, <2>1 DEF IInv, InvOf, Owned
  <2> QED
    BY <2>2 DEF SliceAt
<1> QED
  BY <1>1, <1>2 DEF OneOwner, SliceOK, Apart

\* Slices of builders that were cloned, copied, or cut and grown in any order
\* stay within their arrays, and where one can append in place it writes over
\* nothing that another shows.
THEOREM SlicesStayApart == Spec => []OneOwner
<1>1. IInv => OneOwner
  BY InvOwner
<1> QED
  BY <1>1, BuilderInvariant, PTL

LEMMA InvBuilt ==
  ASSUME IInv
  PROVE  Built
<1> SUFFICES ASSUME NEW b \in Builders \ strayed
             PROVE  /\ Contents(b) = [k \in DOMAIN given[b] |-> Due(given[b], k)]
                    /\ Len(levels[b]) > 1 => HasMark(b)
  BY DEF Built, Due
<1>1. /\ given[b] \in Seq(Level) /\ levels[b] \in Seq(Slice) /\ Len(given[b]) = Len(levels[b])
  BY GivenFacts
<1>2. DOMAIN given[b] = 1..Len(given[b]) /\ DOMAIN levels[b] = 1..Len(given[b])
  BY <1>1
<1>3. \A k \in 1..Len(given[b]) : BytesOf(mem, levels[b][k]) = Due(given[b], k)
  BY DEF IInv, InvOf, BuiltAt
<1> QED
  <2>1. PICK k : k = Len(levels[b]) - 1
    OBVIOUS
  <2>2. ASSUME Len(levels[b]) > 1 PROVE HasMark(b)
    <3>1. k > 0
      BY <1>1, <2>1, <2>2
    <3> QED
      BY <2>1, <3>1, MarkStands
  <2> QED
    BY <1>2, <1>3, <2>2 DEF Contents

\* A builder holds what it was given, level by level: FIRST elements and
\* containers as WriteTLKV encodes them, whichever arrays they were moved
\* through, and for each open container the mark that Outo reads back without
\* a panic.
THEOREM HoldsWhatItWasGiven == Spec => []Built
<1>1. IInv => Built
  BY InvBuilt
<1> QED
  BY <1>1, BuilderInvariant, PTL

\* No call changes what two builders hold that NewBuilder, Clone and Copy made,
\* neither a call that strays nor any later call on a builder it strayed from.
THEOREM CallsAreIsolated == Spec => Isolated
<1> DEFINE Apiece ==
      \A b, c \in Builders : b # c => Contents(b)' = Contents(b) \/ Contents(c)' = Contents(c)
<1>1. IInv /\ [Next]_vars => [Apiece]_vars
  <2> SUFFICES ASSUME IInv, Next PROVE Apiece
    OBVIOUS
  <2>1. PICK d \in Builders : Only(d)
    BY NextInv
  <2>2. \A c \in Builders \ {d} : Contents(c)' = Contents(c)
    BY <2>1 DEF Only
  <2> QED
    BY <2>2
<1>2. Spec => [][Apiece]_vars
  BY <1>1, BuilderInvariant, PTL DEF Spec
<1> QED
  BY <1>2 DEF Isolated
============================================================================
