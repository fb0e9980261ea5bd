---------------------------- MODULE MerkleProofs ----------------------------
(***************************************************************************)
(* The Merkle line commits to the leaves for any number of slots.          *)
(***************************************************************************)
EXTENDS Merkle7574, NumberFacts, SequenceTheorems, TLAPS

\* Trees double from slot to slot.
LEMMA TreeSizes ==
  /\ TreeSize[0] = 1
  /\ \A k \in 0..Slots : TreeSize[k] \in Nat \ {0}
  /\ \A k \in 0..(Slots - 1) : TreeSize[k + 1] = 2 * TreeSize[k]
<1>s. Slots \in Nat
  BY MerkleAssumption
<1> DEFINE F == [c \in (1..Slots) \X Nat |-> 2 * c[2]]
<1>1. F \in [(1..Slots) \X Nat -> Nat]
  OBVIOUS
<1>2. \A k \in 1..Slots, n \in Nat : F[<<k, n>>] = 2 * n
  OBVIOUS
<1> HIDE DEF F
<1>3. PICK g \in [0..Slots -> Nat] : g[0] = 1 /\ \A k \in 1..Slots : g[k] = F[<<k, g[k - 1]>>]
  <2>1. 1 \in Nat
    OBVIOUS
  <2>2. PICK g : Unfolds(g, Slots, Nat, 1, F)
    BY <1>s, <1>1, <2>1, RecursiveFunction
  <2> QED
    BY <2>2 DEF Unfolds
<1>4. \A k \in 0..Slots : g[k] = IF k = 0 THEN 1 ELSE 2 * g[k - 1]
  <2> SUFFICES ASSUME NEW k \in 0..Slots, k # 0 PROVE g[k] = 2 * g[k - 1]
    BY <1>3
  <2>1. k \in 1..Slots /\ k - 1 \in 0..Slots
    BY <1>s
  <2>2. g[k - 1] \in Nat
    BY <2>1
  <2> QED
    BY <1>2, <1>3, <2>1, <2>2
<1>5. g = [k \in 0..Slots |-> IF k = 0 THEN 1 ELSE 2 * g[k - 1]]
  BY <1>4
<1>6. TreeSize = [k \in 0..Slots |-> IF k = 0 THEN 1 ELSE 2 * TreeSize[k - 1]]
  BY <1>5, Zenon DEF TreeSize
<1> HIDE DEF TreeSize
<1>7. TreeSize[0] = 1
  BY <1>s, <1>6
<1>8. \A k \in 0..(Slots - 1) : TreeSize[k + 1] = 2 * TreeSize[k]
  <2> SUFFICES ASSUME NEW k \in 0..(Slots - 1) PROVE TreeSize[k + 1] = 2 * TreeSize[k]
    OBVIOUS
  <2>1. k + 1 \in 0..Slots /\ k + 1 # 0 /\ (k + 1) - 1 = k
    BY <1>s
  <2> QED
    BY <1>6, <2>1
<1> DEFINE T == {k \in 0..Slots : TreeSize[k] \in Nat \ {0}}
<1>9. 0 \in T
  BY <1>s, <1>7
<1>10. ASSUME NEW k \in 0..(Slots - 1), k \in T PROVE k + 1 \in T
  BY <1>s, <1>8, <1>10
<1>11. 0..Slots \subseteq T
  <2> HIDE DEF T
  <2> QED
    BY <1>s, <1>9, <1>10, Induction
<1> QED
  BY <1>7, <1>8, <1>11

\* Bits are bits, and a quotient is twice the next one and its bit.
LEMMA Bits ==
  ASSUME NEW n \in Nat, NEW k \in 0..(Slots - 1)
  PROVE  /\ k \in 0..Slots /\ k + 1 \in 0..Slots
         /\ n \div TreeSize[k] \in Nat /\ n \div TreeSize[k + 1] \in Nat
         /\ Bit(k, n) \in 0..1
         /\ n \div TreeSize[k] = 2 * (n \div TreeSize[k + 1]) + Bit(k, n)
         /\ n % TreeSize[k + 1] = Bit(k, n) * TreeSize[k] + (n % TreeSize[k])
<1>1. Slots \in Nat /\ k \in 0..Slots /\ k + 1 \in 0..Slots
  BY MerkleAssumption
<1>2. PICK b : b = TreeSize[k]
  OBVIOUS
<1>3. b \in Nat \ {0} /\ TreeSize[k + 1] = 2 * b
  BY <1>1, <1>2, TreeSizes
<1>4. PICK d : d = n \div b
  OBVIOUS
<1>5. d \in Nat
  BY <1>3, <1>4, DivMod
<1>6. n \div (2 * b) = d \div 2 /\ n % (2 * b) = (d % 2) * b + (n % b)
  BY <1>3, <1>4, DivTwice
<1>7. d \div 2 \in Nat /\ d % 2 \in 0..1 /\ d = 2 * (d \div 2) + (d % 2)
  BY <1>5
<1>8. Bit(k, n) = d % 2
  BY <1>2, <1>4 DEF Bit
<1> QED
  BY <1>1, <1>2, <1>3, <1>4, <1>5, <1>6, <1>7, <1>8

\* Below a slot, if there is no empty one, the remainder is the largest.
LEMMA LowOnes ==
  ASSUME NEW n \in Nat, NEW f \in 0..Slots, \A k \in 0..(f - 1) : Bit(k, n) = 1
  PROVE  \A k \in 0..f : n % TreeSize[k] = TreeSize[k] - 1
<1>0. f \in Nat /\ f <= Slots /\ Slots \in Nat
  BY MerkleAssumption
<1> DEFINE T == {k \in 0..f : n % TreeSize[k] = TreeSize[k] - 1}
<1>1. 0 \in T
  BY <1>0, TreeSizes
<1>2. ASSUME NEW k \in 0..(f - 1), k \in T PROVE k + 1 \in T
  <2>1. k \in 0..(Slots - 1) /\ k + 1 \in 0..f /\ k \in 0..Slots
    BY <1>0
  <2>2. PICK b : b = TreeSize[k]
    OBVIOUS
  <2>3. b \in Nat \ {0} /\ TreeSize[k + 1] = 2 * b
    BY <2>1, <2>2, TreeSizes
  <2>4. n % TreeSize[k + 1] = 1 * b + (n % b)
    BY <2>1, <2>2, Bits
  <2>5. n % b = b - 1
    BY <1>2, <2>2
  <2> QED
    BY <2>1, <2>3, <2>4, <2>5
<1>3. 0..f \subseteq T
  <2> HIDE DEF T
  <2> QED
    BY <1>0, <1>1, <1>2, Induction
<1> QED
  BY <1>3

\* What one more leaf does to the bits, f being the first one that is zero.
LEMMA Increment ==
  ASSUME NEW n \in Nat, NEW f \in 0..(Slots - 1),
         \A k \in 0..(f - 1) : Bit(k, n) = 1, Bit(f, n) = 0
  PROVE  /\ \A k \in 0..(f - 1) : Bit(k, n + 1) = 0
         /\ Bit(f, n + 1) = 1
         /\ (n \div TreeSize[f]) * TreeSize[f] + TreeSize[f] = n + 1
         /\ ((n + 1) \div TreeSize[f + 1]) * TreeSize[f + 1] = (n \div TreeSize[f]) * TreeSize[f]
         /\ \A k \in (f + 1)..Slots : (n + 1) \div TreeSize[k] = n \div TreeSize[k]
<1>0. f \in Nat /\ f \in 0..Slots /\ f + 1 \in 0..Slots /\ Slots \in Nat
  BY MerkleAssumption
<1>1. ASSUME NEW k \in 0..f
      PROVE  /\ n \div TreeSize[k] \in Nat
             /\ n + 1 = (n \div TreeSize[k] + 1) * TreeSize[k]
             /\ (n + 1) \div TreeSize[k] = n \div TreeSize[k] + 1
             /\ n + 1 = (n \div TreeSize[k]) * TreeSize[k] + TreeSize[k]
  <2>1. PICK b, d : b = TreeSize[k] /\ d = n \div b
    OBVIOUS
  <2>2. b \in Nat \ {0} /\ n % b = b - 1
    BY <1>0, <2>1, TreeSizes, LowOnes
  <2>3. d \in Nat /\ n = d * b + (b - 1)
    <3>1. n \div b \in Nat /\ n = (n \div b) * b + (n % b)
      BY <2>2, DivMod
    <3> QED
      BY <2>1, <2>2, <3>1
  <2>4. d * b \in Nat /\ (d + 1) * b = d * b + b
    BY <2>2, <2>3
  <2>5. n + 1 = (d + 1) * b + 0 /\ n + 1 = (d + 1) * b /\ n + 1 = d * b + b
    BY <2>2, <2>3, <2>4
  <2>6. (n + 1) \div b = d + 1
    <3>1. 0 \in 0..(b - 1) /\ d + 1 \in Nat /\ n + 1 \in Nat
      BY <2>2, <2>3
    <3> QED
      BY <2>2, <2>5, <3>1, DivUnique
  <2> QED
    BY <2>1, <2>3, <2>5, <2>6
<1>2. ASSUME NEW k \in 0..(f - 1) PROVE Bit(k, n + 1) = 0
  <2>1. k \in 0..f /\ Bit(k, n) = 1
    BY <1>0
  <2>2. PICK d : d = n \div TreeSize[k]
    OBVIOUS
  <2>3. d \in Nat /\ (n + 1) \div TreeSize[k] = d + 1
    BY <1>1, <2>1, <2>2
  <2>4. d % 2 = 1
    BY <2>1, <2>2 DEF Bit
  <2>5. (d + 1) % 2 = 0
    BY <2>3, <2>4
  <2> QED
    BY <2>3, <2>5 DEF Bit
<1>3. PICK b, d : b = TreeSize[f] /\ d = n \div b
  OBVIOUS
<1>4. /\ b \in Nat \ {0} /\ TreeSize[f + 1] = 2 * b /\ d \in Nat
      /\ (n + 1) \div b = d + 1 /\ n + 1 = d * b + b
  BY <1>0, <1>1, <1>3, TreeSizes
<1>5. d % 2 = 0
  BY <1>3 DEF Bit
<1>6. Bit(f, n + 1) = 1
  <2>1. (d + 1) % 2 = 1
    BY <1>4, <1>5
  <2> QED
    BY <1>3, <1>4, <2>1 DEF Bit
<1>7. (n + 1) \div (2 * b) = d \div 2 /\ n \div (2 * b) = d \div 2
  <2>1. n \div (2 * b) = d \div 2
    BY <1>3, <1>4, DivTwice
  <2>2. (n + 1) \div (2 * b) = (d + 1) \div 2
    <3>1. n + 1 \in Nat
      OBVIOUS
    <3>2. (n + 1) \div (2 * b) = ((n + 1) \div b) \div 2
      BY <1>4, <3>1, DivTwice
    <3> QED
      BY <1>4, <3>2
  <2>3. (d + 1) \div 2 = d \div 2
    BY <1>4, <1>5
  <2> QED
    BY <2>1, <2>2, <2>3
<1>8. (d \div 2) * (2 * b) = d * b
  <2>1. PICK m : m = d \div 2
    OBVIOUS
  <2>2. m \in Nat /\ d = 2 * m
    BY <1>4, <1>5, <2>1
  <2>3. m * (2 * b) = (2 * m) * b
    BY <1>4, <2>2
  <2> QED
    BY <2>1, <2>2, <2>3
<1>9. \A k \in (f + 1)..Slots : (n + 1) \div TreeSize[k] = n \div TreeSize[k]
  <2> DEFINE T == {j \in 0..(Slots - f - 1) :
                     (n + 1) \div TreeSize[f + 1 + j] = n \div TreeSize[f + 1 + j]}
  <2>1. 0 \in T
    BY <1>0, <1>4, <1>7
  <2>2. ASSUME NEW j \in 0..(Slots - f - 2), j \in T PROVE j + 1 \in T
    <3>1. PICK k : k = f + 1 + j
      OBVIOUS
    <3>2. /\ k \in 0..(Slots - 1) /\ k \in 0..Slots /\ k + 1 \in 0..Slots
          /\ f + 1 + (j + 1) = k + 1 /\ j + 1 \in 0..(Slots - f - 1)
      BY <1>0, <3>1
    <3>3. PICK e : e = TreeSize[k]
      OBVIOUS
    <3>4. e \in Nat \ {0} /\ TreeSize[k + 1] = 2 * e
      BY <3>2, <3>3, TreeSizes
    <3>5. (n + 1) \div e = n \div e
      BY <2>2, <3>1, <3>3
    <3>6. (n + 1) \div (2 * e) = n \div (2 * e)
      <4>1. n + 1 \in Nat
        OBVIOUS
      <4>2. (n + 1) \div (2 * e) = ((n + 1) \div e) \div 2
        BY <3>4, <4>1, DivTwice
      <4>3. n \div (2 * e) = (n \div e) \div 2
        BY <3>4, DivTwice
      <4> QED
        BY <3>5, <4>2, <4>3
    <3>7. (n + 1) \div TreeSize[f + 1 + (j + 1)] = n \div TreeSize[f + 1 + (j + 1)]
      BY <3>2, <3>4, <3>6
    <3> QED
      BY <3>2, <3>7
  <2>3. 0..(Slots - f - 1) \subseteq T
    <3>1. Slots - f - 1 \in Nat /\ (Slots - f - 1) - 1 = Slots - f - 2
      BY <1>0
    <3> HIDE DEF T
    <3> QED
      BY <2>1, <2>2, <3>1, Induction
  <2> SUFFICES ASSUME NEW k \in (f + 1)..Slots
               PROVE  (n + 1) \div TreeSize[k] = n \div TreeSize[k]
    OBVIOUS
  <2>4. PICK j \in 0..(Slots - f - 1) : f + 1 + j = k
    <3>1. k - f - 1 \in 0..(Slots - f - 1) /\ f + 1 + (k - f - 1) = k
      BY <1>0
    <3> QED
      BY <3>1
  <2> QED
    BY <2>3, <2>4
<1> QED
  BY <1>2, <1>3, <1>4, <1>6, <1>7, <1>8, <1>9
-----------------------------------------------------------------------------
\* hashes, of trees or of nothing
Hashes == [height : Int, leaves : Seq(Leaves)]

MerkleTypeOK ==
  /\ line \in [0..(Slots - 1) -> Hashes]
  /\ appended \in Seq(Leaves)
  /\ phase \in {"ready", "panic"}

\* the count has no bit beyond the line
LineHolds == phase = "ready" => Len(appended) \div TreeSize[Slots] = 0

MInv == MerkleTypeOK /\ LineHolds /\ Commits

\* The loop's end is the first empty slot.
LEMMA FirstEmptyFacts ==
  ASSUME MerkleTypeOK
  PROVE  /\ FirstEmpty \in 0..Slots
         /\ \A k \in 0..(FirstEmpty - 1) : line[k] # Sha256Zero
         /\ FirstEmpty < Slots => FirstEmpty \in 0..(Slots - 1) /\ line[FirstEmpty] = Sha256Zero
<1>0. Slots \in Nat
  BY MerkleAssumption
<1> DEFINE S == {k \in 0..(Slots - 1) : line[k] = Sha256Zero} \cup {Slots}
<1>1. S \subseteq Nat /\ S # {} /\ S \subseteq 0..Slots
  BY <1>0
<1>2. FirstEmpty = CHOOSE x \in S : \A y \in S : x =< y
  BY DEF FirstEmpty, Min
<1> HIDE DEF S
<1>3. \E m \in S : \A k \in S : m <= k
  BY <1>1, LeastNumber
<1>4. FirstEmpty \in S /\ \A k \in S : FirstEmpty <= k
  BY <1>2, <1>3
<1>5. FirstEmpty \in 0..Slots
  BY <1>1, <1>4
<1>6. ASSUME NEW k \in 0..(FirstEmpty - 1), line[k] = Sha256Zero PROVE FALSE
  <2>1. k \in 0..(Slots - 1) /\ ~(FirstEmpty <= k)
    BY <1>0, <1>5
  <2>2. k \in S
    BY <1>6, <2>1 DEF S
  <2> QED
    BY <1>4, <2>1, <2>2
<1>7. FirstEmpty < Slots => FirstEmpty \in 0..(Slots - 1) /\ line[FirstEmpty] = Sha256Zero
  BY <1>0, <1>4, <1>5 DEF S
<1> QED
  BY <1>5, <1>6, <1>7

\* Hashing makes hashes, one level up.
LEMMA Merkle2Facts ==
  ASSUME NEW a \in Hashes, NEW b \in Hashes
  PROVE  /\ Merkle2(a, b) \in Hashes
         /\ a.height = b.height =>
              Merkle2(a, b) = [height |-> a.height + 1, leaves |-> a.leaves \o b.leaves]
<1>1. /\ a.height \in Int /\ b.height \in Int
      /\ a.leaves \in Seq(Leaves) /\ b.leaves \in Seq(Leaves)
  BY DEF Hashes
<1>2. PICK m, S : S = {a.height, b.height} /\ m = Max(S)
  OBVIOUS
<1>3. \E x \in S : \A y \in S : x >= y
  <2>1. CASE a.height >= b.height
    BY <1>1, <1>2, <2>1
  <2>2. CASE b.height >= a.height
    BY <1>1, <1>2, <2>2
  <2> QED
    BY <1>1, <2>1, <2>2
<1>4. m \in S
  BY <1>2, <1>3 DEF Max
<1>5. m \in Int /\ (a.height = b.height => m = a.height)
  BY <1>1, <1>2, <1>4
<1>6. Merkle2(a, b) = [height |-> m + 1, leaves |-> a.leaves \o b.leaves]
  BY <1>2 DEF Merkle2
<1>7. a.leaves \o b.leaves \in Seq(Leaves)
  BY <1>1, ConcatProperties
<1>8. m + 1 \in Int
  BY <1>5
<1>9. Merkle2(a, b) \in Hashes
  BY <1>6, <1>7, <1>8 DEF Hashes
<1>10. ASSUME a.height = b.height
       PROVE  Merkle2(a, b) = [height |-> a.height + 1, leaves |-> a.leaves \o b.leaves]
  BY <1>5, <1>6, <1>10
<1> QED
  BY <1>9, <1>10

\* What the loop carries, iteration by iteration.
Carries(next, p) ==
  /\ p \in [0..Slots -> Hashes]
  /\ p[0] = Leaf(next)
  /\ \A k \in 1..Slots : p[k] = Merkle2(line[k - 1], p[k - 1])

LEMMA CarriedFacts ==
  ASSUME MerkleTypeOK, NEW next \in Leaves
  PROVE  \E p : Carries(next, p) /\ Carried(next) = p[FirstEmpty]
<1>s. Slots \in Nat
  BY MerkleAssumption
<1>l. \A k \in 1..Slots : line[k - 1] \in Hashes
  <2> SUFFICES ASSUME NEW k \in 1..Slots PROVE line[k - 1] \in Hashes
    OBVIOUS
  <2>1. k - 1 \in 0..(Slots - 1)
    BY <1>s
  <2> QED
    BY <2>1 DEF MerkleTypeOK
<1>a. Leaf(next) \in Hashes
  BY DEF Leaf, Hashes
<1> DEFINE F == [c \in (1..Slots) \X Hashes |-> Merkle2(line[c[1] - 1], c[2])]
<1>1. F \in [(1..Slots) \X Hashes -> Hashes]
  <2>1. ASSUME NEW c \in (1..Slots) \X Hashes PROVE Merkle2(line[c[1] - 1], c[2]) \in Hashes
    <3>1. c[1] \in 1..Slots /\ c[2] \in Hashes
      OBVIOUS
    <3> QED
      BY <1>l, <3>1, Merkle2Facts
  <2> QED
    BY <2>1
<1>2. \A k \in 1..Slots, h \in Hashes : F[<<k, h>>] = Merkle2(line[k - 1], h)
  OBVIOUS
<1> HIDE DEF F
<1>3. PICK g : Unfolds(g, Slots, Hashes, Leaf(next), F)
  BY <1>s, <1>a, <1>1, RecursiveFunction
<1> DEFINE Def(h) == h = [k \in 0..Slots |-> IF k = 0 THEN Leaf(next)
                                             ELSE Merkle2(line[k - 1], h[k - 1])]
<1>4. Carries(next, g)
  <2>1. ASSUME NEW k \in 1..Slots PROVE g[k] = Merkle2(line[k - 1], g[k - 1])
    <3>1. k - 1 \in 0..Slots
      BY <1>s
    <3>2. g[k - 1] \in Hashes /\ g[k] = F[<<k, g[k - 1]>>]
      BY <1>3, <3>1 DEF Unfolds
    <3> QED
      BY <1>2, <3>2
  <2> QED
    BY <1>3, <2>1 DEF Unfolds, Carries
<1>5. Def(g)
  <2>1. g = [k \in 0..Slots |-> g[k]]
    BY <1>4 DEF Carries
  <2>2. \A k \in 0..Slots : g[k] = IF k = 0 THEN Leaf(next) ELSE Merkle2(line[k - 1], g[k - 1])
    <3> SUFFICES ASSUME NEW k \in 0..Slots, k # 0 PROVE g[k] = Merkle2(line[k - 1], g[k - 1])
      BY <1>4 DEF Carries
    <3>1. k \in 1..Slots
      BY <1>s
    <3> QED
      BY <1>4, <3>1 DEF Carries
  <2> QED
    BY <2>1, <2>2
<1> DEFINE p == CHOOSE h : Def(h)
<1>6. Def(p)
  <2> HIDE DEF Def
  <2> QED
    BY <1>5
<1>7. Carried(next) = p[FirstEmpty]
  BY DEF Carried
<1> HIDE DEF p
<1>8. /\ p[0] = Leaf(next)
      /\ \A k \in 1..Slots : p[k] = Merkle2(line[k - 1], p[k - 1])
  <2>1. 0 \in 0..Slots /\ \A k \in 1..Slots : k \in 0..Slots /\ k # 0
    BY <1>s
  <2> QED
    BY <1>6, <2>1
<1>9. p \in [0..Slots -> Hashes]
  <2> DEFINE T == {k \in 0..Slots : p[k] \in Hashes}
  <2>1. 0 \in T
    BY <1>s, <1>a, <1>8
  <2>2. ASSUME NEW k \in 0..(Slots - 1), k \in T PROVE k + 1 \in T
    <3>1. k + 1 \in 1..Slots /\ k + 1 \in 0..Slots /\ (k + 1) - 1 = k
      BY <1>s
    <3>2. p[k + 1] = Merkle2(line[k], p[k]) /\ line[k] \in Hashes /\ p[k] \in Hashes
      BY <1>l, <1>8, <2>2, <3>1
    <3> QED
      BY <3>1, <3>2, Merkle2Facts
  <2>3. 0..Slots \subseteq T
    <3> HIDE DEF T
    <3> QED
      BY <1>s, <2>1, <2>2, Induction
  <2> QED
    BY <1>6, <2>3
<1> QED
  BY <1>7, <1>8, <1>9 DEF Carries

\* Appending changes no part of what was there.
LEMMA SubSeqAppend ==
  ASSUME NEW S, NEW s \in Seq(S), NEW e \in S, NEW m \in Nat \ {0}, NEW n \in Nat, n <= Len(s)
  PROVE  SubSeq(Append(s, e), m, n) = SubSeq(s, m, n)
<1>1. /\ Append(s, e) \in Seq(S) /\ Len(Append(s, e)) = Len(s) + 1
      /\ \A k \in 1..Len(s) : Append(s, e)[k] = s[k]
  BY AppendProperties
<1>2. PICK t : t = Append(s, e)
  OBVIOUS
<1>3. \A k \in m..n : k \in 1..Len(s) /\ s[k] \in S /\ t[k] = s[k]
  BY <1>1, <1>2
<1>4. /\ SubSeq(s, m, n) \in Seq(S) /\ SubSeq(t, m, n) \in Seq(S)
      /\ Len(SubSeq(s, m, n)) = Len(SubSeq(t, m, n))
      /\ Len(SubSeq(s, m, n)) = IF m <= n THEN n - m + 1 ELSE 0
      /\ \A i \in 1..(n - m + 1) : SubSeq(s, m, n)[i] = s[m + i - 1]
      /\ \A i \in 1..(n - m + 1) : SubSeq(t, m, n)[i] = t[m + i - 1]
  <2>1. m \in Int /\ n \in Int
    OBVIOUS
  <2>2. /\ SubSeq(s, m, n) \in Seq(S)
        /\ Len(SubSeq(s, m, n)) = IF m <= n THEN n - m + 1 ELSE 0
        /\ \A i \in 1..(n - m + 1) : SubSeq(s, m, n)[i] = s[m + i - 1]
    BY <1>3, <2>1, SubSeqProperties
  <2>3. /\ SubSeq(t, m, n) \in Seq(S)
        /\ Len(SubSeq(t, m, n)) = IF m <= n THEN n - m + 1 ELSE 0
        /\ \A i \in 1..(n - m + 1) : SubSeq(t, m, n)[i] = t[m + i - 1]
    BY <1>3, <2>1, SubSeqProperties
  <2> QED
    BY <2>2, <2>3
<1>5. ASSUME NEW i \in 1..Len(SubSeq(s, m, n)) PROVE SubSeq(s, m, n)[i] = SubSeq(t, m, n)[i]
  <2>1. i \in 1..(n - m + 1) /\ m + i - 1 \in m..n
    BY <1>4
  <2> QED
    BY <1>3, <1>4, <2>1
<1>6. SubSeq(s, m, n) = SubSeq(t, m, n)
  BY <1>4, <1>5, SeqEqual
<1> QED
  BY <1>2, <1>6

\* Where the tree of slot k starts and ends, if there is one.
LEMMA TreeFits ==
  ASSUME NEW n \in Nat, NEW k \in 0..(Slots - 1)
  PROVE  /\ TreeSize[k] \in Nat \ {0}
         /\ (n \div TreeSize[k + 1]) * TreeSize[k + 1] \in Nat
         /\ (n \div TreeSize[k]) * TreeSize[k] \in Nat
         /\ (n \div TreeSize[k]) * TreeSize[k] <= n
         /\ Bit(k, n) = 1 => (n \div TreeSize[k]) * TreeSize[k]
                                = (n \div TreeSize[k + 1]) * TreeSize[k + 1] + TreeSize[k]
<1>1. PICK b, d, m, e : b = TreeSize[k] /\ d = n \div b /\ m = n \div TreeSize[k + 1] /\ e = Bit(k, n)
  OBVIOUS
<1>2. k \in 0..Slots /\ d \in Nat /\ m \in Nat /\ e \in 0..1 /\ d = 2 * m + e
  BY <1>1, Bits
<1>3. b \in Nat \ {0} /\ TreeSize[k + 1] = 2 * b
  BY <1>1, <1>2, TreeSizes
<1>4. d * b \in Nat /\ m * (2 * b) \in Nat
  BY <1>2, <1>3
<1>5. d * b <= n
  <2>1. n % b \in 0..(b - 1) /\ n = (n \div b) * b + (n % b)
    BY <1>3, DivMod
  <2>2. n % b >= 0 /\ n % b \in Int
    BY <1>3, <2>1
  <2> QED
    BY <1>1, <1>4, <2>1, <2>2
<1>6. e = 1 => d * b = m * (2 * b) + b
  BY <1>2, <1>3
<1> QED
  BY <1>1, <1>3, <1>4, <1>5, <1>6

\* After k iterations the loop carries the perfect tree over the last leaves.
LastTree(k, s, n) ==
  [height |-> k, leaves |-> SubSeq(s, (n \div TreeSize[k]) * TreeSize[k] + 1, n + 1)]

LEMMA CarriedTree ==
  ASSUME MInv, phase = "ready", NEW next \in Leaves, NEW p, Carries(next, p),
         NEW f \in 0..Slots, \A k \in 0..(f - 1) : Bit(k, Len(appended)) = 1,
         NEW k \in 0..f
  PROVE  p[k] = LastTree(k, Append(appended, next), Len(appended))
<1>n. PICK n, s : n = Len(appended) /\ s = Append(appended, next)
  OBVIOUS
<1>0. f \in Nat /\ f <= Slots /\ Slots \in Nat
  BY MerkleAssumption
<1>1. appended \in Seq(Leaves) /\ n \in Nat
  BY <1>n DEF MInv, MerkleTypeOK
<1>2. s \in Seq(Leaves) /\ Len(s) = n + 1 /\ s[n + 1] = next
  BY <1>n, <1>1, AppendProperties
<1> DEFINE T == {j \in 0..f : p[j] = LastTree(j, s, n)}
<1>3. 0 \in T
  <2>1. n \div TreeSize[0] = n /\ TreeSize[0] = 1
    BY <1>1, TreeSizes
  <2>2. (n \div TreeSize[0]) * TreeSize[0] + 1 = n + 1
    BY <1>1, <2>1
  <2>3. SubSeq(s, n + 1, n + 1) = <<next>>
    <3>m. PICK m : m = n + 1
      OBVIOUS
    <3>1. m \in Int /\ \A i \in m..m : s[i] \in Leaves
      BY <1>1, <1>2, <3>m
    <3>2. /\ SubSeq(s, m, m) \in Seq(Leaves)
          /\ Len(SubSeq(s, m, m)) = 1
          /\ SubSeq(s, m, m)[1] = s[m]
      <4>1. /\ SubSeq(s, m, m) \in Seq(Leaves)
            /\ Len(SubSeq(s, m, m)) = IF m <= m THEN m - m + 1 ELSE 0
            /\ \A i \in 1..(m - m + 1) : SubSeq(s, m, m)[i] = s[m + i - 1]
        BY <3>1, SubSeqProperties
      <4>2. m - m + 1 = 1 /\ m + 1 - 1 = m /\ m <= m /\ 1 \in 1..1
        BY <3>1
      <4> QED
        BY <4>1, <4>2
    <3>3. <<next>> \in Seq(Leaves) /\ Len(<<next>>) = 1 /\ <<next>>[1] = next
      OBVIOUS
    <3>4. \A i \in 1..1 : i = 1
      OBVIOUS
    <3> QED
      BY <1>2, <3>m, <3>2, <3>3, <3>4, SeqEqual
  <2>4. p[0] = [height |-> 0, leaves |-> <<next>>]
    BY DEF Carries, Leaf
  <2>5. LastTree(0, s, n) = [height |-> 0, leaves |-> <<next>>]
    BY <2>2, <2>3 DEF LastTree
  <2> QED
    BY <1>0, <2>4, <2>5
<1>4. ASSUME NEW j \in 0..(f - 1), j \in T PROVE j + 1 \in T
  <2>1. /\ j \in 0..(Slots - 1) /\ j + 1 \in 0..f /\ j + 1 \in 1..Slots /\ (j + 1) - 1 = j
        /\ j \in 0..Slots
    BY <1>0
  <2>2. Bit(j, n) = 1
    BY <1>n
  <2>3. PICK lo, mid, b : /\ lo = (n \div TreeSize[j + 1]) * TreeSize[j + 1]
                          /\ mid = (n \div TreeSize[j]) * TreeSize[j]
                          /\ b = TreeSize[j]
    OBVIOUS
  <2>4. lo \in Nat /\ mid \in Nat /\ mid <= n /\ b \in Nat \ {0} /\ mid = lo + b
    BY <1>1, <2>1, <2>2, <2>3, TreeFits
  <2>5. line[j] = [height |-> j, leaves |-> SubSeq(appended, lo + 1, lo + b)]
    BY <1>n, <2>1, <2>2, <2>3 DEF MInv, Commits, TreeOf
  <2>6. SubSeq(appended, lo + 1, lo + b) = SubSeq(s, lo + 1, mid)
    <3>1. lo + 1 \in Nat \ {0}
      BY <2>4
    <3> QED
      BY <1>n, <1>1, <2>4, <3>1, SubSeqAppend
  <2>7. p[j] = [height |-> j, leaves |-> SubSeq(s, mid + 1, n + 1)]
    BY <1>4, <2>3 DEF LastTree
  <2>8. p[j + 1] = Merkle2(line[j], p[j])
    BY <2>1 DEF Carries
  <2>9. line[j] \in Hashes /\ p[j] \in Hashes
    BY <2>1 DEF MInv, MerkleTypeOK, Carries
  <2>x. PICK x, y : x = SubSeq(s, lo + 1, mid) /\ y = SubSeq(s, mid + 1, n + 1)
    OBVIOUS
  <2>h. line[j].height = j /\ p[j].height = j /\ line[j].leaves = x /\ p[j].leaves = y
    <3>1. line[j] = [height |-> j, leaves |-> x] /\ p[j] = [height |-> j, leaves |-> y]
      BY <2>5, <2>6, <2>7, <2>x
    <3> QED
      BY <3>1
  <2>10. p[j + 1] = [height |-> j + 1, leaves |-> x \o y]
    <3>1. Merkle2(line[j], p[j])
            = [height |-> line[j].height + 1, leaves |-> line[j].leaves \o p[j].leaves]
      BY <2>h, <2>9, Merkle2Facts
    <3> QED
      BY <2>h, <2>8, <3>1
  <2>11. SubSeq(s, lo + 1, mid) \o SubSeq(s, mid + 1, n + 1) = SubSeq(s, lo + 1, n + 1)
    <3>1. lo + 1 \in 1..(Len(s) + 1) /\ mid \in ((lo + 1) - 1)..Len(s) /\ n + 1 \in mid..Len(s)
      BY <1>1, <1>2, <2>4
    <3> QED
      BY <1>2, <3>1, ConcatAdjacentSubSeq
  <2>12. p[j + 1] = [height |-> j + 1, leaves |-> SubSeq(s, lo + 1, n + 1)]
    BY <2>x, <2>10, <2>11
  <2> QED
    BY <2>1, <2>3, <2>12 DEF LastTree
<1>5. 0..f \subseteq T
  <2> HIDE DEF T
  <2> QED
    BY <1>0, <1>3, <1>4, Induction
<1> QED
  BY <1>n, <1>5
-----------------------------------------------------------------------------
\* An empty line commits to nothing.
LEMMA EmptyLine == MerkleInit => MInv
<1> SUFFICES ASSUME MerkleInit PROVE MInv
  OBVIOUS
<1>0. Slots \in Nat /\ Slots \in 0..Slots
  BY MerkleAssumption
<1>1. MerkleTypeOK
  <2>1. Sha256Zero \in Hashes
    BY DEF Sha256Zero, Hashes
  <2> QED
    BY <2>1 DEF MerkleInit, MerkleTypeOK
<1>2. Len(appended) = 0
  BY DEF MerkleInit
<1>3. ASSUME NEW k \in 0..Slots PROVE 0 \div TreeSize[k] = 0
  <2>1. PICK b : b = TreeSize[k]
    OBVIOUS
  <2>2. b \in Nat \ {0}
    BY <2>1, TreeSizes
  <2>3. 0 \in 0..(b - 1) /\ 0 = 0 * b + 0
    BY <2>2
  <2>4. 0 \div b = 0
    BY <2>2, <2>3, DivUnique
  <2> QED
    BY <2>1, <2>4
<1>4. LineHolds
  BY <1>0, <1>2, <1>3 DEF LineHolds
<1>5. Commits
  <2> SUFFICES ASSUME NEW k \in 0..(Slots - 1)
               PROVE  Bit(k, 0) = 0 /\ line[k] = Sha256Zero
    BY <1>2 DEF Commits, MerkleInit
  <2>1. k \in 0..Slots
    BY <1>0
  <2> QED
    BY <1>3, <2>1 DEF Bit, MerkleInit
<1> QED
  BY <1>1, <1>4, <1>5 DEF MInv

\* Empty slots are the zeroes of the count.
LEMMA SlotsAreBits ==
  ASSUME MInv, phase = "ready", NEW k \in 0..(Slots - 1)
  PROVE  /\ line[k] = Sha256Zero <=> Bit(k, Len(appended)) = 0
         /\ line[k] # Sha256Zero <=> Bit(k, Len(appended)) = 1
<1>1. Len(appended) \in Nat
  BY DEF MInv, MerkleTypeOK
<1>2. Bit(k, Len(appended)) \in 0..1
  BY <1>1, Bits
<1>3. line[k] = IF Bit(k, Len(appended)) = 0 THEN Sha256Zero ELSE TreeOf(k, appended)
  BY DEF MInv, Commits
<1>4. TreeOf(k, appended) # Sha256Zero
  <2>1. TreeOf(k, appended).height = k
    BY DEF TreeOf
  <2>2. Sha256Zero.height = -1
    BY DEF Sha256Zero
  <2>3. k # -1
    OBVIOUS
  <2> QED
    BY <2>1, <2>2, <2>3
<1> QED
  BY <1>2, <1>3, <1>4

\* Append that finds room carries the bits of the count.
LEMMA AppendCommits ==
  ASSUME MInv, NEW next \in Leaves, AppendHash(next)
  PROVE  MInv'
<1>0. Slots \in Nat
  BY MerkleAssumption
<1>1. phase = "ready" /\ phase' = "ready" /\ FirstEmpty < Slots /\ appended' = Append(appended, next)
  BY DEF AppendHash
<1>t. MerkleTypeOK
  BY DEF MInv
<1>n. PICK n, f, s : n = Len(appended) /\ f = FirstEmpty /\ s = appended'
  OBVIOUS
<1>2. /\ appended \in Seq(Leaves) /\ n \in Nat /\ s = Append(appended, next)
      /\ s \in Seq(Leaves) /\ Len(s) = n + 1
  BY <1>t, <1>1, <1>n, AppendProperties DEF MerkleTypeOK
<1>3. /\ f \in 0..(Slots - 1) /\ f \in 0..Slots
      /\ \A k \in 0..(f - 1) : k \in 0..(Slots - 1) /\ line[k] # Sha256Zero
      /\ line[f] = Sha256Zero
  <2>1. /\ f \in 0..(Slots - 1) /\ f \in 0..Slots /\ line[f] = Sha256Zero
        /\ \A k \in 0..(f - 1) : line[k] # Sha256Zero
    BY <1>t, <1>1, <1>n, FirstEmptyFacts
  <2>2. \A k \in 0..(f - 1) : k \in 0..(Slots - 1)
    BY <1>0, <2>1
  <2> QED
    BY <2>1, <2>2
<1>4. (\A k \in 0..(f - 1) : Bit(k, n) = 1) /\ Bit(f, n) = 0
  BY <1>1, <1>n, <1>3, SlotsAreBits
<1>5. /\ \A k \in 0..(f - 1) : Bit(k, n + 1) = 0
      /\ Bit(f, n + 1) = 1
      /\ (n \div TreeSize[f]) * TreeSize[f] + TreeSize[f] = n + 1
      /\ ((n + 1) \div TreeSize[f + 1]) * TreeSize[f + 1] = (n \div TreeSize[f]) * TreeSize[f]
      /\ \A k \in (f + 1)..Slots : (n + 1) \div TreeSize[k] = n \div TreeSize[k]
  BY <1>2, <1>3, <1>4, Increment
<1>6. PICK p : Carries(next, p) /\ Carried(next) = p[f]
  BY <1>t, <1>n, CarriedFacts
<1>7. p[f] \in Hashes
  BY <1>3, <1>6 DEF Carries
<1>8. p[f] = LastTree(f, s, n)
  <2>1. f \in 0..f
    BY <1>3
  <2>2. \A k \in 0..(f - 1) : Bit(k, Len(appended)) = 1
    BY <1>n, <1>4
  <2>3. /\ phase = "ready" /\ Carries(next, p) /\ f \in 0..Slots
        /\ s = Append(appended, next) /\ n = Len(appended)
    BY <1>1, <1>n, <1>2, <1>3, <1>6
  <2>4. p[f] = LastTree(f, Append(appended, next), Len(appended))
    BY <2>1, <2>2, <2>3, CarriedTree
  <2> QED
    BY <2>3, <2>4
<1>9. ASSUME NEW k \in 0..(Slots - 1)
      PROVE  line'[k] = IF k = f THEN p[f] ELSE IF k < f THEN Sha256Zero ELSE line[k]
  <2>1. line' = [ClearedLine EXCEPT ![f] = p[f]]
    BY <1>n, <1>6 DEF AppendHash
  <2>2. ClearedLine = [j \in 0..(Slots - 1) |-> IF j < f THEN Sha256Zero ELSE line[j]]
    BY <1>n DEF ClearedLine
  <2> QED
    BY <2>1, <2>2
<1>10. MerkleTypeOK'
  <2>1. Sha256Zero \in Hashes
    BY DEF Sha256Zero, Hashes
  <2>2. line' \in [0..(Slots - 1) -> Hashes]
    <3>1. \A k \in 0..(Slots - 1) : line'[k] \in Hashes
      BY <1>t, <1>7, <1>9, <2>1 DEF MerkleTypeOK
    <3>2. line' = [k \in 0..(Slots - 1) |-> line'[k]]
      BY DEF AppendHash, ClearedLine
    <3> QED
      BY <3>1, <3>2
  <2> QED
    BY <1>n, <1>1, <1>2, <2>2 DEF MerkleTypeOK
<1>11. LineHolds'
  <2>1. Slots \in (f + 1)..Slots
    BY <1>0, <1>3
  <2>2. (n + 1) \div TreeSize[Slots] = n \div TreeSize[Slots]
    BY <1>5, <2>1
  <2>3. n \div TreeSize[Slots] = 0
    BY <1>1, <1>n DEF MInv, LineHolds
  <2> QED
    BY <1>n, <1>2, <2>2, <2>3 DEF LineHolds
<1>12. ASSUME NEW k \in 0..(Slots - 1)
       PROVE  line'[k] = IF Bit(k, n + 1) = 0 THEN Sha256Zero ELSE TreeOf(k, s)
  <2>1. CASE k < f
    <3>1. k \in 0..(f - 1)
      BY <1>3, <2>1
    <3> QED
      BY <1>3, <1>5, <1>9, <2>1, <3>1
  <2>2. CASE k = f
    <3>1. TreeOf(f, s) = LastTree(f, s, n)
      BY <1>2, <1>5 DEF TreeOf, LastTree
    <3>2. TreeOf(k, s) = p[f]
      BY <1>8, <2>2, <3>1
    <3>3. line'[k] = p[f] /\ Bit(k, n + 1) = 1
      BY <1>5, <1>9, <2>2
    <3> QED
      BY <3>2, <3>3
  <2>3. CASE k > f
    <3>1. k \in (f + 1)..Slots /\ k + 1 \in (f + 1)..Slots
      BY <1>0, <1>3, <2>3
    <3>2. PICK lo, b : lo = (n \div TreeSize[k + 1]) * TreeSize[k + 1] /\ b = TreeSize[k]
      OBVIOUS
    <3>3. Bit(k, n + 1) = Bit(k, n)
      BY <1>5, <3>1 DEF Bit
    <3>4. TreeOf(k, s) = [height |-> k, leaves |-> SubSeq(s, lo + 1, lo + b)]
      BY <1>2, <1>5, <3>1, <3>2 DEF TreeOf
    <3>5. TreeOf(k, appended) = [height |-> k, leaves |-> SubSeq(appended, lo + 1, lo + b)]
      BY <1>n, <3>2 DEF TreeOf
    <3>6. ASSUME Bit(k, n) = 1 PROVE TreeOf(k, s) = TreeOf(k, appended)
      <4>1. lo \in Nat /\ b \in Nat /\ lo + b <= n
        BY <1>2, <3>2, <3>6, TreeFits
      <4>2. lo + 1 \in Nat \ {0} /\ lo + b \in Nat
        BY <4>1
      <4>3. SubSeq(s, lo + 1, lo + b) = SubSeq(appended, lo + 1, lo + b)
        BY <1>n, <1>2, <4>1, <4>2, SubSeqAppend
      <4> QED
        BY <3>4, <3>5, <4>3
    <3>7. Bit(k, n) \in 0..1
      BY <1>2, Bits
    <3>8. line[k] = IF Bit(k, n) = 0 THEN Sha256Zero ELSE TreeOf(k, appended)
      BY <1>1, <1>n DEF MInv, Commits
    <3>9. line'[k] = line[k]
      BY <1>3, <1>9, <2>3
    <3> QED
      BY <3>3, <3>6, <3>7, <3>8, <3>9
  <2> QED
    BY <1>3, <2>1, <2>2, <2>3
<1>13. Commits'
  BY <1>1, <1>n, <1>2, <1>12 DEF Commits, Bit, TreeOf
<1> QED
  BY <1>10, <1>11, <1>13 DEF MInv

\* Append that finds none has a root in every slot.
LEMMA PanicCommits ==
  ASSUME MInv, AppendPanics
  PROVE  MInv'
<1>0. Slots \in Nat /\ Slots \in 0..Slots
  BY MerkleAssumption
<1>1. /\ phase = "ready" /\ phase' = "panic" /\ FirstEmpty = Slots /\ appended' = appended
      /\ line' = ClearedLine
  BY DEF AppendPanics
<1>t. MerkleTypeOK
  BY DEF MInv
<1>n. PICK n, b : n = Len(appended) /\ b = TreeSize[Slots]
  OBVIOUS
<1>2. n \in Nat /\ b \in Nat \ {0}
  BY <1>t, <1>0, <1>n, TreeSizes DEF MerkleTypeOK
<1>3. \A k \in 0..(Slots - 1) : Bit(k, n) = 1
  <2>1. \A k \in 0..(Slots - 1) : line[k] # Sha256Zero
    BY <1>t, <1>1, FirstEmptyFacts
  <2> QED
    BY <1>1, <1>n, <2>1, SlotsAreBits
<1>4. n % b = b - 1
  BY <1>0, <1>n, <1>2, <1>3, LowOnes
<1>5. n \div b = 0
  BY <1>1, <1>n DEF MInv, LineHolds
<1>6. n = b - 1
  <2>1. n = (n \div b) * b + (n % b)
    BY <1>2, DivMod
  <2>2. n = 0 * b + (b - 1)
    BY <1>4, <1>5, <2>1
  <2> QED
    BY <1>2, <2>2
<1>7. MerkleTypeOK'
  <2>1. Sha256Zero \in Hashes
    BY DEF Sha256Zero, Hashes
  <2>2. line' \in [0..(Slots - 1) -> Hashes]
    BY <1>t, <1>1, <2>1 DEF ClearedLine, MerkleTypeOK
  <2> QED
    BY <1>t, <1>1, <2>2 DEF MerkleTypeOK
<1>8. LineHolds' /\ Commits'
  BY <1>1, <1>n, <1>6 DEF LineHolds, Commits
<1> QED
  BY <1>7, <1>8 DEF MInv

\* Append (merkle7574.go:68) keeps, in a line of any length and after any
\* number of calls, exactly the perfect trees over the leaves that the bits of
\* their count stand for, left to right, and panics only when every slot has one.
THEOREM LineCommits == MerkleSpec => []Commits
<1>1. MerkleInit => MInv
  BY EmptyLine
<1>2. MInv /\ [MerkleNext]_merkleVars => MInv'
  <2> SUFFICES ASSUME MInv, [MerkleNext]_merkleVars PROVE MInv'
    OBVIOUS
  <2>1. ASSUME NEW next \in Leaves, AppendHash(next) PROVE MInv'
    BY <2>1, AppendCommits
  <2>2. CASE AppendPanics
    BY <2>2, PanicCommits
  <2>3. CASE UNCHANGED merkleVars
    BY <2>3 DEF merkleVars, MInv, MerkleTypeOK, LineHolds, Commits, Bit, TreeOf
  <2> QED
    BY <2>1, <2>2, <2>3 DEF MerkleNext
<1>3. MInv => Commits
  BY DEF MInv
<1> QED
  BY <1>1, <1>2, <1>3, PTL DEF MerkleSpec
=============================================================================
