-------------------------- MODULE OrderLawsProofs --------------------------
(***************************************************************************)
(* The comparators order all elements, and zips and texts give back all    *)
(* words, not only the ones TLC is given.                                  *)
(***************************************************************************)
EXTENDS OrderLaws, Words, NumberFacts, SequenceTheorems, TLAPS

\* What an iterator can stand at: an element, or nothing.
Spots == Elements \cup {Absent}

\* Numbers are ordered.
LEMMA SignOrders ==
  ASSUME NEW a \in Int, NEW b \in Int, NEW c \in Int
  PROVE  Orders(Sign, a, b, c)
  BY DEF Orders, Sign, Less, Eq, Grtr

\* IDs are, with and without their revisions.
LEMMA RevOrders ==
  ASSUME NEW a, NEW b, NEW c,
         \A i \in {a, b, c} : i.src \in Int /\ i.seq \in Int
  PROVE  Orders(RevCompare, a, b, c)
  BY DEF Orders, RevCompare, Then, Sign, Less, Eq, Grtr

LEMMA IDOrders ==
  ASSUME NEW a \in IDs, NEW b \in IDs, NEW c \in IDs
  PROVE  Orders(IDCompare, a, b, c)
<1>1. \A i \in IDs : Base(i).src \in Int /\ Base(i).seq \in Int
  <2>1. \A n \in Nat : n % RevMod \in Int
    BY RdxOrderAssumption
  <2> QED
    BY <2>1 DEF IDs, Base, Rev
<1>2. Orders(RevCompare, Base(a), Base(b), Base(c))
  BY <1>1, RevOrders
<1> QED
  BY <1>2 DEF Orders, IDCompare

\* Types are: FIRST before PLEX, each by letter.
LEMMA TypeOrders ==
  ASSUME NEW a \in Elements, NEW b \in Elements, NEW c \in Elements
  PROVE  /\ Orders(CompareType, a, b, c)
         /\ CompareType(a, b) = Eq => a.lit = b.lit
<1>1. \A e \in Elements : /\ e.lit \in FIRST \cup PLEX \cup {"?"}
                          /\ LitRank[e.lit] \in Int
  BY ElementsAssumption DEF LitRank, FIRST, PLEX
<1>2. \A d, e \in Elements : LitRank[d.lit] = LitRank[e.lit] => d.lit = e.lit
  BY ElementsAssumption DEF LitRank, FIRST, PLEX
<1>3. CompareType(a, a) = Eq /\ CompareType(a, b) = -CompareType(b, a)
  BY <1>1, <1>2 DEF CompareType, IsPLEX, Sign, Less, Eq, Grtr
<1>4. ASSUME CompareType(a, b) <= Eq, CompareType(b, c) <= Eq
      PROVE  CompareType(a, c) <= Eq
  BY <1>1, <1>2, <1>4 DEF CompareType, IsPLEX, Sign, Less, Eq, Grtr
<1>5. CompareType(a, b) = Eq => a.lit = b.lit
  BY <1>1, <1>2 DEF CompareType, IsPLEX, Sign, Less, Eq, Grtr
<1> QED
  BY <1>3, <1>4, <1>5 DEF Orders

\* So are values of one type.
LEMMA SameTypeOrders ==
  ASSUME NEW a \in Elements, NEW b \in Elements, NEW c \in Elements,
         a.lit = b.lit, b.lit = c.lit
  PROVE  Orders(CompareSameType, a, b, c)
<1>1. CASE a.lit = "F"
  <2>1. a.val[1] \in Int /\ b.val[1] \in Int /\ c.val[1] \in Int
    BY <1>1, ElementsAssumption DEF ValueOK, IsPLEX, PLEX
  <2>2. Orders(Sign, a.val[1], b.val[1], c.val[1])
    BY <2>1, SignOrders
  <2> QED
    BY <1>1, <2>2 DEF Orders, CompareSameType, IsPLEX, PLEX
<1>2. CASE a.lit \in {"I", "S", "T"}
  <2>1. a.val \in Int /\ b.val \in Int /\ c.val \in Int
    BY <1>2, ElementsAssumption DEF ValueOK, IsPLEX, PLEX
  <2>2. Orders(Sign, a.val, b.val, c.val)
    BY <2>1, SignOrders
  <2> QED
    BY <1>2, <2>2 DEF Orders, CompareSameType, IsPLEX, PLEX
<1>3. CASE a.lit = "R"
  <2>1. a.val \in IDs /\ b.val \in IDs /\ c.val \in IDs
    BY <1>3, ElementsAssumption DEF ValueOK, IsPLEX, PLEX
  <2>2. Orders(IDCompare, a.val, b.val, c.val)
    BY <2>1, IDOrders
  <2> QED
    BY <1>3, <2>2 DEF Orders, CompareSameType, IsPLEX, PLEX
<1>4. CASE IsPLEX(a.lit)
  <2>1. Orders(IDCompare, a.id, b.id, c.id)
    BY IDOrders, ElementsAssumption
  <2> QED
    BY <1>4, <2>1 DEF Orders, CompareSameType, IsPLEX, PLEX
<1>5. CASE a.lit = "?"
  BY <1>5 DEF Orders, CompareSameType, IsPLEX, PLEX, Eq
<1> QED
  BY <1>1, <1>2, <1>3, <1>4, <1>5, ElementsAssumption DEF IsPLEX, FIRST

\* CompareValue orders the iterators that stand at an element, and puts the
\* ones that do not before them.
LEMMA ValueOrders ==
  ASSUME NEW a \in Spots, NEW b \in Spots, NEW c \in Spots
  PROVE  Orders(CompareValue, a, b, c)
<1>1. \A e \in Elements : ~IsEmpty(e)
  BY ElementsAssumption DEF IsEmpty, FIRST, PLEX
<1>2. IsEmpty(Absent)
  BY DEF IsEmpty, Absent
<1>3. ASSUME NEW d \in Elements, NEW e \in Elements
      PROVE  /\ CompareType(d, d) = Eq
             /\ CompareType(d, e) \in {Less, Eq, Grtr}
             /\ CompareType(d, e) = -CompareType(e, d)
             /\ CompareType(d, e) = Eq <=> d.lit = e.lit
             /\ CompareSameType(d, d) = Eq
             /\ d.lit = e.lit => CompareSameType(d, e) = -CompareSameType(e, d)
  <2>1. Orders(CompareType, d, e, e) /\ (CompareType(d, e) = Eq => d.lit = e.lit)
    BY TypeOrders
  <2>2. Orders(CompareSameType, d, d, d)
        /\ (d.lit = e.lit => Orders(CompareSameType, d, e, e))
    BY SameTypeOrders
  <2>3. CompareType(d, e) \in {Less, Eq, Grtr} /\ (d.lit = e.lit => CompareType(d, e) = Eq)
    BY DEF CompareType, Sign
  <2> QED
    BY <2>1, <2>2, <2>3 DEF Orders
<1>4. CASE a \in Elements /\ b \in Elements /\ c \in Elements
  <2>1. CompareValue(a, a) = Eq /\ CompareValue(a, b) = -CompareValue(b, a)
    BY <1>1, <1>3, <1>4 DEF CompareValue, Then, Less, Eq, Grtr
  <2>2. ASSUME CompareValue(a, b) <= Eq, CompareValue(b, c) <= Eq
        PROVE  CompareValue(a, c) <= Eq
    <3>1. CompareType(a, b) <= Eq /\ CompareType(b, c) <= Eq
      BY <1>1, <1>3, <1>4, <2>2 DEF CompareValue, Then, Less, Eq, Grtr
    <3>2. CompareType(a, c) <= Eq
      BY <1>4, <3>1, TypeOrders DEF Orders
    <3>3. CASE a.lit = b.lit /\ b.lit = c.lit
      <4>1. CompareSameType(a, b) <= Eq /\ CompareSameType(b, c) <= Eq
        BY <1>1, <1>3, <1>4, <2>2, <3>3 DEF CompareValue, Then
      <4>2. CompareSameType(a, c) <= Eq
        BY <1>4, <3>3, <4>1, SameTypeOrders DEF Orders
      <4> QED
        BY <1>1, <1>3, <1>4, <3>2, <4>2 DEF CompareValue, Then
    <3>4. CASE a.lit # c.lit
      BY <1>1, <1>3, <1>4, <3>2, <3>4 DEF CompareValue, Then
    <3>5. CASE a.lit = c.lit /\ a.lit # b.lit
      <4>1. CompareType(c, a) = Eq
        BY <1>3, <1>4, <3>5
      <4>2. CompareType(b, a) <= Eq
        BY <1>4, <3>1, <4>1, TypeOrders DEF Orders
      <4>3. CompareType(a, b) = -CompareType(b, a) /\ CompareType(a, b) # Eq
        BY <1>3, <1>4, <3>5
      <4> QED
        BY <1>3, <1>4, <3>1, <4>2, <4>3 DEF Less, Eq, Grtr
    <3> QED
      BY <3>3, <3>4, <3>5
  <2> QED
    BY <2>1, <2>2 DEF Orders
<1>5. CASE ~(a \in Elements /\ b \in Elements /\ c \in Elements)
  <2>1. ASSUME NEW d \in Spots, NEW e \in Spots
        PROVE  IsEmpty(d) \/ IsEmpty(e) =>
                 CompareValue(d, e) = IF IsEmpty(d) /\ IsEmpty(e) THEN Eq
                                      ELSE IF IsEmpty(d) THEN Less ELSE Grtr
    BY DEF CompareValue
  <2>2. IsEmpty(a) \/ IsEmpty(b) \/ IsEmpty(c)
    BY <1>2, <1>5 DEF Spots
  <2>3. \A d, e \in Elements : CompareValue(d, d) = Eq /\ CompareValue(d, e) = -CompareValue(e, d)
    BY <1>1, <1>3 DEF CompareValue, Then, Less, Eq, Grtr
  <2>4. \A d \in Spots : d \in Elements \/ IsEmpty(d)
    BY <1>2 DEF Spots
  <2>5. CompareValue(a, a) = Eq /\ CompareValue(a, b) = -CompareValue(b, a)
    BY <2>1, <2>3, <2>4 DEF Less, Eq, Grtr
  <2>6. ASSUME CompareValue(a, b) <= Eq, CompareValue(b, c) <= Eq
        PROVE  CompareValue(a, c) <= Eq
    BY <2>1, <2>2, <2>6 DEF Less, Eq, Grtr
  <2> QED
    BY <2>5, <2>6 DEF Orders
<1> QED
  BY <1>4, <1>5

\* The three iterators stand at elements.
LEMMA AtElements == ElementSpec => [](x \in Elements /\ y \in Elements /\ z \in Elements)
<1> DEFINE Inv == x \in Elements /\ y \in Elements /\ z \in Elements
<1>1. ElementInit => Inv
  BY DEF ElementInit
<1>2. Inv /\ [ElementNext]_elementVars => Inv'
  BY DEF ElementNext, ReadSecond, ReadThird, elementVars
<1> QED
  BY <1>1, <1>2, PTL DEF ElementSpec

\* A set of any elements can be sorted by value.
THEOREM EulerIsAnOrder == ElementSpec => []EulerOrders
<1>1. ASSUME NEW a \in Elements PROVE KeyOf(a) \in Spots
  <2>1. a.lit = "P" => a.val \in Seq(Elements)
    BY ElementsAssumption DEF ValueOK, IsPLEX, PLEX
  <2>2. a.val \in Seq(Elements) /\ a.val # <<>> => a.val[1] \in Elements
    OBVIOUS
  <2> QED
    BY <2>1, <2>2 DEF KeyOf, Spots
<1>2. x \in Elements /\ y \in Elements /\ z \in Elements => EulerOrders
  <2> SUFFICES ASSUME x \in Elements, y \in Elements, z \in Elements
               PROVE  EulerOrders
    OBVIOUS
  <2>1. Orders(CompareValue, KeyOf(x), KeyOf(y), KeyOf(z))
    BY <1>1, ValueOrders
  <2> QED
    BY <2>1 DEF EulerOrders, Orders, CompareEuler
<1> QED
  BY <1>2, AtElements, PTL

\* A multiplexed container of any elements can be sorted by author.
THEOREM MultixIsAnOrder == ElementSpec => []MultixOrders
<1>1. x \in Elements /\ y \in Elements /\ z \in Elements => MultixOrders
  <2> SUFFICES ASSUME x \in Elements, y \in Elements, z \in Elements
               PROVE  MultixOrders
    OBVIOUS
  <2>1. x.id.src \in Int /\ y.id.src \in Int /\ z.id.src \in Int
    BY ElementsAssumption DEF IDs
  <2>2. Orders(Sign, x.id.src, y.id.src, z.id.src)
    BY <2>1, SignOrders
  <2> QED
    BY <2>2 DEF MultixOrders, Orders, CompareMultix
<1> QED
  BY <1>1, AtElements, PTL
-----------------------------------------------------------------------------
(* Last write wins *)

\* what decides between two writes of the same ID
Ties(a, b) ==
  IF a.lit = b.lit THEN CompareValue(a, b)
  ELSE IF IsEmptyTuple(b) THEN Grtr
  ELSE IF IsEmptyTuple(a) THEN Less
  ELSE CompareType(a, b)

\* It is an order on three elements none or all of whose tuples are empty, and
\* on three tuples.
LEMMA TiesOrder ==
  ASSUME NEW a \in Elements, NEW b \in Elements, NEW c \in Elements,
         \/ \A d \in {a, b, c} : d.lit = "P"
         \/ \A d \in {a, b, c} : ~IsEmptyTuple(d)
         \/ \A d \in {a, b, c} : d.lit = "P" => IsEmptyTuple(d)
  PROVE  Orders(Ties, a, b, c)
<1>1. \A e \in Elements : ~IsEmpty(e)
  BY ElementsAssumption DEF IsEmpty, FIRST, PLEX
<1>2. ASSUME NEW d \in Elements, NEW e \in Elements
      PROVE  d.lit # e.lit => CompareValue(d, e) = CompareType(d, e)
  <2>1. CompareType(d, e) = Eq => d.lit = e.lit
    BY TypeOrders
  <2> QED
    BY <1>1, <2>1 DEF CompareValue, Then
<1>3. Orders(CompareValue, a, b, c)
  BY ValueOrders DEF Spots
<1>4. CASE \A d \in {a, b, c} : d.lit = "P"
  <2>1. \A d, e \in {a, b, c} : Ties(d, e) = CompareValue(d, e)
    BY <1>4 DEF Ties
  <2> QED
    BY <1>3, <2>1 DEF Orders
<1>5. CASE \A d \in {a, b, c} : ~IsEmptyTuple(d)
  <2>1. \A d, e \in {a, b, c} : Ties(d, e) = CompareValue(d, e)
    BY <1>2, <1>5 DEF Ties
  <2> QED
    BY <1>3, <2>1 DEF Orders
<1>6. CASE \A d \in {a, b, c} : d.lit = "P" => IsEmptyTuple(d)
  <2>1. \A d, e \in {a, b, c} :
          Ties(d, e) = IF d.lit = "P" /\ e.lit # "P" THEN Less
                       ELSE IF d.lit # "P" /\ e.lit = "P" THEN Grtr
                       ELSE CompareValue(d, e)
    BY <1>2, <1>6 DEF Ties, IsEmptyTuple
  <2> QED
    BY <1>3, <2>1 DEF Orders, Less, Eq, Grtr
<1> QED
  BY <1>4, <1>5, <1>6

\* Any elements that contend for a spot are ordered by CompareLWW, but for the
\* one combination that the property names.
THEOREM LWWIsAnOrder == ElementSpec => []LWWOrders
<1>1. x \in Elements /\ y \in Elements /\ z \in Elements => LWWOrders
  <2> SUFFICES ASSUME x \in Elements, y \in Elements, z \in Elements, ~EmptyAmongTuples
               PROVE  Orders(CompareLWW, x, y, z)
    BY DEF LWWOrders
  <2>1. Orders(Ties, x, y, z)
    <3>1. \/ \A d \in {x, y, z} : d.lit = "P"
          \/ \A d \in {x, y, z} : ~IsEmptyTuple(d)
          \/ \A d \in {x, y, z} : d.lit = "P" => IsEmptyTuple(d)
      BY DEF EmptyAmongTuples, Tuples, IsEmptyTuple
    <3> QED
      BY <3>1, TiesOrder
  <2>2. \A a \in {x, y, z} : a.id.src \in Int /\ a.id.seq \in Int
    BY ElementsAssumption DEF IDs
  <2>3. \A a, b \in {x, y, z} : /\ RevCompare(a.id, b.id) \in {Less, Eq, Grtr}
                                /\ RevCompare(a.id, a.id) = Eq
                                /\ RevCompare(a.id, b.id) = -RevCompare(b.id, a.id)
    BY <2>2 DEF RevCompare, Then, Sign, Less, Eq, Grtr
  <2>4. /\ RevCompare(x.id, y.id) <= Eq /\ RevCompare(y.id, z.id) <= Eq
             => RevCompare(x.id, z.id) <= Eq
        /\ RevCompare(x.id, y.id) <= Eq /\ RevCompare(y.id, z.id) <= Eq
             /\ RevCompare(x.id, z.id) = Eq
             => RevCompare(x.id, y.id) = Eq /\ RevCompare(y.id, z.id) = Eq
    BY <2>2 DEF RevCompare, Then, Sign, Less, Eq, Grtr
  <2>5. \A a, b : CompareLWW(a, b) = Then(RevCompare(a.id, b.id), Ties(a, b))
    BY DEF CompareLWW, Ties
  <2> QED
    BY <2>1, <2>3, <2>4, <2>5 DEF Orders, Then, Less, Eq, Grtr
<1> QED
  BY <1>1, AtElements, PTL
-----------------------------------------------------------------------------
\* TwoTo and ByteWeight are powers, and a word is one of 8 * ByteBits bits.
LEMMA Bits ==
  /\ 8 * ByteBits \in Nat /\ ByteBits \in 0..(8 * ByteBits) /\ ByteBits \in Nat \ {0}
  /\ Powers(TwoTo, 2, 8 * ByteBits)
<1>1. PICK N : N = 8 * ByteBits
  OBVIOUS
<1>2. ByteBits \in Nat \ {0}
  BY WordsAssumption
<1>3. N \in Nat /\ ByteBits \in 0..N
  BY <1>1, <1>2
<1>4. PICK g : g = [k \in 0..N |-> IF k = 0 THEN 1 ELSE 2 * g[k - 1]]
  <2>1. N \in Nat /\ 2 \in Nat \ {0}
    BY <1>3
  <2>2. \E g : g = [k \in 0..N |-> IF k = 0 THEN 1 ELSE 2 * g[k - 1]]
    BY <2>1, PowerFunction, Zenon
  <2> QED
    BY <2>2, Zenon
<1>5. TwoTo = [k \in 0..(8 * ByteBits) |-> IF k = 0 THEN 1 ELSE 2 * TwoTo[k - 1]]
  BY <1>1, <1>4, Zenon DEF TwoTo
<1> HIDE DEF TwoTo
<1>6. PICK p : p = TwoTo
  OBVIOUS
<1>7. p = [k \in 0..N |-> IF k = 0 THEN 1 ELSE 2 * p[k - 1]]
  BY <1>1, <1>5, <1>6, Zenon
<1>8. Powers(p, 2, N)
  BY <1>3, <1>7, PowersOf
<1> QED
  BY <1>1, <1>2, <1>3, <1>6, <1>8

LEMMA Weights ==
  /\ ByteBase \in Nat \ {0, 1} /\ ByteBase % 2 = 0
  /\ Powers(ByteWeight, ByteBase, 8)
<1>1. PICK N, B, p : N = 8 * ByteBits /\ B = ByteBase /\ p = TwoTo
  OBVIOUS
<1>2. /\ N \in Nat /\ ByteBits \in Nat \ {0} /\ ByteBits \in 0..N
      /\ Powers(p, 2, N) /\ B = p[ByteBits]
  BY <1>1, Bits DEF ByteBase
<1>3. B \in Nat \ {0, 1} /\ B % 2 = 0
  <2>1. PICK k, h : k = ByteBits - 1 /\ h = p[k]
    OBVIOUS
  <2>2. k \in 0..(N - 1) /\ k \in 0..N /\ k + 1 = ByteBits
    BY <1>2, <2>1
  <2>3. h \in Nat \ {0} /\ B = 2 * h
    BY <1>2, <2>1, <2>2 DEF Powers
  <2> QED
    BY <2>3
<1>4. PICK g : g = [k \in 0..8 |-> IF k = 0 THEN 1 ELSE B * g[k - 1]]
  <2>1. 8 \in Nat /\ B \in Nat \ {0}
    BY <1>3
  <2>2. \E g : g = [k \in 0..8 |-> IF k = 0 THEN 1 ELSE B * g[k - 1]]
    BY <2>1, PowerFunction, Zenon
  <2> QED
    BY <2>2, Zenon
<1> HIDE DEF ByteBase
<1>5. ByteWeight = [k \in 0..8 |-> IF k = 0 THEN 1 ELSE ByteBase * ByteWeight[k - 1]]
  BY <1>1, <1>4, Zenon DEF ByteWeight
<1> HIDE DEF ByteWeight
<1>6. PICK q : q = ByteWeight
  OBVIOUS
<1>7. q = [k \in 0..8 |-> IF k = 0 THEN 1 ELSE B * q[k - 1]]
  BY <1>1, <1>5, <1>6, Zenon
<1>8. Powers(q, B, 8)
  BY <1>3, <1>7, PowersOf
<1> QED
  BY <1>1, <1>3, <1>6, <1>8

\* the digits of a string of bytes, the last one first
Backwards(bytes) == [k \in 1..Len(bytes) |-> bytes[Len(bytes) - k + 1]]

\* Uint reads at most eight bytes by Horner's rule, without overflow.
LEMMA UintReads ==
  ASSUME NEW bytes \in Seq(0..(ByteBase - 1)), Len(bytes) <= 8
  PROVE  \E f : Horner(f, Backwards(bytes), ByteBase, Len(bytes)) /\ Uint(bytes) = f[Len(bytes)]
<1>0. PICK n, b, p, M, c : /\ n = Len(bytes) /\ b = ByteBase /\ p = ByteWeight /\ M = WordMod
                           /\ c = Backwards(bytes)
  OBVIOUS
<1>1. b \in Nat \ {0, 1} /\ Powers(p, b, 8) /\ n \in 0..8 /\ M = p[8]
  <2>1. n \in Nat /\ n <= 8
    BY <1>0, LenProperties
  <2>2. n \in 0..8
    BY <2>1
  <2>3. b \in Nat \ {0, 1} /\ Powers(p, b, 8)
    BY <1>0, Weights, Zenon
  <2> QED
    BY <1>0, <2>2, <2>3 DEF WordMod
<1>2. \A k \in 1..n : c[k] = bytes[n - k + 1] /\ c[k] \in 0..(b - 1)
  <2> SUFFICES ASSUME NEW k \in 1..n PROVE c[k] = bytes[n - k + 1] /\ c[k] \in 0..(b - 1)
    OBVIOUS
  <2>1. n - k + 1 \in 1..n
    BY <1>1
  <2>2. bytes[n - k + 1] \in 0..(b - 1)
    BY <1>0, <2>1, ElementOfSeq
  <2> QED
    BY <1>0, <2>2 DEF Backwards
<1>3. M \in Nat \ {0}
  <2>1. 8 \in 0..8
    OBVIOUS
  <2> QED
    BY <1>1, <2>1 DEF Powers
<1>p. /\ p[0] = 1 /\ \A k \in 0..8 : p[k] \in Nat \ {0}
      /\ \A k \in 0..7 : p[k + 1] = b * p[k]
  BY <1>1 DEF Powers
<1>4. PICK g : ReadsDigits(g, c, n, b, M)
  <2>1. n \in Nat /\ b \in Nat \ {0} /\ AreDigits(c, n, b)
    BY <1>1, <1>2 DEF AreDigits
  <2> QED
    BY <1>3, <2>1, HornerFunction
<1>5. PICK f : /\ f = [k \in 0..n |-> IF k = 0 THEN 0 ELSE (b * f[k - 1] + c[k]) % M]
               /\ Uint(bytes) = f[n]
  <2> DEFINE word[k \in 0..Len(bytes)] ==
        IF k = 0 THEN 0 ELSE (ByteBase * word[k - 1] + bytes[Len(bytes) - k + 1]) % WordMod
  <2>1. g = [k \in 0..Len(bytes) |->
               IF k = 0 THEN 0
               ELSE (ByteBase * g[k - 1] + bytes[Len(bytes) - k + 1]) % WordMod]
    <3>1. \A k \in 0..n : k # 0 => k \in 1..n
      BY <1>1
    <3>2. \A k \in 0..n : g[k] = IF k = 0 THEN 0 ELSE (b * g[k - 1] + bytes[n - k + 1]) % M
      BY <1>2, <1>4, <3>1 DEF ReadsDigits
    <3>3. g = [k \in 0..n |-> IF k = 0 THEN 0 ELSE (b * g[k - 1] + bytes[n - k + 1]) % M]
      BY <1>4, <3>2 DEF ReadsDigits
    <3> QED
      BY <1>0, <3>3
  <2>2. word = [k \in 0..Len(bytes) |->
                  IF k = 0 THEN 0
                  ELSE (ByteBase * word[k - 1] + bytes[Len(bytes) - k + 1]) % WordMod]
    BY <2>1, Zenon
  <2>3. Uint(bytes) = word[Len(bytes)]
    BY DEF Uint
  <2> HIDE DEF word
  <2>4. PICK f : f = word
    OBVIOUS
  <2>5. \A k \in 0..n : f[k] = IF k = 0 THEN 0 ELSE (b * f[k - 1] + bytes[n - k + 1]) % M
    BY <1>0, <2>2, <2>4
  <2>6. \A k \in 0..n : k # 0 => k \in 1..n
    BY <1>1
  <2>7. \A k \in 0..n : f[k] = IF k = 0 THEN 0 ELSE (b * f[k - 1] + c[k]) % M
    BY <1>2, <2>5, <2>6
  <2>8. f = [k \in 0..n |-> f[k]]
    BY <1>0, <2>2, <2>4
  <2>9. f = [k \in 0..n |-> IF k = 0 THEN 0 ELSE (b * f[k - 1] + c[k]) % M]
    BY <2>7, <2>8
  <2> QED
    BY <1>0, <2>3, <2>4, <2>9
<1>6. f[0] = 0 /\ \A k \in 1..n : f[k] = (b * f[k - 1] + c[k]) % M
  BY <1>1, <1>5
<1>7. \A k \in 0..n : f[k] \in Nat /\ f[k] < p[k] /\ (k # 0 => f[k] = b * f[k - 1] + c[k])
  <2> DEFINE T == {k \in 0..n : f[k] \in Nat /\ f[k] < p[k]
                                /\ (k # 0 => f[k] = b * f[k - 1] + c[k])}
  <2>1. 0 \in T
    <3>1. 0 \in 0..n
      BY <1>1
    <3> QED
      BY <1>p, <1>6, <3>1
  <2>2. ASSUME NEW k \in 0..(n - 1), k \in T PROVE k + 1 \in T
    <3>1. PICK e, a, q, h, s : /\ e = f[k] /\ a = c[k + 1] /\ q = p[k] /\ h = p[k + 1]
                               /\ s = b * e + a
      OBVIOUS
    <3>2. /\ k + 1 \in 1..n /\ (k + 1) - 1 = k /\ k \in 0..7 /\ k \in 0..8 /\ k + 1 \in 0..8
          /\ k + 1 \in 0..n /\ 8 \in 0..8
      BY <1>1
    <3>3. /\ e \in Nat /\ e < q /\ q \in Nat /\ a \in 0..(b - 1) /\ h = b * q /\ h \in Nat
      <4>1. e \in Nat /\ e < q
        BY <2>2, <3>1
      <4>2. q \in Nat /\ h \in Nat /\ h = b * q
        BY <1>p, <3>1, <3>2
      <4>3. a \in 0..(b - 1)
        BY <1>2, <3>1, <3>2
      <4> QED
        BY <4>1, <4>2, <4>3
    <3>4. e * b + b <= q * b /\ e * b \in Nat /\ q * b \in Nat
      BY <1>1, <3>3, Times
    <3>5. b * e = e * b /\ b * q = q * b
      BY <1>1, <3>3
    <3>6. s \in Nat /\ s < h
      <4>1. b \in Nat /\ s = b * e + a
        BY <1>1, <3>1
      <4> QED
        BY <4>1, <3>3, <3>4, <3>5
    <3>7. h <= M
      <4>1. k + 1 \in 0..8 /\ 8 \in 0..8 /\ 8 \in Nat
        BY <3>2
      <4>2. p[k + 1] <= p[8]
        BY <1>1, <4>1, PowersGrow
      <4> QED
        BY <1>1, <3>1, <4>2
    <3>8. s % M = s
      <4>1. s \in 0..(M - 1) /\ 0 \in Nat /\ s = 0 * M + s
        BY <1>3, <3>3, <3>6, <3>7
      <4> QED
        BY <1>3, <3>6, <4>1, DivUnique
    <3>9. f[k + 1] = s
      BY <1>6, <3>1, <3>2, <3>8
    <3> QED
      BY <3>1, <3>2, <3>6, <3>9
  <2>3. 0..n \subseteq T
    <3>1. n \in Nat
      BY <1>1
    <3> HIDE DEF T
    <3> QED
      BY <2>1, <2>2, <3>1, Induction
  <2> QED
    BY <2>3
<1>8. \A k \in 1..n : k \in 0..n /\ k # 0
  BY <1>1
<1>9. Horner(f, c, b, n)
  BY <1>2, <1>6, <1>7, <1>8 DEF Horner
<1> QED
  BY <1>0, <1>5, <1>9
-----------------------------------------------------------------------------
Bytes == 0..(ByteBase - 1)


\* PutUint gives n bytes.
LEMMA PutShape ==
  ASSUME NEW n \in 0..8, NEW w \in Nat
  PROVE  /\ PutUint(n, w) \in Seq(Bytes) /\ Len(PutUint(n, w)) = n
         /\ \A k \in 1..n : PutUint(n, w)[k] = (w \div ByteWeight[k - 1]) % ByteBase
<1>1. PICK s, b, p : s = PutUint(n, w) /\ b = ByteBase /\ p = ByteWeight
  OBVIOUS
<1>2. b \in Nat \ {0} /\ \A k \in 0..8 : p[k] \in Nat \ {0}
  BY <1>1, Weights DEF Powers
<1>3. s = [k \in 1..n |-> (w \div p[k - 1]) % b]
  BY <1>1 DEF PutUint
<1>4. \A k \in 1..n : s[k] \in 0..(b - 1)
  <2> SUFFICES ASSUME NEW k \in 1..n PROVE s[k] \in 0..(b - 1)
    OBVIOUS
  <2>1. PICK q, d : q = p[k - 1] /\ d = w \div q
    OBVIOUS
  <2>2. k - 1 \in 0..8
    OBVIOUS
  <2>3. q \in Nat \ {0}
    BY <1>2, <2>1, <2>2
  <2>4. d \in Nat
    BY <2>1, <2>3, DivMod
  <2>5. d % b \in 0..(b - 1)
    BY <1>2, <2>4, DivMod
  <2> QED
    BY <1>3, <2>1, <2>5
<1>5. n \in Nat /\ s \in Seq(0..(b - 1)) /\ Len(s) = n
  <2>1. n \in Nat /\ s \in [1..n -> 0..(b - 1)]
    BY <1>3, <1>4
  <2>2. PICK S : S = 0..(b - 1)
    OBVIOUS
  <2>3. s \in [1..n -> S]
    BY <2>1, <2>2
  <2>4. s \in Seq(S) /\ Len(s) = n
    BY <2>1, <2>3, FunctionsAreSequences
  <2> QED
    BY <2>1, <2>2, <2>4
<1> QED
  BY <1>1, <1>3, <1>5 DEF Bytes

\* n bytes make a number below the n-th weight.
LEMMA UintBelow ==
  ASSUME NEW s \in Seq(Bytes), Len(s) <= 8
  PROVE  Uint(s) \in Nat /\ Uint(s) < ByteWeight[Len(s)]
<1>1. PICK n, b, p, c : n = Len(s) /\ b = ByteBase /\ p = ByteWeight /\ c = Backwards(s)
  OBVIOUS
<1>2. PICK f : Horner(f, c, b, n) /\ Uint(s) = f[n]
  BY <1>1, UintReads, Zenon DEF Bytes
<1>3. 8 \in Nat /\ b \in Nat \ {0} /\ Powers(p, b, 8) /\ n \in 0..8
  <2>1. n \in 0..8
    <3>1. n \in Nat /\ n <= 8
      BY <1>1, LenProperties
    <3> QED
      BY <3>1
  <2>2. Powers(p, b, 8)
    BY <1>1, Weights, Zenon
  <2>3. b \in Nat \ {0}
    BY <1>1, Weights
  <2> QED
    BY <2>1, <2>2, <2>3
<1>4. f[n] \in Nat /\ f[n] < p[n]
  BY <1>2, <1>3, HornerDigits
<1> QED
  BY <1>1, <1>2, <1>4

\* What fits in n bytes comes back from them.
LEMMA UintOfPut ==
  ASSUME NEW n \in 0..8, NEW w \in Nat, w < ByteWeight[n]
  PROVE  Uint(PutUint(n, w)) = w
<1>1. PICK s, b, p, c : s = PutUint(n, w) /\ b = ByteBase /\ p = ByteWeight /\ c = Backwards(s)
  OBVIOUS
<1>2. /\ s \in Seq(Bytes) /\ Len(s) = n
      /\ \A k \in 1..n : s[k] = (w \div p[k - 1]) % b
  BY <1>1, PutShape
<1>3. Len(s) <= 8
  BY <1>2
<1>4. PICK f : Horner(f, c, b, n) /\ Uint(s) = f[n]
  BY <1>1, <1>2, <1>3, UintReads, Zenon DEF Bytes
<1>5. 8 \in Nat /\ b \in Nat \ {0} /\ Powers(p, b, 8)
  <2>1. Powers(p, b, 8)
    BY <1>1, Weights, Zenon
  <2>2. b \in Nat \ {0}
    BY <1>1, Weights
  <2> QED
    BY <2>1, <2>2
<1>6. \A k \in 1..n : c[k] = (w \div p[n - k]) % b
  <2> SUFFICES ASSUME NEW k \in 1..n PROVE c[k] = (w \div p[n - k]) % b
    OBVIOUS
  <2>1. n - k + 1 \in 1..n /\ (n - k + 1) - 1 = n - k
    OBVIOUS
  <2>2. c[k] = s[n - k + 1]
    BY <1>1, <1>2 DEF Backwards
  <2> QED
    BY <1>2, <2>1, <2>2
<1>7. w < p[n]
  BY <1>1
<1>8. f[n] = w
  BY <1>4, <1>5, <1>6, <1>7, HornerReads
<1> QED
  BY <1>1, <1>4, <1>8

\* The bytes a number needs.
Lengths == {0, 1, 2, 4, 8}
LEMMA ByteLens ==
  ASSUME NEW w \in Nat, w < WordMod
  PROVE  byteLen(w) \in Lengths /\ w < ByteWeight[byteLen(w)]
<1>1. PICK b, p : b = ByteBase /\ p = ByteWeight
  OBVIOUS
<1>2. b \in Nat /\ p[0] = 1 /\ p[1] = b /\ p[2] \in Nat /\ p[4] \in Nat /\ w < p[8]
  <2>1. b \in Nat /\ p[0] = 1 /\ p[0 + 1] = b * p[0]
    <3>1. 0 \in 0..(8 - 1)
      OBVIOUS
    <3> QED
      BY <1>1, <3>1, Weights DEF Powers
  <2>2. 2 \in 0..8 /\ 4 \in 0..8
    OBVIOUS
  <2>3. p[2] \in Nat /\ p[4] \in Nat
    BY <1>1, <2>2, Weights DEF Powers
  <2>4. b * 1 = b /\ 0 + 1 = 1
    BY <2>1
  <2> QED
    BY <1>1, <2>1, <2>3, <2>4 DEF WordMod
<1>3. byteLen(w) = CASE w = 0 -> 0 [] w \in 1..(b - 1) -> 1 [] w \in b..(p[2] - 1) -> 2
                     [] w \in p[2]..(p[4] - 1) -> 4 [] OTHER -> 8
  BY <1>1 DEF byteLen
<1> QED
  BY <1>1, <1>2, <1>3 DEF Lengths

\* A greater number needs no fewer.
LEMMA ByteLensGrow ==
  ASSUME NEW w \in Nat
  PROVE  byteLen(w) <= byteLen(w + 1)
<1>1. PICK b, p : b = ByteBase /\ p = ByteWeight
  OBVIOUS
<1>2. b \in Nat /\ p[1] = b /\ p[2] \in Nat /\ p[4] \in Nat /\ b <= p[2] /\ p[2] <= p[4] /\ 1 < b
  <2>1. 0 \in 0..(8 - 1) /\ 1 \in 0..8 /\ 2 \in 0..8 /\ 4 \in 0..8 /\ 1 \in 0..2 /\ 2 \in 0..4 /\ 8 \in Nat
    OBVIOUS
  <2>2. b \in Nat \ {0, 1} /\ Powers(p, b, 8)
    BY <1>1, Weights, Zenon
  <2>3. p[0] = 1 /\ p[0 + 1] = b * p[0]  /\ p[2] \in Nat /\ p[4] \in Nat
    BY <2>1, <2>2 DEF Powers
  <2>4. p[1] <= p[2] /\ p[2] <= p[4]
    BY <2>1, <2>2, PowersGrow
  <2>5. b * 1 = b /\ 0 + 1 = 1 /\ 1 < b
    BY <2>2
  <2> QED
    BY <2>2, <2>3, <2>4, <2>5
<1>3. \A n \in {w, w + 1} :
        byteLen(n) = CASE n = 0 -> 0 [] n \in 1..(b - 1) -> 1 [] n \in b..(p[2] - 1) -> 2
                       [] n \in p[2]..(p[4] - 1) -> 4 [] OTHER -> 8
  BY <1>1 DEF byteLen
<1> QED
  BY <1>2, <1>3

\* How many bytes a layout has.
Width(f) == f[1] + f[2] + f[3]

\* A layout has room for both numbers, and a reader finds it by its length.
LEMMA Layouts ==
  ASSUME NEW b \in Lengths, NEW l \in Lengths, NEW f, f = ZipLayout(b, l)
  PROVE  /\ f = <<f[1], f[2], f[3]>>
         /\ f[1] \in b..8 /\ f[2] \in 0..1 /\ f[3] \in l..8
         /\ f[1] = 0 => f = <<0, 0, 0>>
         /\ UnzipLayout(Width(f)) = f
<1>0. CASE b = 0
  BY <1>0 DEF Lengths, ZipLayout, UnzipLayout, Width
<1>1. CASE b = 1
  BY <1>1 DEF Lengths, ZipLayout, UnzipLayout, Width
<1>2. CASE b = 2
  BY <1>2 DEF Lengths, ZipLayout, UnzipLayout, Width
<1>4. CASE b = 4
  BY <1>4 DEF Lengths, ZipLayout, UnzipLayout, Width
<1>8. CASE b = 8
  BY <1>8 DEF Lengths, ZipLayout, UnzipLayout, Width
<1> QED
  BY <1>0, <1>1, <1>2, <1>4, <1>8 DEF Lengths

\* No number that needs more makes it shorter.
LEMMA LayoutsGrow ==
  ASSUME NEW b \in Lengths, NEW l \in Lengths, NEW d \in Lengths
  PROVE  /\ b <= d => Width(ZipLayout(b, l)) <= Width(ZipLayout(d, l))
         /\ l <= d => Width(ZipLayout(b, l)) <= Width(ZipLayout(b, d))
<1> DEFINE W == [e \in Lengths |-> [m \in Lengths |-> Width(ZipLayout(e, m))]]
<1>0. /\ W[0][0] = 0 /\ W[0][1] = 2 /\ W[0][2] = 4 /\ W[0][4] = 8 /\ W[0][8] = 11
  BY DEF Lengths, ZipLayout, Width
<1>1. /\ W[1][0] = 1 /\ W[1][1] = 2 /\ W[1][2] = 4 /\ W[1][4] = 8 /\ W[1][8] = 11
  BY DEF Lengths, ZipLayout, Width
<1>2. /\ W[2][0] = 3 /\ W[2][1] = 3 /\ W[2][2] = 4 /\ W[2][4] = 8 /\ W[2][8] = 11
  BY DEF Lengths, ZipLayout, Width
<1>4. /\ W[4][0] = 5 /\ W[4][1] = 5 /\ W[4][2] = 6 /\ W[4][4] = 8 /\ W[4][8] = 13
  BY DEF Lengths, ZipLayout, Width
<1>8. /\ W[8][0] = 9 /\ W[8][1] = 9 /\ W[8][2] = 10 /\ W[8][4] = 12 /\ W[8][8] = 16
  BY DEF Lengths, ZipLayout, Width
<1>9. \A e, m \in Lengths : Width(ZipLayout(e, m)) = W[e][m]
  OBVIOUS
<1> HIDE DEF W
<1>10. /\ b <= d => W[b][l] <= W[d][l]
       /\ l <= d => W[b][l] <= W[b][d]
  BY <1>0, <1>1, <1>2, <1>4, <1>8 DEF Lengths
<1> QED
  BY <1>9, <1>10

Zips == 0..(WordMod - 1)

LEMMA WordsAreNumbers == WordMod \in Nat \ {0} /\ \A w \in Zips : w \in Nat /\ w < WordMod
<1>1. 8 \in 0..8
  OBVIOUS
<1>2. WordMod \in Nat \ {0}
  BY <1>1, Weights DEF Powers, WordMod
<1> QED
  BY <1>2 DEF Zips

\* The zip of two words, and what is read from it.
LEMMA PairZip ==
  ASSUME NEW big \in Zips, NEW lil \in Zips, NEW zip, zip = ZipUint64Pair(big, lil)
  PROVE  /\ zip \in Seq(Bytes)
         /\ Len(zip) = Width(ZipLayout(byteLen(big), byteLen(lil)))
         /\ UnzipUint64Pair(zip) = <<big, lil>>
         /\ IterIsLive(zip) <=> big % 2 = 0
<1>1. PICK b, l : b = byteLen(big) /\ l = byteLen(lil)
  OBVIOUS
<1>2. PICK f : f = ZipLayout(b, l)
  OBVIOUS
<1>3. PICK i, j, k : i = f[1] /\ j = f[2] /\ k = f[3]
  OBVIOUS
<1>4. big \in Nat /\ lil \in Nat /\ big < WordMod /\ lil < WordMod
  BY WordsAreNumbers
<1>5. /\ b \in Lengths /\ big < ByteWeight[b]
      /\ l \in Lengths /\ lil < ByteWeight[l]
  BY <1>1, <1>4, ByteLens
<1>6. /\ f = <<i, j, k>> /\ i \in b..8 /\ j \in 0..1 /\ k \in l..8
      /\ i = 0 => f = <<0, 0, 0>>
      /\ UnzipLayout(Width(f)) = f
  BY <1>2, <1>3, <1>5, Layouts
<1>7. i \in 0..8 /\ k \in 0..8 /\ b \in 0..i /\ l \in 0..k /\ b \in Nat
  BY <1>5, <1>6 DEF Lengths
<1>8. big < ByteWeight[i] /\ lil < ByteWeight[k]
  <2>1. 8 \in Nat /\ ByteBase \in Nat \ {0, 1} /\ Powers(ByteWeight, ByteBase, 8)
    BY Weights
  <2>2. PICK B, p : B = ByteBase /\ p = ByteWeight
    OBVIOUS
  <2>3. B \in Nat \ {0, 1} /\ Powers(p, B, 8)
    BY <2>1, <2>2, Zenon
  <2>4. p[b] <= p[i] /\ p[l] <= p[k]
    BY <1>7, <2>1, <2>3, PowersGrow
  <2>5. \A n \in 0..8 : p[n] \in Nat
    BY <2>3 DEF Powers
  <2>6. b \in 0..8 /\ l \in 0..8
    BY <1>5 DEF Lengths
  <2> QED
    BY <1>4, <1>5, <1>7, <2>2, <2>4, <2>5, <2>6
<1>9. PICK s, q, t : /\ s = PutUint(i, big) /\ q = [n \in 1..j |-> 0] /\ t = PutUint(k, lil)
  OBVIOUS
<1>10. s \in Seq(Bytes) /\ Len(s) = i /\ t \in Seq(Bytes) /\ Len(t) = k
  BY <1>4, <1>7, <1>9, PutShape
<1>11. q \in Seq(Bytes) /\ Len(q) = j
  <2>1. 0 \in Bytes
    BY Weights DEF Bytes
  <2>2. j \in Nat /\ q \in [1..j -> Bytes]
    BY <1>6, <1>9, <2>1
  <2> QED
    BY <2>2, FunctionsAreSequences
<1>12. zip = (s \o q) \o t
  BY <1>1, <1>2, <1>3, <1>9 DEF ZipUint64Pair
<1>13. /\ zip \in Seq(Bytes) /\ Len(zip) = i + j + k
       /\ SubSeq(zip, 1, i) = s
       /\ SubSeq(zip, i + j + 1, i + j + k) = t
       /\ i # 0 => zip[1] = s[1]
  <2>1. s \in Seq(Bytes) /\ q \in Seq(Bytes) /\ t \in Seq(Bytes)
    BY <1>10, <1>11
  <2>2. /\ zip \in Seq(Bytes) /\ Len(zip) = Len(s) + Len(q) + Len(t)
        /\ SubSeq(zip, 1, Len(s)) = s
        /\ SubSeq(zip, Len(s) + Len(q) + 1, Len(s) + Len(q) + Len(t)) = t
        /\ Len(s) # 0 => zip[1] = s[1]
    BY <1>12, <2>1, Cuts
  <2> QED
    BY <1>10, <1>11, <2>2
<1>14. Width(f) = i + j + k
  BY <1>3 DEF Width
<1>15. Uint(s) = big /\ Uint(t) = lil
  BY <1>4, <1>7, <1>8, <1>9, UintOfPut
<1>16. UnzipUint64Pair(zip) = <<big, lil>>
  <2>1. UnzipLayout(Len(zip)) = f
    BY <1>6, <1>13, <1>14
  <2>2. UnzipUint64Pair(zip) =
          <<Uint(SubSeq(zip, 1, i)), Uint(SubSeq(zip, i + j + 1, i + j + k))>>
    BY <1>3, <2>1 DEF UnzipUint64Pair
  <2> QED
    BY <1>13, <1>15, <2>2
<1>17. IterIsLive(zip) <=> big % 2 = 0
  <2>1. CASE i = 0
    <3>1. b = 0 /\ ByteWeight[0] = 1
      BY <1>7, <2>1, Weights DEF Powers
    <3>2. big = 0
      BY <1>4, <1>5, <3>1
    <3>3. Len(zip) = 0
      BY <1>6, <1>7, <1>13, <1>14, <2>1 DEF Width
    <3>4. zip = <<>>
      BY <1>13, <3>3, EmptySeq
    <3> QED
      BY <3>2, <3>4 DEF IterIsLive
  <2>2. CASE i # 0
    <3>1. 1 \in 1..i /\ 1 - 1 = 0
      BY <1>7, <2>2
    <3>2. s[1] = (big \div ByteWeight[0]) % ByteBase
      BY <1>4, <1>7, <1>9, <3>1, PutShape
    <3>3. ByteWeight[0] = 1
      BY Weights DEF Powers
    <3>4. big \div 1 = big
      BY <1>4
    <3>5. zip[1] = big % ByteBase
      BY <1>13, <2>2, <3>2, <3>3, <3>4
    <3>6. PICK B : B = ByteBase
      OBVIOUS
    <3>7. B \in Nat \ {0} /\ B % 2 = 0
      BY <3>6, Weights
    <3>8. (big % B) % 2 = big % 2
      BY <1>4, <3>7, Parity
    <3>9. zip # <<>>
      <4>1. Len(zip) # 0
        <5>1. i \in 0..8 /\ k \in 0..8 /\ j \in 0..1
          BY <1>6, <1>7
        <5>2. i + j + k # 0
          BY <2>2, <5>1
        <5> QED
          BY <1>13, <5>2
      <4> QED
        BY <4>1, EmptySeq
    <3> QED
      BY <3>5, <3>6, <3>8, <3>9 DEF IterIsLive
  <2> QED
    BY <2>1, <2>2
<1> QED
  BY <1>1, <1>2, <1>13, <1>14, <1>16, <1>17

\* ZipUint64Pair and UnzipUint64Pair (zipint.go) for words of any number of
\* bytes of eight, whatever is in them: nothing is lost, lengths do not fall,
\* and the revision is where Iter.IsLive looks.
THEOREM WordPairsZip ==
  ASSUME u \in Zips, v \in Zips
  PROVE  PairZips
<1>1. PICK zip, id : zip = ZipUint64Pair(u, v) /\ id = [src |-> v, seq |-> u]
  OBVIOUS
<1>2. PICK b, l : b = byteLen(u) /\ l = byteLen(v)
  OBVIOUS
<1>3. u \in Nat /\ v \in Nat /\ u < WordMod /\ v < WordMod
  BY WordsAreNumbers
<1>4. /\ Len(zip) = Width(ZipLayout(b, l))
      /\ UnzipUint64Pair(zip) = <<u, v>>
      /\ IterIsLive(zip) <=> u % 2 = 0
  BY <1>1, <1>2, PairZip
<1>5. b \in Lengths /\ l \in Lengths
  BY <1>2, <1>3, ByteLens
<1>6. ASSUME u + 1 < WordMod PROVE Len(zip) <= Len(ZipUint64Pair(u + 1, v))
  <2>1. PICK w, d : w = u + 1 /\ d = byteLen(w)
    OBVIOUS
  <2>2. w \in Zips /\ w \in Nat /\ w < WordMod
    BY <1>3, <1>6, <2>1, WordsAreNumbers DEF Zips
  <2>3. Len(ZipUint64Pair(w, v)) = Width(ZipLayout(d, l))
    BY <1>2, <2>1, <2>2, PairZip
  <2>4. b <= d /\ d \in Lengths
    BY <1>2, <1>3, <2>1, <2>2, ByteLens, ByteLensGrow
  <2>5. Width(ZipLayout(b, l)) <= Width(ZipLayout(d, l))
    BY <1>5, <2>4, LayoutsGrow
  <2> QED
    BY <1>4, <2>1, <2>3, <2>5
<1>7. ASSUME v + 1 < WordMod PROVE Len(zip) <= Len(ZipUint64Pair(u, v + 1))
  <2>1. PICK w, d : w = v + 1 /\ d = byteLen(w)
    OBVIOUS
  <2>2. w \in Zips /\ w \in Nat /\ w < WordMod
    BY <1>3, <1>7, <2>1, WordsAreNumbers DEF Zips
  <2>3. Len(ZipUint64Pair(u, w)) = Width(ZipLayout(b, d))
    BY <1>2, <2>1, <2>2, PairZip
  <2>4. l <= d /\ d \in Lengths
    BY <1>2, <1>3, <2>1, <2>2, ByteLens, ByteLensGrow
  <2>5. Width(ZipLayout(b, l)) <= Width(ZipLayout(b, d))
    BY <1>5, <2>4, LayoutsGrow
  <2> QED
    BY <1>4, <2>1, <2>3, <2>5
<1>8. ZipID(id) = zip /\ UnzipID(zip) = id
  BY <1>1, <1>4 DEF ZipID, UnzipID
<1>9. IterIsLive(zip) = IsLive(id)
  <2>1. IsLive(id) <=> u % 2 = 0
    BY <1>1 DEF IsLive
  <2>2. IterIsLive(zip) \in BOOLEAN /\ IsLive(id) \in BOOLEAN
    BY DEF IterIsLive, IsLive
  <2> QED
    BY <1>4, <2>1, <2>2
<1> QED
  BY <1>1, <1>4, <1>6, <1>7, <1>8, <1>9 DEF PairZips
-----------------------------------------------------------------------------
\* ZipUint64 gives the bytes up to the last one that is not zero.
LEMMA NumberZip ==
  ASSUME NEW w \in Zips, NEW zip, zip = ZipUint64(w)
  PROVE  /\ zip \in Seq(Bytes) /\ Len(zip) \in 0..8
         /\ w < ByteWeight[Len(zip)] /\ \A m \in 0..(Len(zip) - 1) : w >= ByteWeight[m]
         /\ Uint(zip) = w
<1>1. PICK p : p = ByteWeight
  OBVIOUS
<1>2. w \in Nat /\ w < p[8] /\ \A k \in 0..8 : p[k] \in Nat
  BY <1>1, WordsAreNumbers, Weights DEF WordMod, Powers
<1> DEFINE Fits == {n \in 0..8 : w < p[n]}
<1>3. Fits \subseteq Nat /\ Fits # {}
  <2>1. 8 \in 0..8
    OBVIOUS
  <2> QED
    BY <1>2, <2>1
<1>4. PICK n \in Fits : \A k \in Fits : n <= k
  <2> HIDE DEF Fits
  <2> QED
    BY <1>3, LeastNumber
<1>5. n \in 0..8 /\ w < p[n] /\ \A m \in 0..(n - 1) : w >= p[m]
  <2>1. n \in 0..8 /\ w < p[n]
    BY <1>4
  <2>2. ASSUME NEW m \in 0..(n - 1) PROVE w >= p[m]
    <3>1. m \in 0..8 /\ ~(n <= m)
      BY <2>1
    <3>2. ~(w < p[m])
      BY <1>4, <3>1
    <3> QED
      BY <1>2, <3>1, <3>2
  <2> QED
    BY <2>1, <2>2
<1> DEFINE Least(k) == w < ByteWeight[k] /\ \A m \in 0..(k - 1) : w >= ByteWeight[m]
<1>6. PICK e : e = CHOOSE k \in 0..8 : Least(k)
  OBVIOUS
<1>7. e \in 0..8 /\ Least(e)
  <2>1. Least(n)
    BY <1>1, <1>5
  <2> HIDE DEF Least
  <2> QED
    BY <1>5, <1>6, <2>1, Zenon
<1>8. zip = PutUint(e, w)
  BY <1>6 DEF ZipUint64
<1>9. zip \in Seq(Bytes) /\ Len(zip) = e
  BY <1>2, <1>7, <1>8, PutShape
<1>10. Uint(zip) = w
  BY <1>2, <1>7, <1>8, UintOfPut
<1> QED
  BY <1>7, <1>9, <1>10

\* A greater number has no shorter string.
LEMMA NumberZipsGrow ==
  ASSUME NEW w \in Zips, NEW n \in Zips, w <= n
  PROVE  Len(ZipUint64(w)) <= Len(ZipUint64(n))
<1>1. PICK s, t : s = ZipUint64(w) /\ t = ZipUint64(n)
  OBVIOUS
<1>2. PICK i, j : i = Len(s) /\ j = Len(t)
  OBVIOUS
<1>3. i \in 0..8 /\ \A m \in 0..(i - 1) : w >= ByteWeight[m]
  BY <1>1, <1>2, NumberZip
<1>4. j \in 0..8 /\ n < ByteWeight[j]
  BY <1>1, <1>2, NumberZip
<1>5. w \in Nat /\ n \in Nat /\ ByteWeight[j] \in Nat
  BY <1>4, WordsAreNumbers, Weights DEF Powers
<1>6. ~(j \in 0..(i - 1))
  BY <1>3, <1>4, <1>5
<1>7. i <= j
  BY <1>3, <1>4, <1>6
<1> QED
  BY <1>1, <1>2, <1>7

\* A part of it is another number.
LEMMA NoShorterZip ==
  ASSUME NEW w \in Zips, NEW zip, zip = ZipUint64(w), NEW n \in 0..(Len(zip) - 1)
  PROVE  UnzipUint64(SubSeq(zip, 1, n)) # w
<1>1. zip \in Seq(Bytes) /\ Len(zip) \in 0..8 /\ w >= ByteWeight[n]
  BY NumberZip
<1>2. 1 \in Int /\ n \in Int /\ n <= Len(zip) /\ n \in Nat /\ n <= 8
  <2>1. PICK k : k = Len(zip)
    OBVIOUS
  <2>2. k \in 0..8 /\ n \in 0..(k - 1)
    BY <1>1, <2>1
  <2>3. 1 \in Int /\ n \in Int /\ n <= k /\ n \in Nat /\ n <= 8
    BY <2>2
  <2> QED
    BY <2>1, <2>3
<1>3. \A i \in 1..n : zip[i] \in Bytes
  BY <1>1, <1>2, ElementOfSeq
<1>4. /\ SubSeq(zip, 1, n) \in Seq(Bytes)
      /\ Len(SubSeq(zip, 1, n)) = IF 1 <= n THEN n - 1 + 1 ELSE 0
  <2> HIDE <1>1
  <2> QED
    BY <1>2, <1>3, SubSeqProperties
<1>5. Len(SubSeq(zip, 1, n)) = n
  BY <1>2, <1>4
<1>6. PICK s : s = SubSeq(zip, 1, n)
  OBVIOUS
<1>7. Uint(s) \in Nat /\ Uint(s) < ByteWeight[n]
  <2>1. s \in Seq(Bytes) /\ Len(s) = n /\ Len(s) <= 8
    BY <1>2, <1>4, <1>5, <1>6
  <2> QED
    BY <2>1, UintBelow
<1>8. w \in Nat /\ ByteWeight[n] \in Nat
  <2>1. n \in 0..8
    BY <1>2
  <2> QED
    BY <2>1, WordsAreNumbers, Weights DEF Powers
<1> QED
  BY <1>1, <1>6, <1>7, <1>8 DEF UnzipUint64

\* Half of the words are negative.
LEMMA HalfWord == \E h \in Nat \ {0} : WordMod = 2 * h /\ WordMod \div 2 = h
<1>1. PICK b, p, M, a : b = ByteBase /\ p = ByteWeight /\ M = WordMod /\ a = p[7]
  OBVIOUS
<1>2. b \in Nat /\ b % 2 = 0 /\ a \in Nat \ {0} /\ M = b * a /\ M \in Nat \ {0}
  <2>1. b \in Nat /\ b % 2 = 0
    BY <1>1, Weights
  <2>2. 7 \in 0..8 /\ 7 \in 0..(8 - 1) /\ 7 + 1 = 8
    OBVIOUS
  <2>3. a \in Nat \ {0} /\ M = b * a
    BY <1>1, <2>2, Weights DEF Powers, WordMod
  <2>4. M \in Nat \ {0}
    BY <1>1, WordsAreNumbers
  <2> QED
    BY <2>1, <2>3, <2>4
<1>3. PICK c : c = b \div 2
  OBVIOUS
<1>4. c \in Nat /\ b = 2 * c
  BY <1>2, <1>3
<1>5. PICK h : h = c * a
  OBVIOUS
<1>6. h \in Nat /\ b * a = 2 * h
  BY <1>2, <1>4, <1>5
<1>7. M = 2 * h /\ h # 0 /\ M \div 2 = h
  BY <1>2, <1>6
<1> QED
  BY <1>1, <1>6, <1>7

\* The sign is folded into the lowest bit.
LEMMA ZigZag ==
  ASSUME NEW i \in Zips
  PROVE  /\ ZigZagInt64(i) \in Zips
         /\ ZagZigUint64(ZigZagInt64(i)) = i
         /\ ~IsNegative(i) => ZigZagInt64(i) = 2 * i
         /\ IsNegative(i) => ZigZagInt64(i) = 2 * (WordMod - i) - 1
<1>1. PICK M, h : M = WordMod /\ h \in Nat \ {0} /\ M = 2 * h /\ M \div 2 = h
  BY HalfWord
<1>2. i \in Nat /\ i < M
  BY <1>1, WordsAreNumbers
<1>3. IsNegative(i) <=> i >= h
  BY <1>1 DEF IsNegative
<1>4. CASE i >= h
  <2>1. (2 * i) % M = 2 * i - M
    <3>1. PICK n, r : n = 2 * i /\ r = 2 * i - M
      OBVIOUS
    <3>2. n \in Nat /\ M \in Nat \ {0} /\ 1 \in Nat /\ r \in 0..(M - 1) /\ n = 1 * M + r
      BY <1>1, <1>2, <1>4, <3>1
    <3>3. n % M = r
      BY <3>2, DivUnique
    <3> QED
      BY <3>1, <3>3
  <2>2. PICK w : w = ZigZagInt64(i)
    OBVIOUS
  <2>3. w = M - 1 - (2 * i - M)
    BY <1>1, <1>3, <1>4, <2>1, <2>2 DEF ZigZagInt64, Complement
  <2>4. w = 2 * (M - i) - 1 /\ w \in 0..(M - 1)
    BY <1>1, <1>2, <1>4, <2>3
  <2>5. w = 2 * (M - i - 1) + 1 /\ M - i - 1 \in Nat
    BY <1>1, <1>2, <2>4
  <2>6. w % 2 = 1 /\ w \div 2 = M - i - 1
    BY <2>4, <2>5
  <2>7. ZagZigUint64(w) = M - 1 - (M - i - 1)
    BY <1>1, <2>6 DEF ZagZigUint64, Complement
  <2>8. M - 1 - (M - i - 1) = i
    BY <1>1, <1>2
  <2> QED
    BY <1>1, <1>3, <1>4, <2>2, <2>4, <2>7, <2>8 DEF Zips
<1>5. CASE i < h
  <2>1. (2 * i) % M = 2 * i
    <3>1. PICK n : n = 2 * i
      OBVIOUS
    <3>2. n \in Nat /\ M \in Nat \ {0} /\ 0 \in Nat /\ n \in 0..(M - 1) /\ n = 0 * M + n
      BY <1>1, <1>2, <1>5, <3>1
    <3>3. n % M = n
      BY <3>2, DivUnique
    <3> QED
      BY <3>1, <3>3
  <2>2. PICK w : w = ZigZagInt64(i)
    OBVIOUS
  <2>3. ~(i >= h)
    BY <1>1, <1>2, <1>5
  <2>4. w = 2 * i
    BY <1>1, <1>3, <2>1, <2>2, <2>3 DEF ZigZagInt64
  <2>5. w \in 0..(M - 1) /\ w % 2 = 0 /\ w \div 2 = i
    BY <1>1, <1>2, <1>5, <2>4
  <2>6. ZagZigUint64(w) = i
    BY <2>5 DEF ZagZigUint64
  <2> QED
    BY <1>1, <1>3, <2>2, <2>3, <2>4, <2>5, <2>6 DEF Zips
<1> QED
  BY <1>1, <1>2, <1>4, <1>5

\* Powers of two whose exponents add up.
LEMMA TwoTos ==
  ASSUME NEW a \in Nat, NEW c \in Nat, a + c <= 8 * ByteBits
  PROVE  TwoTo[a + c] = TwoTo[a] * TwoTo[c]
<1>1. PICK N, p : N = 8 * ByteBits /\ p = TwoTo
  OBVIOUS
<1>2. N \in Nat /\ Powers(p, 2, N) /\ a + c <= N
  <2>1. Powers(p, 2, N)
    BY <1>1, Bits, Zenon
  <2> QED
    BY <1>1, <2>1, Bits
<1>3. /\ p[0] = 1 /\ \A k \in 0..N : p[k] \in Nat \ {0}
      /\ \A k \in 0..(N - 1) : p[k + 1] = 2 * p[k]
  BY <1>2 DEF Powers
<1> DEFINE T == {k \in 0..c : p[a + k] = p[a] * p[k]}
<1>4. 0 \in T
  <2>1. a \in 0..N /\ a + 0 = a
    BY <1>2
  <2>2. PICK q : q = p[a]
    OBVIOUS
  <2>3. q \in Nat
    BY <1>3, <2>1, <2>2
  <2>4. q * 1 = q
    BY <2>3
  <2> QED
    BY <1>3, <2>1, <2>2, <2>4
<1>5. ASSUME NEW k \in 0..(c - 1), k \in T PROVE k + 1 \in T
  <2>1. /\ a + k \in 0..(N - 1) /\ k \in 0..(N - 1) /\ (a + k) + 1 = a + (k + 1)
        /\ a \in 0..N /\ k \in 0..N /\ k + 1 \in 0..c
    BY <1>2
  <2>2. PICK q, r : q = p[a] /\ r = p[k]
    OBVIOUS
  <2>3. q \in Nat /\ r \in Nat
    BY <1>3, <2>1, <2>2
  <2>4. p[a + (k + 1)] = 2 * p[a + k] /\ p[k + 1] = 2 * r
    BY <1>3, <2>1, <2>2
  <2>5. p[a + k] = q * r
    BY <1>5, <2>2
  <2>6. 2 * (q * r) = q * (2 * r)
    BY <2>3
  <2> QED
    BY <2>1, <2>2, <2>4, <2>5, <2>6
<1>6. 0..c \subseteq T
  <2> HIDE DEF T
  <2> QED
    BY <1>4, <1>5, Induction
<1>7. c \in T
  BY <1>6
<1> QED
  BY <1>1, <1>7

\* A word of eight bytes has eight times the bits of a byte.
LEMMA WordBits == WordMod = TwoTo[8 * ByteBits]
<1>1. PICK B, N, b, p : B = ByteBits /\ N = 8 * ByteBits /\ b = ByteBase /\ p = ByteWeight
  OBVIOUS
<1>2. B \in Nat \ {0} /\ N = 8 * B /\ N \in Nat
  BY <1>1, Bits
<1>3. /\ p[0] = 1 /\ \A k \in 0..8 : p[k] \in Nat \ {0}
      /\ \A k \in 0..7 : p[k + 1] = b * p[k]
  BY <1>1, Weights DEF Powers
<1>4. b = TwoTo[B] /\ TwoTo[0] = 1
  BY <1>1, Bits DEF ByteBase, Powers
<1> DEFINE T == {k \in 0..8 : p[k] = TwoTo[k * B]}
<1>5. 0 \in T
  <2>1. 0 * B = 0
    BY <1>2
  <2> QED
    BY <1>3, <1>4, <2>1
<1>6. ASSUME NEW k \in 0..(8 - 1), k \in T PROVE k + 1 \in T
  <2>1. PICK c : c = k * B
    OBVIOUS
  <2>2. k \in Nat /\ 8 \in Nat /\ k < 8 /\ B \in Nat
    BY <1>2
  <2>3. c + B <= 8 * B /\ c \in Nat
    BY <2>1, <2>2, Times
  <2>4. B + c <= N /\ B + c \in Nat
    BY <1>2, <2>3
  <2>5. TwoTo[B + c] = TwoTo[B] * TwoTo[c]
    BY <1>1, <2>2, <2>3, <2>4, TwoTos
  <2>6. (k + 1) * B = B + c
    BY <2>1, <2>2
  <2>7. p[k + 1] = b * p[k]
    BY <1>3
  <2>8. p[k] = TwoTo[c]
    BY <1>6, <2>1
  <2>9. k + 1 \in 0..8
    OBVIOUS
  <2> QED
    BY <1>4, <2>5, <2>6, <2>7, <2>8, <2>9
<1>7. 0..8 \subseteq T
  <2>1. 8 \in Nat
    OBVIOUS
  <2> HIDE DEF T
  <2> QED
    BY <1>5, <1>6, <2>1, Induction
<1>8. 8 \in T
  BY <1>7
<1> QED
  BY <1>1, <1>8 DEF WordMod

\* the bits of a word, lowest first
BitsOf(w) == [k \in 1..(8 * ByteBits) |-> (w \div TwoTo[k - 1]) % 2]

\* Reverse64 puts them together again, lowest on top.
LEMMA ReverseReads ==
  ASSUME NEW w \in Nat
  PROVE  \E f : /\ Horner(f, BitsOf(w), 2, 8 * ByteBits)
                /\ Reverse64(w) = f[8 * ByteBits]
<1>1. PICK N, p, c : N = 8 * ByteBits /\ p = TwoTo /\ c = BitsOf(w)
  OBVIOUS
<1>2. N \in Nat /\ 2 \in Nat \ {0} /\ Powers(p, 2, N)
  <2>1. Powers(p, 2, N)
    BY <1>1, Bits, Zenon
  <2> QED
    BY <1>1, <2>1, Bits
<1>3. DigitsBack(c, w, p, 2, N)
  BY <1>1 DEF BitsOf, DigitsBack
<1>4. /\ \E g : PutsBack(g, w, p, 2, N)
      /\ \A f : PutsBack(f, w, p, 2, N) => Horner(f, c, 2, N)
  BY <1>2, <1>3, PutsBackwards
<1>g. PICK g : g = [k \in 0..(8 * ByteBits) |->
                IF k = 0 THEN 0 ELSE 2 * g[k - 1] + ((w \div TwoTo[k - 1]) % 2)]
  <2>1. PICK g : PutsBack(g, w, p, 2, N)
    BY <1>4, Zenon
  <2>2. PutsBack(g, w, TwoTo, 2, 8 * ByteBits)
    BY <1>1, <2>1, Zenon
  <2> QED
    BY <2>2, Zenon DEF PutsBack
<1> DEFINE word[k \in 0..(8 * ByteBits)] ==
             IF k = 0 THEN 0 ELSE 2 * word[k - 1] + ((w \div TwoTo[k - 1]) % 2)
<1>5. word = [k \in 0..(8 * ByteBits) |->
                IF k = 0 THEN 0 ELSE 2 * word[k - 1] + ((w \div TwoTo[k - 1]) % 2)]
  BY <1>g, Zenon
<1>6. Reverse64(w) = word[8 * ByteBits]
  BY DEF Reverse64
<1> HIDE DEF word
<1>7. PutsBack(word, w, p, 2, N)
  BY <1>1, <1>5, Zenon DEF PutsBack
<1>8. Horner(word, c, 2, N)
  BY <1>4, <1>7
<1> QED
  BY <1>1, <1>6, <1>8

\* Reversing a word twice gives that word.
LEMMA ReverseTwice ==
  ASSUME NEW w \in Zips
  PROVE  Reverse64(w) \in Zips /\ Reverse64(Reverse64(w)) = w
<1>1. PICK N, p, c, n : N = 8 * ByteBits /\ p = TwoTo /\ c = BitsOf(w) /\ n = Reverse64(w)
  OBVIOUS
<1>2. N \in Nat /\ N \in 0..N /\ Powers(p, 2, N) /\ 2 \in Nat \ {0}
  <2>1. Powers(p, 2, N)
    BY <1>1, Bits, Zenon
  <2>2. N \in Nat
    BY <1>1, Bits
  <2> QED
    BY <2>1, <2>2
<1>3. w \in Nat /\ w < p[N] /\ WordMod = p[N]
  BY <1>1, WordsAreNumbers, WordBits
<1>4. PICK f : Horner(f, c, 2, N) /\ n = f[N]
  BY <1>1, <1>3, ReverseReads, Zenon
<1>5. n \in Nat /\ n < p[N]
  BY <1>2, <1>4, HornerDigits
<1>6. PICK d : d = BitsOf(n)
  OBVIOUS
<1>7. PICK g : Horner(g, d, 2, N) /\ Reverse64(n) = g[N]
  BY <1>1, <1>5, <1>6, ReverseReads, Zenon
<1>8. DigitsBack(c, w, p, 2, N) /\ DigitsBack(d, f[N], p, 2, N)
  BY <1>1, <1>4, <1>6 DEF BitsOf, DigitsBack
<1>9. g[N] = w
  BY <1>2, <1>3, <1>4, <1>7, <1>8, BackAndForth
<1>10. n \in Zips
  <2>1. p[N] \in Nat
    BY <1>3, WordsAreNumbers
  <2>2. n \in 0..(p[N] - 1)
    BY <1>5, <2>1
  <2> QED
    BY <1>3, <2>2 DEF Zips
<1> QED
  BY <1>1, <1>7, <1>9, <1>10

\* ZipUint64, ZipInt64 and ZipFloat64 (zipint.go) for words of any number of
\* bits: nothing is lost and no byte is spent on zeroes in front; the signed
\* numbers of each size, from both sides of zero, have strings of one length.
THEOREM WordNumbersZip ==
  ASSUME u \in Zips
  PROVE  NumbersZip
<1>1. PICK zip : zip = ZipUint64(u)
  OBVIOUS
<1>2. UnzipUint64(zip) = u
  BY <1>1, NumberZip DEF UnzipUint64
<1>3. \A n \in 0..(Len(zip) - 1) : UnzipUint64(SubSeq(zip, 1, n)) # u
  BY <1>1, NoShorterZip
<1>4. UnzipInt64(ZipInt64(u)) = u
  <2>1. PICK w : w = ZigZagInt64(u)
    OBVIOUS
  <2>2. w \in Zips /\ ZagZigUint64(w) = u
    BY <2>1, ZigZag
  <2>3. Uint(ZipUint64(w)) = w
    BY <2>2, NumberZip
  <2> QED
    BY <2>1, <2>2, <2>3 DEF UnzipInt64, ZipInt64, UnzipUint64
<1>5. UnzipFloat64(ZipFloat64(u)) = u
  <2>1. PICK w : w = Reverse64(u)
    OBVIOUS
  <2>2. w \in Zips /\ Reverse64(w) = u
    BY <2>1, ReverseTwice
  <2>3. Uint(ZipUint64(w)) = w
    BY <2>2, NumberZip
  <2> QED
    BY <2>1, <2>2, <2>3 DEF UnzipFloat64, ZipFloat64, UnzipUint64
<1>6. ASSUME ~IsNegative(u + 1)
      PROVE  /\ Len(ZipInt64(u)) <= Len(ZipInt64(Complement(u)))
             /\ Len(ZipInt64(Complement(u))) <= Len(ZipInt64(u + 1))
  <2>1. PICK M, h : M = WordMod /\ h \in Nat \ {0} /\ M = 2 * h /\ M \div 2 = h
    BY HalfWord
  <2>2. u \in Nat /\ u < M
    BY <2>1, WordsAreNumbers
  <2>3. u + 1 < h
    <3>1. ~(u + 1 >= h)
      BY <1>6, <2>1 DEF IsNegative
    <3> QED
      BY <2>1, <2>2, <3>1
  <2>4. PICK c : c = Complement(u)
    OBVIOUS
  <2>5. c = M - 1 - u
    BY <2>1, <2>4 DEF Complement
  <2>6. c \in 0..(M - 1) /\ c >= h /\ u + 1 \in 0..(M - 1) /\ ~(u >= h) /\ ~(u + 1 >= h)
    BY <2>1, <2>2, <2>3, <2>5
  <2>7. /\ c \in Zips /\ u + 1 \in Zips
        /\ IsNegative(c) /\ ~IsNegative(u) /\ ~IsNegative(u + 1)
    BY <2>1, <2>6 DEF Zips, IsNegative
  <2>8. PICK d, e, f : d = ZigZagInt64(u) /\ e = ZigZagInt64(c) /\ f = ZigZagInt64(u + 1)
    OBVIOUS
  <2>9. d \in Zips /\ d = 2 * u
    BY <2>7, <2>8, ZigZag
  <2>10. e \in Zips /\ e = 2 * (M - c) - 1
    BY <2>1, <2>7, <2>8, ZigZag
  <2>11. f \in Zips /\ f = 2 * (u + 1)
    BY <2>7, <2>8, ZigZag
  <2>12. d <= e /\ e <= f
    BY <2>1, <2>2, <2>5, <2>9, <2>10, <2>11
  <2>13. /\ Len(ZipUint64(d)) <= Len(ZipUint64(e))
         /\ Len(ZipUint64(e)) <= Len(ZipUint64(f))
    BY <2>9, <2>10, <2>11, <2>12, NumberZipsGrow
  <2> QED
    BY <2>4, <2>8, <2>13 DEF ZipInt64
<1> QED
  BY <1>1, <1>2, <1>3, <1>4, <1>5, <1>6 DEF NumbersZip
-----------------------------------------------------------------------------
(* RON64 text *)

LEMMA RonWeights ==
  /\ RonDigits \in Nat \ {0} /\ RonBase \in Nat \ {0, 1}
  /\ Powers(RonWeight, RonBase, RonDigits + 1)
<1>1. PICK N, B : N = RonDigits + 1 /\ B = RonBase
  OBVIOUS
<1>2. RonDigits \in Nat \ {0} /\ RonBase \in Nat \ {0, 1}
  BY RdxOrderAssumption
<1>3. PICK g : g = [k \in 0..N |-> IF k = 0 THEN 1 ELSE B * g[k - 1]]
  <2>1. N \in Nat /\ B \in Nat \ {0}
    BY <1>1, <1>2
  <2>2. \E g : g = [k \in 0..N |-> IF k = 0 THEN 1 ELSE B * g[k - 1]]
    BY <2>1, PowerFunction, Zenon
  <2> QED
    BY <2>2, Zenon
<1>4. RonWeight = [k \in 0..(RonDigits + 1) |-> IF k = 0 THEN 1 ELSE RonBase * RonWeight[k - 1]]
  BY <1>1, <1>3, Zenon DEF RonWeight
<1> HIDE DEF RonWeight
<1>5. PICK q : q = RonWeight
  OBVIOUS
<1>6. q = [k \in 0..N |-> IF k = 0 THEN 1 ELSE B * q[k - 1]]
  BY <1>1, <1>4, <1>5, Zenon
<1>7. Powers(q, B, N)
  <2>1. N \in Nat /\ B \in Nat \ {0}
    BY <1>1, <1>2
  <2> QED
    BY <1>6, <2>1, PowersOf
<1> QED
  BY <1>1, <1>2, <1>5, <1>7

\* a is the text of w, perhaps with zeroes in front
Spells(a, w) ==
  /\ a \in Seq(Digits) /\ Len(a) \in 1..(RonDigits + 1)
  /\ w < RonWeight[Len(a)]
  /\ DigitsOf(a, w, RonWeight, RonBase, Len(a))

\* RON64String spells a word, with the digits that it needs.
LEMMA RonText ==
  ASSUME NEW w \in Zips, NEW s, s = RON64String(w)
  PROVE  /\ Spells(s, w)
         /\ Len(s) = 1 \/ w >= RonWeight[Len(s) - 1]
         /\ Len(s) <= RonDigits <=> w < RonWeight[RonDigits]
<1>1. PICK N, b, p : N = RonDigits + 1 /\ b = RonBase /\ p = RonWeight
  OBVIOUS
<1>2. /\ N \in Nat \ {0, 1} /\ b \in Nat \ {0, 1} /\ Powers(p, b, N)
      /\ RonDigits = N - 1
  <2>1. Powers(p, b, N)
    BY <1>1, RonWeights, Zenon
  <2>2. RonDigits \in Nat \ {0} /\ b \in Nat \ {0, 1}
    BY <1>1, RonWeights
  <2> QED
    BY <1>1, <2>1, <2>2
<1>3. \A k \in 0..N : p[k] \in Nat \ {0}
  BY <1>2 DEF Powers
<1>4. w \in Nat /\ w < p[N]
  <2>1. w \in Nat /\ w < WordMod /\ WordMod \in Nat
    BY WordsAreNumbers
  <2>2. N \in 0..N
    BY <1>2
  <2>3. WordMod <= p[N] /\ p[N] \in Nat
    BY <1>1, <1>3, <2>2, WordSize
  <2> QED
    BY <2>1, <2>3
<1> DEFINE Fits == {n \in 1..N : w < p[n]}
<1>5. Fits \subseteq Nat /\ Fits # {}
  <2>1. N \in 1..N
    BY <1>2
  <2> QED
    BY <1>4, <2>1
<1>6. PICK n \in Fits : \A k \in Fits : n <= k
  <2> HIDE DEF Fits
  <2> QED
    BY <1>5, LeastNumber
<1>7. n \in 1..N /\ w < p[n] /\ (n = 1 \/ w >= p[n - 1])
  <2>1. n \in 1..N /\ w < p[n]
    BY <1>6
  <2>2. ASSUME n # 1 PROVE w >= p[n - 1]
    <3>1. n - 1 \in 1..N /\ n - 1 \in 0..N /\ ~(n <= n - 1)
      <4>1. N \in Nat /\ n \in 1..N
        BY <1>2, <2>1
      <4> HIDE DEF Fits
      <4> QED
        BY <2>2, <4>1
    <3>2. ~(w < p[n - 1])
      BY <1>6, <3>1
    <3> QED
      BY <1>3, <1>4, <3>1, <3>2
  <2> QED
    BY <2>1, <2>2
<1> DEFINE Least(k) == w < RonWeight[k] /\ (k = 1 \/ w >= RonWeight[k - 1])
<1>8. PICK e : e = CHOOSE k \in 1..(RonDigits + 1) : Least(k)
  OBVIOUS
<1>9. e \in 1..N /\ Least(e)
  <2>1. Least(n) /\ n \in 1..(RonDigits + 1)
    BY <1>1, <1>7
  <2>2. e \in 1..(RonDigits + 1) /\ Least(e)
    <3> HIDE DEF Least
    <3> QED
      BY <1>8, <2>1, Zenon
  <2> QED
    BY <1>1, <2>2
<1>10. s = [k \in 1..e |-> (w \div p[e - k]) % b]
  BY <1>1, <1>8 DEF RON64String
<1>11. \A k \in 1..e : s[k] \in 0..(b - 1)
  <2> SUFFICES ASSUME NEW k \in 1..e PROVE s[k] \in 0..(b - 1)
    OBVIOUS
  <2>1. PICK q, d : q = p[e - k] /\ d = w \div q
    OBVIOUS
  <2>2. e - k \in 0..N
    <3>1. N \in Nat /\ e \in 1..N
      BY <1>2, <1>9
    <3> QED
      BY <3>1
  <2>3. q \in Nat \ {0}
    BY <1>3, <2>1, <2>2
  <2>4. d \in Nat
    BY <1>4, <2>1, <2>3, DivMod
  <2>5. d % b \in 0..(b - 1)
    BY <1>2, <2>4, DivMod
  <2> QED
    BY <1>10, <2>1, <2>5
<1>12. s \in Seq(Digits) /\ Len(s) = e
  <2>1. e \in Nat /\ s \in [1..e -> Digits]
    BY <1>1, <1>9, <1>10, <1>11 DEF Digits
  <2> QED
    BY <2>1, FunctionsAreSequences
<1>13. Spells(s, w)
  BY <1>1, <1>9, <1>10, <1>12 DEF Spells, DigitsOf
<1>14. e <= N - 1 <=> w < p[N - 1]
  <2>1. ASSUME e <= N - 1 PROVE w < p[N - 1]
    <3>1. N - 1 \in 0..N /\ e \in 0..(N - 1) /\ e \in 0..N
      BY <1>2, <1>9, <2>1
    <3>2. p[e] <= p[N - 1] /\ p[e] \in Nat /\ p[N - 1] \in Nat
      BY <1>2, <1>3, <3>1, PowersGrow
    <3>3. w < p[e]
      BY <1>1, <1>9
    <3> QED
      BY <1>4, <3>2, <3>3
  <2>2. ASSUME ~(e <= N - 1) PROVE ~(w < p[N - 1])
    <3>1. e = N /\ e # 1 /\ N - 1 \in 0..N
      BY <1>2, <1>9, <2>2
    <3>2. w >= p[N - 1] /\ p[N - 1] \in Nat
      BY <1>1, <1>3, <1>9, <3>1
    <3> QED
      BY <1>4, <3>2
  <2> QED
    BY <2>1, <2>2
<1> QED
  BY <1>1, <1>2, <1>9, <1>12, <1>13, <1>14

\* The digits that a text starts with, counted.
LEMMA Leading ==
  ASSUME NEW txt, Len(txt) \in Nat, NEW m \in 0..(RonDigits + 1), m <= Len(txt),
         \A k \in 1..m : txt[k] \in Digits,
         m = RonDigits + 1 \/ m = Len(txt) \/ txt[m + 1] \notin Digits
  PROVE  LeadingDigits(txt) = m
<1> DEFINE Q(n) == /\ n <= Len(txt) /\ \A k \in 1..n : txt[k] \in Digits
                   /\ n = RonDigits + 1 \/ n = Len(txt) \/ txt[n + 1] \notin Digits
<1>1. Q(m)
  OBVIOUS
<1>2. PICK e : e = LeadingDigits(txt)
  OBVIOUS
<1>3. e = CHOOSE n \in 0..(RonDigits + 1) : Q(n)
  BY <1>2 DEF LeadingDigits
<1>4. e \in 0..(RonDigits + 1) /\ Q(e)
  <2> HIDE DEF Q
  <2> QED
    BY <1>1, <1>3, Zenon
<1>5. RonDigits \in Nat
  BY RonWeights
<1>6. ~(e < m)
  <2> SUFFICES ASSUME e < m PROVE FALSE
    OBVIOUS
  <2>1. e + 1 \in 1..m /\ e # RonDigits + 1 /\ e # Len(txt)
    BY <1>4, <1>5
  <2> QED
    BY <1>4, <2>1
<1>7. ~(m < e)
  <2> SUFFICES ASSUME m < e PROVE FALSE
    OBVIOUS
  <2>1. m + 1 \in 1..e /\ m # RonDigits + 1 /\ m # Len(txt)
    BY <1>4, <1>5
  <2> QED
    BY <1>4, <2>1
<1>8. e = m
  BY <1>4, <1>5, <1>6, <1>7
<1> QED
  BY <1>2, <1>8

\* The word that a text starts with is read.
LEMMA Parses ==
  ASSUME NEW txt, Len(txt) \in Nat, NEW m \in 0..(RonDigits + 1), m <= Len(txt),
         m = RonDigits + 1 \/ m = Len(txt) \/ txt[m + 1] = Dash,
         NEW w \in Zips, w < RonWeight[m], DigitsOf(txt, w, RonWeight, RonBase, m)
  PROVE  ParseRON64(txt) = [val |-> w, rest |-> SubSeq(txt, m + 1, Len(txt))]
<1>1. PICK N, b, p, M : N = RonDigits + 1 /\ b = RonBase /\ p = RonWeight /\ M = WordMod
  OBVIOUS
<1>2. N \in Nat /\ b \in Nat \ {0} /\ Powers(p, b, N) /\ m \in 0..N
  <2>1. Powers(p, b, N)
    BY <1>1, RonWeights, Zenon
  <2>2. N \in Nat /\ b \in Nat \ {0} /\ m \in 0..N
    BY <1>1, RonWeights
  <2> QED
    BY <2>1, <2>2
<1>3. \A k \in 0..N : p[k] \in Nat \ {0}
  BY <1>2 DEF Powers
<1>4. w \in Nat /\ w < M /\ M \in Nat \ {0} /\ w < p[m]
  BY <1>1, WordsAreNumbers
<1>5. \A k \in 1..m : txt[k] = (w \div p[m - k]) % b
  BY <1>1 DEF DigitsOf
<1>6. \A k \in 1..m : txt[k] \in 0..(b - 1)
  <2> SUFFICES ASSUME NEW k \in 1..m PROVE txt[k] \in 0..(b - 1)
    OBVIOUS
  <2>1. PICK q, d : q = p[m - k] /\ d = w \div q
    OBVIOUS
  <2>2. m - k \in 0..N
    BY <1>2
  <2>3. q \in Nat \ {0}
    BY <1>3, <2>1, <2>2
  <2>4. d \in Nat
    BY <1>4, <2>1, <2>3, DivMod
  <2>5. d % b \in 0..(b - 1)
    BY <1>2, <2>4, DivMod
  <2> QED
    BY <1>5, <2>1, <2>5
<1>7. LeadingDigits(txt) = m
  <2>1. \A k \in 1..m : txt[k] \in Digits
    BY <1>1, <1>6 DEF Digits
  <2>2. Dash \notin Digits
    BY RonWeights DEF Dash, Digits
  <2> QED
    BY <2>1, <2>2, Leading
<1>8. m \in Nat /\ AreDigits(txt, m, b)
  BY <1>2, <1>6 DEF AreDigits
<1>9. PICK h : ReadsDigits(h, txt, m, b, M)
  BY <1>2, <1>4, <1>8, HornerFunction
<1> DEFINE word[k \in 0..m] == IF k = 0 THEN 0 ELSE (RonBase * word[k - 1] + txt[k]) % WordMod
<1>10. h = [k \in 0..m |-> IF k = 0 THEN 0 ELSE (RonBase * h[k - 1] + txt[k]) % WordMod]
  BY <1>1, <1>9 DEF ReadsDigits
<1>11. word = [k \in 0..m |-> IF k = 0 THEN 0 ELSE (RonBase * word[k - 1] + txt[k]) % WordMod]
  BY <1>10, Zenon
<1>12. ParseRON64(txt) = [val |-> word[m], rest |-> SubSeq(txt, m + 1, Len(txt))]
  BY <1>7 DEF ParseRON64
<1> HIDE DEF word
<1>13. PICK f : f = word
  OBVIOUS
<1>14. ReadsDigits(f, txt, m, b, M)
  BY <1>1, <1>11, <1>13, Zenon DEF ReadsDigits
<1>15. DigitsOf(txt, w, p, b, m)
  BY <1>1
<1>16. f[m] = w
  BY <1>2, <1>4, <1>14, <1>15, ReadsExactly
<1> QED
  BY <1>12, <1>13, <1>16

\* Zeroes in front do not change what is spelled.
LEMMA Padded ==
  ASSUME NEW w \in Nat, NEW s, Spells(s, w), NEW pad, pad \in Seq({0}),
         Len(pad) + Len(s) <= RonDigits + 1
  PROVE  Spells(pad \o s, w)
<1>1. PICK N, b, p, i, n, a : /\ N = RonDigits + 1 /\ b = RonBase /\ p = RonWeight
                              /\ i = Len(pad) /\ n = Len(s) /\ a = pad \o s
  OBVIOUS
<1>2. N \in Nat /\ b \in Nat \ {0, 1} /\ Powers(p, b, N)
  <2>1. Powers(p, b, N)
    BY <1>1, RonWeights, Zenon
  <2>2. N \in Nat /\ b \in Nat \ {0, 1}
    BY <1>1, RonWeights
  <2> QED
    BY <2>1, <2>2
<1>3. \A k \in 0..N : p[k] \in Nat \ {0}
  BY <1>2 DEF Powers
<1>4. s \in Seq(Digits) /\ n \in 1..N /\ w < p[n] /\ \A k \in 1..n : s[k] = (w \div p[n - k]) % b
  BY <1>1 DEF Spells, DigitsOf
<1>5. i \in Nat /\ i + n <= N /\ \A k \in 1..i : pad[k] = 0
  <2>1. i \in Nat /\ i + n <= N
    BY <1>1, LenProperties
  <2>2. \A k \in 1..i : pad[k] \in {0}
    BY <1>1, ElementOfSeq
  <2> QED
    BY <2>1, <2>2
<1>6. /\ a \in Seq(Digits) /\ Len(a) = i + n
      /\ \A k \in 1..(i + n) : a[k] = IF k <= i THEN 0 ELSE s[k - i]
  <2>1. 0 \in Digits
    BY <1>1, <1>2 DEF Digits
  <2>2. pad \in Seq(Digits)
    <3>1. pad \in [1..i -> Digits]
      <4>1. pad \in [1..i -> {0}]
        BY <1>1, LenProperties
      <4> QED
        BY <2>1, <4>1
    <3> QED
      BY <1>5, <3>1, FunctionsAreSequences
  <2>3. /\ a \in Seq(Digits) /\ Len(a) = i + n
        /\ \A k \in 1..(i + n) : a[k] = IF k <= i THEN pad[k] ELSE s[k - i]
    BY <1>1, <1>4, <2>2, ConcatProperties
  <2>4. ASSUME NEW k \in 1..(i + n) PROVE a[k] = IF k <= i THEN 0 ELSE s[k - i]
    <3>1. k <= i => k \in 1..i
      BY <1>4, <1>5
    <3> QED
      BY <1>5, <2>3, <3>1
  <2> QED
    BY <2>3, <2>4
<1>7. PICK m : m = i + n
  OBVIOUS
<1>8. m \in 1..N /\ m \in 0..N /\ n \in 0..m
  BY <1>2, <1>4, <1>5, <1>7
<1>9. w < p[m]
  <2>1. p[n] <= p[m] /\ p[n] \in Nat /\ p[m] \in Nat
    <3>1. n \in 0..N
      BY <1>2, <1>4
    <3> QED
      BY <1>2, <1>3, <1>8, <3>1, PowersGrow
  <2> QED
    BY <1>4, <2>1
<1>10. ASSUME NEW k \in 1..m PROVE a[k] = (w \div p[m - k]) % b
  <2>1. CASE k <= i
    <3>1. PICK q : q = p[m - k]
      OBVIOUS
    <3>2. m - k \in 0..N /\ n \in 0..(m - k) /\ n \in 0..N
      BY <1>2, <1>4, <1>5, <1>7, <1>8, <2>1
    <3>3. p[n] <= q /\ p[n] \in Nat /\ q \in Nat \ {0}
      BY <1>2, <1>3, <3>1, <3>2, PowersGrow
    <3>4. w < q
      BY <1>4, <3>3
    <3>5. w \in 0..(q - 1) /\ 0 \in Nat /\ w = 0 * q + w
      BY <3>3, <3>4
    <3>6. w \div q = 0
      BY <3>3, <3>5, DivUnique
    <3>7. 0 % b = 0
      BY <1>2
    <3>8. a[k] = 0
      BY <1>6, <1>7, <2>1
    <3> QED
      BY <3>1, <3>6, <3>7, <3>8
  <2>2. CASE ~(k <= i)
    <3>1. k - i \in 1..n /\ n - (k - i) = m - k
      BY <1>4, <1>5, <1>7, <2>2
    <3>2. a[k] = s[k - i]
      BY <1>6, <1>7, <2>2
    <3> QED
      BY <1>4, <3>1, <3>2
  <2> QED
    BY <2>1, <2>2
<1> QED
  BY <1>1, <1>6, <1>7, <1>8, <1>9, <1>10 DEF Spells, DigitsOf

\* A text that is only a word is read as that word.
LEMMA ParsesAlone ==
  ASSUME NEW w \in Zips, NEW a, Spells(a, w)
  PROVE  ParseRON64(a) = [val |-> w, rest |-> <<>>]
<1>1. PICK m : m = Len(a)
  OBVIOUS
<1>2. /\ m \in 1..(RonDigits + 1) /\ w < RonWeight[m] /\ RonDigits \in Nat
      /\ DigitsOf(a, w, RonWeight, RonBase, m)
  BY <1>1, RonWeights DEF Spells
<1>3. m \in 0..(RonDigits + 1) /\ Len(a) \in Nat /\ m <= Len(a) /\ m = Len(a)
  BY <1>1, <1>2
<1>4. ParseRON64(a) = [val |-> w, rest |-> SubSeq(a, m + 1, Len(a))]
  BY <1>2, <1>3, Parses
<1>5. SubSeq(a, m + 1, Len(a)) = <<>>
  <2>1. m + 1 \in Int /\ Len(a) \in Int /\ Len(a) < m + 1
    BY <1>3
  <2> QED
    BY <2>1, SubSeqEmpty
<1> QED
  BY <1>4, <1>5

Text == 0..RonBase

\* txt is the text of a word, a dash, and more.
Joins(txt, a, t) ==
  /\ txt \in Seq(Text) /\ Len(txt) = Len(a) + 1 + Len(t)
  /\ \A k \in 1..Len(a) : txt[k] = a[k]
  /\ txt[Len(a) + 1] = Dash
  /\ \A k \in 1..Len(t) : txt[Len(a) + 1 + k] = t[k]

LEMMA Dashed ==
  ASSUME NEW a \in Seq(Digits), NEW t \in Seq(Digits)
  PROVE  Joins((a \o <<Dash>>) \o t, a, t)
<1>1. PICK i, j, d, s, txt : /\ i = Len(a) /\ j = Len(t) /\ d = <<Dash>> /\ s = a \o d
                             /\ txt = s \o t
  OBVIOUS
<1>2. i \in Nat /\ j \in Nat
  BY <1>1, LenProperties
<1>3. Digits \subseteq Text /\ Dash \in Text
  BY RonWeights DEF Digits, Text, Dash
<1>4. a \in Seq(Text) /\ t \in Seq(Text)
  <2>1. a \in [1..i -> Digits] /\ t \in [1..j -> Digits]
    BY <1>1, LenProperties
  <2>2. a \in [1..i -> Text] /\ t \in [1..j -> Text]
    BY <1>3, <2>1
  <2> QED
    BY <1>2, <2>2, FunctionsAreSequences
<1>5. d \in Seq(Text) /\ Len(d) = 1 /\ d[1] = Dash
  BY <1>1, <1>3
<1>6. /\ s \in Seq(Text) /\ Len(s) = i + 1
      /\ \A k \in 1..(i + 1) : s[k] = IF k <= i THEN a[k] ELSE d[k - i]
  BY <1>1, <1>4, <1>5, ConcatProperties
<1>7. /\ txt \in Seq(Text) /\ Len(txt) = i + 1 + j
      /\ \A k \in 1..(i + 1 + j) : txt[k] = IF k <= i + 1 THEN s[k] ELSE t[k - (i + 1)]
  BY <1>1, <1>4, <1>6, ConcatProperties
<1>8. ASSUME NEW k \in 1..i PROVE txt[k] = a[k]
  <2>1. k \in 1..(i + 1) /\ k \in 1..(i + 1 + j) /\ k <= i /\ k <= i + 1
    BY <1>2
  <2> QED
    BY <1>6, <1>7, <2>1
<1>9. txt[i + 1] = Dash
  <2>1. /\ i + 1 \in 1..(i + 1) /\ i + 1 \in 1..(i + 1 + j) /\ ~(i + 1 <= i) /\ i + 1 <= i + 1
        /\ (i + 1) - i = 1
    BY <1>2
  <2> QED
    BY <1>5, <1>6, <1>7, <2>1
<1>10. ASSUME NEW k \in 1..j PROVE txt[i + 1 + k] = t[k]
  <2>1. i + 1 + k \in 1..(i + 1 + j) /\ ~(i + 1 + k <= i + 1) /\ (i + 1 + k) - (i + 1) = k
    BY <1>2
  <2> QED
    BY <1>7, <2>1
<1> QED
  BY <1>1, <1>7, <1>8, <1>9, <1>10 DEF Joins

\* What is left when the first word is read.
Leaves(txt, w, t, r) ==
  /\ ParseRON64(txt) = [val |-> w, rest |-> r]
  /\ r # <<>> /\ Head(r) = Dash /\ Len(r) = Len(t) + 1 /\ Tail(r) = t

LEMMA ParsesFirst ==
  ASSUME NEW w \in Zips, NEW a, Spells(a, w), NEW t \in Seq(Digits)
  PROVE  \E r : Leaves((a \o <<Dash>>) \o t, w, t, r)
<1>1. PICK m, j, txt : m = Len(a) /\ j = Len(t) /\ txt = (a \o <<Dash>>) \o t
  OBVIOUS
<1>2. /\ m \in 1..(RonDigits + 1) /\ w < RonWeight[m] /\ a \in Seq(Digits)
      /\ DigitsOf(a, w, RonWeight, RonBase, m)
  BY <1>1 DEF Spells
<1>n. RonDigits \in Nat /\ j \in Nat
  BY <1>1, RonWeights, LenProperties
<1>3. /\ txt \in Seq(Text) /\ Len(txt) = m + 1 + j
      /\ \A k \in 1..m : txt[k] = a[k]
      /\ txt[m + 1] = Dash
      /\ \A k \in 1..j : txt[m + 1 + k] = t[k]
  <2>1. Joins(txt, a, t)
    BY <1>1, <1>2, Dashed
  <2> QED
    BY <1>1, <2>1 DEF Joins
<1>4. m \in 0..(RonDigits + 1) /\ Len(txt) \in Nat /\ m <= Len(txt)
  BY <1>2, <1>3, <1>n
<1>5. DigitsOf(txt, w, RonWeight, RonBase, m)
  BY <1>2, <1>3 DEF DigitsOf
<1>6. ParseRON64(txt) = [val |-> w, rest |-> SubSeq(txt, m + 1, Len(txt))]
  BY <1>2, <1>3, <1>4, <1>5, Parses
<1>7. PICK q : q = <<Dash>> \o t
  OBVIOUS
<1>8. /\ q \in Seq(Text) /\ Len(q) = 1 + j /\ q[1] = Dash
      /\ t \in Seq(Text) /\ \A k \in 1..j : q[k + 1] = t[k]
  <2>1. Digits \subseteq Text /\ Dash \in Text
    BY RonWeights DEF Digits, Text, Dash
  <2>2. t \in Seq(Text)
    <3>1. t \in [1..j -> Digits]
      BY <1>1, LenProperties
    <3>2. t \in [1..j -> Text]
      BY <2>1, <3>1
    <3> QED
      BY <1>n, <3>2, FunctionsAreSequences
  <2>3. PICK d : d = <<Dash>>
    OBVIOUS
  <2>4. d \in Seq(Text) /\ Len(d) = 1 /\ d[1] = Dash
    BY <2>1, <2>3
  <2>5. /\ q \in Seq(Text) /\ Len(q) = 1 + j
        /\ \A k \in 1..(1 + j) : q[k] = IF k <= 1 THEN d[k] ELSE t[k - 1]
    BY <1>1, <1>7, <2>2, <2>3, <2>4, ConcatProperties
  <2>6. q[1] = Dash
    <3>1. 1 \in 1..(1 + j) /\ 1 <= 1
      BY <1>n
    <3> QED
      BY <2>4, <2>5, <3>1
  <2>7. ASSUME NEW k \in 1..j PROVE q[k + 1] = t[k]
    <3>1. k + 1 \in 1..(1 + j) /\ ~(k + 1 <= 1) /\ (k + 1) - 1 = k
      BY <1>n
    <3> QED
      BY <2>5, <3>1
  <2> QED
    BY <2>2, <2>5, <2>6, <2>7
<1>9. SubSeq(txt, m + 1, Len(txt)) = q
  <2>1. PICK n : n = Len(txt)
    OBVIOUS
  <2>2. m \in Nat /\ n \in Nat /\ n <= Len(txt) /\ n = m + Len(q)
    <3>1. n = m + 1 + j
      BY <1>3, <2>1
    <3>2. Len(q) = 1 + j
      BY <1>8
    <3>3. m \in Nat
      BY <1>2
    <3>4. m + 1 + j \in Nat /\ m + 1 + j = m + (1 + j) /\ m + 1 + j <= m + 1 + j
      BY <1>n, <3>3
    <3> QED
      BY <2>1, <3>1, <3>2, <3>3, <3>4
  <2>3. ASSUME NEW k \in 1..Len(q) PROVE txt[m + k] = q[k]
    <3>1. CASE k = 1
      BY <1>3, <1>8, <3>1
    <3>2. CASE k # 1
      <4>1. k - 1 \in 1..j /\ m + 1 + (k - 1) = m + k /\ (k - 1) + 1 = k
        BY <1>2, <1>8, <1>n, <3>2
      <4>2. txt[m + 1 + (k - 1)] = t[k - 1] /\ q[(k - 1) + 1] = t[k - 1]
        BY <1>3, <1>8, <4>1
      <4> QED
        BY <4>1, <4>2
    <3> QED
      BY <3>1, <3>2
  <2>4. SubSeq(txt, m + 1, n) = q
    BY <1>3, <1>8, <2>2, <2>3, PartIs
  <2> QED
    BY <2>1, <2>4
<1>10. q # <<>>
  <2>1. Len(q) # 0
    BY <1>8, <1>n
  <2> QED
    BY <2>1, EmptySeq
<1>11. Head(q) = Dash
  BY <1>8, <1>10
<1>12. Tail(q) = t
  <2>1. /\ Tail(q) \in Seq(Text) /\ Len(Tail(q)) = Len(q) - 1
        /\ \A k \in 1..Len(Tail(q)) : Tail(q)[k] = q[k + 1]
    BY <1>8, <1>10, HeadTailProperties
  <2>2. PICK e : e = Tail(q)
    OBVIOUS
  <2>3. Len(e) = j /\ \A k \in 1..j : e[k] = t[k]
    <3>1. Len(e) = j
      BY <1>8, <1>n, <2>1, <2>2
    <3> QED
      BY <1>8, <2>1, <2>2, <3>1
  <2>4. e \in Seq(Text)
    BY <2>1, <2>2
  <2>5. e = t
    <3>1. Len(e) = Len(t) /\ \A k \in 1..Len(e) : e[k] = t[k]
      BY <1>1, <2>3
    <3> QED
      BY <1>8, <2>4, <3>1, SeqEqual
  <2> QED
    BY <2>2, <2>5
<1> QED
  <2>1. ParseRON64(txt) = [val |-> w, rest |-> q]
    BY <1>6, <1>9
  <2>2. Len(q) = Len(t) + 1
    BY <1>1, <1>8, <1>n
  <2>3. Leaves(txt, w, t, q)
    BY <1>10, <1>11, <1>12, <2>1, <2>2, Zenon DEF Leaves
  <2> QED
    BY <1>1, <2>3, Zenon

Fits60(w) == w < RonWeight[RonDigits]
Expected(w, n) == IF Fits60(w) /\ Fits60(n) THEN [src |-> w, seq |-> n] ELSE BadIDSyntax

LEMMA Masks ==
  ASSUME NEW w \in Nat
  PROVE  w <= Mask60bit <=> Fits60(w)
<1>1. RonWeight[RonDigits] \in Nat
  <2>1. RonDigits \in 0..(RonDigits + 1)
    BY RonWeights
  <2> QED
    BY <2>1, RonWeights DEF Powers
<1> QED
  BY <1>1 DEF Mask60bit, Fits60

\* A text of one word is an ID without an author.
LEMMA NewIDAlone ==
  ASSUME NEW n \in Zips, NEW a, Spells(a, n)
  PROVE  /\ NewID(a) = Expected(0, n)
         /\ ParseID(a) = [src |-> 0, seq |-> n]
<1>1. ParseRON64(a) = [val |-> n, rest |-> <<>>]
  BY ParsesAlone
<1>2. n \in Nat /\ 0 \in Nat
  BY WordsAreNumbers
<1>3. ~(n > Mask60bit) <=> Fits60(n)
  <2>1. Mask60bit \in Int
    <3>1. RonDigits \in 0..(RonDigits + 1)
      BY RonWeights
    <3> QED
      BY <3>1, RonWeights DEF Powers, Mask60bit
  <2> QED
    BY <1>2, <2>1, Masks
<1>4. Fits60(0)
  <2>1. RonDigits \in 0..(RonDigits + 1)
    BY RonWeights
  <2> QED
    BY <2>1, RonWeights DEF Fits60, Powers
<1>5. NewID(a) = IF n > Mask60bit THEN BadIDSyntax ELSE [src |-> 0, seq |-> n]
  BY <1>1 DEF NewID
<1>6. ParseID(a) = [src |-> 0, seq |-> n]
  BY <1>1 DEF ParseID
<1> QED
  BY <1>3, <1>4, <1>5, <1>6 DEF Expected

\* Two words and a dash are an ID, if both fit 60 bits.
LEMMA NewIDDashed ==
  ASSUME NEW w \in Zips, NEW a, Spells(a, w), NEW n \in Zips
  PROVE  /\ NewID((a \o <<Dash>>) \o RON64String(n)) = Expected(w, n)
         /\ ParseID((a \o <<Dash>>) \o RON64String(n)) = [src |-> w, seq |-> n]
<1>0. PICK t, txt : t = RON64String(n) /\ txt = (a \o <<Dash>>) \o t
  OBVIOUS
<1>1. Spells(t, n) /\ (Len(t) <= RonDigits <=> Fits60(n))
  BY <1>0, RonText DEF Fits60
<1>2. t \in Seq(Digits) /\ Len(t) \in Nat /\ RonDigits \in Nat
  <2>1. t \in Seq(Digits)
    BY <1>1 DEF Spells
  <2> QED
    BY <2>1, RonWeights, LenProperties
<1>3. PICK r : Leaves(txt, w, t, r)
  <2>1. \E r : Leaves((a \o <<Dash>>) \o t, w, t, r)
    BY <1>2, ParsesFirst
  <2> QED
    BY <1>0, <2>1, Zenon
<1>r. r # <<>> /\ Head(r) = Dash /\ Len(r) = Len(t) + 1
  BY <1>3 DEF Leaves
<1>4. PICK src, seq : /\ src = ParseRON64(txt) /\ src.val = w /\ src.rest = r
                      /\ seq = ParseRON64(Tail(src.rest)) /\ seq.val = n /\ seq.rest = <<>>
  <2>0. ParseRON64(txt) = [val |-> w, rest |-> r] /\ Tail(r) = t
    BY <1>3 DEF Leaves
  <2>1. PICK src : src = ParseRON64(txt) /\ src.val = w /\ src.rest = r /\ Tail(src.rest) = t
    <3>1. PICK src : src = ParseRON64(txt)
      OBVIOUS
    <3>2. src.val = w /\ src.rest = r
      BY <2>0, <3>1
    <3> QED
      BY <2>0, <3>1, <3>2
  <2>2. PICK seq : seq = ParseRON64(t) /\ seq.val = n /\ seq.rest = <<>>
    BY <1>1, ParsesAlone
  <2> QED
    BY <2>1, <2>2
<1>5. Mask60bit \in Int /\ w \in Nat /\ n \in Nat
  <2>1. RonDigits \in 0..(RonDigits + 1)
    BY RonWeights
  <2> QED
    BY <2>1, RonWeights, WordsAreNumbers DEF Powers, Mask60bit
<1>6. (~(w > Mask60bit) <=> Fits60(w)) /\ (~(n > Mask60bit) <=> Fits60(n))
  BY <1>5, Masks
<1>7. Len(r) > RonDigits + 1 <=> ~Fits60(n)
  BY <1>1, <1>2, <1>r
<1>8. NewID(txt) = IF w > Mask60bit THEN BadIDSyntax
                   ELSE IF Len(r) > RonDigits + 1 \/ n > Mask60bit THEN BadIDSyntax
                   ELSE [src |-> w, seq |-> n]
  BY <1>4, <1>r DEF NewID
<1>9. ParseID(txt) = [src |-> w, seq |-> n]
  BY <1>4, <1>r DEF ParseID
<1>10. NewID(txt) = Expected(w, n)
  BY <1>6, <1>7, <1>8 DEF Expected
<1> QED
  BY <1>0, <1>9, <1>10, Zenon

\* What remains of a text starts where it was left.
LEMMA Remains ==
  ASSUME NEW S, NEW txt \in Seq(S), NEW m \in 1..Len(txt)
  PROVE  SubSeq(txt, m, Len(txt)) # <<>> /\ Head(SubSeq(txt, m, Len(txt))) = txt[m]
<1>1. PICK n : n = Len(txt)
  OBVIOUS
<1>2. m \in Int /\ n \in Int /\ m <= n /\ n \in m..Len(txt)
  BY <1>1, LenProperties
<1>3. \A k \in m..n : txt[k] \in S
  BY <1>1, <1>2, ElementOfSeq
<1>4. Len(SubSeq(txt, m, n)) = IF m <= n THEN n - m + 1 ELSE 0
  BY <1>2, <1>3, SubSeqProperties
<1>5. Len(SubSeq(txt, m, n)) # 0
  BY <1>2, <1>4
<1>6. Head(SubSeq(txt, m, n)) = txt[m]
  BY <1>2, HeadTailOfSubSeq
<1>7. SubSeq(txt, m, n) # <<>>
  <2>1. PICK q : q = SubSeq(txt, m, n)
    OBVIOUS
  <2>2. Len(q) # 0
    BY <1>5, <2>1
  <2>3. q # <<>>
    BY <2>2, EmptySeq
  <2> QED
    BY <2>1, <2>3
<1> QED
  BY <1>1, <1>6, <1>7

LEMMA DivBoth ==
  ASSUME NEW w \in Nat, NEW b \in Nat \ {0}, NEW q \in Nat \ {0}
  PROVE  w \div (b * q) = (w \div b) \div q
  BY DivDiv

\* Dividing by the next power is dividing once more.
LEMMA OneMore ==
  ASSUME NEW w \in Nat, NEW N \in Nat, NEW b \in Nat \ {0}, NEW p, Powers(p, b, N)
  PROVE  \A k \in 0..(N - 1) : w \div p[k + 1] = (w \div b) \div p[k]
<1> SUFFICES ASSUME NEW k \in 0..(N - 1)
             PROVE  w \div p[k + 1] = (w \div b) \div p[k]
  OBVIOUS
<1>1. PICK q, m : q = p[k] /\ m = p[k + 1]
  OBVIOUS
<1>2. w \in Nat /\ b \in Nat \ {0} /\ q \in Nat \ {0} /\ m = b * q
  BY <1>1 DEF Powers
<1>3. w \div m = (w \div b) \div q
  BY <1>2, DivBoth, Zenon
<1> QED
  BY <1>1, <1>3

LEMMA RonMore ==
  ASSUME NEW w \in Nat
  PROVE  \A k \in 0..((RonDigits + 1) - 1) :
           w \div RonWeight[k + 1] = (w \div RonBase) \div RonWeight[k]
<1>1. PICK N, b, p : N = RonDigits + 1 /\ b = RonBase /\ p = RonWeight
  OBVIOUS
<1>2. Powers(p, b, N)
  BY <1>1, RonWeights, Zenon
<1>3. N \in Nat /\ b \in Nat \ {0} /\ w \in Nat
  BY <1>1, RonWeights
<1>4. \A k \in 0..(N - 1) : w \div p[k + 1] = (w \div b) \div p[k]
  BY <1>2, <1>3, OneMore
<1> QED
  BY <1>1, <1>4, Zenon

\* A word of one digit more than fit, with a zero in front, is refused.
LEMMA NewIDLong ==
  ASSUME NEW w \in Zips, NEW s, s = RON64String(w), Len(s) = RonDigits + 1,
         NEW t \in Seq(Digits), NEW lead, lead = 0, NEW txt,
         txt = ((<<lead>> \o s) \o <<Dash>>) \o t
  PROVE  NewID(txt) = BadIDSyntax
<1>1. PICK N, b, p, D, a : /\ N = RonDigits + 1 /\ b = RonBase /\ p = RonWeight
                           /\ D = RonDigits /\ a = <<lead>> \o s
  OBVIOUS
<1>2. D \in Nat \ {0} /\ N = D + 1 /\ b \in Nat \ {0, 1} /\ Powers(p, b, N)
  <2>1. Powers(p, b, N)
    BY <1>1, RonWeights, Zenon
  <2>2. D \in Nat \ {0} /\ N = D + 1 /\ b \in Nat \ {0, 1}
    BY <1>1, RonWeights
  <2> QED
    BY <2>1, <2>2
<1>3. p[0] = 1 /\ (\A k \in 0..N : p[k] \in Nat \ {0}) /\ \A k \in 0..D : p[k + 1] = b * p[k]
  <2>1. N - 1 = D
    BY <1>2
  <2> QED
    BY <1>2, <2>1 DEF Powers
<1>d. \A k \in 0..(N - 1) : w \div p[k + 1] = (w \div b) \div p[k]
  BY <1>1, WordsAreNumbers, RonMore, Zenon
<1>4. /\ s \in Seq(Digits) /\ Len(s) = N /\ w < p[N]
      /\ \A k \in 1..N : s[k] = (w \div p[N - k]) % b
  BY <1>1, RonText DEF Spells, DigitsOf
<1>5. /\ a \in Seq(Digits) /\ Len(a) = N + 1 /\ a[1] = 0
      /\ \A k \in 1..N : a[k + 1] = s[k]
  <2>1. PICK d : d = <<lead>>
    OBVIOUS
  <2>2. d \in Seq(Digits) /\ Len(d) = 1 /\ d[1] = 0
    <3>1. 0 \in Digits
      BY <1>1, <1>2 DEF Digits
    <3> QED
      BY <2>1, <3>1
  <2>3. /\ a \in Seq(Digits) /\ Len(a) = 1 + N
        /\ \A k \in 1..(1 + N) : a[k] = IF k <= 1 THEN d[k] ELSE s[k - 1]
    BY <1>1, <1>4, <2>1, <2>2, ConcatProperties
  <2>4. a[1] = 0
    <3>1. 1 \in 1..(1 + N) /\ 1 <= 1
      BY <1>2
    <3> QED
      BY <2>2, <2>3, <3>1
  <2>5. ASSUME NEW k \in 1..N PROVE a[k + 1] = s[k]
    <3>1. k + 1 \in 1..(1 + N) /\ ~(k + 1 <= 1) /\ (k + 1) - 1 = k
      BY <1>2
    <3> QED
      BY <2>3, <3>1
  <2> QED
    BY <1>2, <2>3, <2>4, <2>5
<1>6. /\ txt \in Seq(Text) /\ Len(txt) = N + 1 + 1 + Len(t)
      /\ \A k \in 1..(N + 1) : txt[k] = a[k]
  <2>1. Joins(txt, a, t)
    BY <1>1, <1>5, Dashed
  <2> QED
    BY <1>5, <2>1 DEF Joins
<1>7. PICK c : c = w \div b
  OBVIOUS
<1>8. c \in Zips /\ c \in Nat /\ c < p[D] /\ c < p[N]
  <2>1. w \in Nat /\ w < WordMod /\ WordMod \in Nat
    BY WordsAreNumbers
  <2>2. c \in Nat /\ c <= w
    BY <1>2, <1>7, <2>1, DivMod, DivAtMost
  <2>3. c \in Zips
    BY <2>1, <2>2 DEF Zips
  <2>4. p[D] \in Nat \ {0} /\ p[N] = b * p[D] /\ p[N] \in Nat
    <3>1. D \in 0..D /\ D \in 0..N /\ N \in 0..N
      BY <1>2
    <3> QED
      BY <1>2, <1>3, <3>1
  <2>5. c < p[D]
    <3>1. PICK q, r : q = p[D] /\ r = w % b
      OBVIOUS
    <3>2. r \in 0..(b - 1) /\ w = c * b + r
      BY <1>2, <1>7, <2>1, <3>1, DivMod
    <3>3. ~(q <= c)
      <4> SUFFICES ASSUME q <= c PROVE FALSE
        OBVIOUS
      <4>1. q * b <= c * b /\ q * b \in Nat /\ c * b \in Nat
        <5>1. q \in Nat /\ b \in Nat
          BY <1>2, <2>4, <3>1
        <5>2. q < c => q * b + b <= c * b
          BY <2>2, <5>1, Times
        <5>3. q * b \in Nat /\ c * b \in Nat
          BY <2>2, <5>1
        <5>4. q = c => q * b = c * b
          OBVIOUS
        <5>5. q < c \/ q = c
          BY <2>2, <5>1
        <5> QED
          BY <5>1, <5>2, <5>3, <5>4, <5>5
      <4>2. b * q = q * b
        BY <1>2, <2>4, <3>1
      <4>3. w < q * b
        BY <1>4, <2>4, <3>1, <4>2
      <4> QED
        BY <2>1, <3>2, <4>1, <4>3
    <3> QED
      BY <2>2, <2>4, <3>1, <3>3
  <2>6. c < p[N]
    <3>1. w < p[N]
      BY <1>4
    <3> QED
      BY <2>1, <2>2, <2>4, <3>1
  <2> QED
    BY <2>2, <2>3, <2>5, <2>6
<1>9. ASSUME NEW k \in 1..N PROVE txt[k] = (c \div p[N - k]) % b
  <2>0. txt[k] = a[k]
    <3>1. k \in 1..(N + 1)
      BY <1>2
    <3> QED
      BY <1>6, <3>1
  <2>1. CASE k = 1
    <3>1. N - k = D
      BY <1>2, <2>1
    <3>2. PICK q : q = p[D]
      OBVIOUS
    <3>3. q \in Nat \ {0} /\ c < q
      <4>1. D \in 0..N
        BY <1>2
      <4> QED
        BY <1>3, <1>8, <3>2, <4>1
    <3>4. c \in 0..(q - 1) /\ 0 \in Nat /\ c = 0 * q + c
      BY <1>8, <3>3
    <3>5. c \div q = 0
      BY <1>8, <3>3, <3>4, DivUnique
    <3>6. 0 % b = 0
      BY <1>2
    <3> QED
      BY <1>5, <2>0, <2>1, <3>1, <3>2, <3>5, <3>6
  <2>2. CASE k # 1
    <3>1. k - 1 \in 1..N /\ (k - 1) + 1 = k /\ N - (k - 1) = (N - k) + 1 /\ N - k \in 0..D
      BY <1>2, <2>2
    <3>2. a[k] = s[k - 1] /\ s[k - 1] = (w \div p[(N - k) + 1]) % b
      BY <1>4, <1>5, <3>1
    <3>3. w \div p[(N - k) + 1] = c \div p[N - k]
      <4>1. PICK j : j = N - k
        OBVIOUS
      <4>2. j \in 0..(N - 1)
        BY <1>2, <3>1, <4>1
      <4>3. w \div p[j + 1] = (w \div b) \div p[j]
        BY <1>d, <4>2, Zenon
      <4> QED
        BY <1>7, <4>1, <4>3, Zenon
    <3> QED
      BY <2>0, <3>2, <3>3
  <2> QED
    BY <2>1, <2>2
<1>10. PICK rest : rest = SubSeq(txt, N + 1, Len(txt))
  OBVIOUS
<1>11. ParseRON64(txt) = [val |-> c, rest |-> rest]
  <2>1. N \in 0..(RonDigits + 1) /\ N = RonDigits + 1
    BY <1>1, <1>2
  <2>2. Len(txt) \in Nat /\ N <= Len(txt)
    BY <1>2, <1>6, LenProperties
  <2>3. DigitsOf(txt, c, RonWeight, RonBase, N) /\ c < RonWeight[N]
    BY <1>1, <1>8, <1>9 DEF DigitsOf
  <2> QED
    BY <1>8, <1>10, <2>1, <2>2, <2>3, Parses
<1>12. rest # <<>> /\ Head(rest) # Dash
  <2>1. PICK m : m = N + 1
    OBVIOUS
  <2>2. m \in 1..Len(txt)
    BY <1>2, <1>6, <2>1, LenProperties
  <2>3. rest # <<>> /\ Head(rest) = txt[m]
    BY <1>6, <1>10, <2>1, <2>2, Remains
  <2>4. txt[m] \in Digits
    <3>1. m \in 1..(N + 1) /\ m \in 1..Len(a)
      BY <1>2, <1>5, <2>1
    <3> QED
      BY <1>5, <1>6, <3>1, ElementOfSeq
  <2>5. Dash \notin Digits
    BY RonWeights DEF Dash, Digits
  <2> QED
    BY <2>3, <2>4, <2>5
<1> QED
  BY <1>11, <1>12 DEF NewID

-----------------------------------------------------------------------------
(* Positions *)

\* the digits of a position, last one first
RonDigitsOf(w) == [k \in 1..RonDigits |-> (w \div RonWeight[k - 1]) % RonBase]

LEMMA PositionWeights ==
  RonDigits \in 0..(RonDigits + 1) /\ Powers(RonWeight, RonBase, RonDigits)
<1>1. PICK D, b, p : D = RonDigits /\ b = RonBase /\ p = RonWeight
  OBVIOUS
<1>2. D \in Nat \ {0} /\ b \in Nat \ {0, 1}
  BY <1>1, RonWeights
<1>3. Powers(p, b, D + 1)
  BY <1>1, RonWeights, Zenon
<1>4. Powers(p, b, D)
  <2>1. D \in 0..(D + 1) /\ 0..D \subseteq 0..(D + 1) /\ 0..(D - 1) \subseteq 0..((D + 1) - 1)
    BY <1>2
  <2> QED
    BY <1>3, <2>1 DEF Powers
<1> QED
  BY <1>1, <1>2, <1>4

LEMMA RevertReads ==
  ASSUME NEW w \in Nat
  PROVE  \E f : /\ Horner(f, RonDigitsOf(w), RonBase, RonDigits)
                /\ Revert64(w) = f[RonDigits]
<1>1. PICK N, b, p, c : N = RonDigits /\ b = RonBase /\ p = RonWeight /\ c = RonDigitsOf(w)
  OBVIOUS
<1>2. N \in Nat /\ b \in Nat \ {0} /\ Powers(p, b, N)
  <2>1. Powers(p, b, N)
    BY <1>1, PositionWeights, Zenon
  <2> QED
    BY <1>1, <2>1, RonWeights
<1>3. DigitsBack(c, w, p, b, N)
  BY <1>1 DEF RonDigitsOf, DigitsBack
<1>4. /\ \E g : PutsBack(g, w, p, b, N)
      /\ \A f : PutsBack(f, w, p, b, N) => Horner(f, c, b, N)
  BY <1>2, <1>3, PutsBackwards
<1>g. PICK g : g = [k \in 0..RonDigits |->
                IF k = 0 THEN 0 ELSE RonBase * g[k - 1] + ((w \div RonWeight[k - 1]) % RonBase)]
  <2>1. PICK g : PutsBack(g, w, p, b, N)
    BY <1>4, Zenon
  <2>2. PutsBack(g, w, RonWeight, RonBase, RonDigits)
    BY <1>1, <2>1, Zenon
  <2> QED
    BY <2>2, Zenon DEF PutsBack
<1> DEFINE word[k \in 0..RonDigits] ==
             IF k = 0 THEN 0 ELSE RonBase * word[k - 1] + ((w \div RonWeight[k - 1]) % RonBase)
<1>5. word = [k \in 0..RonDigits |->
                IF k = 0 THEN 0 ELSE RonBase * word[k - 1] + ((w \div RonWeight[k - 1]) % RonBase)]
  BY <1>g, Zenon
<1>6. Revert64(w) = word[RonDigits]
  BY DEF Revert64
<1> HIDE DEF word
<1>7. PutsBack(word, w, p, b, N)
  BY <1>1, <1>5, Zenon DEF PutsBack
<1>8. Horner(word, c, b, N)
  BY <1>4, <1>7
<1> QED
  BY <1>1, <1>6, <1>8

\* Reverting a position twice gives that position.
LEMMA RevertTwice ==
  ASSUME NEW w \in Nat, w < RonWeight[RonDigits]
  PROVE  Revert64(Revert64(w)) = w
<1>1. PICK N, b, p, c, n : /\ N = RonDigits /\ b = RonBase /\ p = RonWeight
                           /\ c = RonDigitsOf(w) /\ n = Revert64(w)
  OBVIOUS
<1>2. N \in Nat /\ N \in 0..N /\ Powers(p, b, N) /\ b \in Nat \ {0}
  <2>1. Powers(p, b, N)
    BY <1>1, PositionWeights, Zenon
  <2>2. N \in Nat /\ b \in Nat \ {0}
    BY <1>1, RonWeights
  <2> QED
    BY <2>1, <2>2
<1>3. w \in Nat /\ w < p[N]
  BY <1>1
<1>4. PICK f : Horner(f, c, b, N) /\ n = f[N]
  BY <1>1, <1>3, RevertReads, Zenon
<1>5. n \in Nat /\ n < p[N]
  BY <1>2, <1>4, HornerDigits
<1>6. PICK d : d = RonDigitsOf(n)
  OBVIOUS
<1>7. PICK g : Horner(g, d, b, N) /\ Revert64(n) = g[N]
  BY <1>1, <1>5, <1>6, RevertReads, Zenon
<1>8. DigitsBack(c, w, p, b, N) /\ DigitsBack(d, f[N], p, b, N)
  BY <1>1, <1>4, <1>6 DEF RonDigitsOf, DigitsBack
<1>9. g[N] = w
  BY <1>2, <1>3, <1>4, <1>7, <1>8, BackAndForth
<1> QED
  BY <1>1, <1>7, <1>9

\* num with k zeroes behind it, and not one more, fills a position.
Fills(num, k) == num * RonWeight[k] < RonWeight[RonDigits] /\ ~(num * RonWeight[k + 1] < RonWeight[RonDigits])

LEMMA PositionGrows ==
  ASSUME NEW num \in Nat \ {0}, NEW k \in 0..(RonDigits + 1), NEW j \in 0..k
  PROVE  /\ num * RonWeight[j] \in Nat \ {0} /\ num * RonWeight[k] \in Nat \ {0}
         /\ num * RonWeight[j] <= num * RonWeight[k]
<1>1. PICK N, b, p : N = RonDigits + 1 /\ b = RonBase /\ p = RonWeight
  OBVIOUS
<1>2. N \in Nat /\ b \in Nat \ {0, 1} /\ Powers(p, b, N)
  <2>1. Powers(p, b, N)
    BY <1>1, RonWeights, Zenon
  <2> QED
    BY <1>1, <2>1, RonWeights
<1>3. k \in 0..N /\ j \in 0..k /\ j \in 0..N
  BY <1>1, <1>2
<1>4. PICK q, r : q = p[j] /\ r = p[k]
  OBVIOUS
<1>5. q \in Nat \ {0} /\ r \in Nat \ {0} /\ q <= r
  <2>1. \A i \in 0..N : p[i] \in Nat \ {0}
    BY <1>2 DEF Powers
  <2>2. p[j] <= p[k]
    BY <1>2, <1>3, PowersGrow
  <2> QED
    BY <1>3, <1>4, <2>1, <2>2
<1>6. num * q <= num * r /\ num * q \in Nat \ {0} /\ num * r \in Nat \ {0}
  <2>1. ASSUME q < r PROVE q * num + num <= r * num /\ q * num \in Nat /\ r * num \in Nat
    BY <1>5, <2>1, Times
  <2>2. num * q = q * num /\ num * r = r * num /\ q * num \in Nat \ {0} /\ r * num \in Nat \ {0}
    BY <1>5
  <2>3. q < r \/ q = r
    BY <1>5
  <2> QED
    BY <2>1, <2>2, <2>3
<1> QED
  BY <1>1, <1>4, <1>6

LEMMA RonStep ==
  ASSUME NEW num \in Nat \ {0}, NEW k \in 0..(RonDigits - 1)
  PROVE  num * RonWeight[k + 1] = RonBase * (num * RonWeight[k])
<1>1. PICK b, q : b = RonBase /\ q = RonWeight[k]
  OBVIOUS
<1>2. b \in Nat /\ q \in Nat /\ RonWeight[k + 1] = b * q
  <2>1. k \in 0..RonDigits
    BY RonWeights
  <2> QED
    BY <1>1, <2>1, RonWeights, PositionWeights DEF Powers
<1>3. num * (b * q) = b * (num * q)
  BY <1>2
<1> QED
  BY <1>1, <1>2, <1>3

\* A number that is not zero fills a position with one number of zeroes.
LEMMA NewRon60Is ==
  ASSUME NEW n \in Nat, NEW num \in Nat \ {0}, num = n % RonWeight[RonDigits],
         NEW k \in 0..(RonDigits - 1), Fills(num, k)
  PROVE  NewRon60(n) = num * RonWeight[k]
<1>1. PICK e : e = CHOOSE i \in 0..(RonDigits - 1) : Fills(num, i)
  OBVIOUS
<1>2. e \in 0..(RonDigits - 1) /\ Fills(num, e)
  BY <1>1, Zenon
<1>3. NewRon60(n) = num * RonWeight[e]
  BY <1>1 DEF NewRon60, Fills
<1>4. RonDigits \in Nat \ {0} /\ RonWeight[RonDigits] \in Nat
  BY RonWeights, PositionWeights DEF Powers
<1>5. ASSUME NEW i \in 0..(RonDigits - 1), NEW j \in 0..(RonDigits - 1), i < j
      PROVE  ~(Fills(num, i) /\ Fills(num, j))
  <2>1. j \in 0..(RonDigits + 1) /\ i + 1 \in 0..j
    BY <1>4, <1>5
  <2>2. /\ num * RonWeight[i + 1] \in Nat /\ num * RonWeight[j] \in Nat
        /\ num * RonWeight[i + 1] <= num * RonWeight[j]
    BY <2>1, PositionGrows
  <2>3. PICK q, r, t : q = num * RonWeight[i + 1] /\ r = num * RonWeight[j] /\ t = RonWeight[RonDigits]
    OBVIOUS
  <2>4. q \in Nat /\ r \in Nat /\ t \in Nat /\ q <= r
    BY <1>4, <2>2, <2>3
  <2>5. ASSUME Fills(num, i), Fills(num, j) PROVE ~(q < t) /\ r < t
    BY <2>3, <2>5 DEF Fills
  <2> QED
    BY <2>4, <2>5
<1>6. ~(e < k) /\ ~(k < e)
  BY <1>2, <1>5
<1>7. e = k
  BY <1>2, <1>4, <1>6
<1> QED
  BY <1>3, <1>7

LEMMA NewRon60Fills ==
  ASSUME NEW num \in Nat \ {0}, num < RonWeight[RonDigits]
  PROVE  \E k \in 0..(RonDigits - 1) : Fills(num, k)
<1>1. PICK D, p, t : D = RonDigits /\ p = RonWeight /\ t = RonWeight[RonDigits]
  OBVIOUS
<1>2. D \in Nat \ {0} /\ t \in Nat \ {0} /\ t = p[D] /\ p[0] = 1
  BY <1>1, RonWeights, PositionWeights DEF Powers
<1> DEFINE T == {k \in 0..D : ~(num * p[k] < t)}
<1>3. D \in T
  <2>1. ~(num * t < t)
    <3>1. PICK d : d = num * t
      OBVIOUS
    <3>2. d \in Nat /\ 1 * t <= d
      <4>1. num = 1 \/ 1 < num
        OBVIOUS
      <4>2. ASSUME 1 < num PROVE 1 * t + t <= num * t /\ num * t \in Nat
        BY <1>2, <4>2, Times
      <4>3. ASSUME num = 1 PROVE num * t = 1 * t /\ 1 * t \in Nat
        BY <1>2, <4>3
      <4>4. 1 * t = t
        BY <1>2
      <4> QED
        BY <1>2, <3>1, <4>1, <4>2, <4>3, <4>4
    <3> QED
      BY <1>2, <3>1, <3>2
  <2> QED
    BY <1>2, <2>1
<1>4. PICK m \in T : \A k \in T : m <= k
  <2>1. T \subseteq Nat /\ T # {}
    BY <1>2, <1>3
  <2> HIDE DEF T
  <2> QED
    BY <2>1, LeastNumber
<1>5. m \in 0..D /\ ~(num * p[m] < t)
  BY <1>4
<1>6. m # 0
  <2>1. num * 1 = num
    OBVIOUS
  <2> QED
    BY <1>1, <1>2, <1>5, <2>1
<1>7. m - 1 \in 0..(D - 1) /\ (m - 1) + 1 = m /\ m - 1 \in 0..D /\ ~(m <= m - 1)
  BY <1>2, <1>5, <1>6
<1>8. num * p[m - 1] < t
  BY <1>4, <1>7
<1>9. Fills(num, m - 1)
  BY <1>1, <1>5, <1>7, <1>8 DEF Fills
<1> QED
  BY <1>1, <1>7, <1>9


\* A position without the zeroes behind it.
LEMMA Ron60Strips ==
  ASSUME NEW r \in Nat \ {0}, r < RonWeight[RonDigits], r # RonTop
  PROVE  \E j \in 0..(RonDigits - 1) :
           /\ Ron60Uint64(r) \in Nat \ {0} /\ Ron60Uint64(r) <= r
           /\ r = Ron60Uint64(r) * RonWeight[j]
<1>1. PICK D, p, t : D = RonDigits /\ p = RonWeight /\ t = RonWeight[RonDigits]
  OBVIOUS
<1>2. D \in Nat \ {0} /\ t \in Nat \ {0} /\ t = p[D] /\ p[0] = 1 /\ \A k \in 0..D : p[k] \in Nat \ {0}
  BY <1>1, RonWeights, PositionWeights DEF Powers
<1> DEFINE T == {k \in 0..D : r % p[k] # 0}
<1>3. D \in T
  <2>1. r \in 0..(t - 1) /\ 0 \in Nat /\ r = 0 * t + r
    BY <1>1, <1>2
  <2>2. r % t = r
    BY <1>2, <2>1, DivUnique
  <2> QED
    BY <1>2, <2>2
<1>4. PICK m \in T : \A k \in T : m <= k
  <2>1. T \subseteq Nat /\ T # {}
    BY <1>2, <1>3
  <2> HIDE DEF T
  <2> QED
    BY <2>1, LeastNumber
<1>5. m \in 0..D /\ r % p[m] # 0
  BY <1>4
<1>6. m # 0
  <2>1. r % 1 = 0
    OBVIOUS
  <2> QED
    BY <1>2, <1>5, <2>1
<1>7. m - 1 \in 0..(D - 1) /\ (m - 1) + 1 = m /\ m - 1 \in 0..D /\ ~(m <= m - 1)
  BY <1>2, <1>5, <1>6
<1>8. r % p[m - 1] = 0
  BY <1>4, <1>7
<1> DEFINE Ends(k) == r % RonWeight[k] = 0 /\ r % RonWeight[k + 1] # 0
<1>9. PICK e : e = CHOOSE k \in 0..(RonDigits - 1) : Ends(k)
  OBVIOUS
<1>10. e \in 0..(RonDigits - 1) /\ Ends(e)
  <2>1. m - 1 \in 0..(RonDigits - 1) /\ Ends(m - 1)
    BY <1>1, <1>5, <1>7, <1>8
  <2> HIDE DEF Ends
  <2> QED
    BY <1>9, <2>1, Zenon
<1>11. PICK q, n : q = p[e] /\ n = Ron60Uint64(r)
  OBVIOUS
<1>12. n = r \div q
  BY <1>1, <1>9, <1>11 DEF Ron60Uint64
<1>13. q \in Nat \ {0} /\ r % q = 0
  <2>1. e \in 0..D
    BY <1>1, <1>2, <1>10
  <2> QED
    BY <1>1, <1>2, <1>10, <1>11, <2>1
<1>14. n \in Nat /\ r = n * q /\ n <= r
  <2>1. n \in Nat /\ r = n * q + (r % q)
    BY <1>12, <1>13, DivMod
  <2>2. n <= r
    BY <1>12, <1>13, DivAtMost
  <2>3. n * q + 0 = n * q
    BY <1>13, <2>1
  <2> QED
    BY <1>13, <2>1, <2>2, <2>3
<1>15. n # 0
  <2>1. ASSUME n = 0 PROVE n * q = 0
    BY <1>13, <2>1
  <2> QED
    BY <1>14, <2>1
<1> QED
  BY <1>1, <1>10, <1>11, <1>14, <1>15

\* A position comes back from its text.
LEMMA PositionBack ==
  ASSUME NEW w \in Zips
  PROVE  ParseRon60(Ron60String(NewRon60(w))) = NewRon60(w)
<1>1. PICK D, b, t, r, n : /\ D = RonDigits /\ b = RonBase /\ t = RonWeight[RonDigits]
                           /\ r = NewRon60(w) /\ n = Ron60Uint64(r)
  OBVIOUS
<1>2. D \in Nat \ {0} /\ t \in Nat \ {0} /\ w \in Nat /\ t < WordMod /\ WordMod \in Nat
  BY <1>1, RonWeights, PositionWeights, WordsAreNumbers, WordSize DEF Powers
<1>3. NewRon60(0) = RonTop
  <2>1. 0 % t = 0
    BY <1>2
  <2> QED
    BY <1>1, <2>1 DEF NewRon60
<1>4. ASSUME n \in Zips PROVE ParseRon60(Ron60String(r)) = NewRon60(n)
  <2>1. PICK s : s = RON64String(n)
    OBVIOUS
  <2>2. Spells(s, n)
    BY <1>4, <2>1, RonText
  <2>3. ParseRON64(s) = [val |-> n, rest |-> <<>>]
    BY <1>4, <2>2, ParsesAlone
  <2>4. Ron60String(r) = s
    BY <1>1, <2>1 DEF Ron60String
  <2> QED
    BY <2>3, <2>4 DEF ParseRon60
<1>5. CASE r = RonTop
  <2>1. n = 0
    BY <1>1, <1>5 DEF Ron60Uint64
  <2>2. n \in Zips
    BY <1>2, <2>1 DEF Zips
  <2> QED
    BY <1>1, <1>3, <1>4, <1>5, <2>1, <2>2
<1>6. CASE r # RonTop
  <2>1. PICK num : num = w % t
    OBVIOUS
  <2>2. num \in Nat \ {0} /\ num < t
    <3>1. num # 0
      BY <1>1, <1>6, <2>1 DEF NewRon60
    <3>2. num \in 0..(t - 1)
      BY <1>2, <2>1, DivMod
    <3> QED
      BY <1>2, <3>1, <3>2
  <2>3. PICK k \in 0..(RonDigits - 1) : Fills(num, k)
    BY <1>1, <2>2, NewRon60Fills
  <2>4. r = num * RonWeight[k]
    BY <1>1, <1>2, <2>1, <2>2, <2>3, NewRon60Is
  <2>5. PICK c, d : c = num * RonWeight[k] /\ d = num * RonWeight[k + 1]
    OBVIOUS
  <2>6. c \in Nat \ {0} /\ d \in Nat \ {0} /\ c < t /\ ~(d < t) /\ d = b * c
    <3>1. k + 1 \in 0..(RonDigits + 1) /\ k \in 0..(k + 1)
      BY <1>1, <1>2
    <3>2. c \in Nat \ {0} /\ d \in Nat \ {0}
      BY <2>2, <2>5, <3>1, PositionGrows
    <3>3. d = b * c
      BY <1>1, <2>2, <2>5, RonStep
    <3> QED
      BY <1>1, <2>3, <2>5, <3>2, <3>3 DEF Fills
  <2>7. r \in Nat \ {0} /\ r < t
    BY <2>4, <2>5, <2>6
  <2>8. PICK j \in 0..(RonDigits - 1) : n \in Nat \ {0} /\ n <= r /\ r = n * RonWeight[j]
    BY <1>1, <1>6, <2>7, Ron60Strips
  <2>9. n < t /\ n % t = n /\ n \in Zips
    <3>1. n < t
      BY <1>2, <2>7, <2>8
    <3>2. n \in 0..(t - 1) /\ 0 \in Nat /\ n = 0 * t + n
      BY <1>2, <2>8, <3>1
    <3>3. n % t = n
      BY <1>2, <2>8, <3>2, DivUnique
    <3>4. n \in Zips
      BY <1>2, <2>8, <3>1 DEF Zips
    <3> QED
      BY <3>1, <3>3, <3>4
  <2>10. Fills(n, j)
    <3>1. n * RonWeight[j + 1] = b * (n * RonWeight[j])
      BY <1>1, <2>8, RonStep
    <3> QED
      BY <1>1, <2>4, <2>5, <2>6, <2>8, <3>1 DEF Fills
  <2>11. NewRon60(n) = r
    BY <1>1, <2>8, <2>9, <2>10, NewRon60Is
  <2> QED
    BY <1>1, <1>4, <2>9, <2>11
<1> QED
  BY <1>5, <1>6

-----------------------------------------------------------------------------
(* Formal texts *)

\* the zeroes in front of an author's text
Zeroes(w) ==
  IF w \in Exponents THEN <<0, 0>>
  ELSE IF Last(RON64String(w)) \in Exponents THEN <<0>> ELSE <<>>

\* A word that is one digit is spelled by itself.
LEMMA OneDigit ==
  ASSUME NEW w \in Nat, NEW s, Spells(s, w), Len(s) = 1
  PROVE  s[1] = w
<1>1. RonWeight[0] = 1 /\ RonWeight[1] = RonBase /\ RonBase \in Nat \ {0}
  <2>1. 0 \in 0..((RonDigits + 1) - 1) /\ RonWeight[0 + 1] = RonBase * RonWeight[0]
    BY RonWeights DEF Powers
  <2>2. RonWeight[0] = 1 /\ RonBase \in Nat \ {0} /\ RonBase * 1 = RonBase
    BY RonWeights DEF Powers
  <2> QED
    BY <2>1, <2>2
<1>2. w < RonBase /\ s[1] = (w \div RonWeight[0]) % RonBase
  <2>1. 1 \in 1..1 /\ 1 - 1 = 0
    OBVIOUS
  <2> QED
    BY <1>1, <2>1 DEF Spells, DigitsOf
<1>3. PICK b : b = RonBase
  OBVIOUS
<1>4. w \in 0..(b - 1) /\ b \in Nat \ {0} /\ 0 \in Nat /\ w = 0 * b + w
  BY <1>1, <1>2, <1>3
<1>5. w % b = w
  BY <1>4, DivUnique
<1>6. w \div 1 = w
  OBVIOUS
<1> QED
  BY <1>1, <1>2, <1>3, <1>5, <1>6

\* A digit is spelled in one digit.
LEMMA DigitAlone ==
  ASSUME NEW w \in Zips, w \in Digits, NEW s, s = RON64String(w)
  PROVE  Len(s) = 1
<1>1. PICK N, b, p, n : N = RonDigits + 1 /\ b = RonBase /\ p = RonWeight /\ n = Len(s)
  OBVIOUS
<1>2. N \in Nat \ {0, 1} /\ b \in Nat \ {0, 1} /\ Powers(p, b, N)
  <2>1. Powers(p, b, N)
    BY <1>1, RonWeights, Zenon
  <2> QED
    BY <1>1, <2>1, RonWeights
<1>3. n \in 1..N /\ (n = 1 \/ w >= p[n - 1])
  BY <1>1, RonText DEF Spells
<1>4. n = 1
  <2> SUFFICES ASSUME n # 1 PROVE FALSE
    OBVIOUS
  <2>1. n - 1 \in 0..N /\ 1 \in 0..(n - 1) /\ 1 \in 0..N
    BY <1>2, <1>3
  <2>2. p[1] <= p[n - 1] /\ p[1] \in Nat /\ p[n - 1] \in Nat
    BY <1>2, <2>1, PowersGrow DEF Powers
  <2>3. p[1] = b
    <3>1. p[0 + 1] = b * p[0] /\ p[0] = 1 /\ b * 1 = b
      BY <1>2 DEF Powers
    <3> QED
      BY <3>1
  <2>4. w < b /\ w \in Nat
    BY <1>1, <1>2 DEF Digits
  <2> QED
    BY <1>2, <1>3, <2>2, <2>3, <2>4
<1> QED
  BY <1>1, <1>4

LEMMA FormalText ==
  ASSUME NEW w, NEW n
  PROVE  FormalString([src |-> w, seq |-> n]) =
           ((Zeroes(w) \o RON64String(w)) \o <<Dash>>) \o RON64String(n)
<1>1. PICK id : id = [src |-> w, seq |-> n]
  OBVIOUS
<1>2. id.src = w /\ id.seq = n
  BY <1>1
<1>3. FormalString(id) = ((Zeroes(id.src) \o RON64String(id.src)) \o <<Dash>>) \o RON64String(id.seq)
  BY DEF FormalString, Zeroes
<1> QED
  BY <1>1, <1>2, <1>3

\* A formal text is read as its ID, or refused when that exceeds 60 bits.
LEMMA NewIDFormal ==
  ASSUME NEW w \in Zips, NEW n \in Zips, RonDigits >= 2
  PROVE  NewID(FormalString([src |-> w, seq |-> n])) = Expected(w, n)
<1>1. PICK s, t, pad, a, txt : /\ s = RON64String(w) /\ t = RON64String(n) /\ pad = Zeroes(w)
                             /\ a = pad \o s /\ txt = (a \o <<Dash>>) \o t
  OBVIOUS
<1>2. FormalString([src |-> w, seq |-> n]) = txt
  BY <1>1, FormalText
<1>3. Spells(s, w) /\ (Len(s) <= RonDigits <=> Fits60(w)) /\ RonDigits \in Nat
  BY <1>1, RonText, RonWeights DEF Fits60
<1>4. w \in Nat /\ s \in Seq(Digits) /\ Len(s) \in 1..(RonDigits + 1)
  BY <1>3, WordsAreNumbers DEF Spells
<1>5. t \in Seq(Digits)
  BY <1>1, RonText DEF Spells
<1>6. ASSUME Spells(a, w) PROVE NewID(txt) = Expected(w, n)
  <2>1. w \in Zips /\ n \in Zips
    OBVIOUS
  <2>2. NewID((a \o <<Dash>>) \o RON64String(n)) = Expected(w, n)
    BY <1>6, <2>1, NewIDDashed, Zenon
  <2> QED
    BY <1>1, <2>2, Zenon
<1>7. CASE w \in Exponents
  <2>1. w \in Digits
    BY <1>7, WordsAssumption, RonWeights DEF Digits
  <2>2. Len(s) = 1
    BY <1>1, <2>1, DigitAlone
  <2>3. pad = <<0, 0>>
    BY <1>1, <1>7 DEF Zeroes
  <2>4. pad \in Seq({0}) /\ Len(pad) + Len(s) <= RonDigits + 1
    BY <1>3, <2>2, <2>3
  <2>5. Spells(a, w)
    BY <1>1, <1>3, <1>4, <2>4, Padded
  <2> QED
    BY <1>2, <1>6, <2>5
<1>8. CASE w \notin Exponents /\ Last(s) \in Exponents
  <2>1. pad = <<0>>
    BY <1>1, <1>8 DEF Zeroes
  <2>2. CASE Len(s) <= RonDigits
    <3>1. pad \in Seq({0}) /\ Len(pad) + Len(s) <= RonDigits + 1
      BY <1>3, <1>4, <2>1, <2>2
    <3>2. Spells(a, w)
      BY <1>1, <1>3, <1>4, <3>1, Padded
    <3> QED
      BY <1>2, <1>6, <3>2
  <2>3. CASE ~(Len(s) <= RonDigits)
    <3>1. Len(s) = RonDigits + 1
      BY <1>3, <1>4, <2>3
    <3>2. NewID(txt) = BadIDSyntax
      BY <1>1, <1>5, <2>1, <3>1, NewIDLong
    <3>3. Expected(w, n) = BadIDSyntax
      BY <1>3, <2>3 DEF Expected
    <3> QED
      BY <1>2, <3>2, <3>3
  <2> QED
    BY <2>2, <2>3
<1>9. CASE w \notin Exponents /\ Last(s) \notin Exponents
  <2>1. pad = <<>>
    BY <1>1, <1>9 DEF Zeroes
  <2>2. a = s
    BY <1>1, <1>4, <2>1, ConcatEmptySeq
  <2> QED
    BY <1>2, <1>3, <1>6, <2>2
<1> QED
  BY <1>7, <1>8, <1>9

Fronts(a, pad, s) ==
  a \in Seq(Digits) /\ Len(a) = Len(pad) + Len(s) /\ \A k \in 1..Len(pad) : a[k] = pad[k]

LEMMA ConcatFronts ==
  ASSUME NEW pad \in Seq(Digits), NEW s \in Seq(Digits)
  PROVE  Fronts(pad \o s, pad, s)
<1>1. PICK a, i, j : a = pad \o s /\ i = Len(pad) /\ j = Len(s)
  OBVIOUS
<1>2. i \in Nat /\ j \in Nat
  BY <1>1, LenProperties
<1>3. /\ a \in Seq(Digits) /\ Len(a) = i + j
      /\ \A k \in 1..(i + j) : a[k] = IF k <= i THEN pad[k] ELSE s[k - i]
  BY <1>1, ConcatProperties
<1>4. ASSUME NEW k \in 1..i PROVE a[k] = pad[k]
  <2>1. k \in 1..(i + j) /\ k <= i
    BY <1>2
  <2> QED
    BY <1>3, <2>1
<1>5. Fronts(a, pad, s)
  BY <1>1, <1>3, <1>4 DEF Fronts
<1> QED
  BY <1>1, <1>5, Zenon

\* What tells a formal author from a mantissa: its last digit, or zeroes in front.
Unmistakable(a) ==
  /\ a \in Seq(Digits) /\ Len(a) \in Nat \ {0}
  /\ a[Len(a)] \notin Exponents \/ (a[1] = 0 /\ Len(a) # 2)

LEMMA NoMantissa ==
  ASSUME NEW w \in Zips
  PROVE  Unmistakable(Zeroes(w) \o RON64String(w))
<1>0. PICK s, pad, a : s = RON64String(w) /\ pad = Zeroes(w) /\ a = pad \o s
  OBVIOUS
<1> SUFFICES Unmistakable(a)
  BY <1>0, Zenon
<1>1. Spells(s, w) /\ s \in Seq(Digits) /\ Len(s) \in Nat \ {0} /\ w \in Nat
  <2>1. RonDigits \in Nat
    BY RonWeights
  <2> QED
    BY <1>0, <2>1, RonText, WordsAreNumbers DEF Spells
<1>2. 0 \in Digits
  BY RonWeights DEF Digits
<1>3. PICK n, m, c : n = Len(s) /\ m = Len(a) /\ c = s[Len(s)]
  OBVIOUS
<1>4. n = 1 => c = w
  BY <1>1, <1>3, OneDigit
<1>5. Last(s) = c
  BY <1>3 DEF Last
<1>6. CASE w \in Exponents
  <2>1. w \in Digits
    BY <1>6, WordsAssumption, RonWeights DEF Digits
  <2>2. n = 1
    BY <1>0, <1>3, <2>1, DigitAlone
  <2>3. pad = <<0, 0>>
    BY <1>0, <1>6 DEF Zeroes
  <2>4. pad \in Seq(Digits) /\ Len(pad) = 2 /\ pad[1] = 0
    BY <1>2, <2>3
  <2>5. a \in Seq(Digits) /\ Len(a) = 2 + n /\ \A k \in 1..2 : a[k] = pad[k]
    <3>1. Fronts(pad \o s, pad, s)
      BY <1>1, <2>4, ConcatFronts
    <3>2. Fronts(a, pad, s)
      BY <1>0, <3>1, Zenon
    <3> QED
      BY <1>3, <2>4, <3>2 DEF Fronts
  <2>6. a[1] = 0
    BY <2>4, <2>5
  <2>7. Len(a) \in Nat \ {0} /\ Len(a) # 2
    BY <2>2, <2>5
  <2>8. a \in Seq(Digits)
    BY <2>5
  <2> QED
    BY <2>6, <2>7, <2>8 DEF Unmistakable
<1>7. CASE w \notin Exponents /\ c \in Exponents
  <2>1. n # 1
    BY <1>4, <1>7
  <2>2. pad = <<0>>
    BY <1>0, <1>5, <1>7 DEF Zeroes
  <2>3. pad \in Seq(Digits) /\ Len(pad) = 1 /\ pad[1] = 0
    BY <1>2, <2>2
  <2>4. a \in Seq(Digits) /\ Len(a) = 1 + n /\ \A k \in 1..1 : a[k] = pad[k]
    <3>1. Fronts(pad \o s, pad, s)
      BY <1>1, <2>3, ConcatFronts
    <3>2. Fronts(a, pad, s)
      BY <1>0, <3>1, Zenon
    <3> QED
      BY <1>3, <2>3, <3>2 DEF Fronts
  <2>5. 1 + n # 2 /\ 1 + n \in Nat \ {0}
    BY <1>1, <1>3, <2>1
  <2>6. a[1] = 0
    BY <2>3, <2>4
  <2> QED
    BY <2>4, <2>5, <2>6 DEF Unmistakable
<1>8. CASE w \notin Exponents /\ c \notin Exponents
  <2>1. pad = <<>>
    BY <1>0, <1>5, <1>8 DEF Zeroes
  <2>2. a = s
    BY <1>0, <1>1, <2>1, ConcatEmptySeq
  <2> QED
    BY <1>1, <1>3, <1>8, <2>2 DEF Unmistakable
<1> QED
  BY <1>6, <1>7, <1>8

\* A formal text is lexed as a reference, never as a number.
LEMMA FormalLexed ==
  ASSUME NEW w \in Zips, NEW n \in Zips
  PROVE  LexedAsRef(FormalString([src |-> w, seq |-> n]))
<1>1. PICK a, t, txt : /\ a = Zeroes(w) \o RON64String(w) /\ t = RON64String(n)
                       /\ txt = (a \o <<Dash>>) \o t
  OBVIOUS
<1>2. FormalString([src |-> w, seq |-> n]) = txt
  BY <1>1, FormalText, Zenon
<1>3. PICK m, j : m = Len(a) /\ j = Len(t)
  OBVIOUS
<1>4. /\ a \in Seq(Digits) /\ m \in Nat \ {0}
      /\ a[m] \notin Exponents \/ (a[1] = 0 /\ m # 2)
  <2>1. Unmistakable(Zeroes(w) \o RON64String(w))
    BY NoMantissa
  <2>2. Unmistakable(a)
    BY <1>1, <2>1, Zenon
  <2> QED
    BY <1>3, <2>2 DEF Unmistakable
<1>5. t \in Seq(Digits) /\ j \in Nat \ {0}
  <2>1. RonDigits \in Nat
    BY RonWeights
  <2> QED
    BY <1>1, <1>3, <2>1, RonText DEF Spells
<1>6. /\ Len(txt) = m + 1 + j
      /\ \A k \in 1..m : txt[k] = a[k]
      /\ txt[m + 1] = Dash
      /\ \A k \in 1..j : txt[m + 1 + k] = t[k]
  <2>1. Joins((a \o <<Dash>>) \o t, a, t)
    BY <1>4, <1>5, Dashed
  <2>2. Joins(txt, a, t)
    BY <1>1, <2>1, Zenon
  <2> QED
    BY <1>3, <2>2 DEF Joins
<1>7. ASSUME NEW k \in 1..Len(txt), k # m + 1 PROVE txt[k] \in Digits
  <2>1. CASE k <= m
    <3>1. k \in 1..m
      BY <1>4, <1>6, <2>1
    <3>2. a[k] \in Digits
      BY <1>3, <1>4, <3>1, ElementOfSeq
    <3> QED
      BY <1>6, <3>1, <3>2
  <2>2. CASE ~(k <= m)
    <3>1. PICK i : i = k - (m + 1)
      OBVIOUS
    <3>2. i \in 1..j /\ m + 1 + i = k
      BY <1>4, <1>5, <1>6, <1>7, <2>2, <3>1
    <3>3. t[i] \in Digits
      BY <1>3, <1>5, <3>2, ElementOfSeq
    <3> QED
      BY <1>6, <3>2, <3>3
  <2> QED
    BY <2>1, <2>2
<1>8. Dash \notin Digits
  BY RonWeights DEF Dash, Digits
<1>9. ~LexedAsFloat(txt)
  <2> SUFFICES ASSUME NEW k \in 2..(Len(txt) - 2),
                      txt[k] \in Exponents, txt[k + 1] = Dash, txt[1] = 0 => k = 2
               PROVE  FALSE
    BY DEF LexedAsFloat
  <2>1. k + 1 \in 1..Len(txt)
    BY <1>4, <1>5, <1>6
  <2>2. k + 1 = m + 1
    BY <1>7, <1>8, <2>1
  <2>3. k = m /\ m \in 1..m /\ 1 \in 1..m
    BY <1>4, <1>5, <1>6, <2>2
  <2>4. txt[m] = a[m] /\ txt[1] = a[1]
    BY <1>6, <2>3
  <2> QED
    BY <1>4, <2>3, <2>4
<1>10. m + 1 \in 2..(Len(txt) - 1)
  BY <1>4, <1>5, <1>6
<1>11. LexedAsRef(txt)
  BY <1>6, <1>7, <1>9, <1>10 DEF LexedAsRef
<1> QED
  BY <1>2, <1>11

\* The texts of IDs (id.go) and of positions (ron.go) for words of any number
\* of digits, two at least, and any digits in the places of "E" and "e".
THEOREM WordTextsParse ==
  ASSUME u \in Zips, v \in Zips, RonDigits >= 2
  PROVE  TextParses
<1>1. PICK w, n, id : w = u /\ n = v /\ id = [src |-> u, seq |-> v]
  OBVIOUS
<1>2. w \in Zips /\ n \in Zips /\ w \in Nat /\ n \in Nat /\ id.src = w /\ id.seq = n
  BY <1>1, WordsAreNumbers
<1>3. Expected(w, n) = IF u <= Mask60bit /\ v <= Mask60bit THEN id ELSE BadIDSyntax
  BY <1>1, <1>2, Masks DEF Expected
<1>4. NewID(RonString(id)) = Expected(w, n) /\ ParseID(RonString(id)) = id
  <2>1. CASE w = 0
    <3>1. PICK s : s = RON64String(n)
      OBVIOUS
    <3>2. RonString(id) = s
      BY <1>2, <2>1, <3>1 DEF RonString
    <3>3. Spells(s, n)
      BY <1>2, <3>1, RonText
    <3>4. NewID(s) = Expected(0, n) /\ ParseID(s) = [src |-> 0, seq |-> n]
      BY <1>2, <3>3, NewIDAlone
    <3> QED
      BY <1>1, <2>1, <3>2, <3>4
  <2>2. CASE w # 0
    <3>1. PICK s : s = RON64String(w)
      OBVIOUS
    <3>2. RonString(id) = (s \o <<Dash>>) \o RON64String(n)
      BY <1>2, <2>2, <3>1, Zenon DEF RonString
    <3>3. Spells(s, w)
      BY <1>2, <3>1, RonText
    <3>4. /\ NewID((s \o <<Dash>>) \o RON64String(n)) = Expected(w, n)
          /\ ParseID((s \o <<Dash>>) \o RON64String(n)) = [src |-> w, seq |-> n]
      BY <1>2, <3>3, NewIDDashed, Zenon
    <3> QED
      BY <1>1, <3>2, <3>4, Zenon
  <2> QED
    BY <2>1, <2>2
<1>5. NewID(FormalString(id)) = Expected(w, n)
  BY <1>1, <1>2, NewIDFormal
<1>6. LexedAsRef(FormalString(id))
  BY <1>1, <1>2, FormalLexed
<1>7. ParseRon60(Ron60String(NewRon60(w))) = NewRon60(w)
  BY <1>2, PositionBack
<1>8. w <= Mask60bit => Revert64(Revert64(w)) = w
  BY <1>2, Masks, RevertTwice DEF Fits60
<1> QED
  BY <1>1, <1>3, <1>4, <1>5, <1>6, <1>7, <1>8 DEF TextParses
-----------------------------------------------------------------------------
(* Positions in a list *)

\* NewRon60 finds a position for every number.
LEMMA PositionIsNumber ==
  ASSUME NEW n \in Nat
  PROVE  RonKey(NewRon60(n)) \in Int
<1>1. PICK t, w, d : t = RonWeight[RonDigits] /\ w = RonWeight[RonDigits - 1] /\ d = n % t
  OBVIOUS
<1>2. t \in Nat \ {0} /\ w \in Nat
  <2>1. RonDigits - 1 \in 0..RonDigits /\ RonDigits \in 0..RonDigits
    BY RonWeights
  <2> QED
    BY <1>1, <2>1, PositionWeights DEF Powers
<1>3. d \in 0..(t - 1)
  BY <1>1, <1>2, DivMod
<1>4. NewRon60(n) \in Int
  <2>1. CASE d = 0
    <3>1. NewRon60(n) = t - 1 - w
      BY <1>1, <2>1 DEF NewRon60, RonTop
    <3> QED
      BY <1>2, <3>1
  <2>2. CASE d # 0
    <3>1. d \in Nat \ {0} /\ d < t
      BY <1>2, <1>3, <2>2
    <3>2. PICK k \in 0..(RonDigits - 1) : Fills(d, k)
      BY <1>1, <3>1, NewRon60Fills
    <3>3. NewRon60(n) = d * RonWeight[k]
      BY <1>1, <3>1, <3>2, NewRon60Is
    <3>4. d * RonWeight[k] \in Nat \ {0}
      <4>1. k \in 0..(RonDigits + 1) /\ k \in 0..k
        BY RonWeights
      <4> QED
        BY <3>1, <4>1, PositionGrows
    <3> QED
      BY <3>3, <3>4
  <2> QED
    BY <2>1, <2>2
<1>5. PICK r : r = NewRon60(n)
  OBVIOUS
<1>6. (r + w) % t \in Int
  BY <1>2, <1>4, <1>5
<1> QED
  BY <1>1, <1>5, <1>6 DEF RonKey

\* A list of any elements can be sorted by position and author.
THEOREM LinearIsAnOrder == ElementSpec => []LinearOrders
<1> DEFINE At(a) == RonKey(NewRon60(a.id.seq \div RevMod))
<1>1. ASSUME NEW a \in Elements PROVE At(a) \in Int /\ a.id.src \in Int
  <2>1. a.id.src \in Int /\ a.id.seq \in Nat
    BY ElementsAssumption DEF IDs
  <2>2. a.id.seq \div RevMod \in Nat
    BY <2>1, RdxOrderAssumption
  <2> QED
    BY <2>1, <2>2, PositionIsNumber
<1>2. x \in Elements /\ y \in Elements /\ z \in Elements => LinearOrders
  <2> SUFFICES ASSUME x \in Elements, y \in Elements, z \in Elements
               PROVE  LinearOrders
    OBVIOUS
  <2>1. \A a \in {x, y, z} : At(a) \in Int /\ a.id.src \in Int
    BY <1>1
  <2>2. \A a, b : CompareLinear(a, b) = Then(Sign(At(a), At(b)), Sign(a.id.src, b.id.src))
    BY DEF CompareLinear
  <2> HIDE DEF At
  <2> QED
    BY <2>1, <2>2 DEF LinearOrders, Orders, Then, Sign, Less, Eq, Grtr
<1> QED
  BY <1>2, AtElements, PTL
-----------------------------------------------------------------------------
\* A number bumped by c keeps its multiple of m while the rest has room.
LEMMA Bump ==
  ASSUME NEW n \in Nat, NEW m \in Nat \ {0, 1}, NEW c \in 1..2
  PROVE  /\ n % m \in 0..(m - 1)
         /\ (n + c) - ((n + c) % m) = n - (n % m) <=> (n % m) + c < m
<1>1. PICK d, r : d = n \div m /\ r = n % m
  OBVIOUS
<1>2. d \in Nat /\ r \in 0..(m - 1) /\ n = d * m + r
  BY <1>1, DivMod
<1>3. PICK t : t = d * m
  OBVIOUS
<1>4. t \in Nat
  BY <1>2, <1>3
<1>5. CASE r + c < m
  <2>1. r + c \in 0..(m - 1) /\ n + c \in Nat /\ n + c = d * m + (r + c)
    BY <1>2, <1>3, <1>4, <1>5
  <2>2. (n + c) % m = r + c
    BY <1>2, <2>1, DivUnique
  <2> QED
    BY <1>1, <1>2, <1>3, <1>4, <1>5, <2>1, <2>2
<1>6. CASE ~(r + c < m)
  <2>1. r + c - m \in 0..(m - 1) /\ n + c \in Nat /\ d + 1 \in Nat
    BY <1>2, <1>6
  <2>2. (d + 1) * m = t + m
    BY <1>2, <1>3
  <2>3. n + c = (d + 1) * m + (r + c - m)
    BY <1>2, <1>3, <1>4, <2>1, <2>2
  <2>4. (n + c) % m = r + c - m
    BY <1>2, <2>1, <2>3, DivUnique
  <2>5. (n + c) - ((n + c) % m) = t + m /\ n - (n % m) = t
    BY <1>1, <1>2, <1>3, <1>4, <2>1, <2>4
  <2> QED
    BY <1>1, <1>2, <1>4, <1>6, <2>5
<1> QED
  BY <1>5, <1>6

\* ID.Removed and ID.Recovered (id.go), of any ID, give a later one of the
\* right liveness, and the same element exactly while there are revisions
\* left, whatever their even number is.
THEOREM TogglesKeepStems ==
  ASSUME u \in Nat, v \in Nat, RevMod % 2 = 0
  PROVE  TogglesKeepStem
<1>1. PICK id : id = [src |-> v, seq |-> u]
  OBVIOUS
<1>2. PICK r, m : r = u % RevMod /\ m = RevMod
  OBVIOUS
<1>m. m \in Nat \ {0, 1} /\ m % 2 = 0
  <2>1. m \in Nat \ {0} /\ m % 2 = 0
    BY <1>2, RdxOrderAssumption
  <2>2. m # 1
    BY <2>1
  <2> QED
    BY <2>1, <2>2
<1>3. /\ r \in 0..(m - 1) /\ r % 2 = u % 2
      /\ \A c \in 1..2 : (u + c) - ((u + c) % m) = u - r <=> r + c < m
  <2>1. r = u % m
    BY <1>2
  <2>2. (u % m) % 2 = u % 2
    BY <1>m, Parity
  <2>3. ASSUME NEW c \in 1..2
        PROVE  /\ u % m \in 0..(m - 1)
               /\ (u + c) - ((u + c) % m) = u - (u % m) <=> (u % m) + c < m
    BY <1>m, Bump
  <2>4. 1 \in 1..2
    OBVIOUS
  <2> QED
    BY <2>1, <2>2, <2>3, <2>4
<1>4. Rev(id) = r /\ Base(id) = [src |-> v, seq |-> u - r]
  BY <1>1, <1>2 DEF Rev, Base
<1>5. ASSUME NEW c \in 1..2, NEW new, new = [src |-> v, seq |-> u + c]
      PROVE  /\ Base(new) = Base(id) <=> r + c < m
             /\ RevCompare(id, new) = Less
  <2>1. Base(new) = [src |-> v, seq |-> (u + c) - ((u + c) % m)]
    BY <1>2, <1>5 DEF Rev, Base
  <2>2. Base(new) = Base(id) <=> r + c < m
    BY <1>3, <1>4, <2>1
  <2>3. RevCompare(id, new) = Less
    BY <1>1, <1>5 DEF RevCompare, Sign, Then, Less, Eq, Grtr
  <2> QED
    BY <2>2, <2>3
<1>6. PICK c, d : c = (IF u % 2 = 0 THEN 1 ELSE 2) /\ d = (IF u % 2 = 0 THEN 2 ELSE 1)
  OBVIOUS
<1>7. c \in 1..2 /\ d \in 1..2
  BY <1>6
<1>8. Removed(id) = [src |-> v, seq |-> u + c] /\ Recovered(id) = [src |-> v, seq |-> u + d]
  BY <1>1, <1>6 DEF Removed, Recovered
<1>9. (u + c) % 2 = 1 /\ (u + d) % 2 = 0
  BY <1>6
<1>10. ~IsLive(Removed(id)) /\ IsLive(Recovered(id))
  BY <1>8, <1>9 DEF IsLive
<1>11. (r + c < m <=> r <= m - 2) /\ (r + d < m <=> r <= m - 3)
  <2>1. CASE u % 2 = 0
    BY <1>m, <1>3, <1>6, <2>1
  <2>2. CASE u % 2 # 0
    BY <1>m, <1>3, <1>6, <2>2
  <2> QED
    BY <2>1, <2>2
<1>12. /\ (Base(Removed(id)) = Base(id)) <=> (Rev(id) <= RevMod - 2)
       /\ (Base(Recovered(id)) = Base(id)) <=> (Rev(id) <= RevMod - 3)
       /\ RevCompare(id, Removed(id)) = Less /\ RevCompare(id, Recovered(id)) = Less
  BY <1>2, <1>4, <1>5, <1>7, <1>8, <1>11
<1> QED
  BY <1>1, <1>10, <1>12 DEF TogglesKeepStem
============================================================================
