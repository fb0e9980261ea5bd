----------------------------- MODULE TlvProofs -----------------------------
(***************************************************************************)
(* However headers shrink, grow or are inserted, the buffer holds what the *)
(* records were given, and the readers take it apart into those records.   *)
(***************************************************************************)
EXTENDS Tlv, NumberFacts, SequenceTheorems, TLAPS

\* the function FlattenSeq is the last value of, with the empty sequence first
Joined(g, seqs, S) ==
  /\ g \in [0..Len(seqs) -> Seq(S)]
  /\ g[0] = <<>>
  /\ \A k \in 1..Len(seqs) : g[k] = g[k - 1] \o seqs[k]

\* There is one.
LEMMA JoinedExists ==
  ASSUME NEW S, NEW seqs \in Seq(Seq(S))
  PROVE  \E g : Joined(g, seqs, S)
<1>n. PICK n : n = Len(seqs)
  OBVIOUS
<1>s. n \in Nat /\ \A k \in 1..n : seqs[k] \in Seq(S)
  BY <1>n
<1> DEFINE F == [c \in (1..n) \X Seq(S) |-> c[2] \o seqs[c[1]]]
<1>1. F \in [(1..n) \X Seq(S) -> Seq(S)]
  <2> SUFFICES ASSUME NEW c \in (1..n) \X Seq(S) PROVE c[2] \o seqs[c[1]] \in Seq(S)
    OBVIOUS
  <2>1. c[1] \in 1..n /\ c[2] \in Seq(S)
    OBVIOUS
  <2>2. seqs[c[1]] \in Seq(S)
    BY <1>s, <2>1
  <2> QED
    BY <2>1, <2>2, ConcatProperties
<1>2. \A k \in 1..n, w \in Seq(S) : F[<<k, w>>] = w \o seqs[k]
  OBVIOUS
<1>3. <<>> \in Seq(S)
  OBVIOUS
<1> HIDE DEF F
<1>4. PICK g : Unfolds(g, n, Seq(S), <<>>, F)
  BY <1>s, <1>1, <1>3, RecursiveFunction
<1>5. g \in [0..n -> Seq(S)] /\ g[0] = <<>>
  BY <1>4 DEF Unfolds
<1>6. ASSUME NEW k \in 1..n PROVE g[k] = g[k - 1] \o seqs[k]
  <2>1. k - 1 \in 0..n
    BY <1>s
  <2>2. g[k - 1] \in Seq(S)
    BY <1>5, <2>1
  <2>3. g[k] = F[<<k, g[k - 1]>>]
    BY <1>4 DEF Unfolds
  <2> QED
    BY <1>2, <2>2, <2>3
<1> QED
  BY <1>n, <1>5, <1>6 DEF Joined

\* FlattenSeq is what it ends with.
LEMMA FlattenJoined ==
  ASSUME NEW S, NEW seqs \in Seq(Seq(S)), NEW g, Joined(g, seqs, S)
  PROVE  FlattenSeq(seqs) = g[Len(seqs)]
<1>n. PICK n : n = Len(seqs)
  OBVIOUS
<1>s. n \in Nat /\ \A k \in 1..n : seqs[k] \in Seq(S)
  BY <1>n
<1>g. /\ g \in [0..n -> Seq(S)] /\ g[0] = <<>>
      /\ \A k \in 1..n : g[k] = g[k - 1] \o seqs[k]
  BY <1>n DEF Joined
<1>1. CASE n = 0
  <2>1. seqs = <<>>
    BY <1>n, <1>1, EmptySeq
  <2> QED
    BY <1>n, <1>g, <1>1, <2>1 DEF FlattenSeq
<1>2. CASE n # 0
  <2> DEFINE Def(f) == f = [i \in 1..n |-> IF i = 1 THEN seqs[i] ELSE f[i - 1] \o seqs[i]]
             h == [i \in 1..n |-> g[i]]
             f0 == CHOOSE f : Def(f)
  <2>1. \A i \in 1..n : h[i] = IF i = 1 THEN seqs[i] ELSE h[i - 1] \o seqs[i]
    <3> SUFFICES ASSUME NEW i \in 1..n
                 PROVE  g[i] = IF i = 1 THEN seqs[i] ELSE h[i - 1] \o seqs[i]
      OBVIOUS
    <3>1. CASE i = 1
      <4>1. g[1] = <<>> \o seqs[1]
        <5>1. 1 \in 1..n /\ 1 - 1 = 0
          BY <3>1
        <5> QED
          BY <1>g, <5>1
      <4>2. <<>> \o seqs[1] = seqs[1]
        BY <1>s, <3>1, ConcatEmptySeq
      <4> QED
        BY <3>1, <4>1, <4>2
    <3>2. CASE i # 1
      <4>1. i - 1 \in 1..n
        BY <1>s, <3>2
      <4> QED
        BY <1>g, <3>2, <4>1
    <3> QED
      BY <3>1, <3>2
  <2>2. Def(h)
    <3> HIDE DEF h
    <3>1. h = [i \in 1..n |-> h[i]]
      BY DEF h
    <3> QED
      BY <2>1, <3>1
  <2>3. Def(f0)
    <3> HIDE DEF Def
    <3> QED
      BY <2>2
  <2>4. FlattenSeq(seqs) = f0[n]
    BY <1>n, <1>2 DEF FlattenSeq
  <2> HIDE DEF f0
  <2> DEFINE T == {k \in 0..n : k = 0 \/ f0[k] = g[k]}
  <2>5. 0 \in T
    BY <1>s
  <2>6. ASSUME NEW k \in 0..(n - 1), k \in T PROVE k + 1 \in T
    <3>1. k + 1 \in 1..n /\ k + 1 \in 0..n /\ (k + 1) - 1 = k
      BY <1>s
    <3>2. f0[k + 1] = IF k + 1 = 1 THEN seqs[k + 1] ELSE f0[k] \o seqs[k + 1]
      BY <2>3, <3>1
    <3>3. CASE k = 0
      <4>1. g[1] = h[1] /\ h[1] = seqs[1]
        <5>1. 1 \in 1..n
          BY <3>1, <3>3
        <5> QED
          BY <2>1, <5>1
      <4> QED
        BY <3>1, <3>2, <3>3, <4>1
    <3>4. CASE k # 0
      <4>1. f0[k] = g[k] /\ k + 1 # 1
        BY <2>6, <3>4
      <4>2. g[k + 1] = g[k] \o seqs[k + 1]
        BY <1>g, <3>1
      <4> QED
        BY <3>1, <3>2, <4>1, <4>2
    <3> QED
      BY <3>3, <3>4
  <2>7. 0..n \subseteq T
    <3> HIDE DEF T
    <3> QED
      BY <1>s, <2>5, <2>6, Induction
  <2> QED
    BY <1>n, <1>s, <1>2, <2>4, <2>7
<1> QED
  BY <1>1, <1>2

\* What flattening does, item by item.
LEMMA FlattenFacts ==
  ASSUME NEW S, NEW seqs \in Seq(Seq(S))
  PROVE  /\ FlattenSeq(seqs) \in Seq(S)
         /\ \A item \in Seq(S) : FlattenSeq(Append(seqs, item)) = FlattenSeq(seqs) \o item
<1>1. PICK g : Joined(g, seqs, S)
  BY JoinedExists
<1>2. FlattenSeq(seqs) \in Seq(S)
  <2>1. Len(seqs) \in Nat /\ Len(seqs) \in 0..Len(seqs)
    OBVIOUS
  <2> QED
    BY <1>1, <2>1, FlattenJoined DEF Joined
<1>3. ASSUME NEW item \in Seq(S)
      PROVE  FlattenSeq(Append(seqs, item)) = FlattenSeq(seqs) \o item
  <2>1. PICK t, n : t = Append(seqs, item) /\ n = Len(seqs)
    OBVIOUS
  <2>2. /\ t \in Seq(Seq(S)) /\ Len(t) = n + 1 /\ n \in Nat
        /\ t[n + 1] = item /\ \A k \in 1..n : t[k] = seqs[k]
    BY <2>1, AppendProperties
  <2>3. PICK h : Joined(h, t, S)
    BY <2>2, JoinedExists
  <2>4. /\ h \in [0..(n + 1) -> Seq(S)] /\ h[0] = <<>>
        /\ \A k \in 1..(n + 1) : h[k] = h[k - 1] \o t[k]
    BY <2>2, <2>3 DEF Joined
  <2>5. FlattenSeq(t) = h[n + 1]
    BY <2>2, <2>3, FlattenJoined
  <2>6. PICK f : f = [k \in 0..n |-> h[k]]
    OBVIOUS
  <2>7. Joined(f, seqs, S)
    <3>1. f \in [0..n -> Seq(S)] /\ f[0] = <<>>
      BY <2>2, <2>4, <2>6
    <3>2. ASSUME NEW k \in 1..n PROVE f[k] = f[k - 1] \o seqs[k]
      <4>1. k \in 0..n /\ k - 1 \in 0..n /\ k \in 1..(n + 1)
        BY <2>2
      <4> QED
        BY <2>2, <2>4, <2>6, <4>1
    <3> QED
      BY <2>1, <3>1, <3>2 DEF Joined
  <2>8. FlattenSeq(seqs) = h[n]
    <3>1. FlattenSeq(seqs) = f[n]
      BY <2>1, <2>7, FlattenJoined
    <3>2. n \in 0..n
      BY <2>2
    <3> QED
      BY <2>6, <3>1, <3>2
  <2>9. h[n + 1] = h[n] \o item
    <3>1. n + 1 \in 1..(n + 1) /\ (n + 1) - 1 = n
      BY <2>2
    <3> QED
      BY <2>2, <2>4, <3>1
  <2> QED
    BY <2>1, <2>5, <2>8, <2>9
<1> QED
  BY <1>2, <1>3

\* Nothing flattens to nothing, one item to itself.
LEMMA FlattenSmall ==
  ASSUME NEW S, NEW item \in Seq(S)
  PROVE  FlattenSeq(<<>>) = <<>> /\ FlattenSeq(<<item>>) = item
<1>1. FlattenSeq(<<>>) = <<>>
  BY DEF FlattenSeq
<1>2. <<>> \in Seq(Seq(S)) /\ Append(<<>>, item) = <<item>>
  OBVIOUS
<1>3. FlattenSeq(<<item>>) = <<>> \o item
  BY <1>1, <1>2, FlattenFacts
<1> QED
  BY <1>1, <1>3, ConcatEmptySeq

\* Appending to a concatenation.
LEMMA AppendLater ==
  ASSUME NEW Q, NEW a \in Seq(Q), NEW c \in Seq(Q), NEW x \in Q
  PROVE  a \o Append(c, x) = Append(a \o c, x)
<1>0. PICK b, d, l, r : b = Append(c, x) /\ d = a \o c /\ l = a \o b /\ r = Append(d, x)
  OBVIOUS
<1>1. /\ b \in Seq(Q) /\ Len(b) = Len(c) + 1
      /\ \A i \in 1..Len(c) : b[i] = c[i]
      /\ b[Len(c) + 1] = x
  BY <1>0, AppendProperties
<1>2. /\ d \in Seq(Q) /\ Len(d) = Len(a) + Len(c)
      /\ \A i \in 1..(Len(a) + Len(c)) : d[i] = IF i <= Len(a) THEN a[i] ELSE c[i - Len(a)]
  BY <1>0, ConcatProperties
<1>3. /\ l \in Seq(Q) /\ Len(l) = Len(a) + Len(b)
      /\ \A i \in 1..(Len(a) + Len(b)) : l[i] = IF i <= Len(a) THEN a[i] ELSE b[i - Len(a)]
  BY <1>0, <1>1, ConcatProperties
<1>4. /\ r \in Seq(Q) /\ Len(r) = Len(d) + 1
      /\ \A i \in 1..Len(d) : r[i] = d[i]
      /\ r[Len(d) + 1] = x
  BY <1>0, <1>2, AppendProperties
<1>5. PICK p, q : p = Len(a) /\ q = Len(c)
  OBVIOUS
<1>6. p \in Nat /\ q \in Nat
  BY <1>5, LenProperties
<1>7. Len(l) = p + q + 1 /\ Len(r) = p + q + 1
  BY <1>1, <1>2, <1>3, <1>4, <1>5, <1>6
<1>8. ASSUME NEW i \in 1..(p + q + 1) PROVE l[i] = r[i]
  <2>1. CASE i <= p
    <3>1. i \in 1..(p + (q + 1)) /\ i \in 1..(p + q)
      BY <1>6, <2>1
    <3> QED
      BY <1>1, <1>2, <1>3, <1>4, <1>5, <2>1, <3>1
  <2>2. CASE p < i /\ i <= p + q
    <3>1. PICK j : j = i - p
      OBVIOUS
    <3>2. j \in 1..q /\ ~(i <= p) /\ i \in 1..(p + (q + 1)) /\ i \in 1..(p + q)
      BY <1>6, <2>2, <3>1
    <3>3. l[i] = b[j] /\ b[j] = c[j]
      BY <1>1, <1>3, <1>5, <3>1, <3>2
    <3>4. r[i] = d[i] /\ d[i] = c[j]
      BY <1>2, <1>4, <1>5, <3>1, <3>2
    <3> QED
      BY <3>3, <3>4
  <2>3. CASE i = p + q + 1
    <3>1. i - p = q + 1 /\ ~(i <= p) /\ i \in 1..(p + (q + 1))
      BY <1>6, <2>3
    <3>2. l[i] = b[q + 1] /\ b[q + 1] = x
      BY <1>1, <1>3, <1>5, <3>1
    <3>3. r[i] = x
      BY <1>2, <1>4, <1>5, <2>3
    <3> QED
      BY <3>2, <3>3
  <2> QED
    BY <1>6, <2>1, <2>2, <2>3
<1>9. l = r
  <2>1. Len(l) = Len(r) /\ \A i \in 1..Len(l) : l[i] = r[i]
    BY <1>7, <1>8
  <2> QED
    BY <1>3, <1>4, <2>1, SeqEqual
<1> QED
  BY <1>0, <1>9

\* Flattening distributes over concatenation.
LEMMA FlattenConcat ==
  ASSUME NEW S, NEW a \in Seq(Seq(S)), NEW b \in Seq(Seq(S))
  PROVE  FlattenSeq(a \o b) = FlattenSeq(a) \o FlattenSeq(b)
<1>n. PICK n : n = Len(b)
  OBVIOUS
<1>0. n \in Nat /\ \A k \in 1..n : b[k] \in Seq(S)
  BY <1>n
<1> DEFINE pre(k) == SubSeq(b, 1, k)
           T == {k \in 0..n : FlattenSeq(a \o pre(k)) = FlattenSeq(a) \o FlattenSeq(pre(k))}
<1>1. ASSUME NEW k \in 0..n PROVE pre(k) \in Seq(Seq(S)) /\ Len(pre(k)) = k
  <2>1. k \in Int /\ 1 \in Int /\ \A i \in 1..k : b[i] \in Seq(S)
    BY <1>0
  <2>2. pre(k) \in Seq(Seq(S)) /\ Len(pre(k)) = IF 1 <= k THEN k - 1 + 1 ELSE 0
    BY <2>1, SubSeqProperties
  <2> QED
    BY <2>2
<1>2. pre(0) = <<>> /\ pre(n) = b
  <2>1. pre(n) = b
    BY <1>n, SubSeqFull
  <2>2. pre(0) = <<>>
    BY <1>0, <1>1, EmptySeq
  <2> QED
    BY <2>1, <2>2
<1>3. 0 \in T
  <2>1. FlattenSeq(a) \in Seq(S) /\ FlattenSeq(<<>>) = <<>>
    BY FlattenFacts DEF FlattenSeq
  <2>2. a \o <<>> = a /\ FlattenSeq(a) \o <<>> = FlattenSeq(a)
    BY <2>1, ConcatEmptySeq
  <2>3. FlattenSeq(a \o pre(0)) = FlattenSeq(a) \o FlattenSeq(pre(0))
    BY <1>2, <2>1, <2>2
  <2>4. 0 \in 0..n
    BY <1>0
  <2> QED
    BY <2>3, <2>4
<1>4. ASSUME NEW k \in 0..(n - 1), k \in T PROVE k + 1 \in T
  <2>1. k \in 0..n /\ k + 1 \in 0..n /\ k + 1 \in 1..n /\ (k + 1) - 1 = k
    BY <1>0
  <2>2. PICK c, x : c = pre(k) /\ x = b[k + 1]
    OBVIOUS
  <2>3. c \in Seq(Seq(S)) /\ x \in Seq(S)
    BY <1>0, <1>1, <2>1, <2>2
  <2>4. pre(k + 1) = Append(c, x)
    <3>1. pre(k + 1) = pre(k) \o <<b[k + 1]>>
      <4>1. 1 \in 1..(k + 1) /\ k + 1 \in 1..Len(b)
        BY <1>n, <2>1
      <4> QED
        BY <1>n, <2>1, <4>1, SubSeqRecursiveSecond
    <3> QED
      BY <2>2, <2>3, <3>1, AppendIsConcat
  <2>5. a \o Append(c, x) = Append(a \o c, x)
    <3>1. PICK Q : Q = Seq(S)
      OBVIOUS
    <3>2. a \in Seq(Q) /\ c \in Seq(Q) /\ x \in Q
      BY <2>3, <3>1
    <3> QED
      BY <3>2, AppendLater
  <2>6. /\ FlattenSeq(Append(a \o c, x)) = FlattenSeq(a \o c) \o x
        /\ FlattenSeq(Append(c, x)) = FlattenSeq(c) \o x
    <3>1. a \o c \in Seq(Seq(S))
      BY <2>3, ConcatProperties
    <3> QED
      BY <2>3, <3>1, FlattenFacts
  <2>7. FlattenSeq(a \o c) = FlattenSeq(a) \o FlattenSeq(c)
    BY <1>4, <2>2
  <2>8. FlattenSeq(a) \in Seq(S) /\ FlattenSeq(c) \in Seq(S)
    BY <2>3, FlattenFacts
  <2>9. (FlattenSeq(a) \o FlattenSeq(c)) \o x = FlattenSeq(a) \o (FlattenSeq(c) \o x)
    <3>1. PICK y, w : y = FlattenSeq(a) /\ w = FlattenSeq(c)
      OBVIOUS
    <3>2. y \in Seq(S) /\ w \in Seq(S)
      BY <2>8, <3>1
    <3>3. (y \o w) \o x = y \o (w \o x)
      BY <2>3, <3>2, ConcatAssociative
    <3> QED
      BY <3>1, <3>3
  <2>10. FlattenSeq(a \o pre(k + 1)) = FlattenSeq(a) \o FlattenSeq(pre(k + 1))
    BY <2>4, <2>5, <2>6, <2>7, <2>9
  <2> QED
    BY <2>1, <2>10
<1>5. 0..n \subseteq T
  <2> HIDE DEF T
  <2> QED
    BY <1>0, <1>3, <1>4, Induction
<1>6. n \in T
  BY <1>0, <1>5
<1> QED
  BY <1>2, <1>6
-----------------------------------------------------------------------------
\* Sequences that agree up to p have the same parts up to p.
LEMMA SameParts ==
  ASSUME NEW S, NEW d \in Seq(S), NEW e \in Seq(S), NEW p \in Nat, p <= Len(d), p <= Len(e),
         \A i \in 1..p : d[i] = e[i], NEW a \in Nat \ {0}, NEW b \in Nat, b <= p
  PROVE  SubSeq(d, a, b) = SubSeq(e, a, b)
<1>1. \A k \in a..b : k \in 1..p /\ d[k] \in S /\ e[k] \in S /\ d[k] = e[k]
  OBVIOUS
<1>2. a \in Int /\ b \in Int
  OBVIOUS
<1>3. /\ SubSeq(d, a, b) \in Seq(S)
      /\ Len(SubSeq(d, a, b)) = IF a <= b THEN b - a + 1 ELSE 0
      /\ \A i \in 1..(b - a + 1) : SubSeq(d, a, b)[i] = d[a + i - 1]
  BY <1>1, <1>2, SubSeqProperties
<1>4. /\ SubSeq(e, a, b) \in Seq(S)
      /\ Len(SubSeq(e, a, b)) = IF a <= b THEN b - a + 1 ELSE 0
      /\ \A i \in 1..(b - a + 1) : SubSeq(e, a, b)[i] = e[a + i - 1]
  BY <1>1, <1>2, SubSeqProperties
<1>5. ASSUME NEW i \in 1..Len(SubSeq(d, a, b)) PROVE SubSeq(d, a, b)[i] = SubSeq(e, a, b)[i]
  <2>1. i \in 1..(b - a + 1) /\ a + i - 1 \in a..b
    BY <1>3
  <2> QED
    BY <1>1, <1>3, <1>4, <2>1
<1> QED
  BY <1>3, <1>4, <1>5, SeqEqual

\* The part after a, up to b.
LEMMA Part ==
  ASSUME NEW S, NEW d \in Seq(S), NEW a \in Nat, NEW b \in Nat, a <= b, b <= Len(d)
  PROVE  /\ SubSeq(d, a + 1, b) \in Seq(S)
         /\ Len(SubSeq(d, a + 1, b)) = b - a
         /\ \A i \in 1..(b - a) : SubSeq(d, a + 1, b)[i] = d[a + i]
<1>1. PICK m : m = a + 1
  OBVIOUS
<1>2. m \in Int /\ b \in Int
  BY <1>1
<1>3. \A i \in m..b : d[i] \in S
  BY <1>1
<1>4. /\ SubSeq(d, m, b) \in Seq(S)
      /\ Len(SubSeq(d, m, b)) = IF m <= b THEN b - m + 1 ELSE 0
      /\ \A i \in 1..(b - m + 1) : SubSeq(d, m, b)[i] = d[m + i - 1]
  BY <1>2, <1>3, SubSeqProperties
<1>5. /\ b - m + 1 = b - a /\ (~(m <= b) => b - a = 0)
      /\ \A i \in 1..(b - a) : m + i - 1 = a + i
  BY <1>1
<1> QED
  BY <1>1, <1>4, <1>5

\* copy(d[to:], from)
LEMMA CopyFacts ==
  ASSUME NEW S, NEW d \in Seq(S), NEW from \in Seq(S), NEW to \in Nat, to + Len(from) <= Len(d)
  PROVE  /\ Copy(d, to, from) \in Seq(S)
         /\ Len(Copy(d, to, from)) = Len(d)
         /\ \A i \in 1..to : Copy(d, to, from)[i] = d[i]
         /\ \A i \in 1..Len(from) : Copy(d, to, from)[to + i] = from[i]
         /\ \A i \in (to + Len(from) + 1)..Len(d) : Copy(d, to, from)[i] = d[i]
<1>0. PICK n, m : n = Len(d) /\ m = Len(from)
  OBVIOUS
<1>1. n \in Nat /\ m \in Nat /\ DOMAIN d = 1..n /\ to + m <= n
  BY <1>0
<1>2. PICK c : c = Copy(d, to, from)
  OBVIOUS
<1>3. c = [k \in 1..n |-> IF k \in (to + 1)..(to + m) THEN from[k - to] ELSE d[k]]
  BY <1>0, <1>1, <1>2 DEF Copy
<1>4. ASSUME NEW k \in 1..n PROVE c[k] \in S
  <2>1. CASE k \in (to + 1)..(to + m)
    <3>1. k - to \in 1..m
      BY <1>1, <2>1
    <3>2. from[k - to] \in S
      BY <1>0, <3>1
    <3> QED
      BY <1>3, <2>1, <3>2
  <2>2. CASE k \notin (to + 1)..(to + m)
    BY <1>0, <1>3, <2>2
  <2> QED
    BY <2>1, <2>2
<1>5. c \in Seq(S) /\ Len(c) = n
  <2>1. c \in [1..n -> S]
    <3>1. c = [k \in 1..n |-> c[k]]
      BY <1>3
    <3> QED
      BY <1>4, <3>1
  <2> QED
    BY <1>1, <2>1
<1>6. ASSUME NEW i \in 1..to PROVE c[i] = d[i]
  BY <1>1, <1>3
<1>7. ASSUME NEW i \in 1..m PROVE c[to + i] = from[i]
  <2>1. to + i \in 1..n /\ to + i \in (to + 1)..(to + m) /\ (to + i) - to = i
    BY <1>1
  <2> QED
    BY <1>3, <2>1
<1>8. ASSUME NEW i \in (to + m + 1)..n PROVE c[i] = d[i]
  BY <1>1, <1>3
<1> QED
  BY <1>0, <1>2, <1>5, <1>6, <1>7, <1>8
-----------------------------------------------------------------------------
\* what a buffer is made of
AllLits == Letters \cup {"P"}
LongLengths == UNION {Range(PutUint32(n)) : n \in Nat}
Contained == UNION {Range(b) : b \in Keys \cup Values \cup Payload}
Byte ==
  {Lit(l, short) : l \in AllLits, short \in BOOLEAN} \cup {Num(n) : n \in Nat}
    \cup LongLengths \cup Contained

LEMMA Bytes ==
  /\ \A l \in AllLits, short \in BOOLEAN : Lit(l, short) \in Byte
  /\ \A n \in Nat : Num(n) \in Byte
  /\ \A b \in Keys \cup Values \cup Payload : b \in Seq(Byte)
  /\ \A n \in Nat : PutUint32(n) \in Seq(Byte) /\ Len(PutUint32(n)) = 4
<1>1. \A l \in AllLits, short \in BOOLEAN : Lit(l, short) \in Byte
  BY DEF Byte
<1>2. \A n \in Nat : Num(n) \in Byte
  BY DEF Byte
<1>3. ASSUME NEW b \in Keys \cup Values \cup Payload PROVE b \in Seq(Byte)
  <2>1. b \in Seq(Range(b))
    BY TlvAssumption
  <2>2. Range(b) \subseteq Byte
    BY DEF Byte, Contained
  <2> QED
    BY <2>1, <2>2, SeqMonotonic
<1>4. ASSUME NEW n \in Nat PROVE PutUint32(n) \in Seq(Byte) /\ Len(PutUint32(n)) = 4
  <2>1. Range(PutUint32(n)) \subseteq Byte
    BY DEF Byte, LongLengths
  <2>2. \A k \in 1..4 : Num((n \div ByteWeight[k - 1]) % Base) \in Byte
    BY <2>1 DEF Range, PutUint32
  <2> QED
    BY <2>2 DEF PutUint32
<1> QED
  BY <1>1, <1>2, <1>3, <1>4

LEMMA ZeroBytes ==
  ASSUME NEW n \in Nat
  PROVE  Zeroes(n) \in Seq(Byte) /\ Len(Zeroes(n)) = n
<1>1. Num(0) \in Byte
  BY Bytes
<1> QED
  BY <1>1 DEF Zeroes

\* the length of a header
Hdr(short) == IF short THEN 2 ELSE 5

LEMMA Headers ==
  ASSUME NEW lit \in AllLits, NEW n \in Nat
  PROVE  /\ IsShort(n) \in BOOLEAN
         /\ Header(lit, n) \in Seq(Byte)
         /\ Len(Header(lit, n)) = Hdr(IsShort(n))
<1>1. Base \in Nat \ {0}
  BY TlvBytesAssumption
<1>2. IsShort(n) \in BOOLEAN
  BY DEF IsShort
<1>3. n % Base \in Nat
  BY <1>1
<1>4. Num(n % Base) \in Byte /\ Lit(lit, TRUE) \in Byte /\ Lit(lit, FALSE) \in Byte
  BY <1>3, Bytes
<1>5. CASE IsShort(n)
  <2>1. Header(lit, n) = <<Lit(lit, TRUE), Num(n % Base)>>
    BY <1>5 DEF Header
  <2>2. PICK a, b : a = Lit(lit, TRUE) /\ b = Num(n % Base)
    OBVIOUS
  <2>3. a \in Byte /\ b \in Byte
    BY <1>4, <2>2
  <2>4. <<a, b>> \in Seq(Byte) /\ Len(<<a, b>>) = 2
    BY <2>3
  <2> QED
    BY <1>2, <1>5, <2>1, <2>2, <2>4 DEF Hdr
<1>6. CASE ~IsShort(n)
  <2>1. Header(lit, n) = <<Lit(lit, FALSE)>> \o PutUint32(n)
    BY <1>6 DEF Header
  <2>2. PICK p, q : p = <<Lit(lit, FALSE)>> /\ q = PutUint32(n)
    OBVIOUS
  <2>3. p \in Seq(Byte) /\ Len(p) = 1 /\ q \in Seq(Byte) /\ Len(q) = 4
    <3>1. q \in Seq(Byte) /\ Len(q) = 4
      BY <2>2, Bytes
    <3>2. PICK a : a = Lit(lit, FALSE)
      OBVIOUS
    <3>3. p = <<a>> /\ a \in Byte
      BY <1>4, <2>2, <3>2
    <3>4. p \in Seq(Byte) /\ Len(p) = 1
      BY <3>3
    <3> QED
      BY <3>1, <3>4
  <2>4. p \o q \in Seq(Byte) /\ Len(p \o q) = 5
    <3>1. p \o q \in Seq(Byte) /\ Len(p \o q) = Len(p) + Len(q)
      BY <2>3, ConcatProperties
    <3> QED
      BY <2>3, <3>1
  <2> QED
    BY <1>2, <1>6, <2>1, <2>2, <2>4 DEF Hdr
<1> QED
  BY <1>2, <1>5, <1>6

\* The header that CloseTLV writes is that of WriteTLV.
LEMMA SameHeader ==
  ASSUME NEW lit \in AllLits, NEW val \in Seq(Byte)
  PROVE  WriteTLV(lit, val) = Header(lit, Len(val)) \o val
<1>0. PICK n : n = Len(val)
  OBVIOUS
<1>1. n \in Nat /\ Base \in Nat \ {0}
  BY <1>0, TlvBytesAssumption
<1>2. CASE n < Base
  <2>1. n % Base = n
    <3>1. n = 0 * Base + n /\ n \in 0..(Base - 1)
      BY <1>1, <1>2
    <3> QED
      BY <1>1, <3>1, DivUnique
  <2>2. ~(n > Base - 1)
    BY <1>1, <1>2
  <2> QED
    BY <1>0, <1>2, <2>1, <2>2 DEF WriteTLV, Header, IsShort
<1>3. CASE ~(n < Base)
  <2>1. n > Base - 1
    BY <1>1, <1>3
  <2> QED
    BY <1>0, <1>3, <2>1 DEF WriteTLV, Header, IsShort
<1> QED
  BY <1>2, <1>3

\* Moving makes room for the header that is due and keeps the contents.
LEMMA MovedFacts ==
  ASSUME NEW d \in Seq(Byte), NEW s \in Nat, NEW n \in Nat, d[s + 1][3] \in BOOLEAN,
         Len(d) = s + Hdr(d[s + 1][3]) + n
  PROVE  /\ Moved(d, s, n) \in Seq(Byte)
         /\ Len(Moved(d, s, n)) = s + Hdr(IsShort(n)) + n
         /\ \A i \in 1..s : Moved(d, s, n)[i] = d[i]
         /\ \A i \in 1..n : Moved(d, s, n)[s + Hdr(IsShort(n)) + i] = d[s + Hdr(d[s + 1][3]) + i]
<1>0. PICK short : short = d[s + 1][3]
  OBVIOUS
<1>1. short \in BOOLEAN /\ IsShort(n) \in BOOLEAN
  BY <1>0 DEF IsShort
<1>2. CASE IsShort(n) = short
  <2>1. Moved(d, s, n) = d
    BY <1>0, <1>2 DEF Moved
  <2> QED
    BY <1>0, <1>2, <2>1
<1>3. CASE IsShort(n) = TRUE /\ short = FALSE
  <2>1. Moved(d, s, n) = Shrunk(d, s)
    BY <1>0, <1>3 DEF Moved
  <2>2. Len(d) = s + 5 + n /\ Hdr(short) = 5 /\ Hdr(IsShort(n)) = 2
    BY <1>0, <1>3 DEF Hdr
  <2>3. PICK C, K, m : /\ m = Len(d) - 3 /\ C = SubSeq(d, s + 6, Len(d))
                       /\ K = Copy(d, s + 2, C)
    OBVIOUS
  <2>4. C \in Seq(Byte) /\ Len(C) = n /\ \A i \in 1..n : C[i] = d[s + 5 + i]
    <3>1. s + 6 \in Int /\ Len(d) \in Int /\ \A i \in (s + 6)..Len(d) : d[i] \in Byte
      OBVIOUS
    <3>2. /\ C \in Seq(Byte)
          /\ Len(C) = IF s + 6 <= Len(d) THEN Len(d) - (s + 6) + 1 ELSE 0
          /\ \A i \in 1..(Len(d) - (s + 6) + 1) : C[i] = d[s + 6 + i - 1]
      BY <2>3, <3>1, SubSeqProperties
    <3>3. Len(C) = n /\ Len(d) - (s + 6) + 1 = n /\ \A i \in 1..n : s + 6 + i - 1 = s + 5 + i
      BY <2>2, <3>2
    <3> QED
      BY <3>2, <3>3
  <2>5. /\ K \in Seq(Byte) /\ Len(K) = s + 5 + n
        /\ \A i \in 1..(s + 2) : K[i] = d[i]
        /\ \A i \in 1..n : K[s + 2 + i] = C[i]
    <3>t. PICK t : t = s + 2
      OBVIOUS
    <3>1. t \in Nat /\ t + Len(C) <= Len(d)
      BY <2>2, <2>4, <3>t
    <3>c. C \in Seq(Byte)
      BY <2>4
    <3>2. /\ Copy(d, t, C) \in Seq(Byte)
          /\ Len(Copy(d, t, C)) = Len(d)
          /\ \A i \in 1..t : Copy(d, t, C)[i] = d[i]
          /\ \A i \in 1..Len(C) : Copy(d, t, C)[t + i] = C[i]
      BY <3>c, <3>1, CopyFacts
    <3> QED
      BY <2>2, <2>3, <2>4, <3>t, <3>2
  <2>6. m = s + 2 + n /\ m \in Nat
    BY <2>2, <2>3
  <2>7. PICK R : R = SubSeq(K, 1, m)
    OBVIOUS
  <2>8. R \in Seq(Byte) /\ Len(R) = s + 2 + n /\ \A i \in 1..m : R[i] = K[i]
    <3>1. m \in Int /\ 1 \in Int /\ \A i \in 1..m : K[i] \in Byte
      BY <2>5, <2>6
    <3>2. /\ R \in Seq(Byte)
          /\ Len(R) = IF 1 <= m THEN m - 1 + 1 ELSE 0
          /\ \A i \in 1..(m - 1 + 1) : R[i] = K[1 + i - 1]
      BY <2>7, <3>1, SubSeqProperties
    <3>3. Len(R) = m /\ m - 1 + 1 = m /\ \A i \in 1..m : 1 + i - 1 = i
      BY <2>6, <3>2
    <3> QED
      BY <2>6, <3>2, <3>3
  <2>9. Moved(d, s, n) = R
    BY <2>1, <2>3, <2>7 DEF Shrunk
  <2>10. ASSUME NEW i \in 1..s PROVE R[i] = d[i]
    <3>1. i \in 1..m /\ i \in 1..(s + 2)
      BY <2>6
    <3> QED
      BY <2>5, <2>8, <3>1
  <2>11. ASSUME NEW i \in 1..n PROVE R[s + 2 + i] = d[s + 5 + i]
    <3>1. s + 2 + i \in 1..m
      BY <2>6
    <3> QED
      BY <2>4, <2>5, <2>8, <3>1
  <2> QED
    BY <1>0, <2>2, <2>8, <2>9, <2>10, <2>11
<1>4. CASE IsShort(n) = FALSE /\ short = TRUE
  <2>1. Moved(d, s, n) = Grown(d, s)
    BY <1>0, <1>4 DEF Moved
  <2>2. Len(d) = s + 2 + n /\ Hdr(short) = 2 /\ Hdr(IsShort(n)) = 5
    BY <1>0, <1>4 DEF Hdr
  <2>3. PICK C, e : C = SubSeq(d, s + 3, Len(d)) /\ e = d \o Zeroes(3)
    OBVIOUS
  <2>4. C \in Seq(Byte) /\ Len(C) = n /\ \A i \in 1..n : C[i] = d[s + 2 + i]
    <3>1. s + 3 \in Int /\ Len(d) \in Int /\ \A i \in (s + 3)..Len(d) : d[i] \in Byte
      OBVIOUS
    <3>2. /\ C \in Seq(Byte)
          /\ Len(C) = IF s + 3 <= Len(d) THEN Len(d) - (s + 3) + 1 ELSE 0
          /\ \A i \in 1..(Len(d) - (s + 3) + 1) : C[i] = d[s + 3 + i - 1]
      BY <2>3, <3>1, SubSeqProperties
    <3>3. Len(C) = n /\ Len(d) - (s + 3) + 1 = n /\ \A i \in 1..n : s + 3 + i - 1 = s + 2 + i
      BY <2>2, <3>2
    <3> QED
      BY <3>2, <3>3
  <2>5. e \in Seq(Byte) /\ Len(e) = s + 5 + n /\ \A i \in 1..(s + 2) : e[i] = d[i]
    <3>1. PICK z : z = Zeroes(3)
      OBVIOUS
    <3>2. z \in Seq(Byte) /\ Len(z) = 3
      BY <3>1, ZeroBytes
    <3>3. /\ d \o z \in Seq(Byte) /\ Len(d \o z) = Len(d) + Len(z)
          /\ \A i \in 1..(Len(d) + Len(z)) : (d \o z)[i] = IF i <= Len(d) THEN d[i] ELSE z[i - Len(d)]
      BY <3>2, ConcatProperties
    <3>4. \A i \in 1..(s + 2) : i \in 1..(Len(d) + Len(z)) /\ i <= Len(d)
      BY <2>2, <3>2
    <3>5. e = d \o z
      BY <2>3, <3>1
    <3>6. Len(e) = s + 5 + n
      BY <2>2, <3>2, <3>3, <3>5
    <3> QED
      BY <3>3, <3>4, <3>5, <3>6
  <2>6. PICK R : R = Copy(e, s + 5, C)
    OBVIOUS
  <2>7. /\ R \in Seq(Byte) /\ Len(R) = s + 5 + n
        /\ \A i \in 1..(s + 5) : R[i] = e[i]
        /\ \A i \in 1..n : R[s + 5 + i] = C[i]
    <3>t. PICK t : t = s + 5
      OBVIOUS
    <3>1. t \in Nat /\ t + Len(C) <= Len(e)
      BY <2>4, <2>5, <3>t
    <3>c. C \in Seq(Byte) /\ e \in Seq(Byte)
      BY <2>4, <2>5
    <3>2. /\ Copy(e, t, C) \in Seq(Byte)
          /\ Len(Copy(e, t, C)) = Len(e)
          /\ \A i \in 1..t : Copy(e, t, C)[i] = e[i]
          /\ \A i \in 1..Len(C) : Copy(e, t, C)[t + i] = C[i]
      BY <3>c, <3>1, CopyFacts
    <3> QED
      BY <2>4, <2>5, <2>6, <3>t, <3>2
  <2>8. Moved(d, s, n) = R
    BY <2>1, <2>3, <2>6 DEF Grown
  <2>9. ASSUME NEW i \in 1..s PROVE R[i] = d[i]
    <3>1. i \in 1..(s + 5) /\ i \in 1..(s + 2)
      OBVIOUS
    <3> QED
      BY <2>5, <2>7, <3>1
  <2>10. ASSUME NEW i \in 1..n PROVE R[s + 5 + i] = d[s + 2 + i]
    BY <2>4, <2>7
  <2> QED
    BY <1>0, <2>2, <2>7, <2>8, <2>9, <2>10
<1> QED
  BY <1>1, <1>2, <1>3, <1>4

\* CloseTLV makes r of the buffer d, whose last record starts at s and has n
\* bytes of contents val
Closing(d, s, n, lit, val, r) ==
  /\ d \in Seq(Byte) /\ s \in Nat /\ n \in Nat /\ d[s + 1][3] \in BOOLEAN
  /\ Len(d) = s + Hdr(d[s + 1][3]) + n /\ lit \in AllLits
  /\ val = SubSeq(d, s + Hdr(d[s + 1][3]) + 1, Len(d))
  /\ r = Copy(Moved(d, s, n), s, Header(lit, n))

\* CloseTLV leaves what was in front of the record, and the record as WriteTLV
\* would have written it.
LEMMA CloseWrites ==
  ASSUME NEW d, NEW s, NEW n, NEW lit, NEW val, NEW r, Closing(d, s, n, lit, val, r)
  PROVE  /\ r \in Seq(Byte) /\ s <= Len(r)
         /\ \A i \in 1..s : r[i] = d[i]
         /\ WriteTLV(lit, val) \in Seq(Byte)
         /\ SubSeq(r, s + 1, Len(r)) = WriteTLV(lit, val)
<1>c. /\ d \in Seq(Byte) /\ s \in Nat /\ n \in Nat /\ d[s + 1][3] \in BOOLEAN
      /\ Len(d) = s + Hdr(d[s + 1][3]) + n /\ lit \in AllLits
      /\ val = SubSeq(d, s + Hdr(d[s + 1][3]) + 1, Len(d))
      /\ r = Copy(Moved(d, s, n), s, Header(lit, n))
  BY DEF Closing
<1> USE <1>c
<1>0. PICK M, H, h, g : /\ M = Moved(d, s, n) /\ H = Header(lit, n)
                        /\ h = Hdr(IsShort(n)) /\ g = Hdr(d[s + 1][3])
  OBVIOUS
<1>h. h \in Nat /\ g \in Nat
  BY <1>0 DEF Hdr
<1>1. /\ M \in Seq(Byte) /\ Len(M) = s + h + n
      /\ \A i \in 1..s : M[i] = d[i]
      /\ \A i \in 1..n : M[s + h + i] = d[s + g + i]
  BY <1>0, MovedFacts
<1>2. H \in Seq(Byte) /\ Len(H) = h
  BY <1>0, Headers
<1>3. /\ val \in Seq(Byte) /\ Len(val) = n
      /\ \A i \in 1..n : val[i] = d[s + g + i]
  <2>1. PICK a, b : a = s + g /\ b = Len(d)
    OBVIOUS
  <2>2. b = s + g + n
    BY <1>0, <2>1
  <2>3. a \in Nat /\ b \in Nat /\ a <= b /\ b - a = n /\ b <= Len(d)
    <3>1. s \in Nat /\ g \in Nat /\ n \in Nat
      BY <1>h
    <3> HIDE <1>c
    <3> QED
      BY <2>1, <2>2, <3>1
  <2>4. val = SubSeq(d, a + 1, b)
    BY <1>0, <2>1
  <2>5. /\ SubSeq(d, a + 1, b) \in Seq(Byte) /\ Len(SubSeq(d, a + 1, b)) = b - a
        /\ \A i \in 1..(b - a) : SubSeq(d, a + 1, b)[i] = d[a + i]
    BY <2>3, Part
  <2> QED
    BY <2>1, <2>3, <2>4, <2>5
<1>4. /\ r \in Seq(Byte) /\ Len(r) = s + h + n
      /\ \A i \in 1..s : r[i] = M[i]
      /\ \A i \in 1..h : r[s + i] = H[i]
      /\ \A i \in (s + h + 1)..(s + h + n) : r[i] = M[i]
  <2>1. M \in Seq(Byte) /\ H \in Seq(Byte) /\ s + Len(H) <= Len(M)
    BY <1>h, <1>1, <1>2
  <2>2. /\ Copy(M, s, H) \in Seq(Byte) /\ Len(Copy(M, s, H)) = Len(M)
        /\ \A i \in 1..s : Copy(M, s, H)[i] = M[i]
        /\ \A i \in 1..Len(H) : Copy(M, s, H)[s + i] = H[i]
        /\ \A i \in (s + Len(H) + 1)..Len(M) : Copy(M, s, H)[i] = M[i]
    BY <2>1, CopyFacts
  <2>3. r = Copy(M, s, H) /\ Len(M) = s + h + n /\ Len(H) = h
    BY <1>0, <1>1, <1>2
  <2> QED
    BY <2>2, <2>3
<1>5. PICK w : w = H \o val
  OBVIOUS
<1>6. /\ w \in Seq(Byte) /\ Len(w) = h + n
      /\ \A i \in 1..(h + n) : w[i] = IF i <= h THEN H[i] ELSE val[i - h]
  <2>1. H \in Seq(Byte) /\ val \in Seq(Byte) /\ Len(H) = h /\ Len(val) = n
    BY <1>2, <1>3
  <2>2. /\ H \o val \in Seq(Byte) /\ Len(H \o val) = Len(H) + Len(val)
        /\ \A i \in 1..(Len(H) + Len(val)) :
             (H \o val)[i] = IF i <= Len(H) THEN H[i] ELSE val[i - Len(H)]
    BY <2>1, ConcatProperties
  <2> QED
    BY <1>5, <2>1, <2>2
<1>7. WriteTLV(lit, val) = w
  BY <1>0, <1>3, <1>5, SameHeader
<1>8. ASSUME NEW i \in 1..Len(w) PROVE r[s + i] = w[i]
  <2>0. i \in 1..(h + n)
    BY <1>6
  <2>1. CASE i <= h
    <3>1. i \in 1..h
      BY <2>0, <2>1
    <3> QED
      BY <1>4, <1>6, <2>0, <2>1, <3>1
  <2>2. CASE ~(i <= h)
    <3>1. PICK j : j = i - h
      OBVIOUS
    <3>2. j \in 1..n /\ s + i = s + h + j /\ s + i \in (s + h + 1)..(s + h + n)
      BY <1>h, <2>0, <2>2, <3>1
    <3>3. r[s + i] = d[s + g + j]
      BY <1>1, <1>4, <3>2
    <3>4. w[i] = val[j]
      BY <1>6, <2>0, <2>2, <3>1
    <3> QED
      BY <1>3, <3>2, <3>3, <3>4
  <2> QED
    BY <2>1, <2>2
<1>9. SubSeq(r, s + 1, Len(r)) = w
  <2>1. PICK b : b = Len(r)
    OBVIOUS
  <2>2. r \in Seq(Byte) /\ w \in Seq(Byte) /\ b \in Nat /\ b <= Len(r) /\ b = s + Len(w)
    BY <1>h, <1>4, <1>6, <2>1
  <2>3. SubSeq(r, s + 1, b) = w
    BY <1>8, <2>2, PartIs
  <2> QED
    BY <2>1, <2>3
<1>10. \A i \in 1..s : r[i] = d[i]
  BY <1>1, <1>4
<1>11. s <= Len(r)
  BY <1>h, <1>4
<1> QED
  BY <1>4, <1>6, <1>7, <1>9, <1>10, <1>11
-----------------------------------------------------------------------------
\* Level k is where its header says, after the levels below it, and holds what
\* it was given.
Sound(k) ==
  /\ From(k) \in Nat \ {0} /\ To(k) \in Nat
  /\ From(k) - 1 <= To(k) /\ To(k) <= Len(data)
  /\ \A j \in 1..(k - 1) : To(j) < From(k)
  /\ k > 1 => data[stack[k - 1].start + 1][3] \in BOOLEAN
  /\ SubSeq(data, From(k), To(k)) = FlattenSeq(level[k])

WriterTypeOK ==
  /\ data \in Seq(Byte)
  /\ stack \in Seq([start : Nat, lit : AllLits])
  /\ level \in Seq(Seq(Seq(Byte)))
  /\ Len(level) = Len(stack) + 1

WInv ==
  status = "ok" => WriterTypeOK /\ \A k \in 1..Len(level) : Sound(k)

\* A level whose beginning is not written to holds what it now has been given.
LEMMA Rests ==
  ASSUME WriterTypeOK, WriterTypeOK', NEW k \in 1..Len(level), Sound(k), k <= Len(level'),
         \A j \in 1..(k - 1) : stack'[j] = stack[j],
         \A i \in 1..(From(k) - 1) : data'[i] = data[i],
         NEW t \in Nat, To(k)' = t, From(k) - 1 <= t, t <= Len(data'),
         SubSeq(data', From(k), t) = FlattenSeq(level'[k])
  PROVE  Sound(k)'
<1>0. PICK n, m, a : n = Len(stack) /\ m = Len(stack') /\ a = From(k)
  OBVIOUS
<1>1. n \in Nat /\ m \in Nat /\ k \in Nat /\ k - 1 <= n /\ k - 1 <= m
  <2>1. stack \in Seq([start : Nat, lit : AllLits]) /\ Len(level) = Len(stack) + 1
    BY DEF WriterTypeOK
  <2>2. stack' \in Seq([start : Nat, lit : AllLits]) /\ Len(level') = Len(stack') + 1
    BY DEF WriterTypeOK
  <2>3. n \in Nat /\ m \in Nat
    BY <1>0, <2>1, <2>2, LenProperties
  <2> QED
    BY <1>0, <2>1, <2>2, <2>3
<1>2. /\ a \in Nat /\ a >= 1
      /\ \A j \in 1..(k - 1) : To(j) < a
      /\ k > 1 => data[stack[k - 1].start + 1][3] \in BOOLEAN
  BY <1>0 DEF Sound
<1>3. \A j \in 1..(k - 1) : To(j)' = To(j)
  <2> SUFFICES ASSUME NEW j \in 1..(k - 1) PROVE To(j)' = To(j)
    OBVIOUS
  <2>1. j <= n /\ j <= m /\ stack'[j] = stack[j]
    BY <1>1
  <2> QED
    BY <1>0, <2>1 DEF To
<1>4. From(k)' = a /\ (k > 1 => data'[stack'[k - 1].start + 1][3] \in BOOLEAN)
  <2>1. CASE k = 1
    BY <1>0, <2>1 DEF From
  <2>2. CASE k # 1
    <3>1. k - 1 \in 1..(k - 1) /\ k - 1 \in 1..n /\ k > 1
      BY <1>1, <2>2
    <3>2. PICK z, s : z = stack[k - 1].start /\ s = z + 1
      OBVIOUS
    <3>3. z \in Nat /\ stack'[k - 1] = stack[k - 1]
      <4>1. stack \in Seq([start : Nat, lit : AllLits])
        BY DEF WriterTypeOK
      <4>2. stack[k - 1] \in [start : Nat, lit : AllLits]
        BY <1>0, <3>1, <4>1, ElementOfSeq
      <4> QED
        BY <3>1, <3>2, <4>2
    <3>4. PICK h : h = IF data[s][3] THEN 2 ELSE 5
      OBVIOUS
    <3>5. a = s + h /\ data[s][3] \in BOOLEAN /\ h \in 2..5
      BY <1>0, <1>2, <2>2, <3>1, <3>2, <3>4 DEF From
    <3>6. s \in 1..(a - 1)
      <4>1. s = z + 1 /\ z \in Nat /\ a = s + h /\ h \in 2..5
        BY <3>2, <3>3, <3>5
      <4> QED
        BY <4>1
    <3>7. data'[s] = data[s]
      BY <1>0, <3>6
    <3>8. From(k)' = s + (IF data'[s][3] THEN 2 ELSE 5)
      BY <2>2, <3>2, <3>3 DEF From
    <3> QED
      BY <3>2, <3>3, <3>4, <3>5, <3>7, <3>8
  <2> QED
    BY <2>1, <2>2
<1>5. \A j \in 1..(k - 1) : To(j)' < From(k)'
  BY <1>2, <1>3, <1>4
<1>6. /\ From(k)' \in Nat \ {0} /\ To(k)' \in Nat
      /\ From(k)' - 1 <= To(k)' /\ To(k)' <= Len(data')
  BY <1>0, <1>2, <1>4
<1>7. SubSeq(data', From(k)', To(k)') = FlattenSeq(level'[k])
  BY <1>0, <1>4
<1> QED
  BY <1>4, <1>5, <1>6, <1>7 DEF Sound

\* A level that is not written to stays as it is.
LEMMA Lower ==
  ASSUME WriterTypeOK, WriterTypeOK', NEW k \in 1..Len(level), Sound(k), k <= Len(level'),
         \A j \in 1..(k - 1) : stack'[j] = stack[j],
         To(k)' = To(k), To(k) <= Len(data'),
         \A i \in 1..To(k) : data'[i] = data[i],
         level'[k] = level[k]
  PROVE  Sound(k)'
<1>0. PICK a, t : a = From(k) /\ t = To(k)
  OBVIOUS
<1>1. /\ a \in Nat \ {0} /\ t \in Nat /\ a - 1 <= t /\ t <= Len(data)
      /\ SubSeq(data, a, t) = FlattenSeq(level[k])
  BY <1>0 DEF Sound
<1>2. data \in Seq(Byte) /\ data' \in Seq(Byte)
  BY DEF WriterTypeOK
<1>3. \A i \in 1..t : data'[i] = data[i]
  BY <1>0
<1>4. t <= Len(data') /\ t <= t
  BY <1>0, <1>1
<1>5. SubSeq(data', a, t) = SubSeq(data, a, t)
  BY <1>1, <1>2, <1>3, <1>4, SameParts
<1>6. \A i \in 1..(From(k) - 1) : data'[i] = data[i]
  BY <1>0, <1>1, <1>3
<1>7. SubSeq(data', From(k), t) = FlattenSeq(level'[k])
  BY <1>0, <1>1, <1>5
<1>8. To(k)' = t /\ From(k) - 1 <= t
  BY <1>0, <1>1
<1> QED
  BY <1>1, <1>4, <1>6, <1>7, <1>8, Rests

\* The level of a header put at the end.
LEMMA NewLevel ==
  ASSUME NEW n \in Nat, Len(stack') = n + 1, NEW s \in Nat, stack'[n + 1].start = s,
         data' \in Seq(Byte), data'[s + 1][3] \in BOOLEAN,
         NEW h, h = Hdr(data'[s + 1][3]), s + h <= Len(data'),
         \A j \in 1..(n + 1) : To(j)' \in Nat /\ To(j)' <= s,
         SubSeq(data', s + h + 1, Len(data')) = FlattenSeq(level'[n + 2])
  PROVE  Sound(n + 2)'
<1>h. h \in Nat /\ h >= 2 /\ h = IF data'[s + 1][3] THEN 2 ELSE 5
  BY DEF Hdr
<1>0. PICK k : k = n + 2
  OBVIOUS
<1>1. k \in Nat /\ k # 1 /\ k - 1 = n + 1 /\ ~(k <= Len(stack'))
  BY <1>0
<1>2. From(k)' = s + h + 1
  <2>1. From(k)' = (s + 1) + (IF data'[s + 1][3] THEN 2 ELSE 5)
    BY <1>1 DEF From
  <2> QED
    BY <1>h, <2>1
<1>3. To(k)' = Len(data')
  BY <1>1 DEF To
<1>4. Len(data') \in Nat
  BY LenProperties
<1>5. \A j \in 1..(k - 1) : To(j)' < From(k)'
  <2> SUFFICES ASSUME NEW j \in 1..(n + 1) PROVE To(j)' < s + h + 1
    BY <1>1, <1>2
  <2>1. To(j)' \in Nat /\ To(j)' <= s
    OBVIOUS
  <2> QED
    BY <1>h, <2>1
<1>6. data'[stack'[k - 1].start + 1][3] \in BOOLEAN
  BY <1>1
<1>7. /\ From(k)' \in Nat \ {0} /\ To(k)' \in Nat
      /\ From(k)' - 1 <= To(k)' /\ To(k)' <= Len(data')
  BY <1>h, <1>2, <1>3, <1>4
<1>8. SubSeq(data', From(k)', To(k)') = FlattenSeq(level'[k])
  BY <1>0, <1>2, <1>3
<1>9. Sound(k)'
  BY <1>5, <1>6, <1>7, <1>8 DEF Sound
<1> QED
  BY <1>0, <1>9

\* Levels come one after the other.
LEMMA LevelsInOrder ==
  ASSUME WriterTypeOK, \A k \in 1..Len(level) : Sound(k),
         NEW k \in 1..Len(level), NEW j \in 1..k
  PROVE  To(j) \in Nat /\ To(k) \in Nat /\ To(j) <= To(k)
<1>1. Sound(k) /\ k \in Nat
  BY DEF WriterTypeOK
<1>2. CASE j = k
  BY <1>1, <1>2 DEF Sound
<1>3. CASE j # k
  <2>1. j \in 1..(k - 1) /\ j \in 1..Len(level)
    BY <1>1, <1>3 DEF WriterTypeOK
  <2>2. Sound(j)
    BY <2>1
  <2>3. /\ To(j) < From(k) /\ From(k) - 1 <= To(k) /\ From(k) \in Nat
        /\ To(j) \in Nat /\ To(k) \in Nat
    BY <1>1, <2>1, <2>2 DEF Sound
  <2> QED
    BY <2>3
<1> QED
  BY <1>2, <1>3

\* append(data, ...)
LEMMA PutSound ==
  ASSUME WInv, NEW item \in Seq(Byte), Put(item)
  PROVE  WInv'
<1>0. PICK n, m : n = Len(level) /\ m = Len(data)
  OBVIOUS
<1>1. /\ status = "ok" /\ data' = data \o item /\ stack' = stack
      /\ level' = [level EXCEPT ![n] = Append(@, item)]
  BY <1>0 DEF Put, Room, Given
<1>2. WriterTypeOK /\ \A k \in 1..n : Sound(k)
  BY <1>0, <1>1 DEF WInv
<1>3. /\ n \in Nat /\ n >= 1 /\ n = Len(stack) + 1 /\ m \in Nat /\ Len(item) \in Nat
      /\ level \in Seq(Seq(Seq(Byte))) /\ data \in Seq(Byte) /\ level[n] \in Seq(Seq(Byte))
  <2>1. n \in Nat /\ n >= 1 /\ n = Len(stack) + 1 /\ level \in Seq(Seq(Seq(Byte)))
    BY <1>0, <1>2 DEF WriterTypeOK
  <2>2. n \in 1..Len(level)
    BY <1>0, <2>1
  <2>3. level[n] \in Seq(Seq(Byte))
    BY <2>1, <2>2, ElementOfSeq
  <2> QED
    BY <1>0, <1>2, <2>1, <2>3 DEF WriterTypeOK
<1>4. /\ data' \in Seq(Byte) /\ Len(data') = m + Len(item)
      /\ \A i \in 1..m : data'[i] = data[i]
      /\ \A i \in 1..Len(item) : data'[m + i] = item[i]
  <2>1. /\ data' \in Seq(Byte) /\ Len(data') = Len(data) + Len(item)
        /\ \A i \in 1..(Len(data) + Len(item)) :
             data'[i] = IF i <= Len(data) THEN data[i] ELSE item[i - Len(data)]
    BY <1>1, <1>3, ConcatProperties
  <2>2. \A i \in 1..m : i \in 1..(m + Len(item)) /\ i <= m
    BY <1>3
  <2>3. \A i \in 1..Len(item) : m + i \in 1..(m + Len(item)) /\ ~(m + i <= m) /\ (m + i) - m = i
    BY <1>3
  <2> QED
    BY <1>0, <2>1, <2>2, <2>3
<1>5. /\ level' \in Seq(Seq(Seq(Byte))) /\ Len(level') = n /\ level'[n] = Append(level[n], item)
      /\ \A k \in 1..(n - 1) : level'[k] = level[k]
  <2>1. PICK l : l = Append(level[n], item)
    OBVIOUS
  <2>2. l \in Seq(Seq(Byte))
    BY <1>3, <2>1, AppendProperties
  <2>3. level' = [level EXCEPT ![n] = l] /\ n \in 1..Len(level)
    BY <1>0, <1>1, <1>3, <2>1
  <2>4. /\ level' \in Seq(Seq(Seq(Byte))) /\ Len(level') = Len(level)
        /\ \A k \in 1..Len(level) : level'[k] = IF k = n THEN l ELSE level[k]
    BY <1>3, <2>2, <2>3, ExceptSeq
  <2>5. \A k \in 1..(n - 1) : k \in 1..Len(level) /\ k # n
    BY <1>0, <1>3
  <2> QED
    BY <1>0, <2>1, <2>3, <2>4, <2>5
<1>6. WriterTypeOK'
  BY <1>1, <1>2, <1>3, <1>4, <1>5 DEF WriterTypeOK
<1>7. ASSUME NEW k \in 1..(n - 1) PROVE Sound(k)'
  <2>1. k \in 1..n /\ k <= Len(stack) /\ k \in Nat
    BY <1>3
  <2>2. To(k)' = To(k)
    BY <1>1, <2>1 DEF To
  <2>3. To(k) <= m /\ To(k) \in Nat
    BY <1>0, <1>2, <2>1 DEF Sound
  <2>4. To(k) <= Len(data') /\ \A i \in 1..To(k) : data'[i] = data[i]
    BY <1>3, <1>4, <2>3
  <2>5. k \in 1..Len(level) /\ k <= Len(level') /\ level'[k] = level[k]
    BY <1>0, <1>5, <2>1
  <2>6. \A j \in 1..(k - 1) : stack'[j] = stack[j]
    BY <1>1
  <2> QED
    BY <1>2, <1>6, <2>1, <2>2, <2>4, <2>5, <2>6, Lower
<1>8. Sound(n)'
  <2>0. PICK a, b : a = From(n) /\ b = m + Len(item)
    OBVIOUS
  <2>1. Sound(n) /\ To(n) = m /\ To(n)' = b
    <3>1. n \in 1..n /\ ~(n <= Len(stack)) /\ ~(n <= Len(stack'))
      BY <1>1, <1>3
    <3> QED
      BY <1>0, <1>2, <1>4, <2>0, <3>1 DEF To
  <2>2. /\ a \in Nat \ {0} /\ a - 1 <= m /\ SubSeq(data, a, m) = FlattenSeq(level[n])
    BY <2>0, <2>1 DEF Sound
  <2>3. b \in Nat /\ b <= Len(data') /\ m <= b /\ b = m + Len(item) /\ m <= Len(data')
    BY <1>3, <1>4, <2>0
  <2>4. SubSeq(data', a, b) = SubSeq(data, a, m) \o item
    <3>1. SubSeq(data', a, m) = SubSeq(data, a, m)
      <4>1. m <= m /\ m <= Len(data)
        BY <1>0, <1>3
      <4> QED
        BY <1>3, <1>4, <2>2, <2>3, <4>1, SameParts
    <3>2. SubSeq(data', m + 1, b) = item
      BY <1>3, <1>4, <2>3, PartIs
    <3>3. SubSeq(data', a, m) \o SubSeq(data', m + 1, b) = SubSeq(data', a, b)
      <4>1. a \in 1..(Len(data') + 1) /\ m \in (a - 1)..Len(data') /\ b \in m..Len(data')
        BY <1>3, <1>4, <2>2, <2>3
      <4> QED
        BY <1>4, <4>1, ConcatAdjacentSubSeq
    <3> QED
      BY <3>1, <3>2, <3>3
  <2>5. FlattenSeq(level'[n]) = FlattenSeq(level[n]) \o item
    BY <1>3, <1>5, FlattenFacts
  <2>6. SubSeq(data', From(n), b) = FlattenSeq(level'[n])
    BY <2>0, <2>2, <2>4, <2>5
  <2>7. \A i \in 1..(From(n) - 1) : data'[i] = data[i]
    BY <1>3, <1>4, <2>0, <2>2
  <2>8. n \in 1..Len(level) /\ n <= Len(level') /\ From(n) - 1 <= b
    BY <1>0, <1>3, <1>5, <2>0, <2>2, <2>3
  <2>9. \A j \in 1..(n - 1) : stack'[j] = stack[j]
    BY <1>1
  <2> QED
    BY <1>2, <1>6, <2>1, <2>3, <2>6, <2>7, <2>8, <2>9, Rests
<1>9. \A k \in 1..Len(level') : Sound(k)'
  <2>1. \A k \in 1..Len(level') : k \in 1..(n - 1) \/ k = n
    BY <1>3, <1>5
  <2> QED
    BY <1>7, <1>8, <2>1
<1> QED
  BY <1>6, <1>9 DEF WInv
-----------------------------------------------------------------------------
LEMMA FrontFacts ==
  ASSUME NEW S, NEW q \in Seq(S), q # <<>>
  PROVE  /\ Len(q) \in Nat \ {0} /\ Last(q) = q[Len(q)] /\ Last(q) \in S
         /\ Front(q) \in Seq(S) /\ Len(Front(q)) = Len(q) - 1
         /\ \A i \in 1..(Len(q) - 1) : Front(q)[i] = q[i]
<1>1. Len(q) \in Nat \ {0}
  BY EmptySeq
<1>2. PICK b : b = Len(q) - 1
  OBVIOUS
<1>3. b \in Nat /\ 0 <= b /\ b <= Len(q) /\ 0 \in Nat /\ b - 0 = b
  BY <1>1, <1>2
<1>4. /\ SubSeq(q, 0 + 1, b) \in Seq(S) /\ Len(SubSeq(q, 0 + 1, b)) = b - 0
      /\ \A i \in 1..(b - 0) : SubSeq(q, 0 + 1, b)[i] = q[0 + i]
  BY <1>3, Part
<1>5. Front(q) = SubSeq(q, 0 + 1, b)
  BY <1>2 DEF Front
<1>6. \A i \in 1..b : Front(q)[i] = q[i]
  BY <1>3, <1>4, <1>5
<1>7. Last(q) = q[Len(q)] /\ q[Len(q)] \in S
  BY <1>1, ElementOfSeq DEF Last
<1> QED
  BY <1>1, <1>2, <1>3, <1>4, <1>5, <1>6, <1>7

\* CancelTLV
LEMMA CancelSound ==
  ASSUME WInv, NEW lit, CancelTLV(lit)
  PROVE  WInv'
<1>0. PICK n, s : n = Len(stack) /\ s = Last(stack).start
  OBVIOUS
<1>1. /\ status = "ok" /\ stack # <<>> /\ data' = SubSeq(data, 1, s)
      /\ stack' = Front(stack) /\ level' = Front(level)
  BY <1>0 DEF CancelTLV, Room, Top
<1>2. WriterTypeOK /\ \A k \in 1..Len(level) : Sound(k)
  BY <1>1 DEF WInv
<1>3. /\ data \in Seq(Byte) /\ stack \in Seq([start : Nat, lit : AllLits])
      /\ level \in Seq(Seq(Seq(Byte))) /\ Len(level) = n + 1
  BY <1>0, <1>2 DEF WriterTypeOK
<1>4. /\ n \in Nat \ {0} /\ s = stack[n].start /\ s \in Nat
      /\ stack' \in Seq([start : Nat, lit : AllLits]) /\ Len(stack') = n - 1
      /\ \A i \in 1..(n - 1) : stack'[i] = stack[i]
  <2>1. /\ n \in Nat \ {0} /\ Last(stack) = stack[n] /\ Last(stack) \in [start : Nat, lit : AllLits]
        /\ Front(stack) \in Seq([start : Nat, lit : AllLits]) /\ Len(Front(stack)) = n - 1
        /\ \A i \in 1..(n - 1) : Front(stack)[i] = stack[i]
    BY <1>0, <1>1, <1>3, FrontFacts
  <2> QED
    BY <1>0, <1>1, <2>1
<1>5. /\ level' \in Seq(Seq(Seq(Byte))) /\ Len(level') = n
      /\ \A i \in 1..n : level'[i] = level[i]
  <2>1. level # <<>> /\ Len(level) - 1 = n
    BY <1>3, <1>4, EmptySeq
  <2>2. /\ Front(level) \in Seq(Seq(Seq(Byte))) /\ Len(Front(level)) = Len(level) - 1
        /\ \A i \in 1..(Len(level) - 1) : Front(level)[i] = level[i]
    BY <1>3, <2>1, FrontFacts
  <2> QED
    BY <1>1, <2>1, <2>2
<1>6. To(n) = s /\ n \in 1..Len(level) /\ s <= Len(data)
  <2>1. n \in 1..Len(level) /\ n <= Len(stack)
    BY <1>0, <1>3, <1>4
  <2>2. Sound(n)
    BY <1>2, <2>1
  <2>3. To(n) = s
    BY <1>4, <2>1 DEF To
  <2> QED
    BY <2>1, <2>2, <2>3 DEF Sound
<1>7. data' \in Seq(Byte) /\ Len(data') = s /\ \A i \in 1..s : data'[i] = data[i]
  <2>1. 0 \in Nat /\ 0 <= s /\ s - 0 = s /\ 0 + 1 = 1
    BY <1>4
  <2>2. /\ SubSeq(data, 0 + 1, s) \in Seq(Byte) /\ Len(SubSeq(data, 0 + 1, s)) = s - 0
        /\ \A i \in 1..(s - 0) : SubSeq(data, 0 + 1, s)[i] = data[0 + i]
    <3>1. data \in Seq(Byte) /\ s \in Nat /\ s <= Len(data)
      BY <1>3, <1>4, <1>6
    <3> QED
      BY <2>1, <3>1, Part
  <2>3. \A i \in 1..s : data'[i] = data[i]
    BY <1>1, <1>4, <2>1, <2>2
  <2> QED
    BY <1>1, <2>1, <2>2, <2>3
<1>8. WriterTypeOK'
  <2>1. Len(level') = Len(stack') + 1
    BY <1>4, <1>5
  <2> QED
    BY <1>4, <1>5, <1>7, <2>1 DEF WriterTypeOK
<1>9. ASSUME NEW k \in 1..n PROVE Sound(k)'
  <2>1. k \in Nat /\ k \in 1..Len(level) /\ k <= Len(level') /\ k <= Len(stack)
    BY <1>0, <1>3, <1>4, <1>5
  <2>2. Sound(k) /\ level'[k] = level[k]
    BY <1>2, <1>5, <2>1
  <2>3. To(k) <= s /\ To(k) \in Nat
    BY <1>2, <1>6, LevelsInOrder
  <2>4. To(k)' = To(k)
    <3>1. CASE k = n
      <4>1. ~(k <= Len(stack'))
        BY <1>4, <3>1
      <4> QED
        BY <1>6, <1>7, <3>1, <4>1 DEF To
    <3>2. CASE k # n
      <4>1. k <= Len(stack') /\ stack'[k] = stack[k]
        BY <1>4, <2>1, <3>2
      <4> QED
        BY <2>1, <4>1 DEF To
    <3> QED
      BY <3>1, <3>2
  <2>5. To(k) <= Len(data') /\ \A i \in 1..To(k) : data'[i] = data[i]
    BY <1>4, <1>7, <2>3
  <2>6. \A j \in 1..(k - 1) : stack'[j] = stack[j]
    BY <1>4, <2>1
  <2> QED
    BY <1>2, <1>8, <2>1, <2>2, <2>4, <2>5, <2>6, Lower
<1> QED
  BY <1>5, <1>8, <1>9 DEF WInv

\* OpenTLV, OpenShortTLV
LEMMA OpenSound ==
  ASSUME WInv, NEW lit \in AllLits, NEW header \in Seq(Byte), Open(lit, header),
         header[1][3] \in BOOLEAN, Len(header) = Hdr(header[1][3])
  PROVE  WInv'
<1>0. PICK n, m, h : n = Len(stack) /\ m = Len(data) /\ h = Len(header)
  OBVIOUS
<1>1. /\ status = "ok" /\ data' = data \o header
      /\ stack' = Append(stack, [start |-> m, lit |-> lit])
      /\ level' = Append(level, <<>>)
  BY <1>0 DEF Open, Room
<1>2. WriterTypeOK /\ \A k \in 1..Len(level) : Sound(k)
  BY <1>1 DEF WInv
<1>3. /\ data \in Seq(Byte) /\ stack \in Seq([start : Nat, lit : AllLits])
      /\ level \in Seq(Seq(Seq(Byte))) /\ Len(level) = n + 1
  BY <1>0, <1>2 DEF WriterTypeOK
<1>4. n \in Nat /\ m \in Nat /\ h \in 2..5
  <2>1. n \in Nat /\ m \in Nat
    BY <1>0, <1>3, LenProperties
  <2> QED
    BY <1>0, <2>1 DEF Hdr
<1>5. /\ data' \in Seq(Byte) /\ Len(data') = m + h
      /\ \A i \in 1..m : data'[i] = data[i]
      /\ data'[m + 1] = header[1]
  <2>1. /\ data' \in Seq(Byte) /\ Len(data') = Len(data) + Len(header)
        /\ \A i \in 1..(Len(data) + Len(header)) :
             data'[i] = IF i <= Len(data) THEN data[i] ELSE header[i - Len(data)]
    BY <1>1, <1>3, ConcatProperties
  <2>2. \A i \in 1..m : i \in 1..(m + h) /\ i <= m
    BY <1>4
  <2>3. m + 1 \in 1..(m + h) /\ ~(m + 1 <= m) /\ (m + 1) - m = 1
    BY <1>4
  <2> QED
    BY <1>0, <2>1, <2>2, <2>3
<1>6. /\ stack' \in Seq([start : Nat, lit : AllLits]) /\ Len(stack') = n + 1
      /\ \A i \in 1..n : stack'[i] = stack[i]
      /\ stack'[n + 1].start = m
  <2>1. PICK mark : mark = [start |-> m, lit |-> lit]
    OBVIOUS
  <2>2. mark \in [start : Nat, lit : AllLits] /\ mark.start = m
    BY <1>4, <2>1
  <2>3. /\ stack' \in Seq([start : Nat, lit : AllLits]) /\ Len(stack') = Len(stack) + 1
        /\ \A i \in 1..Len(stack) : stack'[i] = stack[i]
        /\ stack'[Len(stack) + 1] = mark
    BY <1>1, <1>3, <2>1, <2>2, AppendProperties
  <2> QED
    BY <1>0, <2>2, <2>3
<1>7. /\ level' \in Seq(Seq(Seq(Byte))) /\ Len(level') = n + 2
      /\ \A i \in 1..(n + 1) : level'[i] = level[i]
      /\ level'[n + 2] = <<>>
  <2>1. <<>> \in Seq(Seq(Byte))
    BY EmptySeq
  <2>2. /\ level' \in Seq(Seq(Seq(Byte))) /\ Len(level') = Len(level) + 1
        /\ \A i \in 1..Len(level) : level'[i] = level[i]
        /\ level'[Len(level) + 1] = <<>>
    BY <1>1, <1>3, <2>1, AppendProperties
  <2>3. Len(level) + 1 = n + 2
    BY <1>3, <1>4
  <2> QED
    BY <1>3, <2>2, <2>3
<1>8. WriterTypeOK'
  <2>1. Len(level') = Len(stack') + 1
    BY <1>4, <1>6, <1>7
  <2> QED
    BY <1>5, <1>6, <1>7, <2>1 DEF WriterTypeOK
<1>9. ASSUME NEW k \in 1..(n + 1)
      PROVE  Sound(k)' /\ To(k)' \in Nat /\ To(k)' <= m
  <2>1. k \in Nat /\ k \in 1..Len(level) /\ k <= Len(level')
    BY <1>3, <1>4, <1>7
  <2>2. Sound(k) /\ level'[k] = level[k]
    BY <1>2, <1>7, <2>1
  <2>3. To(k) <= m /\ To(k) \in Nat
    BY <1>0, <2>2 DEF Sound
  <2>4. To(k)' = To(k)
    <3>1. CASE k = n + 1
      <4>1. k <= Len(stack') /\ ~(k <= Len(stack))
        BY <1>0, <1>4, <1>6, <3>1
      <4> QED
        BY <1>0, <1>6, <3>1, <4>1 DEF To
    <3>2. CASE k # n + 1
      <4>1. k \in 1..n /\ k <= Len(stack') /\ k <= Len(stack)
        BY <1>0, <1>4, <1>6, <2>1, <3>2
      <4>2. stack'[k] = stack[k]
        BY <1>6, <4>1
      <4> QED
        BY <4>1, <4>2 DEF To
    <3> QED
      BY <3>1, <3>2
  <2>5. To(k) <= Len(data') /\ \A i \in 1..To(k) : data'[i] = data[i]
    BY <1>4, <1>5, <2>3
  <2>6. \A j \in 1..(k - 1) : stack'[j] = stack[j]
    BY <1>4, <1>6, <2>1
  <2>7. Sound(k)'
    BY <1>2, <1>8, <2>1, <2>2, <2>4, <2>5, <2>6, Lower
  <2> QED
    BY <2>3, <2>4, <2>7
<1>10. Sound(n + 2)'
  <2>1. data'[m + 1][3] \in BOOLEAN /\ h = Hdr(data'[m + 1][3]) /\ m + h <= Len(data')
    BY <1>0, <1>4, <1>5
  <2>2. SubSeq(data', m + h + 1, Len(data')) = <<>>
    <3>1. PICK a, b : a = m + h + 1 /\ b = Len(data')
      OBVIOUS
    <3>2. a \in Int /\ b \in Int /\ b < a
      BY <1>4, <1>5, <3>1
    <3> QED
      BY <3>1, <3>2, SubSeqEmpty
  <2>3. FlattenSeq(level'[n + 2]) = <<>>
    BY <1>7, EmptySeq, FlattenSmall
  <2>4. \A j \in 1..(n + 1) : To(j)' \in Nat /\ To(j)' <= m
    BY <1>9
  <2> QED
    BY <1>4, <1>5, <1>6, <2>1, <2>2, <2>3, <2>4, NewLevel
<1>11. \A k \in 1..Len(level') : Sound(k)'
  <2>1. \A k \in 1..Len(level') : k \in 1..(n + 1) \/ k = n + 2
    BY <1>4, <1>7
  <2> QED
    BY <1>9, <1>10, <2>1
<1> QED
  BY <1>8, <1>11 DEF WInv

\* CloseTLV's record is at s behind a header of g bytes, with N bytes val of
\* contents, and becomes W.
Closed(lit, n, s, g, N, val, W) ==
  /\ n = Len(stack) /\ s = Last(stack).start
  /\ g = Hdr(data[s + 1][3]) /\ N = Len(data) - s - g
  /\ val = FlattenSeq(Last(level)) /\ W = WriteTLV(lit, val)

\* What is known of that step.
Closes(lit, n, s, g, N, val, W) ==
  /\ status = "ok" /\ stack # <<>>
  /\ data' = Copy(Moved(data, s, N), s, Header(lit, N))
  /\ stack' = Front(stack)
  /\ level' = [Front(level) EXCEPT ![n] = Append(@, WriteTLV(lit, FlattenSeq(Last(level))))]
  /\ WriterTypeOK /\ \A k \in 1..Len(level) : Sound(k)
  /\ data \in Seq(Byte) /\ stack \in Seq([start : Nat, lit : AllLits])
  /\ level \in Seq(Seq(Seq(Byte))) /\ Len(level) = n + 1
  /\ n \in Nat \ {0} /\ s = stack[n].start /\ s \in Nat
  /\ stack' \in Seq([start : Nat, lit : AllLits]) /\ Len(stack') = n - 1
  /\ \A i \in 1..(n - 1) : stack'[i] = stack[i]
  /\ Last(level) = level[n + 1] /\ Last(level) \in Seq(Seq(Byte))
  /\ Front(level) \in Seq(Seq(Seq(Byte))) /\ Len(Front(level)) = n
  /\ \A i \in 1..n : Front(level)[i] = level[i]
  /\ To(n) = s /\ n \in 1..Len(level) /\ s <= Len(data) /\ Sound(n)
  /\ data[s + 1][3] \in BOOLEAN /\ g \in 2..5 /\ N \in Nat /\ Len(data) = s + g + N
  /\ SubSeq(data, s + g + 1, Len(data)) = FlattenSeq(Last(level))
  /\ data' \in Seq(Byte) /\ s <= Len(data')
  /\ \A i \in 1..s : data'[i] = data[i]
  /\ W \in Seq(Byte)
  /\ SubSeq(data', s + 1, Len(data')) = W
  /\ level' \in Seq(Seq(Seq(Byte))) /\ Len(level') = n
  /\ level'[n] = Append(level[n], W) /\ level[n] \in Seq(Seq(Byte))
  /\ \A k \in 1..(n - 1) : level'[k] = level[k]

LEMMA ClosedFacts ==
  ASSUME WInv, NEW lit \in AllLits, CloseTLV(lit), NEW n, NEW s, NEW g, NEW N, NEW val, NEW W,
         Closed(lit, n, s, g, N, val, W)
  PROVE  Closes(lit, n, s, g, N, val, W)
<1>0. /\ n = Len(stack) /\ s = Last(stack).start
      /\ g = Hdr(data[s + 1][3]) /\ N = Len(data) - s - g
  BY DEF Closed
<1>1. /\ status = "ok" /\ stack # <<>>
      /\ data' = Copy(Moved(data, s, N), s, Header(lit, N))
      /\ stack' = Front(stack)
      /\ level' = [Front(level) EXCEPT ![n] = Append(@, WriteTLV(lit, FlattenSeq(Last(level))))]
  BY <1>0 DEF CloseTLV, Room, Nested, Top, Items, Hdr
<1>2. WriterTypeOK /\ \A k \in 1..Len(level) : Sound(k)
  BY <1>1 DEF WInv
<1>3. /\ data \in Seq(Byte) /\ stack \in Seq([start : Nat, lit : AllLits])
      /\ level \in Seq(Seq(Seq(Byte))) /\ Len(level) = n + 1
  BY <1>0, <1>2 DEF WriterTypeOK
<1>4. /\ n \in Nat \ {0} /\ s = stack[n].start /\ s \in Nat
      /\ stack' \in Seq([start : Nat, lit : AllLits]) /\ Len(stack') = n - 1
      /\ \A i \in 1..(n - 1) : stack'[i] = stack[i]
  <2>1. /\ n \in Nat \ {0} /\ Last(stack) = stack[n] /\ Last(stack) \in [start : Nat, lit : AllLits]
        /\ Front(stack) \in Seq([start : Nat, lit : AllLits]) /\ Len(Front(stack)) = n - 1
        /\ \A i \in 1..(n - 1) : Front(stack)[i] = stack[i]
    BY <1>0, <1>1, <1>3, FrontFacts
  <2> QED
    BY <1>0, <1>1, <2>1
<1>5. /\ Last(level) = level[n + 1] /\ Last(level) \in Seq(Seq(Byte))
      /\ Front(level) \in Seq(Seq(Seq(Byte))) /\ Len(Front(level)) = n
      /\ \A i \in 1..n : Front(level)[i] = level[i]
  <2>1. level # <<>> /\ Len(level) - 1 = n
    BY <1>3, <1>4, EmptySeq
  <2>2. /\ Last(level) = level[Len(level)] /\ Last(level) \in Seq(Seq(Byte))
        /\ Front(level) \in Seq(Seq(Seq(Byte))) /\ Len(Front(level)) = Len(level) - 1
        /\ \A i \in 1..(Len(level) - 1) : Front(level)[i] = level[i]
    BY <1>3, <2>1, FrontFacts
  <2>3. Len(level) = n + 1
    BY <1>3
  <2>4. \A i \in 1..n : Front(level)[i] = level[i]
    BY <2>1, <2>2
  <2> QED
    BY <2>1, <2>2, <2>3, <2>4
<1>6. To(n) = s /\ n \in 1..Len(level) /\ s <= Len(data) /\ Sound(n)
  <2>1. n \in 1..Len(level) /\ n <= Len(stack)
    <3>1. Len(level) = n + 1 /\ Len(stack) = n /\ n \in Nat \ {0}
      BY <1>0, <1>3, <1>4
    <3> QED
      BY <3>1
  <2>2. Sound(n)
    BY <1>2, <2>1
  <2>3. To(n) = s
    BY <1>4, <2>1 DEF To
  <2> QED
    BY <2>1, <2>2, <2>3 DEF Sound
<1>7. /\ data[s + 1][3] \in BOOLEAN /\ g \in 2..5 /\ N \in Nat /\ Len(data) = s + g + N
      /\ SubSeq(data, s + g + 1, Len(data)) = FlattenSeq(Last(level))
  <2>0. PICK k : k = n + 1
    OBVIOUS
  <2>1. k \in 1..Len(level) /\ k > 1 /\ k # 1 /\ k - 1 = n /\ ~(k <= Len(stack))
    <3>1. n \in Nat \ {0} /\ Len(level) = n + 1 /\ Len(stack) = n
      BY <1>0, <1>3, <1>4
    <3> QED
      BY <2>0, <3>1
  <2>2. Sound(k)
    BY <1>2, <2>1
  <2>3. data[s + 1][3] \in BOOLEAN
    BY <1>4, <2>1, <2>2 DEF Sound
  <2>4. g \in 2..5 /\ g = IF data[s + 1][3] THEN 2 ELSE 5
    BY <1>0, <2>3 DEF Hdr
  <2>5. From(k) = s + g + 1
    <3>1. From(k) = (s + 1) + g
      BY <1>4, <2>1, <2>4 DEF From
    <3> QED
      BY <1>4, <2>4, <3>1
  <2>6. To(k) = Len(data)
    BY <2>1 DEF To
  <2>7. From(k) - 1 <= To(k) /\ SubSeq(data, From(k), To(k)) = FlattenSeq(level[k])
    BY <2>2 DEF Sound
  <2>8. Len(data) \in Nat
    BY <1>3, LenProperties
  <2>9. s + g <= Len(data)
    BY <1>4, <2>4, <2>5, <2>6, <2>7, <2>8
  <2>10. N \in Nat /\ Len(data) = s + g + N
    <3>1. N = Len(data) - s - g
      BY <1>0
    <3>2. s \in Nat /\ g \in 2..5 /\ Len(data) \in Nat
      BY <1>4, <2>4, <2>8
    <3> QED
      BY <2>9, <3>1, <3>2
  <2>11. SubSeq(data, s + g + 1, Len(data)) = FlattenSeq(Last(level))
    BY <1>5, <2>0, <2>5, <2>6, <2>7
  <2> QED
    BY <2>3, <2>4, <2>10, <2>11
<1>8. val = FlattenSeq(Last(level)) /\ W = WriteTLV(lit, val)
  BY DEF Closed
<1>9. /\ data' \in Seq(Byte) /\ s <= Len(data')
      /\ \A i \in 1..s : data'[i] = data[i]
      /\ W \in Seq(Byte)
      /\ SubSeq(data', s + 1, Len(data')) = W
  <2>1. /\ Len(data) = s + Hdr(data[s + 1][3]) + N
        /\ val = SubSeq(data, s + Hdr(data[s + 1][3]) + 1, Len(data))
        /\ data[s + 1][3] \in BOOLEAN
    BY <1>0, <1>7, <1>8
  <2>2. data \in Seq(Byte) /\ s \in Nat /\ N \in Nat
    BY <1>3, <1>4, <1>7
  <2>3. PICK d, r : d = data /\ r = data'
    OBVIOUS
  <2>4. /\ d \in Seq(Byte) /\ d[s + 1][3] \in BOOLEAN
        /\ Len(d) = s + Hdr(d[s + 1][3]) + N
        /\ val = SubSeq(d, s + Hdr(d[s + 1][3]) + 1, Len(d))
        /\ r = Copy(Moved(d, s, N), s, Header(lit, N))
    BY <1>1, <2>1, <2>2, <2>3
  <2>5. /\ r \in Seq(Byte) /\ s <= Len(r)
        /\ \A i \in 1..s : r[i] = d[i]
        /\ WriteTLV(lit, val) \in Seq(Byte)
        /\ SubSeq(r, s + 1, Len(r)) = WriteTLV(lit, val)
    <3>1. Closing(d, s, N, lit, val, r)
      BY <2>2, <2>4 DEF Closing
    <3> QED
      BY <3>1, CloseWrites
  <2> QED
    BY <1>8, <2>3, <2>5
<1>10. /\ level' \in Seq(Seq(Seq(Byte))) /\ Len(level') = n
       /\ level'[n] = Append(level[n], W) /\ level[n] \in Seq(Seq(Byte))
       /\ \A k \in 1..(n - 1) : level'[k] = level[k]
  <2>1. PICK F, l : F = Front(level) /\ l = Append(F[n], W)
    OBVIOUS
  <2>2. /\ F \in Seq(Seq(Seq(Byte))) /\ Len(F) = n /\ n \in 1..Len(F)
        /\ \A i \in 1..n : F[i] = level[i]
    BY <1>4, <1>5, <2>1
  <2>3. F[n] \in Seq(Seq(Byte)) /\ F[n] = level[n]
    <3>1. F[n] \in Seq(Seq(Byte))
      BY <2>2, ElementOfSeq
    <3> QED
      BY <1>4, <2>2, <3>1
  <2>4. l \in Seq(Seq(Byte))
    BY <1>9, <2>1, <2>3, AppendProperties
  <2>5. level' = [F EXCEPT ![n] = l]
    BY <1>1, <1>8, <2>1
  <2>6. /\ level' \in Seq(Seq(Seq(Byte))) /\ Len(level') = Len(F)
        /\ \A k \in 1..Len(F) : level'[k] = IF k = n THEN l ELSE F[k]
    BY <2>2, <2>4, <2>5, ExceptSeq
  <2>7. \A k \in 1..(n - 1) : k \in 1..n /\ k \in 1..Len(F) /\ k # n
    BY <1>4, <2>2
  <2> QED
    BY <2>1, <2>2, <2>3, <2>6, <2>7
<1> QED
  BY <1>1, <1>2, <1>3, <1>4, <1>5, <1>6, <1>7, <1>9, <1>10 DEF Closes

\* CloseTLV
LEMMA CloseSound ==
  ASSUME WInv, NEW lit \in AllLits, CloseTLV(lit)
  PROVE  WInv'
<1>0. PICK n, s, g, N, val, W :
        /\ n = Len(stack) /\ s = Last(stack).start
        /\ g = Hdr(data[s + 1][3]) /\ N = Len(data) - s - g
        /\ val = FlattenSeq(Last(level)) /\ W = WriteTLV(lit, val)
  OBVIOUS
<1>c. Closes(lit, n, s, g, N, val, W)
  <2>1. Closed(lit, n, s, g, N, val, W)
    BY <1>0 DEF Closed
  <2> QED
    BY <2>1, ClosedFacts
<1>1. /\ status = "ok" /\ stack # <<>>
      /\ data' = Copy(Moved(data, s, N), s, Header(lit, N))
      /\ stack' = Front(stack)
      /\ level' = [Front(level) EXCEPT ![n] = Append(@, WriteTLV(lit, FlattenSeq(Last(level))))]
  BY <1>c DEF Closes
<1>2. WriterTypeOK /\ \A k \in 1..Len(level) : Sound(k)
  BY <1>c DEF Closes
<1>3. /\ data \in Seq(Byte) /\ stack \in Seq([start : Nat, lit : AllLits])
      /\ level \in Seq(Seq(Seq(Byte))) /\ Len(level) = n + 1
  BY <1>c DEF Closes
<1>4. /\ n \in Nat \ {0} /\ s = stack[n].start /\ s \in Nat
      /\ stack' \in Seq([start : Nat, lit : AllLits]) /\ Len(stack') = n - 1
      /\ \A i \in 1..(n - 1) : stack'[i] = stack[i]
  BY <1>c DEF Closes
<1>5. /\ Last(level) = level[n + 1] /\ Last(level) \in Seq(Seq(Byte))
      /\ Front(level) \in Seq(Seq(Seq(Byte))) /\ Len(Front(level)) = n
      /\ \A i \in 1..n : Front(level)[i] = level[i]
  BY <1>c DEF Closes
<1>6. To(n) = s /\ n \in 1..Len(level) /\ s <= Len(data) /\ Sound(n)
  BY <1>c DEF Closes
<1>7. /\ data[s + 1][3] \in BOOLEAN /\ g \in 2..5 /\ N \in Nat /\ Len(data) = s + g + N
      /\ SubSeq(data, s + g + 1, Len(data)) = FlattenSeq(Last(level))
  BY <1>c DEF Closes
<1>8. val = FlattenSeq(Last(level)) /\ W = WriteTLV(lit, val)
  BY <1>0
<1>9. /\ data' \in Seq(Byte) /\ s <= Len(data')
      /\ \A i \in 1..s : data'[i] = data[i]
      /\ W \in Seq(Byte)
      /\ SubSeq(data', s + 1, Len(data')) = W
  BY <1>c DEF Closes
<1>10. /\ level' \in Seq(Seq(Seq(Byte))) /\ Len(level') = n
       /\ level'[n] = Append(level[n], W) /\ level[n] \in Seq(Seq(Byte))
       /\ \A k \in 1..(n - 1) : level'[k] = level[k]
  BY <1>c DEF Closes
<1>11. WriterTypeOK'
  <2>1. Len(level') = Len(stack') + 1
    BY <1>4, <1>10
  <2> QED
    BY <1>4, <1>9, <1>10, <2>1 DEF WriterTypeOK
<1>12. ASSUME NEW k \in 1..(n - 1) PROVE Sound(k)'
  <2>1. /\ k \in Nat /\ k \in 1..Len(level) /\ k <= Len(level')
        /\ k <= Len(stack) /\ k <= Len(stack') /\ k \in 1..n
    <3>1. /\ n \in Nat \ {0} /\ Len(level) = n + 1 /\ Len(level') = n
          /\ Len(stack) = n /\ Len(stack') = n - 1
      BY <1>0, <1>3, <1>4, <1>10
    <3> QED
      BY <3>1
  <2>2. Sound(k) /\ level'[k] = level[k] /\ stack'[k] = stack[k]
    BY <1>2, <1>4, <1>10, <2>1
  <2>3. To(k) <= s /\ To(k) \in Nat
    BY <1>2, <1>6, <2>1, LevelsInOrder
  <2>4. To(k)' = To(k)
    BY <2>1, <2>2 DEF To
  <2>5. To(k) <= Len(data') /\ \A i \in 1..To(k) : data'[i] = data[i]
    <3>1. Len(data') \in Nat
      BY <1>9, LenProperties
    <3>2. s \in Nat /\ s <= Len(data') /\ To(k) <= s /\ To(k) \in Nat
      BY <1>4, <1>9, <2>3
    <3>3. To(k) <= Len(data') /\ \A i \in 1..To(k) : i \in 1..s
      BY <3>1, <3>2
    <3> QED
      BY <1>9, <3>3
  <2>6. \A j \in 1..(k - 1) : stack'[j] = stack[j]
    BY <1>4, <2>1
  <2> QED
    BY <1>2, <1>11, <2>1, <2>2, <2>4, <2>5, <2>6, Lower
<1>13. Sound(n)'
  <2>0. PICK a, t : a = From(n) /\ t = Len(data')
    OBVIOUS
  <2>1. a \in Nat \ {0} /\ a - 1 <= s /\ SubSeq(data, a, s) = FlattenSeq(level[n])
    BY <1>6, <2>0 DEF Sound
  <2>2. t \in Nat /\ s <= t
    BY <1>9, <2>0, LenProperties
  <2>3. SubSeq(data', a, t) = SubSeq(data, a, s) \o W
    <3>1. SubSeq(data', a, s) = SubSeq(data, a, s)
      <4>1. s <= Len(data) /\ s <= Len(data') /\ s <= s
        BY <1>4, <1>6, <1>9
      <4> QED
        BY <1>3, <1>4, <1>9, <2>1, <4>1, SameParts
    <3>2. SubSeq(data', a, s) \o SubSeq(data', s + 1, t) = SubSeq(data', a, t)
      <4>1. a \in 1..(Len(data') + 1) /\ s \in (a - 1)..Len(data') /\ t \in s..Len(data')
        BY <1>4, <2>0, <2>1, <2>2
      <4> QED
        BY <1>9, <4>1, ConcatAdjacentSubSeq
    <3> QED
      BY <1>9, <2>0, <3>1, <3>2
  <2>4. FlattenSeq(level'[n]) = FlattenSeq(level[n]) \o W
    BY <1>9, <1>10, FlattenFacts
  <2>5. SubSeq(data', From(n), t) = FlattenSeq(level'[n])
    BY <2>0, <2>1, <2>3, <2>4
  <2>6. \A i \in 1..(From(n) - 1) : data'[i] = data[i]
    BY <1>4, <1>9, <2>0, <2>1
  <2>7. To(n)' = t
    <3>1. ~(n <= Len(stack'))
      BY <1>4
    <3> QED
      BY <2>0, <3>1 DEF To
  <2>8. n <= Len(level') /\ From(n) - 1 <= t /\ t <= Len(data')
    BY <1>4, <1>10, <2>0, <2>1, <2>2
  <2>9. \A j \in 1..(n - 1) : stack'[j] = stack[j]
    BY <1>4
  <2> QED
    BY <1>2, <1>6, <1>11, <2>2, <2>5, <2>6, <2>7, <2>8, <2>9, Rests
<1>14. \A k \in 1..Len(level') : Sound(k)'
  <2>1. \A k \in 1..Len(level') : k \in 1..(n - 1) \/ k = n
    BY <1>4, <1>10
  <2> QED
    BY <1>12, <1>13, <2>1
<1> QED
  BY <1>11, <1>14 DEF WInv

\* retroOpenTuple makes r of the buffer d, from p on
Widening(d, p, G, r) ==
  /\ d \in Seq(Byte) /\ p \in Nat /\ p <= Len(d)
  /\ G = SubSeq(d, p + 1, Len(d))
  /\ r = Copy(Copy(d \o Zeroes(3), p + 3, G), p, <<Lit("P", TRUE), Num(0), Num(0)>>)

\* retroOpenTuple moves the end of the buffer by three and puts the header and
\* the length of an empty key in front of it.
LEMMA RetroWrites ==
  ASSUME NEW d, NEW p, NEW G, NEW r, Widening(d, p, G, r)
  PROVE  /\ r \in Seq(Byte) /\ Len(r) = Len(d) + 3
         /\ \A i \in 1..p : r[i] = d[i]
         /\ r[p + 1] = Lit("P", TRUE)
         /\ SubSeq(r, p + 3, Len(r)) = <<Num(0)>> \o G
<1>c. /\ d \in Seq(Byte) /\ p \in Nat /\ p <= Len(d)
      /\ G = SubSeq(d, p + 1, Len(d))
      /\ r = Copy(Copy(d \o Zeroes(3), p + 3, G), p, <<Lit("P", TRUE), Num(0), Num(0)>>)
  BY DEF Widening
<1> USE <1>c
<1>0. PICK n, m, w, v, H : /\ n = Len(d) /\ m = Len(G) /\ w = d \o Zeroes(3)
                           /\ v = Copy(w, p + 3, G)
                           /\ H = <<Lit("P", TRUE), Num(0), Num(0)>>
  OBVIOUS
<1>1. G \in Seq(Byte) /\ n \in Nat /\ m = n - p /\ m \in Nat
  <2>1. n \in Nat /\ p <= n /\ n <= Len(d)
    BY <1>0
  <2>2. SubSeq(d, p + 1, n) \in Seq(Byte) /\ Len(SubSeq(d, p + 1, n)) = n - p
    BY <2>1, Part
  <2> QED
    BY <1>0, <2>1, <2>2
<1>2. w \in Seq(Byte) /\ Len(w) = n + 3 /\ \A i \in 1..n : w[i] = d[i]
  <2>1. PICK z : z = Zeroes(3)
    OBVIOUS
  <2>2. z \in Seq(Byte) /\ Len(z) = 3
    BY <2>1, ZeroBytes
  <2>3. /\ d \o z \in Seq(Byte) /\ Len(d \o z) = Len(d) + Len(z)
        /\ \A i \in 1..(Len(d) + Len(z)) :
             (d \o z)[i] = IF i <= Len(d) THEN d[i] ELSE z[i - Len(d)]
    BY <2>2, ConcatProperties
  <2>4. \A i \in 1..n : i \in 1..(n + 3) /\ i <= n
    BY <1>1
  <2> QED
    BY <1>0, <2>1, <2>2, <2>3, <2>4
<1>3. /\ v \in Seq(Byte) /\ Len(v) = n + 3
      /\ \A i \in 1..(p + 3) : v[i] = w[i]
      /\ \A i \in 1..m : v[p + 3 + i] = G[i]
  <2>1. PICK q : q = p + 3
    OBVIOUS
  <2>2. q \in Nat /\ q + Len(G) <= Len(w)
    <3>1. p \in Nat /\ q = p + 3 /\ Len(G) = n - p /\ Len(w) = n + 3 /\ n \in Nat
      BY <1>0, <1>1, <1>2, <2>1
    <3> HIDE <1>c
    <3> QED
      BY <3>1
  <2>3. /\ Copy(w, q, G) \in Seq(Byte) /\ Len(Copy(w, q, G)) = Len(w)
        /\ \A i \in 1..q : Copy(w, q, G)[i] = w[i]
        /\ \A i \in 1..Len(G) : Copy(w, q, G)[q + i] = G[i]
    <3>1. w \in Seq(Byte) /\ G \in Seq(Byte)
      BY <1>1, <1>2
    <3>2. PICK f : f = G
      OBVIOUS
    <3>3. w \in Seq(Byte) /\ f \in Seq(Byte) /\ q \in Nat /\ q + Len(f) <= Len(w)
      BY <2>2, <3>1, <3>2
    <3>4. /\ Copy(w, q, f) \in Seq(Byte) /\ Len(Copy(w, q, f)) = Len(w)
          /\ \A i \in 1..q : Copy(w, q, f)[i] = w[i]
          /\ \A i \in 1..Len(f) : Copy(w, q, f)[q + i] = f[i]
      BY <3>3, CopyFacts
    <3> QED
      BY <3>2, <3>4
  <2> QED
    BY <1>0, <1>2, <2>1, <2>3
<1>4. H \in Seq(Byte) /\ Len(H) = 3 /\ H[1] = Lit("P", TRUE) /\ H[3] = Num(0)
  <2>1. PICK x, y : x = Lit("P", TRUE) /\ y = Num(0)
    OBVIOUS
  <2>2. x \in Byte /\ y \in Byte
    <3>1. "P" \in AllLits /\ TRUE \in BOOLEAN /\ 0 \in Nat
      BY DEF AllLits
    <3> QED
      BY <2>1, <3>1, Bytes
  <2>3. H = <<x, y, y>>
    BY <1>0, <2>1
  <2>4. <<x, y, y>> \in Seq(Byte) /\ Len(<<x, y, y>>) = 3
    BY <2>2
  <2>5. <<x, y, y>>[1] = x /\ <<x, y, y>>[3] = y
    OBVIOUS
  <2> QED
    BY <2>1, <2>3, <2>4, <2>5
<1>5. /\ r \in Seq(Byte) /\ Len(r) = n + 3
      /\ \A i \in 1..p : r[i] = v[i]
      /\ \A i \in 1..3 : r[p + i] = H[i]
      /\ \A i \in (p + 3 + 1)..(n + 3) : r[i] = v[i]
  <2>1. p + Len(H) <= Len(v)
    BY <1>0, <1>1, <1>3, <1>4
  <2>2. /\ Copy(v, p, H) \in Seq(Byte) /\ Len(Copy(v, p, H)) = Len(v)
        /\ \A i \in 1..p : Copy(v, p, H)[i] = v[i]
        /\ \A i \in 1..Len(H) : Copy(v, p, H)[p + i] = H[i]
        /\ \A i \in (p + Len(H) + 1)..Len(v) : Copy(v, p, H)[i] = v[i]
    <3>1. v \in Seq(Byte) /\ H \in Seq(Byte)
      BY <1>3, <1>4
    <3> QED
      BY <2>1, <3>1, CopyFacts
  <2> QED
    BY <1>0, <1>3, <1>4, <2>2
<1>6. ASSUME NEW i \in 1..p PROVE r[i] = d[i]
  <2>1. i \in 1..(p + 3) /\ i \in 1..n
    BY <1>0, <1>1
  <2> QED
    BY <1>2, <1>3, <1>5, <2>1
<1>7. r[p + 1] = Lit("P", TRUE) /\ r[p + 3] = Num(0)
  <2>1. r[p + 1] = H[1] /\ r[p + 3] = H[3]
    BY <1>5
  <2> QED
    BY <1>4, <2>1
<1>8. ASSUME NEW i \in 1..m PROVE r[p + 3 + i] = G[i]
  <2>1. p + 3 + i \in (p + 3 + 1)..(n + 3)
    BY <1>1
  <2> QED
    BY <1>3, <1>5, <2>1
<1>9. SubSeq(r, p + 3, Len(r)) = <<Num(0)>> \o G
  <2>0. PICK y, t, q, b : /\ y = Num(0) /\ t = <<y>> \o G /\ q = p + 2 /\ b = n + 3
    OBVIOUS
  <2>1. <<y>> \in Seq(Byte) /\ Len(<<y>>) = 1 /\ <<y>>[1] = y
    <3>1. y \in Byte
      BY <2>0, Bytes
    <3> QED
      BY <3>1
  <2>2. /\ t \in Seq(Byte) /\ Len(t) = 1 + m
        /\ \A i \in 1..(1 + m) : t[i] = IF i <= 1 THEN y ELSE G[i - 1]
    <3>1. PICK o : o = <<y>>
      OBVIOUS
    <3>2. o \in Seq(Byte) /\ Len(o) = 1 /\ o[1] = y
      BY <2>1, <3>1
    <3>3. /\ o \o G \in Seq(Byte) /\ Len(o \o G) = Len(o) + Len(G)
          /\ \A i \in 1..(Len(o) + Len(G)) :
               (o \o G)[i] = IF i <= Len(o) THEN o[i] ELSE G[i - Len(o)]
      BY <1>1, <3>2, ConcatProperties
    <3>4. \A i \in 1..(1 + m) : i <= 1 => i = 1
      BY <1>1
    <3> QED
      BY <1>0, <2>0, <3>1, <3>2, <3>3, <3>4
  <2>3. ASSUME NEW i \in 1..Len(t) PROVE r[q + i] = t[i]
    <3>0. i \in 1..(1 + m)
      BY <2>2
    <3>1. CASE i = 1
      <4>1. q + i = p + 3 /\ i <= 1
        BY <2>0, <3>1
      <4> QED
        BY <1>7, <2>0, <2>2, <3>0, <4>1
    <3>2. CASE i # 1
      <4>1. PICK j : j = i - 1
        OBVIOUS
      <4>2. j \in 1..m /\ q + i = p + 3 + j /\ ~(i <= 1)
        BY <1>1, <2>0, <3>0, <3>2, <4>1
      <4> QED
        BY <1>8, <2>2, <3>0, <4>1, <4>2
    <3> QED
      BY <3>1, <3>2
  <2>4. q \in Nat /\ b \in Nat /\ b <= Len(r) /\ b = q + Len(t) /\ q + 1 = p + 3 /\ b = Len(r)
    <3>1. /\ Len(r) = n + 3 /\ Len(t) = 1 + m /\ m = n - p /\ n \in Nat
          /\ q = p + 2 /\ b = n + 3
      BY <1>1, <1>5, <2>0, <2>2
    <3> QED
      BY <3>1
  <2>5. SubSeq(r, q + 1, b) = t
    BY <1>5, <2>2, <2>3, <2>4, PartIs
  <2> QED
    BY <2>0, <2>4, <2>5
<1> QED
  BY <1>0, <1>5, <1>6, <1>7, <1>9

\* the level from a on, the last of d, has the items rest and moved
Splitting(d, a, rest, moved, p) ==
  /\ d \in Seq(Byte) /\ a \in Nat \ {0} /\ a - 1 <= Len(d)
  /\ rest \in Seq(Seq(Byte)) /\ moved \in Seq(Seq(Byte))
  /\ SubSeq(d, a, Len(d)) = FlattenSeq(rest \o moved)
  /\ p = Len(d) - Len(FlattenSeq(moved))

\* The last of the items are the last of the buffer.
LEMMA MovedItems ==
  ASSUME NEW d, NEW a, NEW rest, NEW moved, NEW p, Splitting(d, a, rest, moved, p)
  PROVE  /\ p \in Nat /\ a - 1 <= p /\ p <= Len(d)
         /\ SubSeq(d, a, p) = FlattenSeq(rest)
         /\ SubSeq(d, p + 1, Len(d)) = FlattenSeq(moved)
<1>c. /\ d \in Seq(Byte) /\ a \in Nat \ {0} /\ a - 1 <= Len(d)
      /\ rest \in Seq(Seq(Byte)) /\ moved \in Seq(Seq(Byte))
      /\ SubSeq(d, a, Len(d)) = FlattenSeq(rest \o moved)
      /\ p = Len(d) - Len(FlattenSeq(moved))
  BY DEF Splitting
<1> USE <1>c
<1>0. PICK F, G, c, n : F = FlattenSeq(rest) /\ G = FlattenSeq(moved) /\ c = a - 1 /\ n = Len(d)
  OBVIOUS
<1>1. F \in Seq(Byte) /\ G \in Seq(Byte)
  BY <1>0, FlattenFacts
<1>2. Len(F) \in Nat /\ Len(G) \in Nat /\ n \in Nat
  BY <1>0, <1>1, LenProperties
<1>3. PICK w : w = F \o G
  OBVIOUS
<1>4. /\ w \in Seq(Byte) /\ Len(w) = Len(F) + Len(G)
      /\ \A i \in 1..(Len(F) + Len(G)) : w[i] = IF i <= Len(F) THEN F[i] ELSE G[i - Len(F)]
  BY <1>1, <1>3, ConcatProperties
<1>5. c \in Nat /\ c <= n /\ n <= Len(d) /\ a = c + 1
  <2>1. a \in Nat \ {0} /\ a - 1 <= n /\ n = Len(d)
    BY <1>0
  <2> QED
    BY <1>0, <1>2, <2>1
<1>6. SubSeq(d, c + 1, n) = w
  BY <1>0, <1>3, <1>5, FlattenConcat
<1>7. Len(SubSeq(d, c + 1, n)) = n - c /\ \A i \in 1..(n - c) : SubSeq(d, c + 1, n)[i] = d[c + i]
  BY <1>2, <1>5, Part
<1>8. /\ n - c = Len(F) + Len(G) /\ p = c + Len(F) /\ p \in Nat /\ c <= p /\ p <= n
      /\ n = p + Len(G)
  <2>1. p = n - Len(G) /\ n - c = Len(F) + Len(G)
    BY <1>0, <1>4, <1>6, <1>7
  <2>2. PICK x, y : x = Len(F) /\ y = Len(G)
    OBVIOUS
  <2>3. p = n - y /\ n - c = x + y /\ n \in Nat /\ c \in Nat /\ x \in Nat /\ y \in Nat
    BY <1>2, <1>5, <2>1, <2>2
  <2> HIDE <1>c
  <2>4. p = c + x /\ p \in Nat /\ c <= p /\ p <= n /\ n = p + y
    BY <2>3
  <2> QED
    BY <2>1, <2>2, <2>4
<1>9. \A i \in 1..(Len(F) + Len(G)) : d[c + i] = IF i <= Len(F) THEN F[i] ELSE G[i - Len(F)]
  BY <1>4, <1>6, <1>7, <1>8
<1>10. SubSeq(d, c + 1, p) = F
  <2>1. \A i \in 1..Len(F) : i \in 1..(Len(F) + Len(G)) /\ i <= Len(F)
    BY <1>2
  <2>2. \A i \in 1..Len(F) : d[c + i] = F[i]
    BY <1>9, <2>1
  <2>3. c \in Nat /\ p \in Nat /\ p <= Len(d) /\ p = c + Len(F)
    BY <1>0, <1>5, <1>8
  <2> QED
    BY <1>1, <2>2, <2>3, PartIs
<1>11. SubSeq(d, p + 1, n) = G
  <2>1. ASSUME NEW i \in 1..Len(G) PROVE d[p + i] = G[i]
    <3>1. PICK j : j = Len(F) + i
      OBVIOUS
    <3>2. j \in 1..(Len(F) + Len(G)) /\ ~(j <= Len(F)) /\ j - Len(F) = i
      BY <1>2, <3>1
    <3>3. c + j = p + i
      <4>1. /\ j = Len(F) + i /\ p = c + Len(F) /\ i \in Nat
            /\ c \in Nat /\ p \in Nat /\ Len(F) \in Nat
        BY <1>2, <1>5, <1>8, <3>1
      <4> HIDE <1>c
      <4> QED
        BY <4>1
    <3>4. d[c + j] = G[i]
      BY <1>9, <3>2
    <3> QED
      BY <3>3, <3>4
  <2>2. p \in Nat /\ n \in Nat /\ n <= Len(d) /\ n = p + Len(G)
    BY <1>2, <1>5, <1>8
  <2> QED
    BY <1>1, <2>1, <2>2, PartIs
<1> QED
  BY <1>0, <1>5, <1>8, <1>10, <1>11

\* retroOpenTuple
LEMMA RetroSound ==
  ASSUME WInv, NEW m \in 1..2, RetroOpenTuple(m)
  PROVE  WInv'
<1>0. PICK n, its, c, rest, moved, p :
        /\ n = Len(stack) /\ its = level[n + 1] /\ c = Len(its)
        /\ rest = SubSeq(its, 1, c - m) /\ moved = SubSeq(its, c - m + 1, c)
        /\ p = Len(data) - Len(FlattenSeq(moved))
  OBVIOUS
<1>1. status = "ok"
  BY DEF RetroOpenTuple, Room
<1>2. WriterTypeOK /\ \A k \in 1..Len(level) : Sound(k)
  BY <1>1 DEF WInv
<1>3. /\ data \in Seq(Byte) /\ stack \in Seq([start : Nat, lit : AllLits])
      /\ level \in Seq(Seq(Seq(Byte))) /\ Len(level) = n + 1
  BY <1>0, <1>2 DEF WriterTypeOK
<1>4. n \in Nat /\ n + 1 \in 1..Len(level) /\ its \in Seq(Seq(Byte)) /\ c \in Nat /\ Items = its
  <2>1. n \in Nat
    BY <1>0, <1>3, LenProperties
  <2>2. n + 1 \in 1..Len(level)
    BY <1>3, <2>1
  <2>3. level[n + 1] \in Seq(Seq(Byte))
    BY <1>3, <2>2, ElementOfSeq
  <2>4. Items = its
    BY <1>0, <1>3 DEF Items, Last
  <2>5. its \in Seq(Seq(Byte)) /\ c \in Nat
    BY <1>0, <2>3, LenProperties
  <2> QED
    BY <2>1, <2>2, <2>4, <2>5
<1>5. m <= c
  <2>1. m <= (IF stack = <<>> THEN Len(Items) ELSE Len(Items) - 1)
    BY DEF RetroOpenTuple
  <2>2. Len(Items) = c
    BY <1>0, <1>4
  <2> QED
    BY <1>4, <2>1, <2>2
<1>6. rest \in Seq(Seq(Byte)) /\ moved \in Seq(Seq(Byte)) /\ rest \o moved = its
  <2>1. PICK x : x = c - m
    OBVIOUS
  <2>2. /\ x \in Nat /\ 0 <= x /\ x <= c /\ c <= Len(its) /\ x <= Len(its)
        /\ 0 \in Nat /\ 0 + 1 = 1
    BY <1>0, <1>4, <1>5, <2>1
  <2>3. SubSeq(its, 0 + 1, x) \in Seq(Seq(Byte))
    BY <1>4, <2>2, Part
  <2>4. SubSeq(its, x + 1, c) \in Seq(Seq(Byte))
    BY <1>4, <2>2, Part
  <2>5. SubSeq(its, 1, x) \o SubSeq(its, x + 1, c) = SubSeq(its, 1, c)
    <3>1. 1 \in 1..(Len(its) + 1) /\ x \in (1 - 1)..Len(its) /\ c \in x..Len(its)
      BY <1>0, <1>4, <2>2
    <3> QED
      BY <1>4, <3>1, ConcatAdjacentSubSeq
  <2>6. SubSeq(its, 1, c) = its
    BY <1>0, <1>4, SubSeqFull
  <2> QED
    BY <1>0, <2>1, <2>2, <2>3, <2>4, <2>5, <2>6
<1>7. PICK G, F : G = FlattenSeq(moved) /\ F = FlattenSeq(rest)
  OBVIOUS
<1>8. PICK a : a = From(n + 1)
  OBVIOUS
<1>9. /\ a \in Nat \ {0} /\ a - 1 <= Len(data) /\ To(n + 1) = Len(data)
      /\ SubSeq(data, a, Len(data)) = FlattenSeq(its)
  <2>1. To(n + 1) = Len(data)
    <3>1. ~(n + 1 <= Len(stack))
      BY <1>0, <1>4
    <3> QED
      BY <3>1 DEF To
  <2>2. Sound(n + 1)
    BY <1>2, <1>4
  <2> QED
    BY <1>0, <1>8, <2>1, <2>2 DEF Sound
<1>10. /\ p \in Nat /\ a - 1 <= p /\ p <= Len(data)
       /\ SubSeq(data, a, p) = F
       /\ SubSeq(data, p + 1, Len(data)) = G
  <2>1. PICK d : d = data
    OBVIOUS
  <2>2. /\ d \in Seq(Byte) /\ a \in Nat \ {0} /\ a - 1 <= Len(d)
        /\ SubSeq(d, a, Len(d)) = FlattenSeq(rest \o moved)
        /\ p = Len(d) - Len(FlattenSeq(moved))
    BY <1>0, <1>3, <1>6, <1>9, <2>1
  <2>3. rest \in Seq(Seq(Byte)) /\ moved \in Seq(Seq(Byte))
    BY <1>6
  <2>4. /\ p \in Nat /\ a - 1 <= p /\ p <= Len(d)
        /\ SubSeq(d, a, p) = FlattenSeq(rest)
        /\ SubSeq(d, p + 1, Len(d)) = FlattenSeq(moved)
    <3>1. Splitting(d, a, rest, moved, p)
      BY <2>2, <2>3 DEF Splitting
    <3> QED
      BY <3>1, MovedItems
  <2> QED
    BY <1>7, <2>1, <2>4
<1>11. /\ data' = Copy(Copy(data \o Zeroes(3), p + 3, G), p, <<Lit("P", TRUE), Num(0), Num(0)>>)
       /\ stack' = Append(stack, [start |-> p, lit |-> "P"])
       /\ level' = Append([level EXCEPT ![n + 1] = rest], <<<<Num(0)>>>> \o moved)
  <2>1. SubSeq(Items, Len(Items) - m + 1, Len(Items)) = moved
    BY <1>0, <1>4
  <2>2. data' = Copy(Copy(data \o Zeroes(3), p + 3, G), p, <<Lit("P", TRUE), Num(0), Num(0)>>)
    BY <1>0, <1>10, <2>1 DEF RetroOpenTuple
  <2>3. stack' = Append(stack, [start |-> p, lit |-> "P"])
    BY <1>0, <2>1 DEF RetroOpenTuple
  <2>4. level' = Append([level EXCEPT ![n + 1] = rest], <<<<Num(0)>>>> \o moved)
    BY <1>0, <1>3, <2>1 DEF RetroOpenTuple
  <2> QED
    BY <2>2, <2>3, <2>4
<1>12. /\ data' \in Seq(Byte) /\ Len(data') = Len(data) + 3
       /\ \A i \in 1..p : data'[i] = data[i]
       /\ data'[p + 1] = Lit("P", TRUE)
       /\ SubSeq(data', p + 3, Len(data')) = <<Num(0)>> \o G
  <2>1. PICK d, r : d = data /\ r = data'
    OBVIOUS
  <2>2. /\ d \in Seq(Byte) /\ p \in Nat /\ p <= Len(d) /\ G = SubSeq(d, p + 1, Len(d))
        /\ r = Copy(Copy(d \o Zeroes(3), p + 3, G), p, <<Lit("P", TRUE), Num(0), Num(0)>>)
    BY <1>3, <1>10, <1>11, <2>1
  <2>3. /\ r \in Seq(Byte) /\ Len(r) = Len(d) + 3
        /\ \A i \in 1..p : r[i] = d[i]
        /\ r[p + 1] = Lit("P", TRUE)
        /\ SubSeq(r, p + 3, Len(r)) = <<Num(0)>> \o G
    <3>1. Widening(d, p, G, r)
      BY <2>2 DEF Widening
    <3> QED
      BY <3>1, RetroWrites
  <2> QED
    BY <2>1, <2>3
<1>13. /\ stack' \in Seq([start : Nat, lit : AllLits]) /\ Len(stack') = n + 1
       /\ \A i \in 1..n : stack'[i] = stack[i]
       /\ stack'[n + 1].start = p
  <2>1. PICK mark : mark = [start |-> p, lit |-> "P"]
    OBVIOUS
  <2>2. mark \in [start : Nat, lit : AllLits] /\ mark.start = p
    BY <1>10, <2>1 DEF AllLits
  <2>3. /\ stack' \in Seq([start : Nat, lit : AllLits]) /\ Len(stack') = Len(stack) + 1
        /\ \A i \in 1..Len(stack) : stack'[i] = stack[i]
        /\ stack'[Len(stack) + 1] = mark
    BY <1>3, <1>11, <2>1, <2>2, AppendProperties
  <2> QED
    BY <1>0, <2>2, <2>3
<1>14. /\ level' \in Seq(Seq(Seq(Byte))) /\ Len(level') = n + 2
       /\ \A i \in 1..n : level'[i] = level[i]
       /\ level'[n + 1] = rest /\ level'[n + 2] = <<<<Num(0)>>>> \o moved
       /\ FlattenSeq(<<<<Num(0)>>>> \o moved) = <<Num(0)>> \o G
  <2>1. PICK z, l, new : z = <<Num(0)>> /\ l = [level EXCEPT ![n + 1] = rest] /\ new = <<z>> \o moved
    OBVIOUS
  <2>2. z \in Seq(Byte)
    BY <2>1, Bytes
  <2>3. <<z>> \in Seq(Seq(Byte))
    BY <2>2
  <2>4. new \in Seq(Seq(Byte))
    BY <1>6, <2>1, <2>3, ConcatProperties
  <2>5. FlattenSeq(new) = z \o G
    <3>1. FlattenSeq(<<z>>) = z
      BY <2>2, FlattenSmall
    <3>2. FlattenSeq(<<z>> \o moved) = FlattenSeq(<<z>>) \o FlattenSeq(moved)
      BY <1>6, <2>3, FlattenConcat
    <3> QED
      BY <1>7, <2>1, <3>1, <3>2
  <2>6. /\ l \in Seq(Seq(Seq(Byte))) /\ Len(l) = Len(level)
        /\ \A k \in 1..Len(level) : l[k] = IF k = n + 1 THEN rest ELSE level[k]
    BY <1>3, <1>4, <1>6, <2>1, ExceptSeq
  <2>7. level' = Append(l, new)
    BY <1>11, <2>1
  <2>8. /\ level' \in Seq(Seq(Seq(Byte))) /\ Len(level') = Len(l) + 1
        /\ \A k \in 1..Len(l) : level'[k] = l[k]
        /\ level'[Len(l) + 1] = new
    BY <2>4, <2>6, <2>7, AppendProperties
  <2>9. Len(l) = n + 1 /\ Len(l) + 1 = n + 2
    BY <1>3, <1>4, <2>6
  <2>10. \A k \in 1..n : k \in 1..(n + 1) /\ k # n + 1
    BY <1>4
  <2>11. \A k \in 1..n : level'[k] = level[k]
    BY <1>3, <2>6, <2>8, <2>9, <2>10
  <2>12. level'[n + 1] = rest
    BY <1>3, <1>4, <2>6, <2>8, <2>9
  <2> QED
    BY <2>1, <2>5, <2>8, <2>9, <2>11, <2>12
<1>15. WriterTypeOK'
  <2>1. Len(level') = Len(stack') + 1
    BY <1>4, <1>13, <1>14
  <2> QED
    BY <1>12, <1>13, <1>14, <2>1 DEF WriterTypeOK
<1>p. Len(data) \in Nat /\ p <= Len(data') /\ Len(data') \in Nat
  <2>1. Len(data) \in Nat
    BY <1>3, LenProperties
  <2> QED
    BY <1>10, <1>12, <2>1
<1>16. ASSUME NEW k \in 1..n PROVE Sound(k)' /\ To(k)' \in Nat /\ To(k)' <= p
  <2>1. /\ k \in Nat /\ k \in 1..Len(level) /\ k <= Len(level')
        /\ k <= Len(stack) /\ k <= Len(stack') /\ k \in 1..((n + 1) - 1)
    <3>1. n \in Nat /\ Len(level) = n + 1 /\ Len(level') = n + 2 /\ Len(stack) = n /\ Len(stack') = n + 1
      BY <1>0, <1>3, <1>4, <1>13, <1>14
    <3> QED
      BY <3>1
  <2>2. Sound(k) /\ level'[k] = level[k] /\ stack'[k] = stack[k]
    BY <1>2, <1>13, <1>14, <2>1
  <2>3. To(k) \in Nat /\ To(k) <= p
    <3>1. Sound(n + 1)
      BY <1>2, <1>4
    <3>2. To(k) < a
      BY <1>8, <2>1, <3>1 DEF Sound
    <3>3. To(k) \in Nat
      BY <2>2 DEF Sound
    <3> QED
      BY <1>9, <1>10, <3>2, <3>3
  <2>4. To(k)' = To(k)
    BY <2>1, <2>2 DEF To
  <2>5. To(k) <= Len(data') /\ \A i \in 1..To(k) : data'[i] = data[i]
    BY <1>p, <1>10, <1>12, <2>3
  <2>6. \A j \in 1..(k - 1) : stack'[j] = stack[j]
    BY <1>4, <1>13, <2>1
  <2>7. Sound(k)'
    BY <1>2, <1>15, <2>1, <2>2, <2>4, <2>5, <2>6, Lower
  <2> QED
    BY <2>3, <2>4, <2>7
<1>17. Sound(n + 1)' /\ To(n + 1)' = p
  <2>0. PICK k : k = n + 1
    OBVIOUS
  <2>1. To(k)' = p
    <3>1. k <= Len(stack')
      BY <1>4, <1>13, <2>0
    <3> QED
      BY <1>13, <2>0, <3>1 DEF To
  <2>2. k \in 1..Len(level) /\ Sound(k) /\ k <= Len(level')
    BY <1>2, <1>4, <1>14, <2>0
  <2>3. \A j \in 1..(k - 1) : stack'[j] = stack[j]
    BY <1>4, <1>13, <2>0
  <2>4. \A i \in 1..(From(k) - 1) : data'[i] = data[i]
    <3>1. \A i \in 1..(a - 1) : i \in 1..p
      BY <1>9, <1>10
    <3> QED
      BY <1>8, <1>12, <2>0, <3>1
  <2>5. SubSeq(data', From(k), p) = FlattenSeq(level'[k])
    <3>1. p <= Len(data) /\ p <= Len(data') /\ p <= p
      BY <1>p, <1>10
    <3>2. SubSeq(data', a, p) = SubSeq(data, a, p)
      <4>1. /\ data' \in Seq(Byte) /\ data \in Seq(Byte) /\ p \in Nat /\ a \in Nat \ {0}
            /\ \A i \in 1..p : data'[i] = data[i]
        BY <1>3, <1>9, <1>10, <1>12
      <4> QED
        BY <3>1, <4>1, SameParts
    <3> QED
      BY <1>7, <1>8, <1>10, <1>14, <2>0, <3>2
  <2>6. p \in Nat /\ From(k) - 1 <= p /\ p <= Len(data')
    BY <1>p, <1>8, <1>10, <2>0
  <2>7. Sound(k)'
    BY <1>2, <1>15, <2>1, <2>2, <2>3, <2>4, <2>5, <2>6, Rests
  <2> QED
    BY <2>0, <2>1, <2>7
<1>18. Sound(n + 2)'
  <2>1. data'[p + 1][3] = TRUE
    BY <1>12 DEF Lit
  <2>2. data'[p + 1][3] \in BOOLEAN /\ 2 = Hdr(data'[p + 1][3])
    BY <2>1 DEF Hdr
  <2>3. p + 2 <= Len(data') /\ (p + 2) + 1 = p + 3
    <3>1. p \in Nat /\ p <= Len(data) /\ Len(data') = Len(data) + 3
      BY <1>10, <1>12
    <3> QED
      BY <1>p, <3>1
  <2>4. SubSeq(data', p + 2 + 1, Len(data')) = FlattenSeq(level'[n + 2])
    BY <1>12, <1>14, <2>3
  <2>5. \A j \in 1..(n + 1) : To(j)' \in Nat /\ To(j)' <= p
    <3>1. \A j \in 1..(n + 1) : j \in 1..n \/ j = n + 1
      BY <1>4
    <3>2. p \in Nat /\ p <= p
      BY <1>10
    <3> QED
      BY <1>16, <1>17, <3>1, <3>2
  <2> QED
    BY <1>4, <1>10, <1>12, <1>13, <2>2, <2>3, <2>4, <2>5, NewLevel
<1>19. \A k \in 1..Len(level') : Sound(k)'
  <2>1. \A k \in 1..Len(level') : k \in 1..n \/ k = n + 1 \/ k = n + 2
    BY <1>4, <1>14
  <2> QED
    BY <1>16, <1>17, <1>18, <2>1
<1> QED
  BY <1>15, <1>19 DEF WInv
-----------------------------------------------------------------------------
\* What is appended is made of bytes.
LEMMA ItemsAreBytes ==
  /\ \A key \in Keys : <<Num(Len(key))>> \o key \in Seq(Byte)
  /\ \A v \in Payload : v \in Seq(Byte)
  /\ \A lit \in AllLits, key \in Keys, val \in Values : WriteTLKV(lit, key, val) \in Seq(Byte)
<1>1. ASSUME NEW k \in Seq(Byte) PROVE <<Num(Len(k))>> \o k \in Seq(Byte)
  <2>1. PICK y : y = Num(Len(k))
    OBVIOUS
  <2>2. y \in Byte
    <3>1. Len(k) \in Nat
      BY LenProperties
    <3> QED
      BY <2>1, <3>1, Bytes
  <2>3. <<y>> \in Seq(Byte)
    BY <2>2
  <2> QED
    BY <2>1, <2>3, ConcatProperties
<1>2. ASSUME NEW v \in Payload PROVE v \in Seq(Byte)
  BY Bytes
<1>3. ASSUME NEW lit \in AllLits, NEW key \in Keys, NEW val \in Values
      PROVE  WriteTLKV(lit, key, val) \in Seq(Byte)
  <2>1. key \in Seq(Byte) /\ val \in Seq(Byte)
    BY Bytes
  <2>2. PICK k : k = IF Len(key) > Base - 1 THEN SubSeq(key, 1, Base - 1) ELSE key
    OBVIOUS
  <2>3. k \in Seq(Byte)
    <3>1. CASE Len(key) > Base - 1
      <4>1. PICK b : b = Base - 1
        OBVIOUS
      <4>2. b \in Nat /\ 0 \in Nat /\ 0 <= b /\ b <= Len(key) /\ 0 + 1 = 1
        <5>1. Len(key) \in Nat
          BY <2>1, LenProperties
        <5> QED
          BY <3>1, <4>1, <5>1, TlvBytesAssumption
      <4>3. SubSeq(key, 0 + 1, b) \in Seq(Byte)
        BY <2>1, <4>2, Part
      <4> QED
        BY <2>2, <3>1, <4>1, <4>2, <4>3
    <3>2. CASE ~(Len(key) > Base - 1)
      BY <2>1, <2>2, <3>2
    <3> QED
      BY <3>1, <3>2
  <2>4. PICK w : w = <<Num(Len(k))>> \o k \o val
    OBVIOUS
  <2>5. w \in Seq(Byte)
    <3>1. <<Num(Len(k))>> \o k \in Seq(Byte)
      BY <1>1, <2>3
    <3> QED
      BY <2>1, <2>4, <3>1, ConcatProperties
  <2>6. WriteTLKV(lit, key, val) = WriteTLV(lit, w)
    BY <2>2, <2>4 DEF WriteTLKV
  <2>7. Header(lit, Len(w)) \in Seq(Byte)
    <3>1. Len(w) \in Nat
      BY <2>5, LenProperties
    <3> QED
      BY <3>1, Headers
  <2>8. WriteTLV(lit, w) = Header(lit, Len(w)) \o w
    BY <2>5, SameHeader
  <2> QED
    BY <2>5, <2>6, <2>7, <2>8, ConcatProperties
<1>4. \A key \in Keys : key \in Seq(Byte)
  BY Bytes
<1> QED
  BY <1>1, <1>2, <1>3, <1>4

\* The headers that are reserved.
LEMMA ReservedHeaders ==
  ASSUME NEW lit \in AllLits
  PROVE  /\ <<Lit(lit, FALSE)>> \o Zeroes(4) \in Seq(Byte)
         /\ Len(<<Lit(lit, FALSE)>> \o Zeroes(4)) = 5
         /\ (<<Lit(lit, FALSE)>> \o Zeroes(4))[1][3] = FALSE
         /\ <<Lit(lit, TRUE), Num(0)>> \in Seq(Byte)
         /\ Len(<<Lit(lit, TRUE), Num(0)>>) = 2
         /\ <<Lit(lit, TRUE), Num(0)>>[1][3] = TRUE
<1>1. PICK x, y, s, z : x = Lit(lit, FALSE) /\ y = Lit(lit, TRUE) /\ s = Num(0) /\ z = Zeroes(4)
  OBVIOUS
<1>2. x \in Byte /\ y \in Byte /\ s \in Byte /\ x[3] = FALSE /\ y[3] = TRUE
  <2>1. x \in Byte /\ y \in Byte /\ s \in Byte
    BY <1>1, Bytes
  <2> QED
    BY <1>1, <2>1 DEF Lit
<1>3. z \in Seq(Byte) /\ Len(z) = 4
  BY <1>1, ZeroBytes
<1>4. <<x>> \in Seq(Byte) /\ Len(<<x>>) = 1 /\ <<x>>[1] = x
  BY <1>2
<1>5. <<x>> \o z \in Seq(Byte) /\ Len(<<x>> \o z) = 5 /\ (<<x>> \o z)[1] = x
  <2>1. PICK o : o = <<x>>
    OBVIOUS
  <2>2. o \in Seq(Byte) /\ Len(o) = 1 /\ o[1] = x
    BY <1>4, <2>1
  <2>3. /\ o \o z \in Seq(Byte) /\ Len(o \o z) = Len(o) + Len(z)
        /\ \A i \in 1..(Len(o) + Len(z)) :
             (o \o z)[i] = IF i <= Len(o) THEN o[i] ELSE z[i - Len(o)]
    BY <1>3, <2>2, ConcatProperties
  <2>4. 1 \in 1..(Len(o) + Len(z)) /\ 1 <= Len(o) /\ Len(o) + Len(z) = 5
    BY <1>3, <2>2
  <2> QED
    BY <2>1, <2>2, <2>3, <2>4
<1>6. <<y, s>> \in Seq(Byte) /\ Len(<<y, s>>) = 2 /\ <<y, s>>[1] = y
  BY <1>2
<1> QED
  BY <1>1, <1>2, <1>5, <1>6

\* Nothing is written yet.
LEMMA EmptyBuffer == Init => WInv
<1> SUFFICES ASSUME Init PROVE WInv
  OBVIOUS
<1>1. data = <<>> /\ stack = <<>> /\ level = <<<<>>>>
  BY DEF Init
<1>2. WriterTypeOK
  BY <1>1 DEF WriterTypeOK
<1>3. Len(level) = 1 /\ level[1] = <<>> /\ Len(data) = 0 /\ Len(stack) = 0
  BY <1>1
<1>4. From(1) = 1 /\ To(1) = 0
  BY <1>3 DEF From, To
<1>5. SubSeq(data, 1, 0) = <<>>
  BY SubSeqEmpty
<1>6. FlattenSeq(level[1]) = <<>>
  BY <1>3, EmptySeq, FlattenSmall
<1>7. Sound(1)
  <2>1. /\ From(1) \in Nat \ {0} /\ To(1) \in Nat
        /\ From(1) - 1 <= To(1) /\ To(1) <= Len(data)
    BY <1>3, <1>4
  <2>2. \A j \in 1..(1 - 1) : To(j) < From(1)
    OBVIOUS
  <2>3. ~(1 > 1)
    OBVIOUS
  <2>4. SubSeq(data, From(1), To(1)) = FlattenSeq(level[1])
    BY <1>4, <1>5, <1>6
  <2> QED
    BY <2>1, <2>2, <2>3, <2>4 DEF Sound
<1>8. \A k \in 1..Len(level) : k = 1
  BY <1>3
<1> QED
  BY <1>2, <1>7, <1>8 DEF WInv

\* Every call keeps the buffer and the marks together.
LEMMA WriterSteps == WInv /\ [Next]_vars => WInv'
<1> SUFFICES ASSUME WInv, [Next]_vars PROVE WInv'
  OBVIOUS
<1>1. ASSUME NEW lit \in Letters, OpenTLV(lit) PROVE WInv'
  <2>0. PICK h : h = <<Lit(lit, FALSE)>> \o Zeroes(4)
    OBVIOUS
  <2>1. lit \in AllLits
    BY DEF AllLits
  <2>2. h \in Seq(Byte) /\ Len(h) = 5 /\ h[1][3] = FALSE
    BY <2>0, <2>1, ReservedHeaders
  <2>3. h[1][3] \in BOOLEAN /\ Len(h) = Hdr(h[1][3])
    BY <2>2 DEF Hdr
  <2>4. Open(lit, h)
    BY <1>1, <2>0 DEF OpenTLV
  <2> QED
    BY <2>1, <2>2, <2>3, <2>4, OpenSound
<1>2. ASSUME NEW lit \in Letters, OpenShortTLV(lit) PROVE WInv'
  <2>0. PICK h : h = <<Lit(lit, TRUE), Num(0)>>
    OBVIOUS
  <2>1. lit \in AllLits
    BY DEF AllLits
  <2>2. h \in Seq(Byte) /\ Len(h) = 2 /\ h[1][3] = TRUE
    BY <2>0, <2>1, ReservedHeaders
  <2>3. h[1][3] \in BOOLEAN /\ Len(h) = Hdr(h[1][3])
    BY <2>2 DEF Hdr
  <2>4. Open(lit, h)
    BY <1>2, <2>0 DEF OpenShortTLV
  <2> QED
    BY <2>1, <2>2, <2>3, <2>4, OpenSound
<1>3. ASSUME NEW lit \in Letters, CloseTLV(lit) PROVE WInv'
  <2>1. lit \in AllLits
    BY DEF AllLits
  <2> QED
    BY <1>3, <2>1, CloseSound
<1>4. ASSUME NEW lit \in Letters, CancelTLV(lit) PROVE WInv'
  BY <1>4, CancelSound
<1>5. ASSUME NEW lit \in Letters, BadNesting(lit) PROVE WInv'
  BY <1>5 DEF BadNesting, WInv
<1>6. ASSUME NEW lit \in Letters, NEW key \in Keys, NEW val \in Values, PutRecord(lit, key, val)
      PROVE  WInv'
  <2>1. PICK item : item = WriteTLKV(lit, key, val)
    OBVIOUS
  <2>2. item \in Seq(Byte)
    BY <2>1, ItemsAreBytes DEF AllLits
  <2>3. Put(item)
    BY <1>6, <2>1 DEF PutRecord
  <2> QED
    BY <2>2, <2>3, PutSound
<1>7. ASSUME NEW key \in Keys, PutKey(key) PROVE WInv'
  <2>1. PICK item : item = <<Num(Len(key))>> \o key
    OBVIOUS
  <2>2. item \in Seq(Byte)
    BY <2>1, ItemsAreBytes
  <2>3. Put(item)
    BY <1>7, <2>1 DEF PutKey
  <2> QED
    BY <2>2, <2>3, PutSound
<1>8. ASSUME NEW v \in Payload, PutValue(v) PROVE WInv'
  <2>1. v \in Seq(Byte)
    BY ItemsAreBytes
  <2>2. Put(v)
    BY <1>8 DEF PutValue
  <2> QED
    BY <2>1, <2>2, PutSound
<1>9. ASSUME NEW m \in 1..2, RetroOpenTuple(m) PROVE WInv'
  BY <1>9, RetroSound
<1>10. CASE Done
  <2>1. status' # "ok"
    BY <1>10 DEF Done, vars
  <2> QED
    BY <2>1 DEF WInv
<1>11. CASE UNCHANGED vars
  <2>1. data' = data /\ stack' = stack /\ level' = level /\ status' = status
    BY <1>11 DEF vars
  <2>2. \A k : Sound(k)' = Sound(k)
    BY <2>1 DEF Sound, From, To
  <2>3. WriterTypeOK' = WriterTypeOK
    BY <2>1 DEF WriterTypeOK
  <2> QED
    BY <2>1, <2>2, <2>3 DEF WInv
<1> QED
  BY <1>1, <1>2, <1>3, <1>4, <1>5, <1>6, <1>7, <1>8, <1>9, <1>10, <1>11 DEF Next

\* However records are opened, given contents, wrapped in tuples, cancelled and
\* closed, whatever their lengths: the buffer holds at every level what that
\* level was given, a record that was closed being the one WriteTLV would have
\* written at once.
THEOREM BufferFramed == Spec => []Framed
<1>1. WInv => Framed
  <2> SUFFICES ASSUME WInv, status = "ok", NEW k \in DOMAIN level
               PROVE  SubSeq(data, From(k), To(k)) = FlattenSeq(level[k])
    BY DEF Framed
  <2>1. WriterTypeOK /\ \A j \in 1..Len(level) : Sound(j)
    BY DEF WInv
  <2>2. k \in 1..Len(level)
    BY <2>1, LenProperties DEF WriterTypeOK
  <2> QED
    BY <2>1, <2>2 DEF Sound
<1> QED
  BY <1>1, EmptyBuffer, WriterSteps, PTL DEF Spec
-----------------------------------------------------------------------------
(* The readers.  A record is a header, the length of the key, the key and  *)
(* the value.                                                              *)

\* the contents of a record
Body(k, v) == (<<Num(Len(k))>> \o k) \o v
\* the lengths of keys, that of a tuple included which is opened later
KeyLens == {Len(b) : b \in Keys} \cup {0}
\* r is the record WriteTLKV makes of lit, k and v
Encodes(r, lit, k, v) ==
  /\ lit \in AllLits /\ k \in Seq(Byte) /\ v \in Seq(Byte)
  /\ Len(k) < Base /\ Len(k) \in KeyLens
  /\ r = WriteTLV(lit, Body(k, v))

\* What n tells of the bytes r that begin with a header for n more.
Announces(r, lit, n) ==
  /\ r[1][2] = lit /\ r[1][3] = IsShort(n)
  /\ IsShort(n) => r[2][2] = n
  /\ ~IsShort(n) => \A i \in 1..4 : r[1 + i] = PutUint32(n)[i]

\* The weights of the bytes of a length are the powers of Base.
LEMMA Weights == Powers(ByteWeight, Base, 4) /\ Base \in Nat \ {0, 1, 2}
<1>1. Base \in Nat \ {0, 1, 2}
  BY TlvBytesAssumption
<1>2. PICK p, N : p = ByteWeight /\ N = 4
  OBVIOUS
<1>3. p = [k \in 0..N |-> IF k = 0 THEN 1 ELSE Base * p[k - 1]]
  <2>1. \E g : g = [k \in 0..N |-> IF k = 0 THEN 1 ELSE Base * g[k - 1]]
    <3>1. N \in Nat /\ Base \in Nat \ {0}
      BY <1>1, <1>2
    <3> QED
      BY <3>1, PowerFunction
  <2> QED
    BY <1>2, <2>1 DEF ByteWeight
<1>4. Powers(p, Base, N)
  BY <1>1, <1>2, <1>3, PowersOf
<1> QED
  BY <1>1, <1>2, <1>4

\* A length is read from the four bytes it is written to.
LEMMA LengthReads ==
  ASSUME NEW n \in Nat, n < ByteWeight[4], NEW s, \A i \in 1..4 : s[i] = PutUint32(n)[i]
  PROVE  Uint32(s) = n
<1>1. PICK b, p, N : b = Base /\ p = ByteWeight /\ N = 4
  OBVIOUS
<1>2. Powers(p, b, N) /\ b \in Nat \ {0} /\ N \in Nat /\ N \in 0..N
  BY <1>1, Weights
<1>3. PICK c : c = [k \in 1..N |-> (n \div p[N - k]) % b]
  OBVIOUS
<1>4. \A k \in 1..N : c[k] \in 0..(b - 1)
  <2> SUFFICES ASSUME NEW k \in 1..N PROVE c[k] \in 0..(b - 1)
    OBVIOUS
  <2>1. p[N - k] \in Nat \ {0}
    <3>1. N - k \in 0..N
      BY <1>1
    <3> QED
      BY <1>2, <3>1 DEF Powers
  <2>2. PICK q : q = n \div p[N - k]
    OBVIOUS
  <2>3. q \in Nat
    BY <2>1, <2>2, DivMod
  <2>4. q % b \in 0..(b - 1)
    BY <1>2, <2>3, DivMod
  <2> QED
    BY <1>3, <2>2, <2>4
<1>5. \A i \in 1..4 : s[i][2] = c[5 - i]
  <2> SUFFICES ASSUME NEW i \in 1..4 PROVE s[i][2] = c[5 - i]
    OBVIOUS
  <2>1. s[i] = Num((n \div p[i - 1]) % b)
    BY <1>1 DEF PutUint32
  <2>2. 5 - i \in 1..N /\ N - (5 - i) = i - 1
    BY <1>1
  <2>3. c[5 - i] = (n \div p[i - 1]) % b
    BY <1>3, <2>2
  <2> QED
    BY <2>1, <2>3 DEF Num
<1>6. PICK f1, f2, f3 : f1 = c[1] /\ f2 = b * f1 + c[2] /\ f3 = b * f2 + c[3]
  OBVIOUS
<1>7. PICK f4 : f4 = b * f3 + c[4]
  OBVIOUS
<1>8. PICK f : f = [k \in 0..4 |-> IF k = 0 THEN 0 ELSE IF k = 1 THEN f1 ELSE IF k = 2 THEN f2
                                   ELSE IF k = 3 THEN f3 ELSE f4]
  OBVIOUS
<1>9. f[0] = 0 /\ f[1] = f1 /\ f[2] = f2 /\ f[3] = f3 /\ f[4] = f4
  BY <1>8
<1>10. Horner(f, c, b, N)
  <2>1. f[1] = b * f[0] + c[1]
    BY <1>1, <1>2, <1>4, <1>6, <1>9
  <2>2. f[2] = b * f[1] + c[2] /\ f[3] = b * f[2] + c[3] /\ f[4] = b * f[3] + c[4]
    BY <1>6, <1>7, <1>9
  <2>3. ASSUME NEW k \in 1..N PROVE f[k] = b * f[k - 1] + c[k]
    <3>1. k = 1 \/ k = 2 \/ k = 3 \/ k = 4
      BY <1>1
    <3> QED
      BY <2>1, <2>2, <3>1
  <2> QED
    BY <1>4, <1>9, <2>3 DEF Horner
<1>11. f[N] = n
  <2>1. \A k \in 1..N : c[k] = (n \div p[N - k]) % b
    BY <1>3
  <2>2. n < p[N]
    BY <1>1
  <2> QED
    BY <1>2, <1>10, <2>1, <2>2, HornerReads
<1>12. Uint32(s) = c[4] + b * (c[3] + b * (c[2] + b * c[1]))
  <2>1. s[1][2] = c[4] /\ s[2][2] = c[3] /\ s[3][2] = c[2] /\ s[4][2] = c[1]
    BY <1>5
  <2> QED
    BY <1>1, <2>1 DEF Uint32
<1>13. c[1] \in Nat /\ c[2] \in Nat /\ c[3] \in Nat /\ c[4] \in Nat /\ b \in Nat
  BY <1>1, <1>2, <1>4
<1>14. f1 \in Nat /\ b * f1 \in Nat /\ c[2] + b * c[1] = f2
  BY <1>6, <1>13
<1>15. f2 \in Nat /\ b * f2 \in Nat
  BY <1>6, <1>13, <1>14
<1>16. c[3] + b * f2 = f3 /\ f3 \in Nat
  BY <1>6, <1>13, <1>15
<1>17. b * f3 \in Nat
  BY <1>13, <1>16
<1>18. c[4] + b * f3 = f4
  BY <1>7, <1>13, <1>17
<1> QED
  BY <1>1, <1>9, <1>11, <1>12, <1>14, <1>16, <1>18

\* r has n bytes behind a header of h
Sized(r, lit, k, v, n, h) ==
  Encodes(r, lit, k, v) /\ n = 1 + Len(k) + Len(v) /\ h = Hdr(IsShort(n))

\* the bytes of that record
Laid(r, lit, k, v, n, h) ==
  /\ r \in Seq(Byte) /\ n \in Nat \ {0} /\ h \in {2, 5} /\ Len(r) = h + n
  /\ Announces(r, lit, n)
  /\ r[h + 1][2] = Len(k)
  /\ \A i \in 1..Len(k) : r[h + 1 + i] = k[i]
  /\ \A i \in 1..Len(v) : r[h + 1 + Len(k) + i] = v[i]

\* A record has them.
LEMMA RecordBytes ==
  ASSUME NEW r, NEW lit, NEW k, NEW v, NEW n, NEW h, Sized(r, lit, k, v, n, h)
  PROVE  Laid(r, lit, k, v, n, h)
<1>c. Encodes(r, lit, k, v) /\ n = 1 + Len(k) + Len(v) /\ h = Hdr(IsShort(n))
  BY DEF Sized
<1> USE <1>c
<1>1. lit \in AllLits /\ k \in Seq(Byte) /\ v \in Seq(Byte) /\ Len(k) \in Nat /\ Len(v) \in Nat
  BY DEF Encodes
<1>2. n \in Nat \ {0} /\ h \in {2, 5}
  BY <1>1 DEF Hdr
<1>3. PICK y, w : y = <<Num(Len(k))>> /\ w = (y \o k) \o v
  OBVIOUS
<1>4. y \in Seq(Byte) /\ Len(y) = 1 /\ y[1] = Num(Len(k))
  <2>1. PICK x : x = Num(Len(k))
    OBVIOUS
  <2>2. x \in Byte
    BY <1>1, <2>1, Bytes
  <2>3. <<x>> \in Seq(Byte) /\ Len(<<x>>) = 1 /\ <<x>>[1] = x
    BY <2>2
  <2> QED
    BY <1>3, <2>1, <2>3
<1>5. PICK z : z = y \o k
  OBVIOUS
<1>6. /\ z \in Seq(Byte) /\ Len(z) = 1 + Len(k)
      /\ z[1] = Num(Len(k)) /\ \A i \in 1..Len(k) : z[1 + i] = k[i]
  <2>1. /\ z \in Seq(Byte) /\ Len(z) = Len(y) + Len(k)
        /\ \A i \in 1..(Len(y) + Len(k)) : z[i] = IF i <= Len(y) THEN y[i] ELSE k[i - Len(y)]
    BY <1>1, <1>4, <1>5, ConcatProperties
  <2>2. z[1] = y[1]
    <3>1. 1 \in 1..(Len(y) + Len(k)) /\ 1 <= Len(y)
      BY <1>1, <1>4
    <3> QED
      BY <2>1, <3>1
  <2>3. ASSUME NEW i \in 1..Len(k) PROVE z[1 + i] = k[i]
    <3>1. 1 + i \in 1..(Len(y) + Len(k)) /\ ~(1 + i <= Len(y)) /\ (1 + i) - Len(y) = i
      BY <1>1, <1>4
    <3> QED
      BY <2>1, <3>1
  <2> QED
    BY <1>4, <2>1, <2>2, <2>3
<1>7. /\ w \in Seq(Byte) /\ Len(w) = n
      /\ \A i \in 1..(1 + Len(k)) : w[i] = z[i]
      /\ \A i \in 1..Len(v) : w[1 + Len(k) + i] = v[i]
  <2>1. /\ w \in Seq(Byte) /\ Len(w) = Len(z) + Len(v)
        /\ \A i \in 1..(Len(z) + Len(v)) : w[i] = IF i <= Len(z) THEN z[i] ELSE v[i - Len(z)]
    BY <1>1, <1>3, <1>5, <1>6, ConcatProperties
  <2>2. ASSUME NEW i \in 1..(1 + Len(k)) PROVE w[i] = z[i]
    <3>1. i \in 1..(Len(z) + Len(v)) /\ i <= Len(z)
      BY <1>1, <1>6
    <3> QED
      BY <2>1, <3>1
  <2>3. ASSUME NEW i \in 1..Len(v) PROVE w[1 + Len(k) + i] = v[i]
    <3>1. PICK j : j = 1 + Len(k) + i
      OBVIOUS
    <3>2. j \in 1..(Len(z) + Len(v)) /\ ~(j <= Len(z)) /\ j - Len(z) = i
      BY <1>1, <1>6, <3>1
    <3> QED
      BY <2>1, <3>1, <3>2
  <2> QED
    BY <1>1, <1>6, <2>1, <2>2, <2>3
<1>8. PICK hd : hd = Header(lit, n)
  OBVIOUS
<1>9. hd \in Seq(Byte) /\ Len(hd) = h
  BY <1>1, <1>2, <1>8, Headers
<1>10. r = hd \o w
  <2>1. r = WriteTLV(lit, w)
    BY <1>3 DEF Encodes, Body
  <2> QED
    BY <1>1, <1>7, <1>8, <2>1, SameHeader
<1>11. /\ r \in Seq(Byte) /\ Len(r) = h + n
       /\ \A i \in 1..h : r[i] = hd[i]
       /\ \A i \in 1..n : r[h + i] = w[i]
  <2>1. /\ r \in Seq(Byte) /\ Len(r) = Len(hd) + Len(w)
        /\ \A i \in 1..(Len(hd) + Len(w)) : r[i] = IF i <= Len(hd) THEN hd[i] ELSE w[i - Len(hd)]
    <3>1. hd \in Seq(Byte) /\ w \in Seq(Byte)
      BY <1>7, <1>9
    <3> QED
      BY <1>10, <3>1, ConcatProperties
  <2>2. ASSUME NEW i \in 1..h PROVE r[i] = hd[i]
    <3>1. i \in 1..(Len(hd) + Len(w)) /\ i <= Len(hd)
      BY <1>2, <1>7, <1>9
    <3> QED
      BY <2>1, <3>1
  <2>3. ASSUME NEW i \in 1..n PROVE r[h + i] = w[i]
    <3>1. h + i \in 1..(Len(hd) + Len(w)) /\ ~(h + i <= Len(hd)) /\ (h + i) - Len(hd) = i
      BY <1>2, <1>7, <1>9
    <3> QED
      BY <2>1, <3>1
  <2> QED
    BY <1>7, <1>9, <2>1, <2>2, <2>3
<1>12. Announces(r, lit, n)
  <2>1. CASE IsShort(n)
    <3>1. h = 2 /\ r[1] = hd[1] /\ r[2] = hd[2]
      BY <1>11, <2>1 DEF Hdr
    <3>2. n < Base
      BY <2>1 DEF IsShort
    <3>3. n % Base = n
      <4>1. n = 0 * Base + n /\ n \in 0..(Base - 1) /\ Base \in Nat \ {0}
        BY <1>2, <3>2, TlvBytesAssumption
      <4> QED
        BY <1>2, <4>1, DivUnique
    <3>4. hd = <<Lit(lit, TRUE), Num(n)>>
      BY <1>8, <2>1, <3>3 DEF Header
    <3>5. hd[1] = Lit(lit, TRUE) /\ hd[2] = Num(n)
      BY <3>4
    <3>6. hd[1][2] = lit /\ hd[1][3] = TRUE /\ hd[2][2] = n
      BY <3>5 DEF Lit, Num
    <3> QED
      BY <2>1, <3>1, <3>6 DEF Announces
  <2>2. CASE ~IsShort(n)
    <3>1. h = 5 /\ \A i \in 1..5 : r[i] = hd[i]
      BY <1>11, <2>2 DEF Hdr
    <3>2. PICK x, p, q : x = Lit(lit, FALSE) /\ p = <<x>> /\ q = PutUint32(n)
      OBVIOUS
    <3>3. hd = p \o q
      BY <1>8, <2>2, <3>2 DEF Header
    <3>4. p \in Seq(Byte) /\ Len(p) = 1 /\ p[1] = x
      <4>1. x \in Byte
        BY <1>1, <3>2, Bytes
      <4>2. <<x>> \in Seq(Byte) /\ Len(<<x>>) = 1 /\ <<x>>[1] = x
        BY <4>1
      <4>3. p = <<x>>
        BY <3>2
      <4> QED
        BY <4>2, <4>3
    <3>5. q \in Seq(Byte) /\ Len(q) = 4
      BY <1>2, <3>2, Bytes
    <3>6. \A i \in 1..(Len(p) + Len(q)) : hd[i] = IF i <= Len(p) THEN p[i] ELSE q[i - Len(p)]
      BY <3>3, <3>4, <3>5, ConcatProperties
    <3>7. hd[1] = x
      <4>1. 1 \in 1..(Len(p) + Len(q)) /\ 1 <= Len(p)
        BY <3>4, <3>5
      <4> QED
        BY <3>4, <3>6, <4>1
    <3>8. ASSUME NEW i \in 1..4 PROVE r[1 + i] = PutUint32(n)[i]
      <4>1. 1 + i \in 1..(Len(p) + Len(q)) /\ ~(1 + i <= Len(p)) /\ (1 + i) - Len(p) = i
        BY <3>4, <3>5
      <4>2. 1 + i \in 1..5
        OBVIOUS
      <4> QED
        BY <3>1, <3>2, <3>6, <4>1, <4>2
    <3>9. r[1][2] = lit /\ r[1][3] = FALSE
      <4>1. r[1] = hd[1]
        <5>1. 1 \in 1..5
          OBVIOUS
        <5> QED
          BY <3>1, <5>1
      <4>2. x[2] = lit /\ x[3] = FALSE
        <5>1. x = Lit(lit, FALSE)
          BY <3>2
        <5> QED
          BY <5>1 DEF Lit
      <4> QED
        BY <3>7, <4>1, <4>2
    <3>10. IsShort(n) = FALSE
      BY <2>2 DEF IsShort
    <3> QED
      BY <2>2, <3>8, <3>9, <3>10 DEF Announces
  <2> QED
    BY <2>1, <2>2
<1>13. r[h + 1][2] = Len(k)
  <2>1. 1 \in 1..n /\ 1 \in 1..(1 + Len(k))
    BY <1>1, <1>2
  <2>2. r[h + 1] = Num(Len(k))
    BY <1>6, <1>7, <1>11, <2>1
  <2> QED
    BY <2>2 DEF Num
<1>14. ASSUME NEW i \in 1..Len(k) PROVE r[h + 1 + i] = k[i]
  <2>1. 1 + i \in 1..n /\ 1 + i \in 1..(1 + Len(k)) /\ h + (1 + i) = h + 1 + i
    BY <1>1, <1>2
  <2> QED
    BY <1>6, <1>7, <1>11, <2>1
<1>15. ASSUME NEW i \in 1..Len(v) PROVE r[h + 1 + Len(k) + i] = v[i]
  <2>1. PICK j : j = 1 + Len(k) + i
    OBVIOUS
  <2>2. j \in 1..n /\ h + j = h + 1 + Len(k) + i
    BY <1>1, <1>2, <2>1
  <2>3. r[h + j] = w[j] /\ w[j] = v[i]
    BY <1>7, <1>11, <2>1, <2>2
  <2> QED
    BY <2>2, <2>3
<1> QED
  BY <1>2, <1>11, <1>12, <1>13, <1>14, <1>15 DEF Laid

\* what both readers return then
Read(lit, k, v, rest) == [lit |-> lit, key |-> k, val |-> v, rest |-> rest, err |-> "nil"]

\* What the readers find in bytes that begin with a record.
Found(d, lit, k, v, rest, n, h) ==
  /\ d \in Seq(Byte) /\ d # <<>> /\ rest \in Seq(Byte) /\ k \in Seq(Byte) /\ v \in Seq(Byte)
  /\ n = 1 + Len(k) + Len(v) /\ h = Hdr(IsShort(n)) /\ Len(d) = h + n + Len(rest)
  /\ d[1][2] = lit /\ d[1][3] = IsShort(n)
  /\ IsShort(n) => d[2][2] = n
  /\ ~IsShort(n) => Uint32(SubSeq(d, 2, 5)) = n
  /\ d[h + 1][2] = Len(k)
  /\ \A i \in 1..Len(k) : d[h + 1 + i] = k[i]
  /\ \A i \in 1..Len(v) : d[h + 1 + Len(k) + i] = v[i]
  /\ \A i \in 1..Len(rest) : d[h + n + i] = rest[i]

\* from this length on Iter.Read refuses a record
Limit == ByteWeight[4] \div 4

\* A record that Iter.Read takes is not too long for ReadTLV either.
LEMMA Limits ==
  /\ ByteWeight[4] \in Nat /\ Limit \in Nat /\ MaxRecLen \in Int
  /\ Limit <= ByteWeight[4] /\ Limit - 1 <= MaxRecLen
<1>1. PICK w : w = ByteWeight[4]
  OBVIOUS
<1>2. w \in Nat
  BY <1>1, Weights DEF Powers
<1>3. w \div 4 \in Nat /\ w \div 4 <= w /\ w \div 4 <= w \div 2 /\ w \div 2 \in Nat
  BY <1>2
<1> QED
  BY <1>1, <1>2, <1>3 DEF Limit, MaxRecLen

\* A record and what is behind it are where the readers look for them.
LEMMA RecordFound ==
  ASSUME NEW r, NEW lit, NEW k, NEW v, NEW n, NEW h, Sized(r, lit, k, v, n, h), Len(r) < Limit,
         NEW rest \in Seq(Byte)
  PROVE  Found(r \o rest, lit, k, v, rest, n, h) /\ n < Limit
<1>c. Encodes(r, lit, k, v) /\ n = 1 + Len(k) + Len(v) /\ h = Hdr(IsShort(n))
  BY DEF Sized
<1>0. PICK d : d = r \o rest
  OBVIOUS
<1>1. /\ r \in Seq(Byte) /\ n \in Nat \ {0} /\ h \in {2, 5} /\ Len(r) = h + n
      /\ Announces(r, lit, n)
      /\ r[h + 1][2] = Len(k)
      /\ \A i \in 1..Len(k) : r[h + 1 + i] = k[i]
      /\ \A i \in 1..Len(v) : r[h + 1 + Len(k) + i] = v[i]
  <2>1. Laid(r, lit, k, v, n, h)
    BY RecordBytes
  <2> QED
    BY <2>1 DEF Laid
<1>2. /\ k \in Seq(Byte) /\ v \in Seq(Byte) /\ Len(k) \in Nat /\ Len(v) \in Nat
      /\ Len(rest) \in Nat /\ n = 1 + Len(k) + Len(v)
  BY <1>c DEF Encodes
<1>3. /\ d \in Seq(Byte) /\ Len(d) = h + n + Len(rest)
      /\ \A i \in 1..(h + n) : d[i] = r[i]
      /\ \A i \in 1..Len(rest) : d[h + n + i] = rest[i]
  <2>1. /\ d \in Seq(Byte) /\ Len(d) = Len(r) + Len(rest)
        /\ \A i \in 1..(Len(r) + Len(rest)) : d[i] = IF i <= Len(r) THEN r[i] ELSE rest[i - Len(r)]
    <3>1. r \in Seq(Byte)
      BY <1>1
    <3> QED
      BY <1>0, <3>1, ConcatProperties
  <2>2. ASSUME NEW i \in 1..(h + n) PROVE d[i] = r[i]
    <3>1. i \in 1..(Len(r) + Len(rest)) /\ i <= Len(r)
      BY <1>1, <1>2
    <3> QED
      BY <2>1, <3>1
  <2>3. ASSUME NEW i \in 1..Len(rest) PROVE d[h + n + i] = rest[i]
    <3>1. PICK j : j = h + n + i
      OBVIOUS
    <3>2. h + n \in Nat /\ Len(r) = h + n /\ i \in 1..Len(rest) /\ Len(rest) \in Nat
      BY <1>1, <1>2
    <3>3. j \in 1..(Len(r) + Len(rest)) /\ ~(j <= Len(r)) /\ j - Len(r) = i
      BY <3>1, <3>2
    <3> QED
      BY <2>1, <3>1, <3>3
  <2> QED
    BY <1>1, <2>1, <2>2, <2>3
<1>4. n < Limit
  <2>1. n \in Nat /\ h \in Nat /\ h + n < Limit
    BY <1>1
  <2> QED
    BY <2>1, Limits
<1>5. d # <<>>
  BY <1>1, <1>2, <1>3
<1>6. d[1][2] = lit /\ d[1][3] = IsShort(n)
  <2>1. 1 \in 1..(h + n)
    BY <1>1
  <2> QED
    BY <1>1, <1>3, <2>1 DEF Announces
<1>7. IsShort(n) => d[2][2] = n
  <2>1. 2 \in 1..(h + n)
    BY <1>1
  <2> QED
    BY <1>1, <1>3, <2>1 DEF Announces
<1>8. ASSUME ~IsShort(n) PROVE Uint32(SubSeq(d, 2, 5)) = n
  <2>1. h = 5
    BY <1>c, <1>8 DEF Hdr
  <2>2. PICK s : s = SubSeq(d, 2, 5)
    OBVIOUS
  <2>3. \A i \in 1..4 : s[i] = d[1 + i]
    <3>1. SubSeq(d, 1 + 1, 5) = s
      BY <2>2
    <3>2. 5 <= Len(d) /\ 5 \in Nat /\ 1 \in Nat /\ 1 <= 5
      BY <1>1, <1>2, <1>3, <2>1
    <3>3. PICK o, j : o = 1 /\ j = 5
      OBVIOUS
    <3>4. d \in Seq(Byte) /\ o \in Nat /\ j \in Nat /\ o <= j /\ j <= Len(d)
      BY <1>3, <3>2, <3>3
    <3>5. \A i \in 1..(j - o) : SubSeq(d, o + 1, j)[i] = d[o + i]
      BY <3>4, Part
    <3>6. j - o = 4
      BY <3>3
    <3> QED
      BY <3>1, <3>3, <3>5, <3>6
  <2>4. ASSUME NEW i \in 1..4 PROVE s[i] = PutUint32(n)[i]
    <3>1. 1 + i \in 1..(h + n)
      BY <1>1, <2>1
    <3> QED
      BY <1>1, <1>3, <1>8, <2>3, <3>1 DEF Announces
  <2>5. n \in Nat /\ n < ByteWeight[4]
    BY <1>1, <1>4, Limits
  <2> QED
    BY <2>2, <2>4, <2>5, LengthReads
<1>9. d[h + 1][2] = Len(k)
  <2>1. h + 1 \in 1..(h + n)
    BY <1>1
  <2>2. d[h + 1] = r[h + 1]
    BY <1>3, <2>1
  <2> QED
    BY <1>1, <2>2
<1>10. ASSUME NEW i \in 1..Len(k) PROVE d[h + 1 + i] = k[i]
  <2>1. h + 1 + i \in 1..(h + n)
    <3>1. h \in Nat /\ i \in 1..Len(k) /\ Len(k) \in Nat /\ n = 1 + Len(k) + Len(v) /\ Len(v) \in Nat
      BY <1>1, <1>2
    <3> QED
      BY <3>1
  <2>2. d[h + 1 + i] = r[h + 1 + i]
    BY <1>3, <2>1
  <2> QED
    BY <1>1, <2>2
<1>11. ASSUME NEW i \in 1..Len(v) PROVE d[h + 1 + Len(k) + i] = v[i]
  <2>1. PICK p : p = h + 1 + Len(k) + i
    OBVIOUS
  <2>2. p \in 1..(h + n)
    <3>1. /\ h \in Nat /\ i \in 1..Len(v) /\ Len(k) \in Nat /\ Len(v) \in Nat
          /\ n = 1 + Len(k) + Len(v)
      BY <1>1, <1>2
    <3> QED
      BY <2>1, <3>1
  <2>3. d[p] = r[p] /\ r[p] = v[i]
    BY <1>1, <1>3, <2>1, <2>2
  <2> QED
    BY <2>1, <2>3
<1> QED
  <2>1. Found(d, lit, k, v, rest, n, h)
    BY <1>c, <1>1, <1>2, <1>3, <1>5, <1>6, <1>7, <1>8, <1>9, <1>10, <1>11 DEF Found
  <2> QED
    BY <1>0, <1>4, <2>1

\* ReadTLKV takes them apart.
LEMMA KeyReads ==
  ASSUME NEW d, NEW lit, NEW k, NEW v, NEW rest, NEW n, NEW h,
         Found(d, lit, k, v, rest, n, h), n < Limit, Len(k) + 6 < Base
  PROVE  ReadTLKV(d) = Read(lit, k, v, rest)
<1>0. /\ d \in Seq(Byte) /\ d # <<>> /\ rest \in Seq(Byte) /\ k \in Seq(Byte) /\ v \in Seq(Byte)
      /\ n = 1 + Len(k) + Len(v) /\ h = Hdr(IsShort(n)) /\ Len(d) = h + n + Len(rest)
      /\ d[1][2] = lit /\ d[1][3] = IsShort(n)
      /\ IsShort(n) => d[2][2] = n
      /\ ~IsShort(n) => Uint32(SubSeq(d, 2, 5)) = n
      /\ d[h + 1][2] = Len(k)
      /\ \A i \in 1..Len(k) : d[h + 1 + i] = k[i]
      /\ \A i \in 1..Len(v) : d[h + 1 + Len(k) + i] = v[i]
      /\ \A i \in 1..Len(rest) : d[h + n + i] = rest[i]
  BY DEF Found
<1>1. PICK a, b, e, m : a = Len(k) /\ b = Len(v) /\ e = Len(rest) /\ m = Len(d)
  OBVIOUS
<1>2. /\ a \in Nat /\ b \in Nat /\ e \in Nat /\ n = 1 + a + b /\ n \in Nat \ {0}
      /\ h \in {2, 5} /\ m = h + n + e
  BY <1>0, <1>1 DEF Hdr
<1>3. PICK short : short = d[1][3]
  OBVIOUS
<1>4. short \in BOOLEAN /\ short = IsShort(n) /\ h = IF short THEN 2 ELSE 5
  <2>1. IsShort(n) \in BOOLEAN
    BY DEF IsShort
  <2>2. short = IsShort(n)
    BY <1>0, <1>3
  <2>3. h = Hdr(short)
    BY <1>0, <2>2
  <2> QED
    BY <2>1, <2>2, <2>3 DEF Hdr
<1>5. (IF short THEN d[2][2] ELSE Uint32(SubSeq(d, 2, 5))) = n
  BY <1>0, <1>4
<1>6. PICK value : value = SubSeq(d, h + 1, h + n)
  OBVIOUS
<1>7. value \in Seq(Byte) /\ Len(value) = n /\ \A i \in 1..n : value[i] = d[h + i]
  <2>1. PICK j : j = h + n
    OBVIOUS
  <2>2. h \in Nat /\ j \in Nat /\ h <= j /\ j <= Len(d) /\ j - h = n
    BY <1>1, <1>2, <2>1
  <2>3. /\ SubSeq(d, h + 1, j) \in Seq(Byte)
        /\ Len(SubSeq(d, h + 1, j)) = j - h
        /\ \A i \in 1..(j - h) : SubSeq(d, h + 1, j)[i] = d[h + i]
    <3>1. d \in Seq(Byte)
      BY <1>0
    <3> QED
      BY <2>2, <3>1, Part
  <2> QED
    BY <1>6, <2>1, <2>2, <2>3
<1>8. value[1][2] = a
  <2>1. 1 \in 1..n
    BY <1>2
  <2> QED
    BY <1>0, <1>1, <1>7, <2>1
<1>9. SubSeq(value, 2, a + 1) = k
  <2>1. ASSUME NEW i \in 1..Len(k) PROVE value[1 + i] = k[i]
    <3>1. 1 + i \in 1..n /\ h + (1 + i) = h + 1 + i
      BY <1>1, <1>2
    <3> QED
      BY <1>0, <1>7, <3>1
  <2>2. a + 1 \in Nat /\ 1 \in Nat /\ a + 1 <= Len(value) /\ a + 1 = 1 + Len(k)
    BY <1>1, <1>2, <1>7
  <2>3. SubSeq(value, 1 + 1, a + 1) = k
    BY <1>0, <1>7, <2>1, <2>2, PartIs
  <2> QED
    BY <2>3
<1>10. SubSeq(value, a + 2, n) = v
  <2>0. PICK c : c = a + 1
    OBVIOUS
  <2>1. ASSUME NEW i \in 1..Len(v) PROVE value[c + i] = v[i]
    <3>1. c + i \in 1..n /\ h + (c + i) = h + 1 + a + i
      BY <1>1, <1>2, <2>0
    <3>2. value[c + i] = d[h + 1 + a + i]
      BY <1>7, <3>1
    <3> QED
      BY <1>0, <1>1, <3>2
  <2>2. c \in Nat /\ n \in Nat /\ n <= Len(value) /\ n = c + Len(v) /\ c + 1 = a + 2
    BY <1>1, <1>2, <1>7, <2>0
  <2>3. SubSeq(value, c + 1, n) = v
    BY <1>0, <1>7, <2>1, <2>2, PartIs
  <2> QED
    BY <2>2, <2>3
<1>11. SubSeq(d, h + n + 1, m) = rest
  <2>0. PICK c : c = h + n
    OBVIOUS
  <2>1. \A i \in 1..Len(rest) : d[c + i] = rest[i]
    BY <1>0, <2>0
  <2>2. c \in Nat /\ m \in Nat /\ m <= Len(d) /\ m = c + Len(rest)
    BY <1>1, <1>2, <2>0
  <2>3. SubSeq(d, c + 1, m) = rest
    BY <1>0, <2>1, <2>2, PartIs
  <2> QED
    BY <2>0, <2>3
<1>12. ~(m < h) /\ ~(n > MaxRecLen)
  BY <1>2, Limits
<1>13. ~(n > m + (IF short THEN -2 ELSE 5))
  BY <1>2, <1>4
<1>14. ~(~short /\ n \in (m - 4)..(m + 5))
  BY <1>2, <1>4
<1>15. ~(Len(value) < a + 1) /\ ~(a + 1 = Base)
  BY <1>1, <1>2, <1>7, TlvBytesAssumption
<1> QED
  <2>1. d # <<>> /\ d[1][2] = lit /\ Len(d) = m /\ d[1][3] = short
    BY <1>0, <1>1, <1>3
  <2>2. value # <<>> /\ Len(value) = n
    <3>1. Len(value) # 0
      BY <1>2, <1>7
    <3> QED
      BY <1>7, <3>1, EmptySeq
  <2>3. CASE short
    <3>1. /\ d[1][3] = TRUE /\ h = 2 /\ d[2][2] = n /\ ~(n > m + (-2))
      BY <1>4, <1>5, <1>13, <2>1, <2>3
    <3>2. /\ value = SubSeq(d, 2 + 1, 2 + n) /\ SubSeq(d, 2 + n + 1, m) = rest /\ ~(m < 2)
      BY <1>6, <1>11, <1>12, <3>1
    <3> QED
      BY <1>8, <1>9, <1>10, <1>12, <1>15, <2>1, <2>2, <3>1, <3>2 DEF ReadTLKV, Read
  <2>4. CASE ~short
    <3>1. /\ d[1][3] = FALSE /\ h = 5 /\ Uint32(SubSeq(d, 2, 5)) = n /\ ~(n > m + 5)
          /\ ~(n \in (m - 4)..(m + 5))
      BY <1>4, <1>5, <1>13, <1>14, <2>1, <2>4
    <3>2. /\ value = SubSeq(d, 5 + 1, 5 + n) /\ SubSeq(d, 5 + n + 1, m) = rest /\ ~(m < 5)
      BY <1>6, <1>11, <1>12, <3>1
    <3> QED
      BY <1>8, <1>9, <1>10, <1>12, <1>15, <2>1, <2>2, <3>1, <3>2 DEF ReadTLKV, Read
  <2> QED
    BY <1>4, <2>3, <2>4

\* Iter.Read takes them apart, and leaves the same.
LEMMA IterReads ==
  ASSUME NEW d, NEW lit, NEW k, NEW v, NEW rest, NEW n, NEW h,
         Found(d, lit, k, v, rest, n, h), n < Limit, Len(k) + 6 < Base
  PROVE  IterRead(d) = Read(lit, k, v, rest)
<1>0. /\ d \in Seq(Byte) /\ d # <<>> /\ rest \in Seq(Byte) /\ k \in Seq(Byte) /\ v \in Seq(Byte)
      /\ n = 1 + Len(k) + Len(v) /\ h = Hdr(IsShort(n)) /\ Len(d) = h + n + Len(rest)
      /\ d[1][2] = lit /\ d[1][3] = IsShort(n)
      /\ IsShort(n) => d[2][2] = n
      /\ ~IsShort(n) => Uint32(SubSeq(d, 2, 5)) = n
      /\ d[h + 1][2] = Len(k)
      /\ \A i \in 1..Len(k) : d[h + 1 + i] = k[i]
      /\ \A i \in 1..Len(v) : d[h + 1 + Len(k) + i] = v[i]
      /\ \A i \in 1..Len(rest) : d[h + n + i] = rest[i]
  BY DEF Found
<1>1. PICK a, b, e, m, g : a = Len(k) /\ b = Len(v) /\ e = Len(rest) /\ m = Len(d) /\ g = h + 1
  OBVIOUS
<1>2. /\ a \in Nat /\ b \in Nat /\ e \in Nat /\ n = 1 + a + b /\ n \in Nat \ {0}
      /\ h \in {2, 5} /\ m = h + n + e /\ g \in {3, 6}
  BY <1>0, <1>1 DEF Hdr
<1>3. PICK short : short = d[1][3]
  OBVIOUS
<1>4. short \in BOOLEAN /\ short = IsShort(n) /\ g = IF short THEN 3 ELSE 6
  <2>1. IsShort(n) \in BOOLEAN
    BY DEF IsShort
  <2>2. short = IsShort(n)
    BY <1>0, <1>3
  <2>3. h = Hdr(short)
    BY <1>0, <2>2
  <2> QED
    BY <1>1, <2>1, <2>2, <2>3 DEF Hdr
<1>5. (IF short THEN d[2][2] ELSE Uint32(SubSeq(d, 2, 5))) = n
  BY <1>0, <1>4
<1>6. d[g][2] = a
  BY <1>0, <1>1
<1>9. SubSeq(d, g + 1, g + a) = k
  <2>0. PICK j : j = g + a
    OBVIOUS
  <2>1. \A i \in 1..Len(k) : d[g + i] = k[i]
    BY <1>0, <1>1
  <2>2. g \in Nat /\ j \in Nat /\ j <= Len(d) /\ j = g + Len(k)
    BY <1>1, <1>2, <2>0
  <2>3. SubSeq(d, g + 1, j) = k
    BY <1>0, <2>1, <2>2, PartIs
  <2> QED
    BY <2>0, <2>3
<1>10. SubSeq(d, g + a + 1, g + n - 1) = v
  <2>0. PICK c, j : c = g + a /\ j = g + n - 1
    OBVIOUS
  <2>1. \A i \in 1..Len(v) : d[c + i] = v[i]
    BY <1>0, <1>1, <2>0
  <2>2. c \in Nat /\ j \in Nat /\ j <= Len(d) /\ j = c + Len(v)
    BY <1>1, <1>2, <2>0
  <2>3. SubSeq(d, c + 1, j) = v
    BY <1>0, <2>1, <2>2, PartIs
  <2> QED
    BY <2>0, <2>3
<1>11. SubSeq(d, g + n, m) = rest
  <2>0. PICK c : c = h + n
    OBVIOUS
  <2>1. \A i \in 1..Len(rest) : d[c + i] = rest[i]
    BY <1>0, <2>0
  <2>2. c \in Nat /\ m \in Nat /\ m <= Len(d) /\ m = c + Len(rest) /\ c + 1 = g + n
    BY <1>1, <1>2, <2>0
  <2>3. SubSeq(d, c + 1, m) = rest
    BY <1>0, <2>1, <2>2, PartIs
  <2> QED
    BY <2>2, <2>3
<1>12. ~(m < g) /\ ~(n >= ByteWeight[4] \div 4) /\ ~(m < g + n - 1) /\ ~(a > n)
  BY <1>1, <1>2, Limits DEF Limit
<1>16. ~(a = n) /\ ~(g + a >= Base)
  BY <1>1, <1>2, TlvBytesAssumption
<1>13. d # <<>> /\ d[1][2] = lit
  BY <1>0
<1>14. CASE short
  <2>1. g = 3 /\ d[1][3] = TRUE /\ d[2][2] = n
    BY <1>3, <1>4, <1>5, <1>14
  <2>2. /\ SubSeq(d, 3 + 1, 3 + a) = k /\ SubSeq(d, 3 + a + 1, 3 + n - 1) = v
        /\ SubSeq(d, 3 + n, m) = rest /\ d[3][2] = a
        /\ ~(m < 3) /\ ~(m < 3 + n - 1) /\ ~(a > n) /\ ~(a = n) /\ ~(3 + a >= Base)
    BY <1>6, <1>9, <1>10, <1>11, <1>12, <1>16, <2>1
  <2> QED
    BY <1>1, <1>13, <2>1, <2>2 DEF IterRead, Read
<1>15. CASE ~short
  <2>1. g = 6 /\ d[1][3] = FALSE /\ Uint32(SubSeq(d, 2, 5)) = n
    BY <1>3, <1>4, <1>5, <1>15
  <2>2. /\ SubSeq(d, 6 + 1, 6 + a) = k /\ SubSeq(d, 6 + a + 1, 6 + n - 1) = v
        /\ SubSeq(d, 6 + n, m) = rest /\ d[6][2] = a
        /\ ~(m < 6) /\ ~(m < 6 + n - 1) /\ ~(a > n) /\ ~(n >= ByteWeight[4] \div 4)
        /\ ~(a = n) /\ ~(6 + a >= Base)
    BY <1>6, <1>9, <1>10, <1>11, <1>12, <1>16, <2>1
  <2> QED
    BY <1>1, <1>13, <2>1, <2>2 DEF IterRead, Read
<1> QED
  BY <1>14, <1>15

\* Iter.Read asks for more of a record than it was given, wherever it was cut.
LEMMA CutWaits ==
  ASSUME NEW r, NEW lit, NEW k, NEW v, Encodes(r, lit, k, v), Len(r) < Limit,
         NEW c \in 1..(Len(r) - 1)
  PROVE  IterRead(SubSeq(r, 1, c)).err = "ErrIncomplete"
<1>0. PICK n, h, g, d : /\ n = 1 + Len(k) + Len(v) /\ h = Hdr(IsShort(n)) /\ g = h + 1
                        /\ d = SubSeq(r, 1, c)
  OBVIOUS
<1>1. /\ r \in Seq(Byte) /\ n \in Nat \ {0} /\ h \in {2, 5} /\ Len(r) = h + n
      /\ Announces(r, lit, n)
  <2>1. Sized(r, lit, k, v, n, h)
    BY <1>0 DEF Sized
  <2> QED
    <3>1. Laid(r, lit, k, v, n, h)
      BY <2>1, RecordBytes
    <3> QED
      BY <3>1 DEF Laid
<1>2. d \in Seq(Byte) /\ Len(d) = c /\ \A i \in 1..c : d[i] = r[i]
  <2>1. PICK o : o = 0
    OBVIOUS
  <2>2. r \in Seq(Byte) /\ o \in Nat /\ c \in Nat /\ o <= c /\ c <= Len(r) /\ c - o = c
    BY <1>1, <2>1
  <2>3. /\ SubSeq(r, o + 1, c) \in Seq(Byte) /\ Len(SubSeq(r, o + 1, c)) = c - o
        /\ \A i \in 1..(c - o) : SubSeq(r, o + 1, c)[i] = r[o + i]
    BY <2>2, Part
  <2>4. o + 1 = 1 /\ \A i \in 1..c : o + i = i
    BY <2>1
  <2> QED
    BY <1>0, <2>2, <2>3, <2>4
<1>3. d # <<>> /\ c \in Nat /\ c < h + n /\ 1 \in 1..c
  BY <1>1, <1>2
<1>4. PICK short : short = d[1][3]
  OBVIOUS
<1>5. short \in BOOLEAN /\ short = IsShort(n) /\ g = IF short THEN 3 ELSE 6
  <2>1. IsShort(n) \in BOOLEAN
    BY DEF IsShort
  <2>2. short = IsShort(n)
    BY <1>1, <1>2, <1>3, <1>4 DEF Announces
  <2>3. h = Hdr(short)
    BY <1>0, <2>2
  <2> QED
    BY <1>0, <2>1, <2>2, <2>3 DEF Hdr
<1>6. n < Limit
  BY <1>1, Limits
<1>7. CASE c < g
  <2>1. CASE short
    <3>1. c < 3 /\ d[1][3] = TRUE
      BY <1>4, <1>5, <1>7, <2>1
    <3>2. d # <<>> /\ Len(d) = c /\ c < 3 /\ ~(c >= 3)
      BY <1>2, <1>3, <3>1
    <3>3. IterRead(d).err = "ErrIncomplete"
      BY <3>1, <3>2 DEF IterRead, Unread, IterIncomplete
    <3> QED
      BY <1>0, <3>3
  <2>2. CASE ~short
    <3>1. c < 6 /\ d[1][3] = FALSE
      BY <1>4, <1>5, <1>7, <2>2
    <3>2. d # <<>> /\ Len(d) = c /\ c < 6 /\ ~(c >= 6)
      BY <1>2, <1>3, <3>1
    <3>3. IterRead(d).err = "ErrIncomplete"
      BY <3>1, <3>2 DEF IterRead, Unread, IterIncomplete
    <3> QED
      BY <1>0, <3>3
  <2> QED
    BY <1>5, <2>1, <2>2
<1>8. CASE ~(c < g)
  <2>1. CASE short
    <3>1. d[1][3] = TRUE /\ g = 3 /\ h = 2
      <4>1. short = TRUE /\ g = 3 /\ g = h + 1 /\ h \in {2, 5}
        BY <1>0, <1>1, <1>5, <2>1
      <4> QED
        BY <1>4, <4>1
    <3>2. 2 \in 1..c /\ ~(c < 3) /\ c < 3 + n - 1
      BY <1>1, <1>3, <1>8, <3>1
    <3>3. d[2][2] = n
      BY <1>1, <1>2, <1>5, <2>1, <3>2 DEF Announces
    <3> QED
      <4>1. d # <<>> /\ Len(d) = c /\ n \in Nat /\ d[1][3] = TRUE
        BY <1>1, <1>2, <1>3, <3>1
      <4>2. c >= 3 /\ ~(c < 3) /\ c < 3 + n - 1 /\ ~(c >= 3 + n - 1)
        BY <1>1, <1>3, <3>2
      <4> QED
        BY <1>0, <3>3, <4>1, <4>2 DEF IterRead, Unread, IterIncomplete
  <2>2. CASE ~short
    <3>1. d[1][3] = FALSE /\ g = 6 /\ h = 5
      <4>1. short = FALSE /\ g = 6 /\ g = h + 1 /\ h \in {2, 5}
        BY <1>0, <1>1, <1>5, <2>2
      <4> QED
        BY <1>4, <4>1
    <3>2. 5 \in 1..c /\ ~(c < 6) /\ c < 6 + n - 1 /\ 5 <= c
      BY <1>1, <1>3, <1>8, <3>1
    <3>3. Uint32(SubSeq(d, 2, 5)) = n
      <4>1. PICK o, j, s : o = 1 /\ j = 5 /\ s = SubSeq(d, o + 1, j)
        OBVIOUS
      <4>2. d \in Seq(Byte) /\ o \in Nat /\ j \in Nat /\ o <= j /\ j <= Len(d) /\ j - o = 4
        BY <1>2, <3>2, <4>1
      <4>3. \A i \in 1..(j - o) : SubSeq(d, o + 1, j)[i] = d[o + i]
        BY <4>2, Part
      <4>4. ASSUME NEW i \in 1..4 PROVE s[i] = PutUint32(n)[i]
        <5>1. s[i] = d[1 + i] /\ 1 + i \in 1..c
          BY <3>2, <4>1, <4>2, <4>3
        <5>2. d[1 + i] = r[1 + i]
          BY <1>2, <5>1
        <5>3. r[1 + i] = PutUint32(n)[i]
          BY <1>1, <1>5, <2>2 DEF Announces
        <5> QED
          BY <5>1, <5>2, <5>3
      <4>5. n \in Nat /\ n < ByteWeight[4]
        BY <1>1, <1>6, Limits
      <4>6. Uint32(s) = n
        BY <4>4, <4>5, LengthReads
      <4> QED
        BY <4>1, <4>6
    <3>4. n < ByteWeight[4] \div 4 /\ ~(n >= ByteWeight[4] \div 4)
      BY <1>1, <1>6, Limits DEF Limit
    <3> QED
      <4>1. d # <<>> /\ Len(d) = c /\ n \in Nat /\ d[1][3] = FALSE
        BY <1>1, <1>2, <1>3, <3>1
      <4>2. c >= 6 /\ ~(c < 6) /\ c < 6 + n - 1 /\ ~(c >= 6 + n - 1)
        BY <1>1, <1>3, <3>2
      <4> QED
        BY <1>0, <3>3, <3>4, <4>1, <4>2 DEF IterRead, Unread, IterIncomplete
  <2> QED
    BY <1>5, <2>1, <2>2
<1> QED
  BY <1>7, <1>8
-----------------------------------------------------------------------------
(* What is at each level: records at the top, below it a key first, and a  *)
(* record is open only behind one.                                         *)

KeyItem(i) ==
  \E k \in Seq(Byte) : Len(k) < Base /\ Len(k) \in KeyLens /\ i = <<Num(Len(k))>> \o k
RecordItem(r) == \E lit, k, v : Encodes(r, lit, k, v)

ItemsOK ==
  /\ Len(data) <= MaxData
  /\ \A j \in 1..Len(level[1]) : RecordItem(level[1][j])
  /\ \A k \in 2..Len(level) : level[k] # <<>> => KeyItem(level[k][1])
  /\ \A k \in 2..(Len(level) - 1) : level[k] # <<>>

RInv == WInv /\ (status = "ok" => ItemsOK)

\* A key and what comes after it make a record.
LEMMA ClosesRecord ==
  ASSUME NEW its \in Seq(Seq(Byte)), its # <<>>, KeyItem(its[1]), NEW lit \in AllLits
  PROVE  RecordItem(WriteTLV(lit, FlattenSeq(its)))
<1>1. PICK k \in Seq(Byte) : Len(k) < Base /\ Len(k) \in KeyLens /\ its[1] = <<Num(Len(k))>> \o k
  BY DEF KeyItem
<1>2. PICK a, t : a = its[1] /\ t = Tail(its)
  OBVIOUS
<1>3. Len(its) \in Nat /\ 1 \in 1..Len(its)
  <2>1. Len(its) \in Nat /\ Len(its) # 0
    BY EmptySeq
  <2> QED
    BY <2>1
<1>4. a \in Seq(Byte) /\ t \in Seq(Seq(Byte))
  <2>1. a \in Seq(Byte)
    BY <1>2, <1>3, ElementOfSeq
  <2>2. t \in Seq(Seq(Byte))
    BY <1>2, HeadTailProperties
  <2> QED
    BY <2>1, <2>2
<1>5. <<a>> \in Seq(Seq(Byte)) /\ its = <<a>> \o t
  <2>1. PICK Q : Q = Seq(Byte)
    OBVIOUS
  <2>2. its \in Seq(Q) /\ a \in Q
    BY <1>4, <2>1
  <2>3. <<a>> \in Seq(Q) /\ Len(<<a>>) = 1 /\ <<a>>[1] = a
    BY <2>2
  <2>4. SubSeq(its, 1, Len(its)) = <<its[1]>> \o SubSeq(its, 1 + 1, Len(its))
    <3>1. Len(its) \in 1..Len(its)
      BY <1>3
    <3> QED
      BY <1>3, <2>2, <3>1, SubSeqRecursiveFirst
  <2>5. SubSeq(its, 1, Len(its)) = its
    BY SubSeqFull
  <2>6. SubSeq(its, 1 + 1, Len(its)) = t
    <3>1. Tail(SubSeq(its, 1, Len(its))) = SubSeq(its, 1 + 1, Len(its))
      <4>1. Len(its) \in 1..Len(its)
        BY <1>3
      <4> QED
        BY <1>3, <2>2, <4>1, HeadTailOfSubSeq
    <3> QED
      BY <1>2, <2>5, <3>1
  <2> QED
    BY <1>2, <2>1, <2>3, <2>4, <2>5, <2>6
<1>6. PICK v : v = FlattenSeq(t)
  OBVIOUS
<1>7. v \in Seq(Byte)
  BY <1>4, <1>6, FlattenFacts
<1>8. FlattenSeq(its) = a \o v
  <2>1. FlattenSeq(<<a>> \o t) = FlattenSeq(<<a>>) \o FlattenSeq(t)
    BY <1>4, <1>5, FlattenConcat
  <2>2. FlattenSeq(<<a>>) = a
    BY <1>4, FlattenSmall
  <2> QED
    BY <1>5, <1>6, <2>1, <2>2
<1>9. FlattenSeq(its) = Body(k, v)
  BY <1>1, <1>2, <1>8 DEF Body
<1>10. Encodes(WriteTLV(lit, FlattenSeq(its)), lit, k, v)
  BY <1>1, <1>7, <1>9 DEF Encodes
<1> QED
  BY <1>10 DEF RecordItem

\* WriteTLKV does not cut a key that fits.
LEMMA WritesRecord ==
  ASSUME NEW lit \in AllLits, NEW key \in Keys, NEW val \in Values, Len(key) < Base
  PROVE  RecordItem(WriteTLKV(lit, key, val))
<1>1. key \in Seq(Byte) /\ val \in Seq(Byte) /\ Len(key) \in Nat /\ Base \in Nat \ {0, 1, 2}
  BY Bytes, LenProperties, TlvBytesAssumption
<1>2. ~(Len(key) > Base - 1)
  BY <1>1
<1>3. WriteTLKV(lit, key, val) = WriteTLV(lit, Body(key, val))
  BY <1>2 DEF WriteTLKV, Body
<1>4. Encodes(WriteTLKV(lit, key, val), lit, key, val)
  BY <1>1, <1>3 DEF Encodes, KeyLens
<1> QED
  BY <1>4 DEF RecordItem

\* Something is appended to the top level.
LEMMA PutItems ==
  ASSUME WInv, ItemsOK, WInv', NEW item \in Seq(Byte), Put(item),
         stack = <<>> => RecordItem(item),
         stack # <<>> /\ Items = <<>> => KeyItem(item)
  PROVE  ItemsOK'
<1>0. PICK n : n = Len(level)
  OBVIOUS
<1>1. /\ status = "ok" /\ data' = data \o item /\ Len(data) + Len(item) <= MaxData
      /\ level' = [level EXCEPT ![n] = Append(@, item)]
  BY <1>0 DEF Put, Room, Given
<1>2. /\ data \in Seq(Byte) /\ level \in Seq(Seq(Seq(Byte))) /\ n = Len(stack) + 1
      /\ stack \in Seq([start : Nat, lit : AllLits])
  BY <1>0, <1>1 DEF WInv, WriterTypeOK
<1>3. n \in Nat \ {0} /\ n \in 1..Len(level) /\ (n = 1 <=> stack = <<>>)
  <2>1. Len(stack) \in Nat /\ (Len(stack) = 0 <=> stack = <<>>)
    BY <1>2, EmptySeq
  <2> QED
    BY <1>0, <1>2, <2>1
<1>4. PICK its, new : its = level[n] /\ new = Append(its, item)
  OBVIOUS
<1>5. its \in Seq(Seq(Byte)) /\ Items = its
  <2>1. its \in Seq(Seq(Byte))
    BY <1>2, <1>3, <1>4, ElementOfSeq
  <2> QED
    BY <1>0, <1>4, <2>1 DEF Items, Last
<1>6. /\ new \in Seq(Seq(Byte)) /\ new # <<>> /\ Len(new) = Len(its) + 1 /\ Len(its) \in Nat
      /\ \A i \in 1..Len(its) : new[i] = its[i]
      /\ new[Len(its) + 1] = item
  BY <1>4, <1>5, AppendProperties
<1>7. /\ Len(level') = n /\ level'[n] = new
      /\ \A k \in 1..n : k # n => level'[k] = level[k]
  <2>1. level' = [level EXCEPT ![n] = new]
    BY <1>1, <1>4
  <2>2. /\ Len(level') = Len(level)
        /\ \A k \in 1..Len(level) : level'[k] = IF k = n THEN new ELSE level[k]
    <3>1. PICK Q : Q = Seq(Seq(Byte))
      OBVIOUS
    <3>2. level \in Seq(Q) /\ new \in Q /\ n \in 1..Len(level)
      BY <1>2, <1>3, <1>6, <3>1
    <3> QED
      BY <2>1, <3>2, ExceptSeq
  <2> QED
    BY <1>0, <1>3, <2>2
<1>8. Len(data') <= MaxData
  <2>1. Len(data') = Len(data) + Len(item)
    BY <1>1, <1>2, ConcatProperties
  <2> QED
    BY <1>1, <2>1
<1>9. ASSUME NEW j \in 1..Len(level'[1]) PROVE RecordItem(level'[1][j])
  <2>1. CASE n = 1
    <3>1. level'[1] = new /\ level[1] = its /\ j \in 1..(Len(its) + 1)
      BY <1>4, <1>6, <1>7, <2>1
    <3>2. CASE j = Len(its) + 1
      BY <1>3, <1>6, <2>1, <3>1, <3>2
    <3>3. CASE j # Len(its) + 1
      <4>1. j \in 1..Len(its)
        BY <1>6, <3>1, <3>3
      <4> QED
        BY <1>6, <3>1, <4>1 DEF ItemsOK
    <3> QED
      BY <3>2, <3>3
  <2>2. CASE n # 1
    <3>1. 1 \in 1..n
      BY <1>3
    <3>2. level'[1] = level[1]
      BY <1>7, <2>2, <3>1
    <3> QED
      BY <3>2 DEF ItemsOK
  <2> QED
    BY <2>1, <2>2
<1>10. ASSUME NEW k \in 2..n, level'[k] # <<>> PROVE KeyItem(level'[k][1])
  <2>1. CASE k = n
    <3>1. level'[k] = new /\ n # 1
      BY <1>3, <1>7, <2>1
    <3>2. CASE its = <<>>
      <4>1. Len(its) = 0
        BY <3>2
      <4> QED
        BY <1>3, <1>5, <1>6, <3>1, <3>2, <4>1
    <3>3. CASE its # <<>>
      <4>1. 1 \in 1..Len(its)
        <5>1. Len(its) # 0
          BY <1>5, <3>3, EmptySeq
        <5> QED
          BY <1>6, <5>1
      <4>2. new[1] = its[1]
        BY <1>6, <4>1
      <4>3. KeyItem(its[1])
        BY <1>0, <1>4, <2>1, <3>3 DEF ItemsOK
      <4> QED
        BY <3>1, <4>2, <4>3
    <3> QED
      BY <3>2, <3>3
  <2>2. CASE k # n
    <3>1. k \in 1..n
      BY <1>3
    <3>2. level'[k] = level[k]
      BY <1>7, <2>2, <3>1
    <3> QED
      BY <1>0, <1>10, <3>2 DEF ItemsOK
  <2> QED
    BY <2>1, <2>2
<1>11. ASSUME NEW k \in 2..(n - 1) PROVE level'[k] # <<>>
  <2>1. k \in 1..n /\ k # n
    BY <1>3
  <2> QED
    BY <1>0, <1>7, <2>1 DEF ItemsOK
<1> QED
  BY <1>7, <1>8, <1>9, <1>10, <1>11 DEF ItemsOK

\* Sequences as long as one another.
LEMMA SameLength ==
  ASSUME NEW S, NEW d \in Seq(S), NEW n \in Nat, DOMAIN d = 1..n
  PROVE  Len(d) = n
<1>1. PICK m : m = Len(d)
  OBVIOUS
<1>2. m \in Nat /\ 1..m = 1..n
  BY <1>1
<1>3. m <= n
  <2>1. CASE m = 0
    BY <2>1
  <2>2. CASE m # 0
    <3>1. m \in 1..m
      BY <1>2, <2>2
    <3>2. m \in 1..n
      BY <1>2, <3>1
    <3> QED
      BY <3>2
  <2> QED
    BY <2>1, <2>2
<1>4. n <= m
  <2>1. CASE n = 0
    BY <1>2, <2>1
  <2>2. CASE n # 0
    <3>1. n \in 1..n
      BY <2>2
    <3>2. n \in 1..m
      BY <1>2, <3>1
    <3> QED
      BY <3>2
  <2> QED
    BY <2>1, <2>2
<1> QED
  BY <1>1, <1>2, <1>3, <1>4

\* The levels of a buffer that is sound.
LEMMA LevelFacts ==
  ASSUME WInv, status = "ok", NEW n, n = Len(level)
  PROVE  /\ data \in Seq(Byte) /\ level \in Seq(Seq(Seq(Byte))) /\ n = Len(stack) + 1
         /\ n \in Nat \ {0} /\ n \in 1..Len(level) /\ (n = 1 <=> stack = <<>>)
         /\ Items = level[n] /\ Len(data) \in Nat
         /\ \A k \in 1..n : level[k] \in Seq(Seq(Byte)) /\ Len(level[k]) \in Nat
                            /\ (level[k] # <<>> <=> Len(level[k]) # 0)
<1>1. /\ data \in Seq(Byte) /\ level \in Seq(Seq(Seq(Byte))) /\ n = Len(stack) + 1
      /\ stack \in Seq([start : Nat, lit : AllLits])
  BY DEF WInv, WriterTypeOK
<1>2. n \in Nat \ {0} /\ n \in 1..Len(level) /\ (n = 1 <=> stack = <<>>)
  <2>1. Len(stack) \in Nat /\ (Len(stack) = 0 <=> stack = <<>>)
    BY <1>1, EmptySeq
  <2> QED
    BY <1>1, <2>1
<1>3. Items = level[n]
  BY DEF Items, Last
<1>4. Len(data) \in Nat
  BY <1>1, LenProperties
<1>5. ASSUME NEW k \in 1..n
      PROVE  /\ level[k] \in Seq(Seq(Byte)) /\ Len(level[k]) \in Nat
             /\ (level[k] # <<>> <=> Len(level[k]) # 0)
  <2>1. level[k] \in Seq(Seq(Byte))
    BY <1>1, <1>2, ElementOfSeq
  <2> QED
    BY <2>1, EmptySeq, LenProperties
<1> QED
  BY <1>1, <1>2, <1>3, <1>4, <1>5

\* A record is opened behind the key of the one around it.
LEMMA OpenItems ==
  ASSUME WInv, ItemsOK, NEW lit, NEW header \in Seq(Byte), Open(lit, header)
  PROVE  ItemsOK'
<1>0. PICK n : n = Len(level)
  OBVIOUS
<1>1. /\ status = "ok" /\ data' = data \o header /\ Len(data) + Len(header) <= MaxData
      /\ level' = Append(level, <<>>) /\ (stack # <<>> => Items # <<>>)
  BY DEF Open, Room
<1>2. /\ data \in Seq(Byte) /\ level \in Seq(Seq(Seq(Byte)))
      /\ n \in Nat \ {0} /\ (n = 1 <=> stack = <<>>) /\ Items = level[n]
  BY <1>0, <1>1, LevelFacts
<1>3. Len(data') <= MaxData
  <2>1. Len(data') = Len(data) + Len(header)
    BY <1>1, <1>2, ConcatProperties
  <2> QED
    BY <1>1, <2>1
<1>4. /\ Len(level') = n + 1 /\ level'[n + 1] = <<>>
      /\ \A k \in 1..n : level'[k] = level[k]
  <2>1. PICK Q, e : Q = Seq(Seq(Byte)) /\ e = <<>>
    OBVIOUS
  <2>2. level \in Seq(Q) /\ e \in Q /\ level' = Append(level, e)
    BY <1>1, <1>2, <2>1
  <2>3. /\ Len(level') = Len(level) + 1 /\ level'[Len(level) + 1] = e
        /\ \A k \in 1..Len(level) : level'[k] = level[k]
    BY <2>2, AppendProperties
  <2> QED
    BY <1>0, <2>1, <2>3
<1>5. \A j \in 1..Len(level'[1]) : RecordItem(level'[1][j])
  <2>1. 1 \in 1..n
    BY <1>2
  <2>2. level'[1] = level[1]
    BY <1>4, <2>1
  <2> QED
    BY <2>2 DEF ItemsOK
<1>6. ASSUME NEW k \in 2..(n + 1), level'[k] # <<>> PROVE KeyItem(level'[k][1])
  <2>1. k # n + 1
    BY <1>4, <1>6
  <2>2. k \in 1..n /\ k \in 2..n
    BY <1>2, <2>1
  <2>3. level'[k] = level[k]
    BY <1>4, <2>2
  <2> QED
    BY <1>0, <1>6, <2>2, <2>3 DEF ItemsOK
<1>7. ASSUME NEW k \in 2..((n + 1) - 1) PROVE level'[k] # <<>>
  <2>1. k \in 1..n
    BY <1>2
  <2>2. level'[k] = level[k]
    BY <1>4, <2>1
  <2>3. CASE k = n
    <3>1. n # 1
      BY <1>2, <2>3
    <3>2. level[n] # <<>>
      BY <1>1, <1>2, <3>1
    <3> QED
      BY <2>2, <2>3, <3>2
  <2>4. CASE k # n
    <3>1. k \in 2..(n - 1)
      BY <1>2, <2>4
    <3> QED
      BY <1>0, <2>2, <3>1 DEF ItemsOK
  <2> QED
    BY <2>3, <2>4
<1> QED
  BY <1>3, <1>4, <1>5, <1>6, <1>7 DEF ItemsOK

\* A record is taken back, and its level with it.
LEMMA CancelItems ==
  ASSUME WInv, ItemsOK, WInv', NEW lit, CancelTLV(lit)
  PROVE  ItemsOK'
<1>0. PICK n, s : n = Len(level) /\ s = Top.start
  OBVIOUS
<1>1. /\ status = "ok" /\ stack # <<>> /\ data' = SubSeq(data, 1, s)
      /\ level' = Front(level) /\ status' = "ok"
  BY <1>0 DEF CancelTLV, Room
<1>2. /\ data \in Seq(Byte) /\ level \in Seq(Seq(Seq(Byte)))
      /\ n \in Nat \ {0, 1} /\ Len(data) \in Nat /\ n = Len(stack) + 1
  <2>1. /\ data \in Seq(Byte) /\ level \in Seq(Seq(Seq(Byte)))
        /\ n \in Nat \ {0} /\ (n = 1 <=> stack = <<>>) /\ Len(data) \in Nat /\ n = Len(stack) + 1
    BY <1>0, <1>1, LevelFacts
  <2> QED
    BY <1>1, <2>1
<1>3. Len(level') = n - 1 /\ \A k \in 1..(n - 1) : level'[k] = level[k]
  <2>1. level # <<>>
    BY <1>0, <1>2, EmptySeq
  <2>2. /\ Len(Front(level)) = Len(level) - 1
        /\ \A i \in 1..(Len(level) - 1) : Front(level)[i] = level[i]
    BY <1>2, <2>1, FrontFacts
  <2> QED
    BY <1>0, <1>1, <2>2
<1>4. s \in Nat /\ s <= Len(data)
  <2>1. PICK m : m = Len(stack)
    OBVIOUS
  <2>2. m \in 1..Len(level) /\ m <= Len(stack) /\ m \in Nat
    BY <1>0, <1>2, <2>1
  <2>3. Sound(m)
    BY <1>1, <2>2 DEF WInv
  <2>4. To(m) = stack[m].start /\ Top = stack[m]
    BY <2>1, <2>2 DEF To, Top, Last
  <2> QED
    BY <1>0, <2>3, <2>4 DEF Sound
<1>5. Len(data') <= MaxData
  <2>1. 0 \in Nat /\ 0 <= s /\ s - 0 = s /\ 0 + 1 = 1
    BY <1>4
  <2>2. Len(SubSeq(data, 0 + 1, s)) = s - 0
    BY <1>2, <1>4, <2>1, Part
  <2>3. Len(data') = s
    BY <1>1, <2>1, <2>2
  <2>4. Len(data) <= MaxData /\ MaxData \in Nat
    BY TlvAssumption DEF ItemsOK
  <2> QED
    BY <1>2, <1>4, <2>3, <2>4
<1>6. \A j \in 1..Len(level'[1]) : RecordItem(level'[1][j])
  <2>1. 1 \in 1..(n - 1)
    BY <1>2
  <2>2. level'[1] = level[1]
    BY <1>3, <2>1
  <2> QED
    BY <2>2 DEF ItemsOK
<1>7. ASSUME NEW k \in 2..(n - 1), level'[k] # <<>> PROVE KeyItem(level'[k][1])
  <2>1. k \in 1..(n - 1) /\ k \in 2..n
    BY <1>2
  <2> QED
    BY <1>0, <1>3, <1>7, <2>1 DEF ItemsOK
<1>8. ASSUME NEW k \in 2..((n - 1) - 1) PROVE level'[k] # <<>>
  <2>1. k \in 1..(n - 1) /\ k \in 2..(n - 1)
    BY <1>2
  <2> QED
    BY <1>0, <1>3, <2>1 DEF ItemsOK
<1> QED
  BY <1>3, <1>5, <1>6, <1>7, <1>8 DEF ItemsOK

\* A record that is closed had its key, and so has the level it goes to.
LEMMA CloseItems ==
  ASSUME WInv, ItemsOK, WInv', NEW lit \in AllLits, CloseTLV(lit)
  PROVE  ItemsOK'
<1>0. PICK n, s, g, N, val, W :
        /\ n = Len(stack) /\ s = Last(stack).start
        /\ g = Hdr(data[s + 1][3]) /\ N = Len(data) - s - g
        /\ val = FlattenSeq(Last(level)) /\ W = WriteTLV(lit, val)
  OBVIOUS
<1>c. Closes(lit, n, s, g, N, val, W)
  <2>1. Closed(lit, n, s, g, N, val, W)
    BY <1>0 DEF Closed
  <2> QED
    BY <2>1, ClosedFacts
<1>1. /\ status = "ok" /\ data' = Copy(Moved(data, s, N), s, Header(lit, N))
      /\ n \in Nat \ {0} /\ Len(level) = n + 1 /\ s \in Nat
      /\ data \in Seq(Byte) /\ data' \in Seq(Byte)
      /\ data[s + 1][3] \in BOOLEAN /\ g \in 2..5 /\ N \in Nat /\ Len(data) = s + g + N
  BY <1>c DEF Closes
<1>2. /\ Last(level) = level[n + 1] /\ Last(level) \in Seq(Seq(Byte))
      /\ Len(level') = n /\ level'[n] = Append(level[n], W) /\ level[n] \in Seq(Seq(Byte))
      /\ W \in Seq(Byte)
      /\ \A k \in 1..(n - 1) : level'[k] = level[k]
  BY <1>c DEF Closes
<1>3. Len(data') <= MaxData
  <2>1. PICK M, H, h : M = Moved(data, s, N) /\ H = Header(lit, N) /\ h = Hdr(IsShort(N))
    OBVIOUS
  <2>2. M \in Seq(Byte) /\ Len(M) = s + h + N
    <3>1. PICK d : d = data
      OBVIOUS
    <3>2. d \in Seq(Byte) /\ d[s + 1][3] \in BOOLEAN /\ Len(d) = s + Hdr(d[s + 1][3]) + N
      BY <1>0, <1>1, <3>1
    <3>3. Moved(d, s, N) \in Seq(Byte) /\ Len(Moved(d, s, N)) = s + Hdr(IsShort(N)) + N
      <4>1. s \in Nat /\ N \in Nat
        BY <1>1
      <4> QED
        BY <3>2, <4>1, MovedFacts
    <3> QED
      BY <2>1, <3>1, <3>3
  <2>3. H \in Seq(Byte) /\ Len(H) = h
    BY <1>1, <2>1, Headers
  <2>4. h \in Nat /\ h <= g + 3
    BY <1>1, <2>1 DEF Hdr
  <2>5. Len(Copy(M, s, H)) = Len(M)
    <3>1. s + Len(H) <= Len(M)
      BY <1>1, <2>2, <2>3, <2>4
    <3>2. M \in Seq(Byte) /\ H \in Seq(Byte) /\ s \in Nat
      BY <1>1, <2>2, <2>3
    <3> QED
      BY <3>1, <3>2, CopyFacts
  <2>6. Len(data') = s + h + N
    BY <1>1, <2>1, <2>2, <2>5
  <2>7. Len(data) + 3 <= MaxData /\ MaxData \in Nat
    BY TlvAssumption DEF CloseTLV, Room
  <2>8. PICK x, y : x = Len(data) /\ y = Len(data')
    OBVIOUS
  <2>9. /\ x = s + g + N /\ y = s + h + N /\ x + 3 <= MaxData /\ MaxData \in Nat
        /\ s \in Nat /\ N \in Nat /\ g \in Nat /\ h \in Nat /\ h <= g + 3
    <3>1. x = s + g + N /\ s \in Nat /\ N \in Nat /\ g \in 2..5
      BY <1>1, <2>8
    <3>2. y = s + h + N /\ x + 3 <= MaxData /\ MaxData \in Nat
      BY <2>6, <2>7, <2>8
    <3> QED
      BY <2>4, <3>1, <3>2
  <2>10. y <= MaxData
    BY <2>9
  <2> QED
    BY <2>8, <2>10
<1>4. PICK its, new : its = level[n] /\ new = Append(its, W)
  OBVIOUS
<1>5. /\ new \in Seq(Seq(Byte)) /\ new # <<>> /\ Len(new) = Len(its) + 1 /\ Len(its) \in Nat
      /\ \A i \in 1..Len(its) : new[i] = its[i]
      /\ new[Len(its) + 1] = W
  <2>1. its \in Seq(Seq(Byte)) /\ W \in Seq(Byte)
    BY <1>2, <1>4
  <2>2. PICK Q : Q = Seq(Byte)
    OBVIOUS
  <2>3. its \in Seq(Q) /\ W \in Q
    BY <2>1, <2>2
  <2>4. /\ new \in Seq(Q) /\ new # <<>> /\ Len(new) = Len(its) + 1
        /\ \A i \in 1..Len(its) : new[i] = its[i]
        /\ new[Len(its) + 1] = W
    BY <1>4, <2>3, AppendProperties
  <2>5. Len(its) \in Nat
    BY <2>3, LenProperties
  <2> QED
    BY <2>2, <2>4, <2>5
<1>6. RecordItem(W)
  <2>1. PICK top : top = level[n + 1]
    OBVIOUS
  <2>2. top \in Seq(Seq(Byte)) /\ top # <<>>
    BY <1>2, <2>1 DEF CloseTLV, Items
  <2>3. KeyItem(top[1])
    <3>1. n + 1 \in 2..Len(level)
      BY <1>1
    <3> QED
      BY <2>1, <2>2, <3>1 DEF ItemsOK
  <2> QED
    BY <1>0, <1>2, <2>1, <2>2, <2>3, ClosesRecord
<1>7. ASSUME NEW j \in 1..Len(level'[1]) PROVE RecordItem(level'[1][j])
  <2>1. CASE n = 1
    <3>1. level'[1] = new /\ level[1] = its /\ j \in 1..(Len(its) + 1)
      BY <1>2, <1>4, <1>5, <2>1
    <3>2. CASE j = Len(its) + 1
      BY <1>5, <1>6, <3>1, <3>2
    <3>3. CASE j # Len(its) + 1
      <4>1. j \in 1..Len(its)
        BY <1>5, <3>1, <3>3
      <4> QED
        BY <1>5, <3>1, <4>1 DEF ItemsOK
    <3> QED
      BY <3>2, <3>3
  <2>2. CASE n # 1
    <3>1. 1 \in 1..(n - 1)
      BY <1>1, <2>2
    <3>2. level'[1] = level[1]
      BY <1>2, <3>1
    <3> QED
      BY <3>2 DEF ItemsOK
  <2> QED
    BY <2>1, <2>2
<1>8. ASSUME NEW k \in 2..n PROVE level'[k] # <<>> /\ KeyItem(level'[k][1])
  <2>1. k \in 2..Len(level) /\ k \in 2..(Len(level) - 1)
    BY <1>1
  <2>2. level[k] # <<>> /\ KeyItem(level[k][1])
    BY <2>1 DEF ItemsOK
  <2>3. CASE k = n
    <3>1. 1 \in 1..Len(its)
      <4>1. Len(its) # 0
        BY <1>2, <1>4, <2>2, <2>3, EmptySeq
      <4> QED
        BY <1>5, <4>1
    <3>2. level'[k] = new /\ new[1] = its[1]
      BY <1>2, <1>4, <1>5, <2>3, <3>1
    <3> QED
      BY <1>4, <1>5, <2>2, <2>3, <3>2
  <2>4. CASE k # n
    <3>1. k \in 1..(n - 1)
      BY <1>1, <2>4
    <3> QED
      BY <1>2, <2>2, <3>1
  <2> QED
    BY <2>3, <2>4
<1>9. \A k \in 2..(n - 1) : k \in 2..n
  BY <1>1
<1> QED
  BY <1>2, <1>3, <1>7, <1>8, <1>9 DEF ItemsOK

\* A tuple is put around the last records of a level: its key is empty, and
\* what stays begins as before.
LEMMA RetroItems ==
  ASSUME WInv, ItemsOK, WInv', NEW m \in 1..2, RetroOpenTuple(m)
  PROVE  ItemsOK'
<1>0. PICK n, its, c, rest, moved, q :
        /\ n = Len(level) /\ its = level[n] /\ c = Len(its)
        /\ rest = SubSeq(its, 1, c - m) /\ moved = SubSeq(its, c - m + 1, c)
        /\ q = Len(data) - Len(FlattenSeq(moved))
  OBVIOUS
<1>1. status = "ok" /\ status' = "ok" /\ Len(data) + 3 <= MaxData
  BY DEF RetroOpenTuple, Room
<1>2. /\ data \in Seq(Byte) /\ level \in Seq(Seq(Seq(Byte)))
      /\ n \in Nat \ {0} /\ n \in 1..Len(level) /\ (n = 1 <=> stack = <<>>)
      /\ Items = its /\ Len(data) \in Nat /\ its \in Seq(Seq(Byte)) /\ c \in Nat
  BY <1>0, <1>1, LevelFacts
<1>3. m <= c /\ (n # 1 => m < c)
  <2>1. m <= (IF stack = <<>> THEN Len(Items) ELSE Len(Items) - 1)
    BY DEF RetroOpenTuple
  <2> QED
    BY <1>0, <1>2, <2>1
<1>4. /\ rest \in Seq(Seq(Byte)) /\ Len(rest) = c - m /\ \A i \in 1..(c - m) : rest[i] = its[i]
      /\ moved \in Seq(Seq(Byte))
  <2>1. PICK o, b : o = 0 /\ b = c - m
    OBVIOUS
  <2>2. o \in Nat /\ b \in Nat /\ o <= b /\ b <= Len(its) /\ b <= c /\ c <= Len(its) /\ b - o = c - m
    <3>1. o = 0 /\ b = c - m /\ m <= c /\ m \in 1..2 /\ c \in Nat /\ Len(its) = c
      BY <1>0, <1>2, <1>3, <2>1
    <3> QED
      BY <3>1
  <2>3. /\ SubSeq(its, o + 1, b) \in Seq(Seq(Byte)) /\ Len(SubSeq(its, o + 1, b)) = b - o
        /\ \A i \in 1..(b - o) : SubSeq(its, o + 1, b)[i] = its[o + i]
    <3>1. its \in Seq(Seq(Byte))
      BY <1>2
    <3> QED
      BY <2>2, <3>1, Part
  <2>4. o + 1 = 1 /\ \A i \in 1..(c - m) : o + i = i
    BY <2>1
  <2>5. SubSeq(its, b + 1, c) \in Seq(Seq(Byte))
    BY <1>2, <2>2, Part
  <2>6. rest = SubSeq(its, o + 1, b) /\ moved = SubSeq(its, b + 1, c)
    BY <1>0, <2>1, <2>4
  <2>7. \A i \in 1..(c - m) : rest[i] = its[i]
    BY <2>2, <2>3, <2>4, <2>6
  <2> QED
    BY <2>2, <2>3, <2>5, <2>6, <2>7
<1>5. /\ data' = Copy(Copy(data \o Zeroes(3), q + 3, SubSeq(data, q + 1, Len(data))), q,
                      <<Lit("P", TRUE), Num(0), Num(0)>>)
      /\ level' = Append([level EXCEPT ![n] = rest], <<<<Num(0)>>>> \o moved)
  <2>1. SubSeq(Items, Len(Items) - m + 1, Len(Items)) = moved
    BY <1>0, <1>2
  <2>2. data' = Copy(Copy(data \o Zeroes(3), q + 3, SubSeq(data, q + 1, Len(data))), q,
                     <<Lit("P", TRUE), Num(0), Num(0)>>)
    BY <1>0, <2>1 DEF RetroOpenTuple
  <2>3. level' = Append([level EXCEPT ![n] = rest], <<<<Num(0)>>>> \o moved)
    BY <1>0, <2>1 DEF RetroOpenTuple
  <2> QED
    BY <2>2, <2>3
<1>6. Len(data') <= MaxData
  <2>1. PICK z, w, b : z = Zeroes(3) /\ w = data \o z /\ b = Len(data) + 3
    OBVIOUS
  <2>2. z \in Seq(Byte) /\ Len(z) = 3
    BY <2>1, ZeroBytes
  <2>3. w \in Seq(Byte) /\ Len(w) = b
    <3>1. w \in Seq(Byte) /\ Len(w) = Len(data) + Len(z)
      BY <1>2, <2>1, <2>2, ConcatProperties
    <3> QED
      BY <2>1, <2>2, <3>1
  <2>4. DOMAIN data' = DOMAIN w
    BY <1>5, <2>1 DEF Copy
  <2>5. DOMAIN w = 1..b /\ b \in Nat
    BY <1>2, <2>1, <2>3, LenProperties
  <2>6. data' \in Seq(Byte)
    BY <1>1 DEF WInv, WriterTypeOK
  <2>7. Len(data') = b
    BY <2>4, <2>5, <2>6, SameLength
  <2> QED
    BY <1>1, <2>1, <2>7
<1>7. /\ Len(level') = n + 1
      /\ \A k \in 1..n : k # n => level'[k] = level[k]
      /\ level'[n] = rest /\ level'[n + 1] = <<<<Num(0)>>>> \o moved
  <2>1. PICK e, l, new : e = <<Num(0)>> /\ l = [level EXCEPT ![n] = rest] /\ new = <<e>> \o moved
    OBVIOUS
  <2>2. e \in Seq(Byte)
    BY <2>1, Bytes
  <2>3. <<e>> \in Seq(Seq(Byte))
    BY <2>2
  <2>4. new \in Seq(Seq(Byte))
    BY <1>4, <2>1, <2>3, ConcatProperties
  <2>6. /\ l \in Seq(Seq(Seq(Byte))) /\ Len(l) = Len(level)
        /\ \A k \in 1..Len(level) : l[k] = IF k = n THEN rest ELSE level[k]
    <3>1. PICK Q : Q = Seq(Seq(Byte))
      OBVIOUS
    <3>2. level \in Seq(Q) /\ rest \in Q /\ n \in 1..Len(level)
      BY <1>2, <1>4, <3>1
    <3>3. /\ l \in Seq(Q) /\ Len(l) = Len(level)
          /\ \A k \in 1..Len(level) : l[k] = IF k = n THEN rest ELSE level[k]
      BY <2>1, <3>2, ExceptSeq
    <3> QED
      BY <3>1, <3>3
  <2>7. level' = Append(l, new)
    BY <1>5, <2>1
  <2>8. /\ Len(level') = Len(l) + 1
        /\ \A k \in 1..Len(l) : level'[k] = l[k]
        /\ level'[Len(l) + 1] = new
    BY <2>4, <2>6, <2>7, AppendProperties
  <2> QED
    BY <1>0, <1>2, <2>1, <2>6, <2>8
<1>8. level'[n + 1] # <<>> /\ KeyItem(level'[n + 1][1])
  <2>1. PICK e, o, new : e = <<Num(0)>> /\ o = <<e>> /\ new = o \o moved
    OBVIOUS
  <2>2. e \in Seq(Byte)
    BY <2>1, Bytes
  <2>3. o \in Seq(Seq(Byte)) /\ Len(o) = 1 /\ o[1] = e
    BY <2>1, <2>2
  <2>4. /\ Len(new) = 1 + Len(moved) /\ new \in Seq(Seq(Byte))
        /\ \A i \in 1..(1 + Len(moved)) : new[i] = IF i <= 1 THEN o[i] ELSE moved[i - 1]
    BY <1>4, <2>1, <2>3, ConcatProperties
  <2>5. Len(moved) \in Nat /\ 1 \in 1..(1 + Len(moved)) /\ 1 <= 1
    BY <1>4, LenProperties
  <2>6. new # <<>> /\ new[1] = e
    BY <2>3, <2>4, <2>5
  <2>7. KeyItem(e)
    <3>1. PICK k : k = <<>>
      OBVIOUS
    <3>2. k \in Seq(Byte) /\ Len(k) = 0 /\ 0 < Base /\ 0 \in KeyLens
      BY <3>1, TlvBytesAssumption DEF KeyLens
    <3>3. e = <<Num(Len(k))>> \o k
      <4>1. e \o <<>> = e
        BY <2>2, ConcatEmptySeq
      <4> QED
        BY <2>1, <3>1, <3>2, <4>1
    <3> QED
      BY <3>2, <3>3 DEF KeyItem
  <2> QED
    BY <1>7, <2>1, <2>6, <2>7
<1>9. ASSUME NEW j \in 1..Len(level'[1]) PROVE RecordItem(level'[1][j])
  <2>1. CASE n = 1
    <3>1. level'[1] = rest /\ level[1] = its
      BY <1>0, <1>7, <2>1
    <3>2. j \in 1..(c - m) /\ j \in 1..c
      BY <1>2, <1>4, <3>1
    <3> QED
      BY <1>0, <1>4, <3>1, <3>2 DEF ItemsOK
  <2>2. CASE n # 1
    <3>1. 1 \in 1..n
      BY <1>2
    <3>2. level'[1] = level[1]
      BY <1>7, <2>2, <3>1
    <3> QED
      BY <3>2 DEF ItemsOK
  <2> QED
    BY <2>1, <2>2
<1>10. ASSUME NEW k \in 2..n PROVE level'[k] # <<>> /\ (level[k] # <<>> => KeyItem(level'[k][1]))
  <2>1. k \in 2..Len(level) /\ k \in 1..n
    BY <1>0, <1>2
  <2>2. level[k] # <<>> => KeyItem(level[k][1])
    BY <2>1 DEF ItemsOK
  <2>3. CASE k = n
    <3>1. n # 1 /\ m < c
      BY <1>2, <1>3, <2>3
    <3>2. 1 \in 1..(c - m) /\ c - m # 0
      BY <1>2, <3>1
    <3>3. rest # <<>> /\ rest[1] = its[1]
      BY <1>4, <3>2
    <3> QED
      BY <1>0, <1>7, <2>2, <2>3, <3>3
  <2>4. CASE k # n
    <3>1. k \in 2..(Len(level) - 1)
      BY <1>0, <1>2, <2>4
    <3>2. level[k] # <<>>
      BY <3>1 DEF ItemsOK
    <3> QED
      BY <1>7, <2>1, <2>2, <2>4, <3>2
  <2> QED
    BY <2>3, <2>4
<1>11. ASSUME NEW k \in 2..(n + 1), level'[k] # <<>> PROVE KeyItem(level'[k][1])
  <2>1. CASE k = n + 1
    BY <1>8, <2>1
  <2>2. CASE k # n + 1
    <3>1. k \in 2..n
      BY <1>2, <2>2
    <3>2. level[k] # <<>>
      <4>1. CASE k = n
        <5>1. n # 1 /\ c # 0
          BY <1>2, <1>3, <3>1, <4>1
        <5> QED
          BY <1>0, <4>1, <5>1
      <4>2. CASE k # n
        <5>1. k \in 2..(Len(level) - 1)
          BY <1>0, <1>2, <3>1, <4>2
        <5> QED
          BY <5>1 DEF ItemsOK
      <4> QED
        BY <4>1, <4>2
    <3> QED
      BY <1>10, <3>1, <3>2
  <2> QED
    BY <2>1, <2>2
<1>12. ASSUME NEW k \in 2..((n + 1) - 1) PROVE level'[k] # <<>>
  <2>1. k \in 2..n
    BY <1>2
  <2> QED
    BY <1>10, <2>1
<1> QED
  BY <1>6, <1>7, <1>9, <1>11, <1>12 DEF ItemsOK

\* Every call keeps the items as they should be.
LEMMA ItemsSteps ==
  ASSUME \A b \in Keys : Len(b) < Base, RInv, [Next]_vars
  PROVE  RInv'
<1>0. WInv /\ WInv'
  BY WriterSteps DEF RInv
<1> SUFFICES ASSUME status' = "ok" PROVE ItemsOK'
  BY <1>0 DEF RInv
<1>ok. CASE status = "ok"
  <2>0. ItemsOK
    BY <1>ok DEF RInv
  <2>1. ASSUME NEW lit \in Letters, OpenTLV(lit) PROVE ItemsOK'
    <3>0. PICK h : h = <<Lit(lit, FALSE)>> \o Zeroes(4)
      OBVIOUS
    <3>1. h \in Seq(Byte) /\ Open(lit, h)
      BY <2>1, <3>0, ReservedHeaders DEF AllLits, OpenTLV
    <3> QED
      BY <1>0, <2>0, <3>1, OpenItems
  <2>2. ASSUME NEW lit \in Letters, OpenShortTLV(lit) PROVE ItemsOK'
    <3>0. PICK h : h = <<Lit(lit, TRUE), Num(0)>>
      OBVIOUS
    <3>1. h \in Seq(Byte) /\ Open(lit, h)
      BY <2>2, <3>0, ReservedHeaders DEF AllLits, OpenShortTLV
    <3> QED
      BY <1>0, <2>0, <3>1, OpenItems
  <2>3. ASSUME NEW lit \in Letters, CloseTLV(lit) PROVE ItemsOK'
    <3>1. lit \in AllLits
      BY DEF AllLits
    <3> QED
      BY <1>0, <2>0, <2>3, <3>1, CloseItems
  <2>4. ASSUME NEW lit \in Letters, CancelTLV(lit) PROVE ItemsOK'
    BY <1>0, <2>0, <2>4, CancelItems
  <2>5. ASSUME NEW lit \in Letters, BadNesting(lit) PROVE FALSE
    BY <2>5 DEF BadNesting
  <2>6. ASSUME NEW lit \in Letters, NEW key \in Keys, NEW val \in Values, PutRecord(lit, key, val)
        PROVE  ItemsOK'
    <3>1. PICK item : item = WriteTLKV(lit, key, val)
      OBVIOUS
    <3>2. item \in Seq(Byte)
      BY <3>1, ItemsAreBytes DEF AllLits
    <3>3. Put(item) /\ (stack # <<>> => Items # <<>>)
      BY <2>6, <3>1 DEF PutRecord
    <3>4. RecordItem(item)
      <4>1. lit \in AllLits /\ Len(key) < Base
        BY DEF AllLits
      <4> QED
        BY <3>1, <4>1, WritesRecord
    <3> QED
      BY <1>0, <2>0, <3>2, <3>3, <3>4, PutItems
  <2>7. ASSUME NEW key \in Keys, PutKey(key) PROVE ItemsOK'
    <3>1. PICK item : item = <<Num(Len(key))>> \o key
      OBVIOUS
    <3>2. item \in Seq(Byte)
      BY <3>1, ItemsAreBytes
    <3>3. Put(item) /\ stack # <<>>
      BY <2>7, <3>1 DEF PutKey
    <3>4. KeyItem(item)
      BY <3>1, Bytes DEF KeyItem, KeyLens
    <3> QED
      BY <1>0, <2>0, <3>2, <3>3, <3>4, PutItems
  <2>8. ASSUME NEW v \in Payload, PutValue(v) PROVE ItemsOK'
    <3>1. v \in Seq(Byte)
      BY ItemsAreBytes
    <3>2. Put(v) /\ stack # <<>> /\ Items # <<>>
      BY <2>8 DEF PutValue
    <3> QED
      BY <1>0, <2>0, <3>1, <3>2, PutItems
  <2>9. ASSUME NEW m \in 1..2, RetroOpenTuple(m) PROVE ItemsOK'
    BY <1>0, <2>0, <2>9, RetroItems
  <2>10. CASE Done
    BY <1>ok, <2>10 DEF Done
  <2>11. CASE UNCHANGED vars
    BY <2>0, <2>11 DEF vars, ItemsOK
  <2> QED
    BY <2>1, <2>2, <2>3, <2>4, <2>5, <2>6, <2>7, <2>8, <2>9, <2>10, <2>11 DEF Next
<1>no. CASE status # "ok"
  BY <1>no DEF Next, OpenTLV, OpenShortTLV, Open, CloseTLV, CancelTLV, BadNesting, PutRecord,
     PutKey, PutValue, Put, RetroOpenTuple, Room, Done, vars
<1> QED
  BY <1>ok, <1>no

\* Nothing is at any level yet.
LEMMA ItemsInit == Init => RInv
<1> SUFFICES ASSUME Init PROVE RInv
  OBVIOUS
<1>1. data = <<>> /\ level = <<<<>>>>
  BY DEF Init
<1>2. Len(data) = 0 /\ Len(level) = 1 /\ level[1] = <<>> /\ Len(level[1]) = 0
  BY <1>1
<1>3. MaxData \in Nat
  BY TlvAssumption
<1>4. ItemsOK
  BY <1>2, <1>3 DEF ItemsOK
<1> QED
  BY <1>4, EmptyBuffer DEF RInv
-----------------------------------------------------------------------------
\* d is made of the c items its
Listed(its, d, c) == its \in Seq(Seq(Byte)) /\ d = FlattenSeq(its) /\ c = Len(its)

\* Behind the first j items are the others.
LEMMA Remaining ==
  ASSUME NEW its, NEW d, NEW c, Listed(its, d, c), NEW j \in 0..c
  PROVE  /\ SubSeq(d, Len(FlattenSeq(SubSeq(its, 1, j))) + 1, Len(d))
              = FlattenSeq(SubSeq(its, j + 1, c))
         /\ SubSeq(its, j + 1, c) \in Seq(Seq(Byte))
         /\ Len(FlattenSeq(SubSeq(its, j + 1, c))) <= Len(d)
<1>c. its \in Seq(Seq(Byte)) /\ d = FlattenSeq(its) /\ c = Len(its)
  BY DEF Listed
<1> USE <1>c
<1>0. PICK a, rest, moved, p :
        /\ a = 1 /\ rest = SubSeq(its, 1, j) /\ moved = SubSeq(its, j + 1, c)
        /\ p = Len(d) - Len(FlattenSeq(moved))
  OBVIOUS
<1>1. d \in Seq(Byte) /\ c \in Nat /\ j \in Nat /\ j <= c /\ Len(d) \in Nat
  <2>1. FlattenSeq(its) \in Seq(Byte)
    BY FlattenFacts
  <2>2. c \in Nat
    BY LenProperties
  <2>3. d \in Seq(Byte) /\ Len(d) \in Nat
    BY <2>1, LenProperties
  <2> QED
    BY <2>2, <2>3
<1>2. rest \in Seq(Seq(Byte)) /\ moved \in Seq(Seq(Byte)) /\ rest \o moved = its
  <2>1. PICK o : o = 0
    OBVIOUS
  <2>2. o \in Nat /\ o <= j /\ j <= Len(its) /\ c <= Len(its) /\ o + 1 = 1
    BY <1>1, <2>1
  <2>3. SubSeq(its, o + 1, j) \in Seq(Seq(Byte)) /\ SubSeq(its, j + 1, c) \in Seq(Seq(Byte))
    BY <1>1, <2>2, Part
  <2>4. SubSeq(its, 1, j) \o SubSeq(its, j + 1, c) = SubSeq(its, 1, c)
    <3>1. 1 \in 1..(Len(its) + 1) /\ j \in (1 - 1)..Len(its) /\ c \in j..Len(its)
      BY <1>1
    <3> QED
      BY <3>1, ConcatAdjacentSubSeq
  <2>5. SubSeq(its, 1, c) = its
    BY SubSeqFull
  <2> QED
    BY <1>0, <2>2, <2>3, <2>4, <2>5
<1>3. /\ p \in Nat /\ p <= Len(d)
      /\ SubSeq(d, a, p) = FlattenSeq(rest)
      /\ SubSeq(d, p + 1, Len(d)) = FlattenSeq(moved)
  <2>1. a \in Nat \ {0} /\ a - 1 <= Len(d)
    BY <1>0, <1>1
  <2>2. SubSeq(d, a, Len(d)) = FlattenSeq(rest \o moved)
    <3>1. SubSeq(d, 1, Len(d)) = d
      BY <1>1, SubSeqFull
    <3> QED
      BY <1>0, <1>2, <3>1
  <2>3. Splitting(d, a, rest, moved, p)
    BY <1>0, <1>1, <1>2, <2>1, <2>2 DEF Splitting
  <2> QED
    BY <2>3, MovedItems
<1>4. Len(FlattenSeq(rest)) = p
  <2>1. PICK o : o = 0
    OBVIOUS
  <2>2. o \in Nat /\ o <= p /\ p - o = p /\ o + 1 = a
    BY <1>0, <1>3, <2>1
  <2>3. Len(SubSeq(d, o + 1, p)) = p - o
    BY <1>1, <1>3, <2>2, Part
  <2> QED
    BY <1>3, <2>2, <2>3
<1>5. Len(FlattenSeq(moved)) <= Len(d)
  <2>1. FlattenSeq(moved) \in Seq(Byte)
    BY <1>2, FlattenFacts
  <2>2. Len(FlattenSeq(moved)) \in Nat
    BY <2>1, LenProperties
  <2> QED
    BY <1>0, <1>1, <1>3, <2>2
<1> QED
  BY <1>0, <1>2, <1>3, <1>4, <1>5

\* The next item comes first.
LEMMA NextItem ==
  ASSUME NEW its, NEW d, NEW c, Listed(its, d, c), NEW j \in 1..c
  PROVE  /\ its[j] \in Seq(Byte)
         /\ FlattenSeq(SubSeq(its, j + 1, c)) \in Seq(Byte)
         /\ FlattenSeq(SubSeq(its, j, c)) = its[j] \o FlattenSeq(SubSeq(its, j + 1, c))
<1>c. its \in Seq(Seq(Byte)) /\ c = Len(its)
  BY DEF Listed
<1> USE <1>c
<1>0. PICK Q, x, t : Q = Seq(Byte) /\ x = its[j] /\ t = SubSeq(its, j + 1, c)
  OBVIOUS
<1>1. c \in Nat /\ j \in Nat /\ j <= c /\ x \in Seq(Byte)
  <2>1. c \in Nat
    BY LenProperties
  <2>2. its[j] \in Seq(Byte)
    BY ElementOfSeq
  <2> QED
    BY <1>0, <2>1, <2>2
<1>2. t \in Seq(Seq(Byte))
  <2>1. c <= Len(its)
    BY <1>1
  <2> QED
    BY <1>0, <1>1, <2>1, Part
<1>3. SubSeq(its, j, c) = <<x>> \o t
  <2>1. its \in Seq(Q) /\ j \in 1..c /\ c \in 1..Len(its)
    BY <1>0, <1>1
  <2>2. SubSeq(its, j, c) = <<its[j]>> \o SubSeq(its, j + 1, c)
    BY <1>1, <2>1, SubSeqRecursiveFirst
  <2> QED
    BY <1>0, <2>2
<1>4. FlattenSeq(<<x>> \o t) = FlattenSeq(<<x>>) \o FlattenSeq(t)
  <2>1. <<x>> \in Seq(Seq(Byte))
    BY <1>1
  <2> QED
    BY <1>2, <2>1, FlattenConcat
<1>5. FlattenSeq(<<x>>) = x
  BY <1>1, FlattenSmall
<1>6. FlattenSeq(t) \in Seq(Byte)
  BY <1>2, FlattenFacts
<1> QED
  BY <1>0, <1>1, <1>3, <1>4, <1>5, <1>6

\* The top level is the buffer when no record is open.
LEMMA TopLevel ==
  ASSUME RInv, status = "ok", stack = <<>>, NEW its, its = Items
  PROVE  /\ its \in Seq(Seq(Byte)) /\ data = FlattenSeq(its) /\ data \in Seq(Byte)
         /\ Len(data) \in Nat /\ Len(data) <= MaxData /\ MaxData \in Nat
         /\ \A j \in 1..Len(its) : RecordItem(its[j])
<1>0. WInv /\ ItemsOK
  BY DEF RInv
<1>1. PICK n : n = Len(level)
  OBVIOUS
<1>2. n = 1 /\ its = level[1] /\ data \in Seq(Byte) /\ Len(data) \in Nat
      /\ level[1] \in Seq(Seq(Byte))
  <2>1. /\ data \in Seq(Byte) /\ (n = 1 <=> stack = <<>>)
        /\ Items = level[n] /\ Len(data) \in Nat /\ n \in Nat \ {0}
        /\ \A k \in 1..n : level[k] \in Seq(Seq(Byte))
    BY <1>0, <1>1, LevelFacts
  <2>2. n = 1 /\ 1 \in 1..n
    BY <2>1
  <2> QED
    BY <2>1, <2>2
<1>3. data = FlattenSeq(its)
  <2>1. Sound(1)
    BY <1>0, <1>1, <1>2 DEF WInv
  <2>2. Len(stack) = 0
    OBVIOUS
  <2>3. From(1) = 1 /\ To(1) = Len(data)
    BY <2>2 DEF From, To
  <2>4. SubSeq(data, 1, Len(data)) = FlattenSeq(level[1])
    BY <2>1, <2>3 DEF Sound
  <2>5. SubSeq(data, 1, Len(data)) = data
    BY <1>2, SubSeqFull
  <2> QED
    BY <1>2, <2>4, <2>5
<1> QED
  BY <1>0, <1>2, <1>3, TlvAssumption DEF ItemsOK

\* d begins with the record r and goes on with rest
Begins(d, r, lit, k, v, rest) ==
  Encodes(r, lit, k, v) /\ Len(r) < Limit /\ rest \in Seq(Byte) /\ d = r \o rest

\* Both readers return the record a buffer begins with, and what is behind it.
LEMMA BothRead ==
  ASSUME NEW r, NEW lit, NEW k, NEW v, NEW rest, NEW d, Begins(d, r, lit, k, v, rest),
         Len(k) + 6 < Base
  PROVE  /\ ReadTLKV(d) = Read(lit, k, v, rest) /\ IterRead(d) = Read(lit, k, v, rest)
         /\ WriteTLKV(lit, k, v) = r
<1>1. PICK n, h : n = 1 + Len(k) + Len(v) /\ h = Hdr(IsShort(n))
  OBVIOUS
<1>2. Found(d, lit, k, v, rest, n, h) /\ n < Limit
  <2>1. Encodes(r, lit, k, v) /\ Len(r) < Limit /\ rest \in Seq(Byte) /\ d = r \o rest
    BY DEF Begins
  <2> QED
    <3>1. Sized(r, lit, k, v, n, h)
      BY <1>1, <2>1 DEF Sized
    <3> QED
      BY <2>1, <3>1, RecordFound
<1>3. WriteTLKV(lit, k, v) = r
  <2>1. k \in Seq(Byte) /\ Len(k) < Base /\ r = WriteTLV(lit, Body(k, v))
    BY DEF Begins, Encodes
  <2>2. ~(Len(k) > Base - 1)
    <3>1. Len(k) \in Nat /\ Base \in Nat
      BY <2>1, TlvBytesAssumption, LenProperties
    <3> QED
      BY <2>1, <3>1
  <2>3. WriteTLKV(lit, k, v) = WriteTLV(lit, <<Num(Len(k))>> \o k \o v)
    BY <2>2 DEF WriteTLKV
  <2> QED
    BY <2>1, <2>3 DEF Body
<1> QED
  BY <1>2, <1>3, KeyReads, IterReads

\* What the top level was given is what the readers find.
LEMMA ReadersAgree ==
  ASSUME RInv, MaxData < Limit, \A a \in KeyLens : a + 6 < Base
  PROVE  RecordsRead
<1> SUFFICES ASSUME status = "ok", stack = <<>> PROVE RecordsRead
  BY DEF RecordsRead
<1>0. PICK its, c : its = Items /\ c = Len(its)
  OBVIOUS
<1> DEFINE from(k) == SubSeq(data, Len(FlattenSeq(SubSeq(Items, 1, k - 1))) + 1, Len(data))
<1>1. /\ its \in Seq(Seq(Byte)) /\ data = FlattenSeq(its) /\ data \in Seq(Byte)
      /\ Len(data) \in Nat /\ Len(data) <= MaxData /\ MaxData \in Nat
      /\ \A j \in 1..Len(its) : RecordItem(its[j])
  BY <1>0, TopLevel
<1> SUFFICES ASSUME NEW j \in DOMAIN Items
             PROVE  /\ ReadTLKV(from(j)).err = "nil"
                    /\ ReadTLKV(from(j)).rest = from(j + 1)
                    /\ WriteTLKV(ReadTLKV(from(j)).lit, ReadTLKV(from(j)).key,
                                 ReadTLKV(from(j)).val) = Items[j]
                    /\ IterRead(from(j)) = ReadTLKV(from(j))
  BY DEF RecordsRead
<1>2. c \in Nat /\ j \in 1..c /\ j - 1 \in 0..c /\ j \in 0..c /\ (j - 1) + 1 = j /\ (j + 1) - 1 = j
  <2>1. c \in Nat /\ DOMAIN its = 1..c
    BY <1>0, <1>1, LenProperties
  <2>2. j \in 1..c
    BY <1>0, <2>1
  <2> QED
    BY <2>1, <2>2
<1>l. Listed(its, data, c)
  BY <1>0, <1>1 DEF Listed
<1>3. PICK rest : rest = FlattenSeq(SubSeq(its, j + 1, c))
  OBVIOUS
<1>4. /\ from(j) = FlattenSeq(SubSeq(its, j, c))
      /\ Len(FlattenSeq(SubSeq(its, j, c))) <= Len(data)
  <2>1. PICK i : i = j - 1
    OBVIOUS
  <2>2. i \in 0..c /\ i + 1 = j
    BY <1>2, <2>1
  <2>3. /\ SubSeq(data, Len(FlattenSeq(SubSeq(its, 1, i))) + 1, Len(data))
              = FlattenSeq(SubSeq(its, i + 1, c))
        /\ Len(FlattenSeq(SubSeq(its, i + 1, c))) <= Len(data)
    BY <1>l, <2>2, Remaining
  <2> QED
    BY <1>0, <2>1, <2>2, <2>3
<1>5. from(j + 1) = rest
  <2>1. SubSeq(data, Len(FlattenSeq(SubSeq(its, 1, j))) + 1, Len(data))
              = FlattenSeq(SubSeq(its, j + 1, c))
    <3>1. j \in 0..c
      BY <1>2
    <3> QED
      BY <1>l, <3>1, Remaining
  <2> QED
    BY <1>0, <1>2, <1>3, <2>1
<1>6. PICK r, d : r = its[j] /\ d = from(j)
  OBVIOUS
<1>7. r \in Seq(Byte) /\ rest \in Seq(Byte) /\ d = r \o rest
  <2>1. j \in 1..c
    BY <1>2
  <2>2. /\ its[j] \in Seq(Byte) /\ FlattenSeq(SubSeq(its, j + 1, c)) \in Seq(Byte)
        /\ FlattenSeq(SubSeq(its, j, c)) = its[j] \o FlattenSeq(SubSeq(its, j + 1, c))
    BY <1>l, <2>1, NextItem
  <2> QED
    BY <1>3, <1>4, <1>6, <2>2
<1>8. Len(r) < Limit
  <2>1. Len(d) = Len(r) + Len(rest) /\ Len(r) \in Nat /\ Len(rest) \in Nat
    BY <1>7, ConcatProperties, LenProperties
  <2>2. Len(d) <= Len(data)
    BY <1>4, <1>6
  <2>3. PICK x, y, z, w : x = Len(r) /\ y = Len(rest) /\ z = Len(d) /\ w = Len(data)
    OBVIOUS
  <2>4. z = x + y /\ x \in Nat /\ y \in Nat /\ z <= w /\ w <= MaxData /\ w \in Nat /\ MaxData \in Nat
    BY <1>1, <2>1, <2>2, <2>3
  <2>5. x < Limit
    BY <2>4, Limits
  <2> QED
    BY <2>3, <2>5
<1>9. PICK lit, k, v : Encodes(r, lit, k, v)
  <2>1. RecordItem(its[j])
    BY <1>0, <1>1, <1>2
  <2> QED
    BY <1>6, <2>1 DEF RecordItem
<1>10. /\ ReadTLKV(d) = Read(lit, k, v, rest) /\ IterRead(d) = Read(lit, k, v, rest)
       /\ WriteTLKV(lit, k, v) = r
  <2>1. Begins(d, r, lit, k, v, rest)
    BY <1>7, <1>8, <1>9 DEF Begins
  <2>2. Len(k) + 6 < Base
    BY <1>9 DEF Encodes
  <2> QED
    BY <2>1, <2>2, BothRead
<1>11. PICK e : e = Read(lit, k, v, rest)
  OBVIOUS
<1>12. e.err = "nil" /\ e.rest = rest /\ e.lit = lit /\ e.key = k /\ e.val = v
  BY <1>11 DEF Read
<1> HIDE DEF from
<1> QED
  BY <1>0, <1>5, <1>6, <1>10, <1>11, <1>12

\* The last item is a record, and part of it is not enough.
LEMMA ReaderWaits ==
  ASSUME RInv, MaxData < Limit
  PROVE  IterWaits
<1> SUFFICES ASSUME status = "ok", stack = <<>>, Items # <<>>, NEW n \in 1..(Len(Last(Items)) - 1)
             PROVE  IterRead(SubSeq(Last(Items), 1, n)).err = "ErrIncomplete"
  BY DEF IterWaits, Cut
<1>0. PICK its, c, r, d : its = Items /\ c = Len(its) /\ r = Last(Items) /\ d = data
  OBVIOUS
<1>1. /\ its \in Seq(Seq(Byte)) /\ d = FlattenSeq(its) /\ d \in Seq(Byte)
      /\ Len(d) \in Nat /\ Len(d) <= MaxData /\ MaxData \in Nat
      /\ \A j \in 1..Len(its) : RecordItem(its[j])
  BY <1>0, TopLevel
<1>2. c \in Nat \ {0} /\ r = its[c] /\ c \in 1..c
  <2>1. c \in Nat \ {0}
    BY <1>0, <1>1, EmptySeq, LenProperties
  <2> QED
    BY <1>0, <2>1 DEF Last
<1>l. Listed(its, d, c)
  BY <1>0, <1>1 DEF Listed
<1>3. PICK rest : rest = FlattenSeq(SubSeq(its, c + 1, c))
  OBVIOUS
<1>4. r \in Seq(Byte) /\ rest \in Seq(Byte) /\ FlattenSeq(SubSeq(its, c, c)) = r \o rest
  <2>1. /\ its[c] \in Seq(Byte) /\ FlattenSeq(SubSeq(its, c + 1, c)) \in Seq(Byte)
        /\ FlattenSeq(SubSeq(its, c, c)) = its[c] \o FlattenSeq(SubSeq(its, c + 1, c))
    BY <1>l, <1>2, NextItem
  <2> QED
    BY <1>2, <1>3, <2>1
<1>5. Len(r \o rest) <= Len(d)
  <2>1. PICK i : i = c - 1
    OBVIOUS
  <2>2. i \in 0..c /\ i + 1 = c
    BY <1>2, <2>1
  <2>3. Len(FlattenSeq(SubSeq(its, i + 1, c))) <= Len(d)
    BY <1>l, <2>2, Remaining
  <2> QED
    BY <1>4, <2>2, <2>3
<1>6. Len(r) < Limit
  <2>1. Len(r \o rest) = Len(r) + Len(rest) /\ Len(r) \in Nat /\ Len(rest) \in Nat
    BY <1>4, ConcatProperties, LenProperties
  <2>2. PICK x, y, z, w : x = Len(r) /\ y = Len(rest) /\ z = Len(r \o rest) /\ w = Len(d)
    OBVIOUS
  <2>3. z = x + y /\ x \in Nat /\ y \in Nat /\ z <= w /\ w <= MaxData /\ w \in Nat /\ MaxData \in Nat
    BY <1>1, <1>5, <2>1, <2>2
  <2>4. x < Limit
    BY <2>3, Limits
  <2> QED
    BY <2>2, <2>4
<1>7. PICK lit, k, v : Encodes(r, lit, k, v)
  BY <1>0, <1>1, <1>2 DEF RecordItem
<1>8. n \in 1..(Len(r) - 1)
  BY <1>0
<1> QED
  BY <1>0, <1>6, <1>7, <1>8, CutWaits

\* Whatever records are written, nested and wrapped: when none is open, both
\* readers take the buffer apart into the records that went in, if keys have
\* fewer than 250 bytes, so that the length of a header with its key is a byte,
\* and the buffer has fewer than a quarter of the bytes that a length can tell,
\* beyond which Iter.Read refuses a record.  <<>> is the key of a tuple that is
\* opened later.
THEOREM RecordsComeBack ==
  ASSUME \A b \in Keys \cup {<<>>} : Len(b) + 6 < Base, MaxData < ByteWeight[4] \div 4
  PROVE  Spec => []RecordsRead
<1>0. \A a \in KeyLens : a + 6 < Base
  <2>1. Len(<<>>) = 0
    OBVIOUS
  <2> QED
    BY <2>1 DEF KeyLens
<1>1. RInv => RecordsRead
  BY <1>0, ReadersAgree DEF Limit
<1>2. RInv /\ [Next]_vars => RInv'
  <2>1. ASSUME NEW b \in Keys PROVE Len(b) < Base
    <3>1. Len(b) \in Nat
      BY Bytes, LenProperties
    <3>2. Len(b) + 6 < Base
      OBVIOUS
    <3> QED
      BY <3>1, <3>2, TlvBytesAssumption
  <2> QED
    BY <2>1, ItemsSteps
<1> QED
  BY <1>1, <1>2, ItemsInit, PTL DEF Spec

\* Iter.Read that is given part of a record, of whatever record, says that it is
\* incomplete.
THEOREM PartsAreIncomplete ==
  ASSUME \A b \in Keys : Len(b) < Base, MaxData < ByteWeight[4] \div 4
  PROVE  Spec => []IterWaits
<1>1. RInv => IterWaits
  BY ReaderWaits DEF Limit
<1>2. RInv /\ [Next]_vars => RInv'
  BY ItemsSteps
<1> QED
  BY <1>1, <1>2, ItemsInit, PTL DEF Spec
==============================================================================
