---------------------------- MODULE NumberFacts ----------------------------
(***************************************************************************)
(* The least-number principle, in a form that the provers can use: it is   *)
(* about sets, where induction would be about formulas.  From it: functions *)
(* defined by recursion, and division by any number.                       *)
(***************************************************************************)
EXTENDS Integers, WellFoundedInduction, SequenceTheorems, TLAPS

\* Every nonempty set of natural numbers has a least one.
LEMMA LeastNumber ==
  ASSUME NEW T, T \subseteq Nat, T # {}
  PROVE  \E m \in T : \A k \in T : m <= k
<1> DEFINE Lt == {p \in Nat \X Nat : p[1] < p[2]}
<1>1. IsWellFoundedOn(Lt, Nat)
  BY NatLessThanWellFounded DEF OpToRel
<1>2. PICK m \in T : \A k \in T : ~ (<<k, m>> \in Lt)
  <2> HIDE DEF Lt
  <2> QED
    BY <1>1, WFMin
<1>3. ASSUME NEW k \in T PROVE m <= k
  <2>1. k \in Nat /\ m \in Nat
    OBVIOUS
  <2>2. ~(k < m)
    BY <1>2, <2>1
  <2> QED
    BY <2>1, <2>2
<1> QED
  BY <1>3

\* What holds of 0, and of k + 1 when it holds of k, holds up to N.
LEMMA Induction ==
  ASSUME NEW N \in Nat, NEW T, 0 \in T,
         \A k \in 0..(N - 1) : k \in T => k + 1 \in T
  PROVE  0..N \subseteq T
<1> SUFFICES ASSUME ~(0..N \subseteq T) PROVE FALSE
  OBVIOUS
<1> DEFINE Bad == (0..N) \ T
<1>0. Bad \subseteq Nat /\ Bad # {}
  OBVIOUS
<1>1. PICK m \in Bad : \A k \in Bad : m <= k
  <2> HIDE DEF Bad
  <2> QED
    BY <1>0, LeastNumber
<1>2. m \in Nat /\ m <= N /\ m # 0
  OBVIOUS
<1>3. m - 1 \in 0..(N - 1) /\ m - 1 \in 0..N /\ ~(m <= m - 1) /\ (m - 1) + 1 = m
  BY <1>2
<1>4. m - 1 \in T
  BY <1>1, <1>3
<1> QED
  BY <1>3, <1>4

\* g starts with a, and each of its values follows from the one before by F.
Unfolds(g, N, V, a, F) ==
  /\ g \in [0..N -> V]
  /\ g[0] = a
  /\ \A k \in 1..N : g[k] = F[<<k, g[k - 1]>>]

\* A function can be defined by recursion on its argument.
LEMMA RecursiveFunction ==
  ASSUME NEW N \in Nat, NEW V, NEW a \in V, NEW F \in [(1..N) \X V -> V]
  PROVE  \E g : Unfolds(g, N, V, a, F)
<1> DEFINE Upto(g, n) == g[0] = a /\ \A k \in 1..n : g[k] = F[<<k, g[k - 1]>>]
           T == {n \in 0..N : \E g \in [0..n -> V] : Upto(g, n)}
<1>1. 0 \in T
  <2>1. PICK g \in [0..0 -> V] : g = [j \in 0..0 |-> a]
    <3>1. [j \in 0..0 |-> a] \in [0..0 -> V]
      OBVIOUS
    <3> QED
      BY <3>1
  <2>2. Upto(g, 0)
    BY <2>1
  <2>3. 0 \in 0..N
    OBVIOUS
  <2> QED
    BY <2>2, <2>3
<1>2. ASSUME NEW n \in 0..(N - 1), n \in T PROVE n + 1 \in T
  <2>1. PICK g \in [0..n -> V] : Upto(g, n)
    BY <1>2
  <2>2. n \in Nat /\ n + 1 \in 1..N /\ n + 1 \in 0..N /\ n \in 0..n
    OBVIOUS
  <2>3. g[n] \in V
    BY <2>2
  <2>4. F[<<n + 1, g[n]>>] \in V
    BY <2>2, <2>3
  <2> DEFINE h == [j \in 0..(n + 1) |-> IF j = n + 1 THEN F[<<n + 1, g[n]>>] ELSE g[j]]
  <2>5. h \in [0..(n + 1) -> V]
    BY <2>2, <2>4
  <2>6. \A j \in 0..n : h[j] = g[j]
    BY <2>2
  <2>7. h[n + 1] = F[<<n + 1, g[n]>>]
    BY <2>2
  <2> HIDE DEF h
  <2>8. h[0] = a
    BY <2>1, <2>2, <2>6
  <2>9. ASSUME NEW k \in 1..(n + 1) PROVE h[k] = F[<<k, h[k - 1]>>]
    <3>1. CASE k = n + 1
      <4>1. h[k - 1] = g[n] /\ k - 1 = n
        BY <2>2, <2>6, <3>1
      <4> QED
        BY <2>7, <3>1, <4>1
    <3>2. CASE k # n + 1
      <4>1. k \in 1..n /\ k \in 0..n /\ k - 1 \in 0..n
        BY <2>2, <3>2
      <4> QED
        BY <2>1, <2>6, <4>1
    <3> QED
      BY <3>1, <3>2
  <2> QED
    BY <2>2, <2>5, <2>8, <2>9
<1>3. N \in T
  <2> HIDE DEF T
  <2>1. 0..N \subseteq T
    BY <1>1, <1>2, Induction
  <2> QED
    BY <2>1
<1> QED
  BY <1>3 DEF Unfolds

\* Quotients and remainders.
LEMMA DivMod ==
  ASSUME NEW n \in Nat, NEW b \in Nat \ {0}
  PROVE  /\ n \div b \in Nat /\ n % b \in 0..(b - 1)
         /\ n = (n \div b) * b + (n % b)
  OBVIOUS

\* Products grow.
LEMMA Times ==
  ASSUME NEW b \in Nat, NEW d \in Nat, NEW e \in Nat, d < e
  PROVE  d * b + b <= e * b /\ d * b \in Nat /\ e * b \in Nat
<1>1. PICK f \in Nat : e = d + 1 + f
  <2>1. e - d - 1 \in Nat /\ e = d + 1 + (e - d - 1)
    OBVIOUS
  <2> QED
    BY <2>1
<1>2. e * b = d * b + b + f * b
  BY <1>1
<1>3. f * b \in Nat /\ d * b \in Nat
  BY <1>1
<1> QED
  BY <1>2, <1>3

LEMMA DivUnique ==
  ASSUME NEW n \in Nat, NEW b \in Nat \ {0}, NEW d \in Nat, NEW r \in 0..(b - 1),
         n = d * b + r
  PROVE  n \div b = d /\ n % b = r
<1>1. PICK e, s : e = n \div b /\ s = n % b
  OBVIOUS
<1>2. e \in Nat /\ s \in 0..(b - 1) /\ n = e * b + s
  BY <1>1, DivMod
<1>3. PICK eb, db : eb = e * b /\ db = d * b
  OBVIOUS
<1>3a. eb \in Nat /\ db \in Nat /\ n = eb + s /\ n = db + r
  BY <1>2, <1>3
<1>4. ~(d < e)
  <2> SUFFICES ASSUME d < e PROVE FALSE
    OBVIOUS
  <2>1. db + b <= eb
    BY <1>2, <1>3, Times
  <2> QED
    BY <1>2, <1>3a, <2>1
<1>5. ~(e < d)
  <2> SUFFICES ASSUME e < d PROVE FALSE
    OBVIOUS
  <2>1. eb + b <= db
    BY <1>2, <1>3, Times
  <2> QED
    BY <1>2, <1>3a, <2>1
<1>6. e = d
  BY <1>2, <1>4, <1>5
<1> QED
  BY <1>1, <1>2, <1>3, <1>3a, <1>6

\* Dividing by twice as much halves the quotient.
LEMMA DivTwice ==
  ASSUME NEW n \in Nat, NEW b \in Nat \ {0}
  PROVE  /\ n \div (2 * b) = (n \div b) \div 2
         /\ n % (2 * b) = ((n \div b) % 2) * b + (n % b)
<1>1. PICK d, r : d = n \div b /\ r = n % b
  OBVIOUS
<1>2. d \in Nat /\ r \in 0..(b - 1) /\ n = d * b + r
  BY <1>1, DivMod
<1>3. PICK m, e : m = d \div 2 /\ e = d % 2
  OBVIOUS
<1>4. m \in Nat /\ e \in 0..1 /\ d = 2 * m + e
  BY <1>2, <1>3
<1>5. d * b = m * (2 * b) + e * b
  BY <1>2, <1>4
<1>6. e * b + r \in 0..(2 * b - 1)
  <2>1. CASE e = 0
    BY <1>2, <2>1
  <2>2. CASE e = 1
    BY <1>2, <2>2
  <2> QED
    BY <1>4, <2>1, <2>2
<1>7. n = m * (2 * b) + (e * b + r)
  <2>1. m * (2 * b) \in Nat /\ e * b \in Nat
    BY <1>4
  <2> QED
    BY <1>2, <1>5, <2>1
<1>8. 2 * b \in Nat \ {0}
  OBVIOUS
<1>9. n \div (2 * b) = m /\ n % (2 * b) = e * b + r
  BY <1>4, <1>6, <1>7, <1>8, DivUnique
<1> QED
  BY <1>1, <1>3, <1>9

\* An even modulus keeps parity.
LEMMA Parity ==
  ASSUME NEW n \in Nat, NEW m \in Nat \ {0}, m % 2 = 0
  PROVE  (n % m) % 2 = n % 2
<1>1. PICK d, r, h : d = n \div m /\ r = n % m /\ h = m \div 2
  OBVIOUS
<1>2. d \in Nat /\ r \in 0..(m - 1) /\ n = d * m + r /\ h \in Nat /\ m = 2 * h
  <2>1. d \in Nat /\ r \in 0..(m - 1) /\ n = d * m + r
    BY <1>1, DivMod
  <2>2. h \in Nat /\ m = 2 * h
    BY <1>1
  <2> QED
    BY <2>1, <2>2
<1>3. PICK e : e = d * h
  OBVIOUS
<1>4. e \in Nat /\ d * m = 2 * e
  BY <1>2, <1>3
<1>5. n = 2 * e + r
  BY <1>2, <1>4
<1>6. r \in Nat
  BY <1>2
<1>7. r % 2 = n % 2
  BY <1>4, <1>5, <1>6
<1> QED
  BY <1>1, <1>7

\* Dividing by a product is dividing by its factors one after the other.
LEMMA DivDiv ==
  ASSUME NEW n \in Nat, NEW a \in Nat \ {0}, NEW b \in Nat \ {0}
  PROVE  /\ a * b \in Nat \ {0}
         /\ n \div (a * b) = (n \div a) \div b
<1>1. PICK q, r, d, e, c : /\ q = n \div a /\ r = n % a /\ d = q \div b /\ e = q % b
                           /\ c = a * b
  OBVIOUS
<1>2. q \in Nat /\ r \in 0..(a - 1) /\ n = q * a + r
  BY <1>1, DivMod
<1>3. d \in Nat /\ e \in 0..(b - 1) /\ q = d * b + e
  BY <1>1, <1>2, DivMod
<1>4. e * a + a <= b * a /\ e * a \in Nat /\ b * a \in Nat
  BY <1>3, Times
<1>5. c = b * a /\ c \in Nat \ {0}
  BY <1>1, <1>4
<1>6. e * a + r \in 0..(c - 1)
  BY <1>2, <1>4, <1>5
<1>7. n = d * c + (e * a + r)
  <2>1. q * a = (d * b) * a + e * a
    BY <1>3
  <2>2. (d * b) * a = d * c
    BY <1>3, <1>5
  <2> QED
    BY <1>2, <1>3, <1>5, <2>1, <2>2
<1>8. n \div c = d
  BY <1>3, <1>5, <1>6, <1>7, DivUnique
<1> QED
  BY <1>1, <1>5, <1>8

\* p[k] is b to the power of k.
Powers(p, b, N) ==
  /\ p[0] = 1
  /\ \A k \in 0..N : p[k] \in Nat \ {0}
  /\ \A k \in 0..(N - 1) : p[k + 1] = b * p[k]

\* A function defined by multiplying is that.
LEMMA PowerFunction ==
  ASSUME NEW N \in Nat, NEW b \in Nat \ {0}
  PROVE  \E g : g = [k \in 0..N |-> IF k = 0 THEN 1 ELSE b * g[k - 1]]
<1> DEFINE F == [c \in (1..N) \X Nat |-> b * c[2]]
<1>1. F \in [(1..N) \X Nat -> Nat]
  OBVIOUS
<1>2. \A k \in 1..N, n \in Nat : F[<<k, n>>] = b * n
  OBVIOUS
<1> HIDE DEF F
<1>3. PICK g \in [0..N -> Nat] : g[0] = 1 /\ \A k \in 1..N : g[k] = F[<<k, g[k - 1]>>]
  <2>1. 1 \in Nat
    OBVIOUS
  <2>2. PICK g : Unfolds(g, N, Nat, 1, F)
    BY <1>1, <2>1, RecursiveFunction
  <2> QED
    BY <2>2 DEF Unfolds
<1>4. \A k \in 0..N : g[k] = IF k = 0 THEN 1 ELSE b * g[k - 1]
  <2> SUFFICES ASSUME NEW k \in 0..N, k # 0 PROVE g[k] = b * g[k - 1]
    BY <1>3
  <2>1. k \in 1..N /\ k - 1 \in 0..N
    OBVIOUS
  <2>2. g[k - 1] \in Nat
    BY <2>1
  <2> QED
    BY <1>2, <1>3, <2>1, <2>2
<1>5. g = [k \in 0..N |-> IF k = 0 THEN 1 ELSE b * g[k - 1]]
  BY <1>4
<1> QED
  BY <1>5

LEMMA PowersOf ==
  ASSUME NEW N \in Nat, NEW b \in Nat \ {0}, NEW p,
         p = [k \in 0..N |-> IF k = 0 THEN 1 ELSE b * p[k - 1]]
  PROVE  Powers(p, b, N)
<1>1. p[0] = 1
  <2>1. 0 \in 0..N
    OBVIOUS
  <2> QED
    BY <2>1
<1>2. \A k \in 0..(N - 1) : p[k + 1] = b * p[k]
  <2> SUFFICES ASSUME NEW k \in 0..(N - 1) PROVE p[k + 1] = b * p[k]
    OBVIOUS
  <2>1. k + 1 \in 0..N /\ k + 1 # 0 /\ (k + 1) - 1 = k
    OBVIOUS
  <2> QED
    BY <2>1
<1> DEFINE T == {k \in 0..N : p[k] \in Nat \ {0}}
<1>3. 0 \in T
  BY <1>1
<1>4. ASSUME NEW k \in 0..(N - 1), k \in T PROVE k + 1 \in T
  <2>1. p[k] \in Nat \ {0} /\ p[k + 1] = b * p[k] /\ k + 1 \in 0..N
    BY <1>2, <1>4
  <2>2. b * p[k] \in Nat \ {0}
    <3>1. PICK a : a = p[k]
      OBVIOUS
    <3>2. a \in Nat \ {0}
      BY <2>1, <3>1
    <3>3. b * a \in Nat \ {0}
      BY <3>2
    <3> QED
      BY <3>1, <3>3
  <2> QED
    BY <2>1, <2>2
<1>5. 0..N \subseteq T
  <2> HIDE DEF T
  <2> QED
    BY <1>3, <1>4, Induction
<1> QED
  BY <1>1, <1>2, <1>5 DEF Powers

\* Powers grow.
LEMMA PowersGrow ==
  ASSUME NEW N \in Nat, NEW b \in Nat \ {0, 1}, NEW p, Powers(p, b, N),
         NEW n \in 0..N, NEW m \in 0..n
  PROVE  p[m] <= p[n] /\ (m < n => p[m] < p[n])
<1>1. /\ \A k \in 0..N : p[k] \in Nat \ {0}
      /\ \A k \in 0..(N - 1) : p[k + 1] = b * p[k]
  BY DEF Powers
<1>2. ASSUME NEW k \in 0..(N - 1) PROVE p[k] < p[k + 1]
  <2>1. PICK a, c : a = p[k] /\ c = p[k + 1]
    OBVIOUS
  <2>2. a \in Nat \ {0} /\ c = b * a /\ c \in Nat
    <3>1. k \in 0..N /\ k + 1 \in 0..N
      OBVIOUS
    <3> QED
      BY <1>1, <2>1, <3>1
  <2>3. 1 * a + a <= b * a /\ 1 * a = a
    <3>1. 1 \in Nat /\ b \in Nat /\ 1 < b /\ a \in Nat
      BY <2>2
    <3>2. 1 * a + a <= b * a
      BY <3>1, Times
    <3> QED
      BY <2>2, <3>2
  <2> QED
    BY <2>1, <2>2, <2>3
<1> DEFINE T == {k \in 0..N : m <= k => p[m] <= p[k] /\ (m < k => p[m] < p[k])}
<1>3. 0 \in T
  BY <1>1
<1>4. ASSUME NEW k \in 0..(N - 1), k \in T PROVE k + 1 \in T
  <2>1. p[k] < p[k + 1] /\ p[k] \in Nat /\ p[k + 1] \in Nat /\ p[m] \in Nat /\ k + 1 \in 0..N
    BY <1>1, <1>2
  <2>2. CASE m <= k
    BY <1>4, <2>1, <2>2
  <2>3. CASE ~(m <= k)
    <3>1. m = k + 1 \/ ~(m <= k + 1)
      BY <2>3
    <3> QED
      BY <2>1, <3>1
  <2> QED
    BY <2>2, <2>3
<1>5. 0..N \subseteq T
  <2> HIDE DEF T
  <2> QED
    BY <1>3, <1>4, Induction
<1> QED
  BY <1>5

\* f[k] has the digits c[1] to c[k], the first one on top.
Horner(f, c, b, n) ==
  /\ f[0] = 0
  /\ \A k \in 1..n : c[k] \in 0..(b - 1) /\ f[k] = b * f[k - 1] + c[k]

\* A number of n digits is less than the n-th power, and its digits are those.
LEMMA HornerDigits ==
  ASSUME NEW N \in Nat, NEW b \in Nat \ {0}, NEW p, Powers(p, b, N),
         NEW n \in 0..N, NEW f, NEW c, Horner(f, c, b, n)
  PROVE  /\ f[n] \in Nat /\ f[n] < p[n]
         /\ \A j \in 0..(n - 1) : (f[n] \div p[j]) % b = c[n - j]
<1>1. /\ p[0] = 1 /\ \A k \in 0..N : p[k] \in Nat \ {0}
      /\ \A k \in 0..(N - 1) : p[k + 1] = b * p[k]
  BY DEF Powers
<1>2. /\ f[0] = 0
      /\ \A k \in 1..n : c[k] \in 0..(b - 1) /\ f[k] = b * f[k - 1] + c[k]
  BY DEF Horner
<1>3. \A k \in 0..n : f[k] \in Nat /\ f[k] < p[k]
  <2> DEFINE T == {k \in 0..n : f[k] \in Nat /\ f[k] < p[k]}
  <2>1. 0 \in T
    BY <1>1, <1>2
  <2>2. ASSUME NEW k \in 0..(n - 1), k \in T PROVE k + 1 \in T
    <3>1. PICK e, a, q, g, h : /\ e = f[k] /\ a = c[k + 1] /\ q = p[k] /\ g = f[k + 1]
                               /\ h = p[k + 1]
      OBVIOUS
    <3>2. k + 1 \in 1..n /\ (k + 1) - 1 = k /\ k \in 0..(N - 1) /\ k \in 0..N /\ k + 1 \in 0..n
      OBVIOUS
    <3>3. /\ e \in Nat /\ e < q /\ q \in Nat /\ a \in 0..(b - 1) /\ g = b * e + a /\ h = b * q
      BY <1>1, <1>2, <2>2, <3>1, <3>2
    <3>4. e * b + b <= q * b /\ e * b \in Nat /\ q * b \in Nat
      BY <3>3, Times
    <3>5. b * e = e * b /\ b * q = q * b
      BY <3>3
    <3>6. g \in Nat /\ g < h
      BY <3>3, <3>4, <3>5
    <3> QED
      BY <3>1, <3>2, <3>6
  <2>3. 0..n \subseteq T
    <3> HIDE DEF T
    <3> QED
      BY <2>1, <2>2, Induction
  <2> QED
    BY <2>3
<1>4. \A k \in 1..n : f[k] % b = c[k] /\ f[k] \div b = f[k - 1]
  <2> SUFFICES ASSUME NEW k \in 1..n PROVE f[k] % b = c[k] /\ f[k] \div b = f[k - 1]
    OBVIOUS
  <2>1. PICK g, e, a : g = f[k] /\ e = f[k - 1] /\ a = c[k]
    OBVIOUS
  <2>2. k \in 0..n /\ k - 1 \in 0..n
    OBVIOUS
  <2>3. g \in Nat /\ e \in Nat /\ a \in 0..(b - 1) /\ g = b * e + a
    BY <1>2, <1>3, <2>1, <2>2
  <2>4. b * e = e * b
    BY <2>3
  <2>5. g = e * b + a
    BY <2>3, <2>4
  <2>6. g \div b = e /\ g % b = a
    BY <2>3, <2>5, DivUnique
  <2> QED
    BY <2>1, <2>6
<1>5. \A j \in 0..n : f[n] \div p[j] = f[n - j]
  <2> DEFINE T == {j \in 0..n : f[n] \div p[j] = f[n - j]}
  <2>1. 0 \in T
    <3>1. f[n] \in Nat
      BY <1>3
    <3>2. f[n] \div 1 = f[n]
      BY <3>1
    <3> QED
      BY <1>1, <3>2
  <2>2. ASSUME NEW j \in 0..(n - 1), j \in T PROVE j + 1 \in T
    <3>1. PICK w, q : w = f[n] /\ q = p[j]
      OBVIOUS
    <3>2. j \in 0..N /\ j \in 0..(N - 1) /\ n - j \in 1..n /\ (n - j) - 1 = n - (j + 1) /\ j + 1 \in 0..n
      OBVIOUS
    <3>3. w \in Nat /\ q \in Nat \ {0} /\ p[j + 1] = b * q
      BY <1>1, <1>3, <3>1, <3>2
    <3>4. b * q = q * b
      BY <3>3
    <3>5. w \div (q * b) = (w \div q) \div b
      BY <3>3, DivDiv
    <3>6. w \div q = f[n - j]
      BY <2>2, <3>1
    <3>7. f[n - j] \div b = f[n - (j + 1)]
      BY <1>4, <3>2
    <3> QED
      BY <3>1, <3>2, <3>3, <3>4, <3>5, <3>6, <3>7
  <2>3. 0..n \subseteq T
    <3> HIDE DEF T
    <3> QED
      BY <2>1, <2>2, Induction
  <2> QED
    BY <2>3
<1>6. ASSUME NEW j \in 0..(n - 1) PROVE (f[n] \div p[j]) % b = c[n - j]
  <2>1. j \in 0..n /\ n - j \in 1..n
    OBVIOUS
  <2>2. f[n] \div p[j] = f[n - j]
    BY <1>5, <2>1
  <2>3. f[n - j] % b = c[n - j]
    BY <1>4, <2>1
  <2> QED
    BY <2>2, <2>3
<1> QED
  BY <1>3, <1>6

\* A number put together from its digits.
LEMMA HornerReads ==
  ASSUME NEW N \in Nat, NEW b \in Nat \ {0}, NEW p, Powers(p, b, N),
         NEW n \in 0..N, NEW f, NEW c, Horner(f, c, b, n),
         NEW w \in Nat, w < p[n], \A k \in 1..n : c[k] = (w \div p[n - k]) % b
  PROVE  f[n] = w
<1>1. /\ p[0] = 1 /\ \A k \in 0..N : p[k] \in Nat \ {0}
      /\ \A k \in 0..(N - 1) : p[k + 1] = b * p[k]
  BY DEF Powers
<1>2. f[0] = 0 /\ \A k \in 1..n : f[k] = b * f[k - 1] + c[k]
  BY DEF Horner
<1> DEFINE T == {k \in 0..n : f[k] = w \div p[n - k]}
<1>3. 0 \in T
  <2>1. PICK q : q = p[n]
    OBVIOUS
  <2>2. q \in Nat \ {0} /\ w < q
    BY <1>1, <2>1
  <2>3. 0 \in Nat /\ w \in 0..(q - 1) /\ w = 0 * q + w
    BY <2>2
  <2>4. w \div q = 0
    BY <2>2, <2>3, DivUnique
  <2> QED
    BY <1>2, <2>1, <2>4
<1>4. ASSUME NEW k \in 0..(n - 1), k \in T PROVE k + 1 \in T
  <2>1. PICK q, d, e : q = p[n - (k + 1)] /\ d = w \div q /\ e = f[k]
    OBVIOUS
  <2>2. /\ k + 1 \in 1..n /\ (k + 1) - 1 = k /\ k + 1 \in 0..n
        /\ n - (k + 1) \in 0..(N - 1) /\ (n - (k + 1)) + 1 = n - k
    OBVIOUS
  <2>3. q \in Nat \ {0} /\ p[n - k] = b * q
    BY <1>1, <2>1, <2>2
  <2>4. e = w \div (q * b)
    <3>1. b * q = q * b
      BY <2>3
    <3> QED
      BY <1>4, <2>1, <2>3, <3>1
  <2>5. e = d \div b
    BY <2>1, <2>3, <2>4, DivDiv
  <2>6. d \in Nat
    BY <2>1, <2>3, DivMod
  <2>7. d = (d \div b) * b + (d % b) /\ d \div b \in Nat /\ d % b \in Nat
    <3>1. /\ d \div b \in Nat /\ d % b \in 0..(b - 1)
          /\ d = (d \div b) * b + (d % b)
      BY <2>6, DivMod
    <3>2. PICK r : r = d % b
      OBVIOUS
    <3>3. r \in Nat
      BY <3>1, <3>2
    <3> QED
      BY <3>1, <3>2, <3>3
  <2>8. f[k + 1] = b * e + (d % b)
    BY <1>2, <2>1, <2>2
  <2>9. b * e = e * b
    BY <2>5, <2>7
  <2>10. f[k + 1] = d
    BY <2>5, <2>7, <2>8, <2>9
  <2> QED
    BY <2>1, <2>2, <2>10
<1>5. 0..n \subseteq T
  <2> HIDE DEF T
  <2> QED
    BY <1>3, <1>4, Induction
<1>6. n \in T
  BY <1>5
<1>7. w \div p[n - n] = w
  <2>1. w \div 1 = w
    OBVIOUS
  <2> QED
    BY <1>1, <2>1
<1> QED
  BY <1>6, <1>7
\* The first n of c are digits.
AreDigits(c, n, b) == \A k \in 1..n : c[k] \in 0..(b - 1)

\* g reads them, the first one on top, in a word that holds less than M.
ReadsDigits(g, c, n, b, M) ==
  g = [k \in 0..n |-> IF k = 0 THEN 0 ELSE (b * g[k - 1] + c[k]) % M]

\* Reading a word of digits: word is as Uint and Reverse64 define theirs.
LEMMA HornerFunction ==
  ASSUME NEW n \in Nat, NEW b \in Nat \ {0}, NEW M \in Nat \ {0}, NEW c,
         AreDigits(c, n, b)
  PROVE  \E g : ReadsDigits(g, c, n, b, M)
<1> DEFINE F == [e \in (1..n) \X Nat |-> (b * e[2] + c[e[1]]) % M]
<1>1. F \in [(1..n) \X Nat -> Nat]
  <2> SUFFICES ASSUME NEW e \in (1..n) \X Nat PROVE (b * e[2] + c[e[1]]) % M \in Nat
    OBVIOUS
  <2>1. PICK s, t : s = e[2] /\ t = c[e[1]]
    OBVIOUS
  <2>2. e[1] \in 1..n /\ s \in Nat
    BY <2>1
  <2>3. t \in 0..(b - 1)
    BY <2>1, <2>2 DEF AreDigits
  <2>4. PICK w : w = b * s + t
    OBVIOUS
  <2>5. w \in Nat
    BY <2>2, <2>3, <2>4
  <2>6. w % M \in 0..(M - 1)
    BY <2>5, DivMod
  <2> QED
    BY <2>1, <2>4, <2>6
<1>2. \A k \in 1..n, m \in Nat : F[<<k, m>>] = (b * m + c[k]) % M
  OBVIOUS
<1> HIDE DEF F
<1>3. PICK g \in [0..n -> Nat] : g[0] = 0 /\ \A k \in 1..n : g[k] = F[<<k, g[k - 1]>>]
  <2>1. 0 \in Nat
    OBVIOUS
  <2>2. PICK g : Unfolds(g, n, Nat, 0, F)
    BY <1>1, <2>1, RecursiveFunction
  <2> QED
    BY <2>2 DEF Unfolds
<1>4. \A k \in 0..n : g[k] = IF k = 0 THEN 0 ELSE (b * g[k - 1] + c[k]) % M
  <2> SUFFICES ASSUME NEW k \in 0..n, k # 0 PROVE g[k] = (b * g[k - 1] + c[k]) % M
    BY <1>3
  <2>1. k \in 1..n /\ k - 1 \in 0..n
    OBVIOUS
  <2>2. g[k - 1] \in Nat
    BY <2>1
  <2> QED
    BY <1>2, <1>3, <2>1, <2>2
<1>5. g = [k \in 0..n |-> IF k = 0 THEN 0 ELSE (b * g[k - 1] + c[k]) % M]
  BY <1>4
<1> QED
  BY <1>5 DEF ReadsDigits

-----------------------------------------------------------------------------
\* The same without a limit.
PutsDigits(g, c, n, b) == g = [k \in 0..n |-> IF k = 0 THEN 0 ELSE b * g[k - 1] + c[k]]

LEMMA HornerExists ==
  ASSUME NEW n \in Nat, NEW b \in Nat \ {0}, NEW c, AreDigits(c, n, b)
  PROVE  \E g : PutsDigits(g, c, n, b)
<1> DEFINE F == [e \in (1..n) \X Nat |-> b * e[2] + c[e[1]]]
<1>1. F \in [(1..n) \X Nat -> Nat]
  <2> SUFFICES ASSUME NEW e \in (1..n) \X Nat PROVE b * e[2] + c[e[1]] \in Nat
    OBVIOUS
  <2>1. PICK s, t : s = e[2] /\ t = c[e[1]]
    OBVIOUS
  <2>2. e[1] \in 1..n /\ s \in Nat
    BY <2>1
  <2>3. t \in 0..(b - 1)
    BY <2>1, <2>2 DEF AreDigits
  <2>4. b * s + t \in Nat
    BY <2>2, <2>3
  <2> QED
    BY <2>1, <2>4
<1>2. \A k \in 1..n, m \in Nat : F[<<k, m>>] = b * m + c[k]
  OBVIOUS
<1> HIDE DEF F
<1>3. PICK g \in [0..n -> Nat] : g[0] = 0 /\ \A k \in 1..n : g[k] = F[<<k, g[k - 1]>>]
  <2>1. 0 \in Nat
    OBVIOUS
  <2>2. PICK g : Unfolds(g, n, Nat, 0, F)
    BY <1>1, <2>1, RecursiveFunction
  <2> QED
    BY <2>2 DEF Unfolds
<1>4. \A k \in 0..n : g[k] = IF k = 0 THEN 0 ELSE b * g[k - 1] + c[k]
  <2> SUFFICES ASSUME NEW k \in 0..n, k # 0 PROVE g[k] = b * g[k - 1] + c[k]
    BY <1>3
  <2>1. k \in 1..n /\ k - 1 \in 0..n
    OBVIOUS
  <2>2. g[k - 1] \in Nat
    BY <2>1
  <2> QED
    BY <1>2, <1>3, <2>1, <2>2
<1>5. g = [k \in 0..n |-> IF k = 0 THEN 0 ELSE b * g[k - 1] + c[k]]
  BY <1>4
<1> QED
  BY <1>5 DEF PutsDigits

\* A quotient is not greater than what is divided.
LEMMA DivAtMost ==
  ASSUME NEW n \in Nat, NEW b \in Nat \ {0}
  PROVE  n \div b <= n
<1>1. PICK d, r, e : d = n \div b /\ r = n % b /\ e = b - 1
  OBVIOUS
<1>2. d \in Nat /\ r \in 0..(b - 1) /\ n = d * b + r
  BY <1>1, DivMod
<1>3. e \in Nat /\ b = e + 1
  BY <1>1
<1>4. d * b = d * e + d /\ d * e \in Nat
  BY <1>2, <1>3
<1> QED
  BY <1>1, <1>2, <1>4

\* c has the n digits of w, the first one on top.
DigitsOf(c, w, p, b, n) == \A k \in 1..n : c[k] = (w \div p[n - k]) % b

\* Reading them in a word that w fits gives w.
LEMMA ReadsExactly ==
  ASSUME NEW N \in Nat, NEW b \in Nat \ {0}, NEW p, Powers(p, b, N),
         NEW n \in 0..N, NEW M \in Nat, NEW g, NEW c, ReadsDigits(g, c, n, b, M),
         NEW w \in Nat, w < p[n], w < M, DigitsOf(c, w, p, b, n)
  PROVE  g[n] = w
<1>1. /\ p[0] = 1 /\ \A k \in 0..N : p[k] \in Nat \ {0}
      /\ \A k \in 0..(N - 1) : p[k + 1] = b * p[k]
  BY DEF Powers
<1>2. \A k \in 0..n : g[k] = IF k = 0 THEN 0 ELSE (b * g[k - 1] + c[k]) % M
  BY DEF ReadsDigits
<1>m. M \in Nat \ {0}
  OBVIOUS
<1> DEFINE T == {k \in 0..n : g[k] = w \div p[n - k]}
<1>3. 0 \in T
  <2>1. PICK q : q = p[n]
    OBVIOUS
  <2>2. q \in Nat \ {0} /\ w < q
    BY <1>1, <2>1
  <2>3. 0 \in Nat /\ w \in 0..(q - 1) /\ w = 0 * q + w
    BY <2>2
  <2>4. w \div q = 0
    BY <2>2, <2>3, DivUnique
  <2>5. n - 0 = n /\ 0 \in 0..n
    OBVIOUS
  <2> QED
    BY <1>2, <2>1, <2>4, <2>5
<1>4. ASSUME NEW k \in 0..(n - 1), k \in T PROVE k + 1 \in T
  <2>1. PICK q, d, e, r : q = p[n - (k + 1)] /\ d = w \div q /\ e = g[k] /\ r = d % b
    OBVIOUS
  <2>2. /\ k + 1 \in 1..n /\ (k + 1) - 1 = k /\ k + 1 \in 0..n /\ k + 1 # 0
        /\ n - (k + 1) \in 0..N /\ n - (k + 1) \in 0..(N - 1) /\ (n - (k + 1)) + 1 = n - k
    OBVIOUS
  <2>3. q \in Nat \ {0} /\ p[n - k] = b * q
    BY <1>1, <2>1, <2>2
  <2>4. e = w \div (q * b)
    <3>1. b * q = q * b
      BY <2>3
    <3> QED
      BY <1>4, <2>1, <2>3, <3>1
  <2>5. e = d \div b
    BY <2>1, <2>3, <2>4, DivDiv
  <2>6. d \in Nat /\ d <= w
    BY <2>1, <2>3, DivMod, DivAtMost
  <2>7. e \in Nat /\ r \in 0..(b - 1) /\ d = e * b + r
    <3>1. /\ d \div b \in Nat /\ d % b \in 0..(b - 1)
          /\ d = (d \div b) * b + (d % b)
      BY <2>6, DivMod
    <3>2. d \div b = e /\ d % b = r
      BY <2>1, <2>5
    <3> QED
      BY <3>1, <3>2
  <2>8. g[k + 1] = (b * e + r) % M
    <3>1. c[k + 1] = r
      BY <2>1, <2>2 DEF DigitsOf
    <3> QED
      BY <1>2, <2>1, <2>2, <3>1
  <2>9. b * e + r = d
    BY <2>7
  <2>10. d % M = d
    <3>1. d \in 0..(M - 1) /\ 0 \in Nat /\ d = 0 * M + d
      BY <2>6
    <3> QED
      BY <1>m, <2>6, <3>1, DivUnique
  <2> QED
    BY <2>1, <2>2, <2>8, <2>9, <2>10
<1>5. 0..n \subseteq T
  <2> HIDE DEF T
  <2> QED
    BY <1>3, <1>4, Induction
<1>6. n \in T
  BY <1>5
<1>7. w \div p[n - n] = w
  <2>1. w \div 1 = w
    OBVIOUS
  <2> QED
    BY <1>1, <2>1
<1> QED
  BY <1>6, <1>7

\* c has the n digits of w, the last one on top.
DigitsBack(c, w, p, b, n) == \A k \in 1..n : c[k] = (w \div p[k - 1]) % b

\* Digits put together backwards, twice.
LEMMA BackAndForth ==
  ASSUME NEW N \in Nat, NEW b \in Nat \ {0}, NEW p, Powers(p, b, N),
         NEW w \in Nat, w < p[N],
         NEW f, NEW c, Horner(f, c, b, N), DigitsBack(c, w, p, b, N),
         NEW g, NEW d, Horner(g, d, b, N), DigitsBack(d, f[N], p, b, N)
  PROVE  f[N] \in Nat /\ f[N] < p[N] /\ g[N] = w
<1>1. PICK m : m = f[N]
  OBVIOUS
<1>2. N \in 0..N
  OBVIOUS
<1>3. m \in Nat /\ m < p[N] /\ \A j \in 0..(N - 1) : (m \div p[j]) % b = c[N - j]
  BY <1>1, <1>2, HornerDigits
<1>4. \A k \in 1..N : d[k] = (w \div p[N - k]) % b
  <2> SUFFICES ASSUME NEW k \in 1..N PROVE d[k] = (w \div p[N - k]) % b
    OBVIOUS
  <2>1. k - 1 \in 0..(N - 1) /\ N - (k - 1) \in 1..N /\ (N - (k - 1)) - 1 = N - k
    OBVIOUS
  <2>2. d[k] = (m \div p[k - 1]) % b
    BY <1>1 DEF DigitsBack
  <2>3. (m \div p[k - 1]) % b = c[N - (k - 1)]
    BY <1>3, <2>1
  <2>4. c[N - (k - 1)] = (w \div p[N - k]) % b
    BY <2>1 DEF DigitsBack
  <2> QED
    BY <2>2, <2>3, <2>4
<1>5. g[N] = w
  BY <1>2, <1>4, HornerReads
<1> QED
  BY <1>1, <1>3, <1>5

\* f puts the digits of w together backwards, the last one on top.
PutsBack(f, w, p, b, n) ==
  f = [k \in 0..n |-> IF k = 0 THEN 0 ELSE b * f[k - 1] + ((w \div p[k - 1]) % b)]

LEMMA PutsBackwards ==
  ASSUME NEW N \in Nat, NEW b \in Nat \ {0}, NEW p, Powers(p, b, N),
         NEW w \in Nat, NEW c, DigitsBack(c, w, p, b, N)
  PROVE  /\ \E g : PutsBack(g, w, p, b, N)
         /\ \A f : PutsBack(f, w, p, b, N) => Horner(f, c, b, N)
<1>1. \A k \in 0..N : p[k] \in Nat \ {0}
  BY DEF Powers
<1>2. \A k \in 1..N : c[k] = (w \div p[k - 1]) % b
  BY DEF DigitsBack
<1>3. \A k \in 1..N : c[k] \in 0..(b - 1)
  <2> SUFFICES ASSUME NEW k \in 1..N PROVE c[k] \in 0..(b - 1)
    OBVIOUS
  <2>1. PICK q, d : q = p[k - 1] /\ d = w \div q
    OBVIOUS
  <2>2. k - 1 \in 0..N
    OBVIOUS
  <2>3. q \in Nat \ {0}
    BY <1>1, <2>1, <2>2
  <2>4. d \in Nat
    BY <2>1, <2>3, DivMod
  <2>5. d % b \in 0..(b - 1)
    BY <2>4, DivMod
  <2> QED
    BY <1>2, <2>1, <2>5
<1>4. PICK g : g = [k \in 0..N |-> IF k = 0 THEN 0 ELSE b * g[k - 1] + c[k]]
  <2>1. AreDigits(c, N, b)
    BY <1>3 DEF AreDigits
  <2>2. \E g : PutsDigits(g, c, N, b)
    BY <2>1, HornerExists
  <2> QED
    BY <2>2, Zenon DEF PutsDigits
<1>5. PutsBack(g, w, p, b, N)
  <2>1. \A k \in 0..N : k # 0 => k \in 1..N
    OBVIOUS
  <2>2. \A k \in 0..N : g[k] = IF k = 0 THEN 0 ELSE b * g[k - 1] + ((w \div p[k - 1]) % b)
    BY <1>2, <1>4, <2>1
  <2>3. g = [k \in 0..N |-> IF k = 0 THEN 0 ELSE b * g[k - 1] + ((w \div p[k - 1]) % b)]
    BY <1>4, <2>2
  <2> QED
    BY <2>3 DEF PutsBack
<1>6. ASSUME NEW f, PutsBack(f, w, p, b, N) PROVE Horner(f, c, b, N)
  <2>1. \A k \in 0..N : f[k] = IF k = 0 THEN 0 ELSE b * f[k - 1] + ((w \div p[k - 1]) % b)
    BY <1>6 DEF PutsBack
  <2>2. \A k \in 1..N : k \in 0..N /\ k # 0
    OBVIOUS
  <2>3. \A k \in 1..N : f[k] = b * f[k - 1] + c[k]
    BY <1>2, <2>1, <2>2
  <2>4. f[0] = 0
    <3>1. 0 \in 0..N
      OBVIOUS
    <3> QED
      BY <2>1, <3>1
  <2> QED
    BY <1>3, <2>3, <2>4 DEF Horner
<1> QED
  BY <1>5, <1>6

\* Functions on 1..n are sequences.
LEMMA FunctionsAreSequences ==
  ASSUME NEW S, NEW n \in Nat, NEW s \in [1..n -> S]
  PROVE  s \in Seq(S) /\ Len(s) = n
<1>1. s \in Seq(S)
  BY SeqDef, Zenon
<1> QED
  BY <1>1, LenProperties

\* A part is a sequence if it has its elements.
LEMMA PartIs ==
  ASSUME NEW S, NEW d \in Seq(S), NEW t \in Seq(S), NEW a \in Nat, NEW b \in Nat,
         b <= Len(d), b = a + Len(t), \A i \in 1..Len(t) : d[a + i] = t[i]
  PROVE  SubSeq(d, a + 1, b) = t
<1>1. a + 1 \in Int /\ b \in Int /\ Len(t) \in Nat
  OBVIOUS
<1>2. \A k \in (a + 1)..b : d[k] \in S
  OBVIOUS
<1>m. PICK m : m = a + 1
  OBVIOUS
<1>3. /\ SubSeq(d, m, b) \in Seq(S)
      /\ Len(SubSeq(d, m, b)) = IF m <= b THEN b - m + 1 ELSE 0
      /\ \A i \in 1..(b - m + 1) : SubSeq(d, m, b)[i] = d[m + i - 1]
  BY <1>1, <1>2, <1>m, SubSeqProperties
<1>4. Len(SubSeq(d, m, b)) = Len(t) /\ b - m + 1 = Len(t)
  BY <1>1, <1>m, <1>3
<1>5. ASSUME NEW i \in 1..Len(t) PROVE SubSeq(d, m, b)[i] = t[i]
  <2>1. m + i - 1 = a + i
    BY <1>1, <1>m
  <2> QED
    BY <1>3, <1>4, <2>1
<1>6. SubSeq(d, m, b) = t
  BY <1>3, <1>4, <1>5, SeqEqual
<1> QED
  BY <1>m, <1>6

\* Strings put together are found in the whole.
LEMMA Cuts ==
  ASSUME NEW S, NEW p \in Seq(S), NEW q \in Seq(S), NEW r \in Seq(S), NEW s,
         s = (p \o q) \o r
  PROVE  /\ s \in Seq(S) /\ Len(s) = Len(p) + Len(q) + Len(r)
         /\ SubSeq(s, 1, Len(p)) = p
         /\ SubSeq(s, Len(p) + Len(q) + 1, Len(p) + Len(q) + Len(r)) = r
         /\ Len(p) # 0 => s[1] = p[1]
<1>1. PICK a, b, c : a = Len(p) /\ b = Len(q) /\ c = Len(r)
  OBVIOUS
<1>2. a \in Nat /\ b \in Nat /\ c \in Nat
  BY <1>1, LenProperties
<1>3. PICK t : t = p \o q
  OBVIOUS
<1>4. /\ t \in Seq(S) /\ Len(t) = a + b
      /\ \A i \in 1..(a + b) : t[i] = IF i <= a THEN p[i] ELSE q[i - a]
  BY <1>1, <1>3, ConcatProperties
<1>5. /\ s \in Seq(S) /\ Len(s) = a + b + c
      /\ \A i \in 1..(a + b + c) : s[i] = IF i <= a + b THEN t[i] ELSE r[i - (a + b)]
  BY <1>1, <1>3, <1>4, ConcatProperties
<1>6. \A i \in 1..a : s[i] = p[i]
  <2> SUFFICES ASSUME NEW i \in 1..a PROVE s[i] = p[i]
    OBVIOUS
  <2>1. i \in 1..(a + b) /\ i \in 1..(a + b + c) /\ i <= a + b /\ i <= a
    BY <1>2
  <2> QED
    BY <1>4, <1>5, <2>1
<1>7. \A i \in 1..c : s[a + b + i] = r[i]
  <2> SUFFICES ASSUME NEW i \in 1..c PROVE s[a + b + i] = r[i]
    OBVIOUS
  <2>1. a + b + i \in 1..(a + b + c) /\ ~(a + b + i <= a + b) /\ (a + b + i) - (a + b) = i
    BY <1>2
  <2> QED
    BY <1>5, <2>1
<1>8. SubSeq(s, 1, a) = p
  <2>1. 0 + 1 = 1 /\ 0 \in Nat /\ a <= Len(s) /\ a = 0 + Len(p) /\ s \in Seq(S)
    BY <1>1, <1>2, <1>5
  <2>2. \A i \in 1..Len(p) : s[0 + i] = p[i]
    <3> SUFFICES ASSUME NEW i \in 1..Len(p) PROVE s[0 + i] = p[i]
      OBVIOUS
    <3>1. 0 + i = i
      OBVIOUS
    <3> QED
      BY <1>1, <1>6, <3>1
  <2>3. SubSeq(s, 0 + 1, a) = p
    BY <1>2, <2>1, <2>2, PartIs
  <2> QED
    BY <2>1, <2>3
<1>9. SubSeq(s, a + b + 1, a + b + c) = r
  <2>1. PICK m, n : m = a + b /\ n = a + b + c
    OBVIOUS
  <2>2. m \in Nat /\ n \in Nat /\ n <= Len(s) /\ n = m + Len(r) /\ s \in Seq(S)
    BY <1>1, <1>2, <1>5, <2>1
  <2>3. \A i \in 1..Len(r) : s[m + i] = r[i]
    BY <1>1, <1>7, <2>1
  <2>4. SubSeq(s, m + 1, n) = r
    BY <2>2, <2>3, PartIs
  <2> QED
    BY <2>1, <2>4
<1>10. a # 0 => s[1] = p[1]
  <2>1. a # 0 => 1 \in 1..a
    BY <1>2
  <2> QED
    BY <1>6, <2>1
<1> QED
  BY <1>1, <1>5, <1>8, <1>9, <1>10
=============================================================================
