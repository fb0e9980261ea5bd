--------------------------- MODULE SameSpotProofs ---------------------------
(***************************************************************************)
(* MergeSameSpotElements for slices of every length and for every element: *)
(* the loop only permutes the slice, merges equals only, stamps them with  *)
(* the greatest ID, and finds the greatest elements whenever the           *)
(* comparison is consistent on the slice.                                  *)
(***************************************************************************)
EXTENDS SameSpot, TLAPS

\* a is no greater than b
Leq(a, b) == SpotCompare(a, b) <= Eq

\* The slots the loop has dealt with: in front of i, or dropped.
Seen == {k \in Positions : k < i \/ n < k}

\* None of them is greater than the first, and the ones that are not behind
\* eq are less.
SeenOK ==
  Coherent =>
    \A k \in Seen : Leq(At(k), At(1)) /\ (k > eq => ~Leq(At(1), At(k)))

InputOK ==
  /\ Len(input) \in Nat \ {0} /\ Positions = 1..Len(input)
  /\ \A k \in Positions : input[k].id \in [src : Nat, seq : Nat]

EndOK == pc = "done" => i > n

\* Every element is in some slot.
Onto == \A j \in Positions : \E k \in Positions : heap[k] = j

IInv ==
  /\ InputOK /\ TypeOK /\ Permuted /\ Onto /\ WinnersEqual /\ GreatestID /\ SeenOK /\ EndOK

\* The comparison has three outcomes.
LEMMA SpotCompareType ==
  ASSUME NEW a, NEW b PROVE SpotCompare(a, b) \in {Less, Eq, Grtr}
<1>1. \A x, y : Sign(x, y) \in {Less, Eq, Grtr}
  BY DEF Sign
<1>2. \A x, y : RevCompare(x, y) \in {Less, Eq, Grtr}
  BY <1>1 DEF RevCompare, Then
<1>3. \A x, y : IDCompare(x, y) \in {Less, Eq, Grtr}
  BY <1>2 DEF IDCompare
<1>4. \A x, y : CompareType(x, y) \in {Less, Eq, Grtr}
  BY <1>1 DEF CompareType
<1>5. \A x, y : CompareSameType(x, y) \in {Less, Eq, Grtr}
  BY <1>1, <1>3 DEF CompareSameType
<1>6. \A x, y : CompareValue(x, y) \in {Less, Eq, Grtr}
  BY <1>4, <1>5 DEF CompareValue, Then
<1>7. \A x, y : CompareLWW(x, y) \in {Less, Eq, Grtr}
  BY <1>2, <1>4, <1>6 DEF CompareLWW, Then
<1> QED
  BY <1>7 DEF SpotCompare

\* An element equals itself wherever the comparison is consistent.
LEMMA Reflexive ==
  ASSUME Coherent, NEW x \in Positions PROVE Leq(input[x], input[x])
  BY SpotCompareType DEF Coherent, Leq, Less, Eq, Grtr

\* ID.Less is a strict total order of IDs.
LEMMA IDOrder ==
  ASSUME NEW a \in [src : Nat, seq : Nat], NEW b \in [src : Nat, seq : Nat],
         NEW d \in [src : Nat, seq : Nat]
  PROVE  /\ ~IDLess(a, a)
         /\ IDLess(a, b) => ~IDLess(b, a)
         /\ ~IDLess(a, b) /\ ~IDLess(b, d) => ~IDLess(a, d)
  BY DEF IDLess, RevCompare, Then, Sign, Less, Eq, Grtr

\* What the type invariant says of the slots.
LEMMA SlotFacts ==
  ASSUME InputOK, TypeOK
  PROVE  /\ Positions = 1..Len(input) /\ Len(input) \in Nat /\ n \in Nat /\ n <= Len(input)
         /\ eq \in Nat /\ eq >= 1 /\ eq < i /\ i \in Nat /\ i <= n + 1
         /\ 1 \in Positions /\ \A k \in 1..n : k \in Positions
         /\ heap \in [Positions -> Positions]
  BY DEF InputOK, TypeOK

\* Exchanging two slots.
LEMMA SwapFacts ==
  ASSUME InputOK, TypeOK, Permuted, NEW a \in Positions, NEW b \in Positions,
         heap' = Swapped(a, b), input' = input
  PROVE  /\ heap' \in [Positions -> Positions]
         /\ heap'[a] = heap[b] /\ heap'[b] = heap[a]
         /\ \A k \in Positions \ {a, b} : heap'[k] = heap[k]
         /\ Permuted'
         /\ Onto => Onto'
         /\ Positions' = Positions
         /\ InputOK'
<1>1. /\ heap' \in [Positions -> Positions]
      /\ heap'[a] = heap[b] /\ heap'[b] = heap[a]
      /\ \A k \in Positions \ {a, b} : heap'[k] = heap[k]
  BY DEF TypeOK, Swapped
<1>2. Positions' = Positions
  BY DEF Positions
<1>3. ASSUME NEW k \in Positions, NEW l \in Positions, heap'[k] = heap'[l]
      PROVE  k = l
  BY <1>1, <1>3 DEF Permuted
<1>4. ASSUME Onto, NEW j \in Positions
      PROVE  \E k \in Positions : heap'[k] = j
  <2>1. PICK k \in Positions : heap[k] = j
    BY <1>4 DEF Onto
  <2>2. CASE k = a
    BY <1>1, <2>1, <2>2
  <2>3. CASE k = b
    BY <1>1, <2>1, <2>3
  <2>4. CASE k \notin {a, b}
    BY <1>1, <2>1, <2>4
  <2> QED
    BY <2>2, <2>3, <2>4
<1>5. Onto => Onto'
  BY <1>2, <1>4 DEF Onto
<1> QED
  BY <1>1, <1>2, <1>3, <1>5 DEF Permuted, InputOK

\* The comparison facts a consistent slice offers, in terms of Leq.
LEMMA CoherentFacts ==
  ASSUME Coherent
  PROVE  /\ \A x, y \in Positions : Leq(input[x], input[y]) \/ Leq(input[y], input[x])
         /\ \A x, y, z \in Positions :
              Leq(input[x], input[y]) /\ Leq(input[y], input[z]) => Leq(input[x], input[z])
<1>1. ASSUME NEW x \in Positions, NEW y \in Positions
      PROVE  Leq(input[x], input[y]) \/ Leq(input[y], input[x])
  <2>1. SpotCompare(input[x], input[y]) <= Eq <=> SpotCompare(input[y], input[x]) >= Eq
    BY DEF Coherent
  <2> QED
    BY <2>1, SpotCompareType DEF Leq, Less, Eq, Grtr
<1> QED
  BY <1>1 DEF Coherent, Leq

\* The other direction of a comparison with slot i.
LEMMA Direction ==
  ASSUME Coherent, NEW x \in Positions, NEW y \in Positions
  PROVE  /\ SpotCompare(input[x], input[y]) < Eq =>
              Leq(input[x], input[y]) /\ ~Leq(input[y], input[x])
         /\ SpotCompare(input[x], input[y]) > Eq =>
              Leq(input[y], input[x]) /\ ~Leq(input[x], input[y])
         /\ SpotCompare(input[x], input[y]) = Eq =>
              Leq(input[y], input[x]) /\ Leq(input[x], input[y])
<1>1. /\ SpotCompare(input[x], input[y]) <= Eq <=> SpotCompare(input[y], input[x]) >= Eq
      /\ SpotCompare(input[y], input[x]) <= Eq <=> SpotCompare(input[x], input[y]) >= Eq
  BY DEF Coherent
<1> QED
  BY <1>1, SpotCompareType DEF Leq, Less, Eq, Grtr

\* A greater element takes the spot over from all winners so far.
LEMMA OvertakeKeeps == IInv /\ Overtake => IInv'
<1> SUFFICES ASSUME IInv, Overtake PROVE IInv'
  OBVIOUS
<1>1. PICK s \in Positions : s = i /\ s >= 2 /\ s <= n /\ s > eq /\ s \in Nat
  BY SlotFacts DEF IInv, Overtake, TypeOK
<1>2. /\ heap' = Swapped(1, s) /\ input' = input /\ n' = n /\ eq' = 1 /\ i' = s + 1
      /\ id' = At(s).id /\ pc' = "loop" /\ pc = "loop"
      /\ SpotCompare(At(1), At(s)) < Eq
  BY <1>1 DEF Overtake
<1>3. /\ heap' \in [Positions -> Positions]
      /\ heap'[1] = heap[s] /\ heap'[s] = heap[1]
      /\ \A k \in Positions \ {1, s} : heap'[k] = heap[k]
      /\ Permuted' /\ Onto' /\ Positions' = Positions /\ InputOK'
  BY <1>1, <1>2, SlotFacts, SwapFacts, ZenonT(60) DEF IInv
<1>4. TypeOK'
  BY <1>1, <1>2, <1>3, SlotFacts DEF IInv, TypeOK
<1>5. WinnersEqual' /\ EndOK'
  BY <1>2 DEF WinnersEqual, EndOK
<1>6. GreatestID'
  <2>1. Winners' = {heap[s]}
    BY <1>2, <1>3 DEF Winners
  <2>2. id' = input[heap[s]].id /\ heap[s] \in Positions
    BY <1>1, <1>2, SlotFacts DEF IInv, At
  <2>3. ~IDLess(id', id')
    BY <2>2, IDOrder DEF IInv, InputOK
  <2> QED
    BY <1>2, <2>1, <2>2, <2>3 DEF GreatestID
<1>7. SeenOK'
  <2> SUFFICES ASSUME Coherent, NEW k \in Positions, k < s + 1 \/ n < k
               PROVE  /\ Leq(input[heap'[k]], input[heap[s]])
                      /\ k > 1 => ~Leq(input[heap[s]], input[heap'[k]])
    <3>1. Coherent' <=> Coherent
      BY <1>2, <1>3 DEF Coherent
    <3>2. Seen' = {k \in Positions : k < s + 1 \/ n < k}
      BY <1>2, <1>3 DEF Seen
    <3> QED
      BY <1>2, <1>3, <3>1, <3>2 DEF SeenOK, At
  <2>0. heap[s] \in Positions /\ heap[1] \in Positions /\ heap[k] \in Positions /\ k \in Nat
    BY <1>1, SlotFacts DEF IInv
  <2>1. Leq(input[heap[1]], input[heap[s]]) /\ ~Leq(input[heap[s]], input[heap[1]])
    BY <1>2, <2>0, Direction DEF At
  <2>2. CASE k = 1
    <3>1. Leq(input[heap[s]], input[heap[s]])
      BY <2>0, Reflexive
    <3> QED
      BY <1>3, <2>2, <3>1
  <2>3. CASE k = s
    BY <1>1, <1>3, <2>1, <2>3
  <2>4. CASE k \notin {1, s}
    <3>1. k \in Seen /\ heap'[k] = heap[k]
      BY <1>1, <1>3, <2>0, <2>4, SlotFacts DEF IInv, Seen
    <3>2. Leq(input[heap[k]], input[heap[1]])
      BY <3>1 DEF IInv, SeenOK, At
    <3>3. Leq(input[heap[k]], input[heap[s]])
      BY <2>0, <2>1, <3>2, CoherentFacts
    <3>4. ~Leq(input[heap[s]], input[heap[k]])
      BY <2>0, <2>1, <3>2, CoherentFacts
    <3> QED
      BY <3>1, <3>3, <3>4
  <2> QED
    BY <2>2, <2>3, <2>4
<1> QED
  BY <1>3, <1>4, <1>5, <1>6, <1>7 DEF IInv

\* A lesser element leaves the slice; no winner moves.
LEMMA DropKeeps == IInv /\ Drop => IInv'
<1> SUFFICES ASSUME IInv, Drop PROVE IInv'
  OBVIOUS
<1>a. /\ Positions = 1..Len(input) /\ Len(input) \in Nat /\ n \in Nat /\ n <= Len(input)
      /\ eq \in Nat /\ eq >= 1 /\ 1 \in Positions /\ heap \in [Positions -> Positions]
  BY SlotFacts DEF IInv
<1>1. PICK s \in Positions, l \in Positions :
        s = i /\ l = n /\ s >= 2 /\ s <= l /\ s > eq /\ s \in Nat /\ l \in Nat
  BY SlotFacts DEF IInv, Drop, TypeOK
<1>2. /\ heap' = Swapped(l, s) /\ input' = input /\ n' = l - 1 /\ eq' = eq /\ i' = s
      /\ id' = id /\ pc' = "loop" /\ pc = "loop"
      /\ SpotCompare(At(1), At(s)) > Eq
  BY <1>1 DEF Drop
<1>3. /\ heap' \in [Positions -> Positions]
      /\ heap'[l] = heap[s] /\ heap'[s] = heap[l]
      /\ \A k \in Positions \ {l, s} : heap'[k] = heap[k]
      /\ Permuted' /\ Onto' /\ Positions' = Positions /\ InputOK'
  BY <1>1, <1>2, SwapFacts DEF IInv
<1>4. TypeOK'
  <2>1. n' \in Positions /\ eq' \in 1..n' /\ i' \in 2..(n' + 1) /\ eq' < i'
    BY <1>a, <1>1, <1>2
  <2> QED
    BY <1>2, <1>3, <2>1 DEF TypeOK
<1>5. \A k \in 1..eq : k \in Positions \ {l, s} /\ heap'[k] = heap[k]
  <2>1. \A k \in 1..eq : k \in Positions \ {l, s}
    BY <1>a, <1>1
  <2> QED
    BY <1>3, <2>1
<1>6. WinnersEqual' /\ EndOK' /\ heap'[1] = heap[1]
  BY <1>2, <1>5, SlotFacts DEF IInv, WinnersEqual, EndOK, At
<1>7. GreatestID'
  <2>1. Winners' = Winners
    BY <1>2, <1>5 DEF Winners
  <2> QED
    BY <1>2, <2>1 DEF IInv, GreatestID
<1>8. SeenOK'
  <2> SUFFICES ASSUME Coherent, NEW k \in Positions, k < s \/ l - 1 < k
               PROVE  /\ Leq(input[heap'[k]], input[heap[1]])
                      /\ k > eq => ~Leq(input[heap[1]], input[heap'[k]])
    <3>1. Coherent' <=> Coherent
      BY <1>2, <1>3 DEF Coherent
    <3>2. Seen' = {k \in Positions : k < s \/ l - 1 < k}
      BY <1>2, <1>3 DEF Seen
    <3> QED
      BY <1>2, <1>3, <1>6, <3>1, <3>2 DEF SeenOK, At
  <2>0. heap[s] \in Positions /\ heap[1] \in Positions /\ heap[k] \in Positions /\ k \in Nat
    BY <1>1, SlotFacts DEF IInv
  <2>1. Leq(input[heap[s]], input[heap[1]]) /\ ~Leq(input[heap[1]], input[heap[s]])
    BY <1>2, <2>0, Direction DEF At
  <2>2. CASE k = l
    BY <1>3, <2>1, <2>2
  <2>3. CASE k # l
    <3>1. k \in Seen /\ k # s /\ heap'[k] = heap[k]
      BY <1>1, <1>3, <2>0, <2>3 DEF Seen
    <3> QED
      BY <3>1 DEF IInv, SeenOK, At
  <2> QED
    BY <2>2, <2>3
<1> QED
  BY <1>3, <1>4, <1>6, <1>7, <1>8 DEF IInv

\* An equal element joins the winners; the slot it came from gets a loser.
LEMMA JoinKeeps == IInv /\ Join => IInv'
<1> SUFFICES ASSUME IInv, Join PROVE IInv'
  OBVIOUS
<1>a. /\ Positions = 1..Len(input) /\ Len(input) \in Nat /\ n \in Nat /\ n <= Len(input)
      /\ eq \in Nat /\ eq >= 1 /\ 1 \in Positions /\ heap \in [Positions -> Positions]
  BY SlotFacts DEF IInv
<1>1. PICK s \in Positions, e \in Positions :
        s = i /\ e = eq + 1 /\ e >= 2 /\ e <= s /\ s <= n /\ s \in Nat /\ e \in Nat
  BY SlotFacts DEF IInv, Join, TypeOK
<1>2. /\ heap' = Swapped(e, s) /\ input' = input /\ n' = n /\ eq' = e /\ i' = s + 1
      /\ id' = (IF IDLess(id, At(s).id) THEN At(s).id ELSE id)
      /\ pc' = "loop" /\ pc = "loop"
      /\ SpotCompare(At(1), At(s)) = Eq
  BY <1>1 DEF Join
<1>3. /\ heap' \in [Positions -> Positions]
      /\ heap'[e] = heap[s] /\ heap'[s] = heap[e]
      /\ \A k \in Positions \ {e, s} : heap'[k] = heap[k]
      /\ Permuted' /\ Onto' /\ Positions' = Positions /\ InputOK'
  BY <1>1, <1>2, SwapFacts DEF IInv
<1>4. TypeOK'
  <2>1. n' \in Positions /\ eq' \in 1..n' /\ i' \in 2..(n' + 1) /\ eq' < i'
    BY <1>a, <1>1, <1>2
  <2> QED
    BY <1>2, <1>3, <2>1 DEF TypeOK
<1>5. /\ \A k \in 1..eq : k \in Positions \ {e, s} /\ heap'[k] = heap[k]
      /\ 1..e = (1..eq) \cup {e} /\ 1 \in 1..eq
  <2>1. \A k \in 1..eq : k \in Positions \ {e, s}
    BY <1>a, <1>1
  <2>2. 1..e = (1..eq) \cup {e} /\ 1 \in 1..eq
    BY <1>a, <1>1
  <2> QED
    BY <1>3, <2>1, <2>2
<1>6. WinnersEqual' /\ EndOK' /\ heap'[1] = heap[1]
  <2>1. \A k \in 2..e : k \in 2..eq \/ k = e
    BY <1>1, SlotFacts DEF IInv
  <2>2. \A k \in 2..eq : k \in 1..eq
    OBVIOUS
  <2>3. ASSUME NEW k \in 2..e PROVE SpotCompare(input[heap'[1]], input[heap'[k]]) = Eq
    BY <1>2, <1>3, <1>5, <2>1, <2>2 DEF IInv, WinnersEqual, At
  <2> QED
    BY <1>2, <1>5, <2>3 DEF WinnersEqual, EndOK, At
<1>7. GreatestID'
  <2>1. Winners' = Winners \cup {heap[s]} /\ heap[s] \in Positions
    <3>1. Winners' = {heap'[k] : k \in (1..eq) \cup {e}}
      BY <1>2, <1>5 DEF Winners
    <3>2. Winners = {heap'[k] : k \in 1..eq}
      BY <1>5 DEF Winners
    <3> QED
      BY <1>a, <1>3, <3>1, <3>2
  <2>2. \A k \in Winners : k \in Positions
    BY <1>5, SlotFacts DEF IInv, Winners
  <2>3. PICK w \in Winners : id = input[w].id
    BY DEF IInv, GreatestID
  <2>4. id \in [src : Nat, seq : Nat] /\ At(s).id \in [src : Nat, seq : Nat]
    BY <2>1, <2>2, <2>3 DEF IInv, InputOK, At
  <2>5. ASSUME NEW k \in Winners \cup {heap[s]} PROVE ~IDLess(id', input[k].id)
    <3>1. input[k].id \in [src : Nat, seq : Nat]
      BY <2>1, <2>2 DEF IInv, InputOK
    <3>2. CASE k \in Winners
      <4>1. ~IDLess(id, input[k].id)
        BY <3>2 DEF IInv, GreatestID
      <4>2. IDLess(id, At(s).id) => ~IDLess(At(s).id, id)
        BY <2>4, IDOrder
      <4> QED
        BY <1>2, <2>4, <3>1, <4>1, <4>2, IDOrder
    <3>3. CASE k = heap[s]
      BY <1>2, <2>4, <3>3, IDOrder DEF At
    <3> QED
      BY <3>2, <3>3
  <2>6. \E k \in Winners \cup {heap[s]} : id' = input[k].id
    BY <1>2, <2>3 DEF At
  <2> QED
    BY <1>2, <2>1, <2>5, <2>6 DEF GreatestID
<1>8. SeenOK'
  <2> SUFFICES ASSUME Coherent, NEW k \in Positions, k < s + 1 \/ n < k
               PROVE  /\ Leq(input[heap'[k]], input[heap[1]])
                      /\ k > e => ~Leq(input[heap[1]], input[heap'[k]])
    <3>1. Coherent' <=> Coherent
      BY <1>2, <1>3 DEF Coherent
    <3>2. Seen' = {k \in Positions : k < s + 1 \/ n < k}
      BY <1>2, <1>3 DEF Seen
    <3> QED
      BY <1>2, <1>3, <1>6, <3>1, <3>2 DEF SeenOK, At
  <2>0. heap[s] \in Positions /\ heap[1] \in Positions /\ k \in Nat /\ eq \in Nat /\ n \in Nat
    BY <1>1, SlotFacts DEF IInv
  <2>1. Leq(input[heap[s]], input[heap[1]])
    BY <1>2, <2>0, Direction DEF At
  <2>2. CASE k = e
    BY <1>1, <1>3, <2>1, <2>2
  <2>3. CASE k = s /\ s # e
    <3>1. e \in Seen /\ e > eq /\ heap'[k] = heap[e]
      BY <1>1, <1>3, <2>0, <2>3 DEF Seen
    <3> QED
      BY <3>1 DEF IInv, SeenOK, At
  <2>4. CASE k \notin {e, s}
    <3>1. k \in Seen /\ heap'[k] = heap[k] /\ (k > e => k > eq)
      BY <1>1, <1>3, <2>0, <2>4 DEF Seen
    <3> QED
      BY <3>1 DEF IInv, SeenOK, At
  <2> QED
    BY <2>2, <2>3, <2>4
<1> QED
  BY <1>3, <1>4, <1>6, <1>7, <1>8 DEF IInv

\* Writing the record, failing and stuttering leave the slice alone.
LEMMA RestKeeps == IInv /\ (Write \/ Refuse \/ UNCHANGED vars) => IInv'
<1> SUFFICES ASSUME IInv, Write \/ Refuse \/ UNCHANGED vars PROVE IInv'
  OBVIOUS
<1>1. /\ UNCHANGED <<input, heap, n, eq, id, i>>
      /\ pc' \in {"loop", "done", "failed"}
      /\ pc' = "done" => i > n
  BY DEF IInv, TypeOK, EndOK, Write, Refuse, vars
<1>2. Positions' = Positions /\ Winners' = Winners /\ Seen' = Seen
  BY <1>1 DEF Positions, Winners, Seen
<1>3. InputOK' /\ TypeOK' /\ Permuted' /\ Onto' /\ EndOK'
  BY <1>1, <1>2 DEF IInv, InputOK, TypeOK, Permuted, Onto, EndOK
<1>4. WinnersEqual' /\ GreatestID'
  BY <1>1, <1>2 DEF IInv, WinnersEqual, GreatestID, At
<1>5. SeenOK'
  BY <1>1, <1>2 DEF IInv, SeenOK, Coherent, At
<1> QED
  BY <1>3, <1>4, <1>5 DEF IInv

\* The loop starts with the first element as the only winner.
LEMMA InitOK == Init => IInv
<1> SUFFICES ASSUME Init PROVE IInv
  OBVIOUS
<1>1. InputOK
  BY SpotInputsAssumption DEF Init, InputOK, Positions
<1>2. 1 \in Positions /\ \A k \in Positions : k \in Nat /\ k >= 1 /\ k <= Len(input)
  BY <1>1 DEF InputOK
<1>3. heap \in [Positions -> Positions] /\ \A k \in Positions : heap[k] = k
  BY DEF Init, Positions
<1>4. TypeOK
  BY <1>1, <1>3 DEF Init, TypeOK, InputOK
<1>5. Permuted /\ Onto /\ EndOK /\ WinnersEqual
  BY <1>3 DEF Init, Permuted, Onto, EndOK, WinnersEqual
<1>6. GreatestID
  <2>1. Winners = {1} /\ id = input[1].id
    BY <1>2, <1>3 DEF Init, Winners
  <2>2. ~IDLess(id, id)
    BY <1>1, <1>2, <2>1, IDOrder DEF InputOK
  <2> QED
    BY <2>1, <2>2 DEF GreatestID
<1>7. SeenOK
  <2>1. Seen = {1} /\ eq = 1
    BY <1>1, <1>2 DEF Init, Seen, InputOK
  <2>2. Coherent => Leq(input[1], input[1])
    BY <1>2, Reflexive
  <2> QED
    BY <1>2, <1>3, <2>1, <2>2 DEF SeenOK, At
<1> QED
  BY <1>1, <1>4, <1>5, <1>6, <1>7 DEF IInv

\* IInv is an invariant of MergeSameSpotElements.
THEOREM Inductive == Spec => []IInv
<1>1. IInv /\ [Next]_vars => IInv'
  BY OvertakeKeeps, DropKeeps, JoinKeeps, RestKeeps DEF Next, Done
<1> QED
  BY InitOK, <1>1, PTL DEF Spec

\* The loop keeps its indices inside the slice, for slices of every length.
THEOREM TypeCorrect == Spec => []TypeOK
<1>1. IInv => TypeOK
  BY DEF IInv
<1> QED
  BY <1>1, Inductive, PTL

\* The loop only permutes the slice it is given: MergeNext can go on to
\* advance the same iterators.
THEOREM OnlyPermutes == Spec => []Permuted
<1>1. IInv => Permuted
  BY DEF IInv
<1> QED
  BY <1>1, Inductive, PTL

\* What is merged into one value is equal, and stamped with the greatest ID
\* among it.
THEOREM EqualsUnderGreatestID == Spec => [](WinnersEqual /\ GreatestID)
<1>1. IInv => WinnersEqual /\ GreatestID
  BY DEF IInv
<1> QED
  BY <1>1, Inductive, PTL

\* On a slice whose elements compare consistently the winners are the
\* greatest elements: which ones does not depend on the order of the slice.
THEOREM LastWriteIsKept == Spec => []LastWriteWins
<1>1. IInv => LastWriteWins
  <2> SUFFICES ASSUME IInv, Coherent, pc = "done"
               PROVE  Winners = {k \in Positions : \A j \in Positions :
                                   Leq(input[j], input[k])}
    BY DEF LastWriteWins, Leq
  <2>1. Positions = 1..Len(input) /\ Len(input) \in Nat /\ 1 \in Positions
        /\ heap \in [Positions -> Positions] /\ \A k \in 1..eq : k \in Positions
    BY SlotFacts DEF IInv, TypeOK
  <2>2. \A k \in Positions : /\ Leq(At(k), At(1))
                             /\ k > eq => ~Leq(At(1), At(k))
    <3>1. Seen = Positions
      BY SlotFacts DEF IInv, Seen, EndOK
    <3> QED
      BY <3>1 DEF IInv, SeenOK
  <2>3. \A j \in Positions : Leq(input[j], At(1))
    BY <2>2 DEF IInv, Onto, At
  <2>4. ASSUME NEW k \in 1..eq, NEW j \in Positions PROVE Leq(input[j], input[heap[k]])
    <3>1. heap[k] \in Positions /\ heap[1] \in Positions
      BY <2>1
    <3>2. CASE k = 1
      BY <2>3, <3>2 DEF At
    <3>3. CASE k # 1
      <4>1. k \in 2..eq
        BY <3>3, SlotFacts DEF IInv
      <4>2. SpotCompare(input[heap[1]], input[heap[k]]) = Eq
        BY <4>1 DEF IInv, WinnersEqual, At
      <4>3. Leq(input[heap[1]], input[heap[k]])
        BY <4>2 DEF Leq, Eq
      <4> QED
        BY <2>3, <3>1, <4>3, CoherentFacts DEF At
    <3> QED
      BY <3>2, <3>3
  <2>5. ASSUME NEW k \in Positions, ~(k \in 1..eq) PROVE ~Leq(At(1), At(k))
    BY <2>1, <2>2, <2>5, SlotFacts DEF IInv
  <2>6. ASSUME NEW g \in Positions, \A j \in Positions : Leq(input[j], input[g])
        PROVE  g \in Winners
    <3>1. PICK k \in Positions : heap[k] = g
      BY DEF IInv, Onto
    <3>2. Leq(At(1), At(k))
      BY <2>1, <2>6, <3>1 DEF At
    <3> QED
      BY <2>5, <3>1, <3>2 DEF Winners
  <2>7. \A g \in Winners : g \in Positions /\ \A j \in Positions : Leq(input[j], input[g])
    BY <2>1, <2>4 DEF Winners
  <2> QED
    BY <2>6, <2>7
<1> QED
  BY <1>1, Inductive, PTL
=============================================================================
