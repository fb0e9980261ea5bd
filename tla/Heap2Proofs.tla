---------------------------- MODULE Heap2Proofs ----------------------------
(***************************************************************************)
(* Heap2 implements the multiway merge, for any number of inputs of any    *)
(* length: the counterpart of the older heap, for which TLC finds eight    *)
(* inputs that come out unsorted.  Everything about order holds until an   *)
(* iterator fails; that no iterator is lost holds after that as well, to   *)
(* the panic that may come of it.                                          *)
(***************************************************************************)
EXTENDS Heap2, NumberFacts, FiniteSetTheorems, SequenceTheorems, TLAPS

Slots == DOMAIN inputs

Typed ==
  /\ data \in Seq(Seq(Int \cup {Bad}))
  /\ pos \in [Sources -> Nat]
  /\ \A s \in Sources : pos[s] \in 1..(Len(data[s]) + 1)
  /\ inputs \in Seq(Sources)
  /\ eqs \in Seq(Nat \ {0})
  /\ i \in Nat
  /\ c \in Nat
  /\ out \in Seq([key : Int \cup {Bad}, from : SUBSET Sources])
  /\ good \in 0..Len(out)
  /\ pc \in {"make", "up", "read", "gather", "advance", "sink", "down", "done", "panic"}

\* The slots of the round that have yet to be sunk: their iterators have been
\* advanced, and may have no data left.  After a panic that may be any slot.
Pending ==
  CASE pc = "sink" -> {eqs[j] : j \in 1..i}
    [] pc = "down" -> {eqs[j] : j \in 1..(i - 1)}
    [] pc = "panic" -> Slots
    [] OTHER -> {}

\* Slots hold different iterators, none that was read to its end unless it is
\* pending, and once the heap is made every iterator with data has a slot.
Standing(s) == HasData(s) \/ data[s] = <<>>
SlotsOK ==
  /\ \A a, b \in Slots : inputs[a] = inputs[b] => a = b
  /\ \A a \in Slots \ Pending : Standing(inputs[a])
  /\ pc \notin {"make", "up"} =>
       \A s \in Sources : HasData(s) => \E a \in Slots : inputs[a] = s

\* While the heap is made nothing is read, and the streams before i have slots.
MadeOK ==
  pc \in {"make", "up"} =>
    /\ ~AnyFailed /\ out = <<>>
    /\ i \in 1..(Len(data) + 1)
    /\ \A s \in Sources : pos[s] = 1
    /\ \A a \in Slots : inputs[a] < i
    /\ \A s \in Sources : s < i => \E a \in Slots : inputs[a] = s
    /\ pc = "up" => c \in Slots

\* a is a child of slot p, present or not
IsChild(p, a) == a = 2 * p \/ a = 2 * p + 1

\* The list of equals starts with the root, grows, and has the parent of all
\* that is in it.
EqsOK ==
  pc \in {"gather", "advance", "sink", "down"} =>
    /\ Len(eqs) >= 1
    /\ eqs[1] = 1
    /\ \A a, b \in 1..Len(eqs) : a < b => eqs[a] < eqs[b]
    /\ \A m \in 2..Len(eqs) : \E j \in 1..(m - 1) : IsChild(eqs[j], eqs[m])
    /\ pc \in {"gather", "advance"} => \A m \in 1..Len(eqs) : eqs[m] \in Slots
    /\ pc = "gather" => /\ i \in 1..(Len(eqs) + 1)
                        /\ \A m \in 2..Len(eqs) : \E j \in 1..(i - 1) : IsChild(eqs[j], eqs[m])
    /\ pc = "sink" => i \in 0..Len(eqs)
    /\ pc = "down" => i \in 1..Len(eqs) /\ c >= eqs[i]
    /\ Pending \subseteq Slots

\* the slots found equal, and those whose children were looked at
Listed == {eqs[m] : m \in 1..Len(eqs)}
Seen == {eqs[m] : m \in 1..(i - 1)}

\* Until an iterator fails: what is in the list equals the root, and of the
\* children of slots that were looked at, all equals are in it.
FoundOK ==
  pc = "gather" /\ ~AnyFailed =>
    /\ \A a \in Listed : Rec(a) = Rec(1)
    /\ \A p \in Seen : \A a \in Slots : IsChild(p, a) /\ Rec(a) <= Rec(1) => a \in Listed

\* Until an iterator fails: no slot is less than its parent, but for the
\* cursor on its way up, the children of the cursor on its way down, and the
\* children of pending slots.
Upheld == pc = "up" =>
  /\ \A p, a \in Slots : IsChild(p, a) /\ a # c => Rec(p) <= Rec(a)
  /\ \A p, a \in Slots : IsChild(p, c) /\ IsChild(c, a) => Rec(p) <= Rec(a)
Sunk == pc = "down" =>
  /\ \A p \in Slots \ Pending : \A a \in Slots : IsChild(p, a) /\ p # c => Rec(p) <= Rec(a)
  /\ \A p \in Slots \ Pending : \A a \in Slots :
       IsChild(p, c) /\ IsChild(c, a) => Rec(p) <= Rec(a)
Settled == pc \notin {"up", "down"} =>
  \A p \in Slots \ Pending : \A a \in Slots : IsChild(p, a) => Rec(p) <= Rec(a)
HeapOK == ~AnyFailed => Upheld /\ Sunk /\ Settled

\* Until an iterator fails: the rounds took what the iterators have passed,
\* and in the middle of a round what its contenders stand at.
TakenOK ==
  ~AnyFailed =>
    /\ good = Len(out)
    /\ \A s \in Sources :
         Taken(s) = IF pc = "advance" /\ s \in Merged THEN pos[s] ELSE pos[s] - 1

\* Until an iterator fails: while a slot that is not of the round has no data,
\* every round so far was of a lesser rank.
OfRound == IF pc = "advance" THEN Listed ELSE Pending
BlankOK ==
  ~AnyFailed /\ (\E a \in Slots \ OfRound : ~HasData(inputs[a])) =>
    \A k \in 1..Len(out) : out[k].key < Blank

IInv == Typed /\ SlotsOK /\ MadeOK /\ EqsOK /\ FoundOK /\ HeapOK /\ TakenOK /\ BlankOK
-----------------------------------------------------------------------------
(* Heaps as arrays of numbers *)

\* Every slot but the root has a parent.
LEMMA ParentExists ==
  ASSUME NEW a \in Nat, a > 1
  PROVE  a \div 2 \in Nat /\ a \div 2 >= 1 /\ a \div 2 < a /\ IsChild(a \div 2, a)
  BY DEF IsChild

\* The root of a heap is its least slot.
LEMMA RootLeast ==
  ASSUME NEW n \in Nat, NEW v \in [1..n -> Int],
         \A p, a \in 1..n : IsChild(p, a) => v[p] <= v[a],
         NEW k \in 1..n
  PROVE  v[1] <= v[k]
<1> DEFINE T == {a \in 1..n : v[a] < v[1]}
<1>1. SUFFICES ASSUME T # {} PROVE FALSE
  OBVIOUS
<1>2. PICK m \in T : \A a \in T : m <= a
  <2>1. T \subseteq Nat
    OBVIOUS
  <2> HIDE DEF T
  <2> QED
    BY <1>1, <2>1, LeastNumber
<1>3. m \in 1..n /\ m > 1 /\ v[m] < v[1]
  OBVIOUS
<1>4. m \div 2 \in 1..n /\ m \div 2 < m /\ IsChild(m \div 2, m)
  BY <1>3, ParentExists
<1>5. m \div 2 \notin T
  BY <1>2, <1>4
<1>6. v[m \div 2] >= v[1] /\ v[m \div 2] <= v[m]
  BY <1>3, <1>4, <1>5
<1> QED
  BY <1>3, <1>4, <1>6

\* A set of slots that has the root, and with a slot all its children that
\* equal the root, has everything that equals the root.
LEMMA EqualsReached ==
  ASSUME NEW n \in Nat, NEW v \in [1..n -> Int],
         \A p, a \in 1..n : IsChild(p, a) => v[p] <= v[a],
         NEW E, 1 \in E,
         \A p, a \in 1..n : p \in E /\ IsChild(p, a) /\ v[a] <= v[1] => a \in E,
         NEW k \in 1..n, v[k] = v[1]
  PROVE  k \in E
<1> DEFINE T == {a \in 1..n : v[a] = v[1] /\ a \notin E}
<1>1. SUFFICES ASSUME T # {} PROVE FALSE
  OBVIOUS
<1>2. PICK m \in T : \A a \in T : m <= a
  <2>1. T \subseteq Nat
    OBVIOUS
  <2> HIDE DEF T
  <2> QED
    BY <1>1, <2>1, LeastNumber
<1>3. m \in 1..n /\ m > 1 /\ v[m] = v[1] /\ m \notin E
  OBVIOUS
<1>4. m \div 2 \in 1..n /\ m \div 2 < m /\ IsChild(m \div 2, m)
  BY <1>3, ParentExists
<1>5. v[m \div 2] <= v[m] /\ v[1] <= v[m \div 2]
  BY <1>3, <1>4, RootLeast
<1>6. m \div 2 \in E
  BY <1>2, <1>3, <1>4, <1>5
<1> QED
  BY <1>3, <1>4, <1>6
-----------------------------------------------------------------------------
(* What the invariant says of a slot *)

LEMMA SlotFacts ==
  ASSUME InputsOK, Typed, SlotsOK, NEW a \in Slots
  PROVE  /\ a \in Nat /\ a >= 1 /\ a <= Len(inputs) /\ Len(inputs) \in Nat
         /\ inputs[a] \in Sources
         /\ pos[inputs[a]] \in 1..(Len(data[inputs[a]]) + 1)
         /\ Len(data[inputs[a]]) \in Nat
         /\ a \notin Pending => Rec(a) \in Int \cup {Bad}
         /\ a \notin Pending /\ ~AnyFailed => Rec(a) # Bad
<1>1. /\ a \in Nat /\ a >= 1 /\ a <= Len(inputs) /\ Len(inputs) \in Nat
      /\ inputs[a] \in Sources
  BY DEF Typed, Slots
<1>2. /\ pos[inputs[a]] \in 1..(Len(data[inputs[a]]) + 1)
      /\ data[inputs[a]] \in Seq(Int \cup {Bad}) /\ Len(data[inputs[a]]) \in Nat
  <2>1. \A s \in Sources : data[s] \in Seq(Int \cup {Bad})
    BY DEF Typed, Sources
  <2> QED
    BY <1>1, <2>1 DEF Typed
<1>3. ASSUME a \notin Pending PROVE Rec(a) \in Int \cup {Bad}
  BY <1>1, <1>2, <1>3 DEF InputsOK, HasData, Rec
<1>4. ASSUME a \notin Pending, ~AnyFailed PROVE Rec(a) # Bad
  BY <1>1, <1>2, <1>4 DEF InputsOK, AnyFailed, HasFailed, Rec
<1> QED
  BY <1>1, <1>2, <1>3, <1>4

\* Until an iterator fails, comparisons are of numbers.
LEMMA ReadableFacts ==
  ASSUME InputsOK, Typed, SlotsOK, ~AnyFailed, NEW a \in Slots \ Pending, NEW b \in Slots \ Pending
  PROVE  /\ Rec(a) \in Int /\ Rec(b) \in Int
         /\ MayBeLess(a, b) <=> Rec(a) < Rec(b)
         /\ MayBeGeq(a, b) <=> Rec(a) >= Rec(b)
<1>1. Rec(a) \in Int /\ Rec(b) \in Int /\ Rec(a) # Bad /\ Rec(b) # Bad
  BY SlotFacts DEF InputsOK
<1> QED
  BY <1>1 DEF MayBeLess, MayBeGeq, Positioned

LEMMA TakenSame ==
  ASSUME UNCHANGED <<out, good>>
  PROVE  \A s : Taken(s)' = Taken(s)
  BY DEF Taken

LEMMA FailedSame ==
  ASSUME UNCHANGED <<data, pos>>
  PROVE  /\ Sources' = Sources
         /\ \A s : HasData(s)' <=> HasData(s)
         /\ \A s : HasFailed(s)' <=> HasFailed(s)
         /\ AnyFailed' <=> AnyFailed
<1>1. /\ Sources' = Sources
      /\ \A s : HasData(s)' <=> HasData(s)
      /\ \A s : HasFailed(s)' <=> HasFailed(s)
  BY DEF Sources, HasData, HasFailed
<1> QED
  BY <1>1 DEF AnyFailed
\* Only a round can end a wait, or a slot that leaves the round.
LEMMA BlankSame ==
  ASSUME BlankOK, UNCHANGED <<data, pos, out>>,
         \A a \in Slots' : a \notin OfRound' /\ ~HasData(inputs'[a]) =>
           \E b \in Slots \ OfRound : inputs[b] = inputs'[a]
  PROVE  BlankOK'
<1>1. (AnyFailed' <=> AnyFailed) /\ \A s : HasData(s)' <=> HasData(s)
  BY FailedSame
<1>2. SUFFICES ASSUME ~AnyFailed, NEW a \in Slots', a \notin OfRound', ~HasData(inputs'[a])
               PROVE  \A k \in 1..Len(out) : out[k].key < Blank
  BY <1>1 DEF BlankOK, HasData
<1>3. PICK b \in Slots \ OfRound : inputs[b] = inputs'[a]
  BY <1>2
<1> QED
  BY <1>2, <1>3 DEF BlankOK
-----------------------------------------------------------------------------
(* The heap is made *)

LEMMA InitIInv ==
  ASSUME InputsOK, Init
  PROVE  IInv
<1>1. data \in Heaps2 /\ data \in Seq(Seq(Int \cup {Bad}))
  BY DEF Init, InputsOK
<1>2. /\ pos = [s \in Sources |-> 1] /\ inputs = <<>> /\ eqs = <<>> /\ i = 1 /\ c = 0
      /\ out = <<>> /\ good = 0 /\ pc = "make"
  BY DEF Init
<1>3. \A s \in Sources : data[s] \in Seq(Int \cup {Bad}) /\ Len(data[s]) \in Nat
  BY <1>1 DEF Sources
<1>4. Typed
  BY <1>1, <1>2, <1>3 DEF Typed
<1>5. ~AnyFailed
  <2>1. ASSUME NEW s \in Sources, HasFailed(s) PROVE FALSE
    <3>1. pos[s] = 1 /\ 1 <= Len(data[s]) /\ data[s][1] = Bad
      BY <1>2, <2>1 DEF HasFailed, HasData
    <3>2. data[s] # <<>>
      BY <1>3, <3>1
    <3> QED
      BY <1>1, <3>1, <3>2 DEF InputsOK, Sources
  <2> QED
    BY <2>1 DEF AnyFailed
<1>6. Slots = {} /\ Pending = {}
  BY <1>2 DEF Slots, Pending
<1>7. SlotsOK /\ EqsOK /\ FoundOK /\ HeapOK /\ BlankOK
  BY <1>2, <1>6 DEF SlotsOK, EqsOK, FoundOK, HeapOK, Upheld, Sunk, Settled, BlankOK
<1>8. MadeOK
  BY <1>1, <1>2, <1>5, <1>6 DEF MadeOK, Sources
<1>9. TakenOK
  <2>1. ASSUME NEW s \in Sources PROVE Taken(s) = 0
    <3>1. {k \in 1..good : s \in out[k].from} = {}
      BY <1>2
    <3> QED
      BY <3>1, FS_EmptySet DEF Taken
  <2> QED
    BY <1>2, <2>1 DEF TakenOK
<1> QED
  BY <1>4, <1>7, <1>8, <1>9 DEF IInv

LEMMA AddIterIInv ==
  ASSUME InputsOK, IInv, AddIter
  PROVE  IInv'
<1>1. /\ pc = "make" /\ i \in Sources /\ UNCHANGED <<data, pos, eqs, out, good>>
      /\ i' = i + 1
  BY DEF AddIter
<1>2. /\ Sources' = Sources /\ (\A s : HasData(s)' <=> HasData(s)) /\ ~AnyFailed /\ ~AnyFailed'
      /\ \A s \in Sources : pos[s] = 1
      /\ Len(data) \in Nat /\ i \in 1..Len(data) /\ Sources = 1..Len(data)
  BY <1>1, FailedSame DEF IInv, MadeOK, Typed, Sources
<1>3. Pending = {} /\ Pending' = {}
  BY <1>1 DEF Pending, AddIter
<1>4. TakenOK'
  BY <1>1, <1>2, TakenSame DEF IInv, TakenOK, AddIter
<1>5. EqsOK' /\ FoundOK'
  BY DEF EqsOK, FoundOK, AddIter
<1>6. inputs' = Append(inputs, i) /\ c' = Len(inputs) + 1 /\ pc' = "up"
  BY DEF AddIter, IInv, Typed
<1>7. /\ Len(inputs) \in Nat /\ Slots = 1..Len(inputs) /\ Slots' = 1..(Len(inputs) + 1)
      /\ \A a \in Slots : inputs'[a] = inputs[a] /\ inputs[a] \in Sources /\ inputs[a] < i
      /\ inputs'[c'] = i
  BY <1>1, <1>6 DEF IInv, Typed, Slots, MadeOK
<1>8. Typed'
  BY <1>1, <1>2, <1>6 DEF IInv, Typed
<1>9. SlotsOK'
  <2>1. Standing(i)
    <3>1. PICK d \in Seq(Int \cup {Bad}) : d = data[i]
      BY <1>1 DEF IInv, Typed, Sources
    <3>2. pos[i] = 1
      BY <1>1, <1>2
    <3>3. d = <<>> \/ 1 <= Len(d)
      BY <3>1
    <3> QED
      BY <3>1, <3>2, <3>3 DEF Standing, HasData
  <2>2. \A a \in Slots : Standing(inputs[a])
    BY <1>3 DEF IInv, SlotsOK
  <2>3. \A s : Standing(s)' <=> Standing(s)
    BY <1>1, <1>2 DEF Standing
  <2>4. \A a, b \in Slots : inputs[a] = inputs[b] => a = b
    BY DEF IInv, SlotsOK
  <2>5. \A a, b \in Slots' : inputs'[a] = inputs'[b] => a = b
    BY <1>2, <1>6, <1>7, <2>4
  <2>6. \A a \in Slots' : Standing(inputs'[a])
    BY <1>6, <1>7, <2>1, <2>2
  <2> QED
    BY <1>3, <1>6, <2>3, <2>5, <2>6 DEF SlotsOK
<1>10. MadeOK'
  <2>1. ASSUME NEW s \in Sources, s < i + 1
        PROVE  \E a \in Slots' : inputs'[a] = s
    <3>1. CASE s = i
      BY <1>6, <1>7, <3>1
    <3>2. CASE s < i
      <4>1. PICK a \in Slots : inputs[a] = s
        BY <1>1, <3>2 DEF IInv, MadeOK
      <4> QED
        BY <1>7, <4>1
    <3> QED
      BY <1>2, <2>1, <3>1, <3>2
  <2>2. \A a \in Slots' : inputs'[a] < i + 1
    BY <1>2, <1>6, <1>7
  <2>3. out' = <<>>
    BY <1>1 DEF IInv, MadeOK
  <2>4. c' \in Slots' /\ i' \in 1..(Len(data') + 1)
    BY <1>1, <1>2, <1>6, <1>7
  <2>5. \A s \in Sources' : s < i' => \E a \in Slots' : inputs'[a] = s
    BY <1>1, <1>2, <2>1
  <2>6. (\A a \in Slots' : inputs'[a] < i') /\ \A s \in Sources' : pos'[s] = 1
    BY <1>1, <1>2, <2>2
  <2> QED
    BY <1>2, <2>3, <2>4, <2>5, <2>6 DEF MadeOK
<1>11. HeapOK'
  <2>1. \A p, a \in Slots : IsChild(p, a) => Rec(p) <= Rec(a)
    BY <1>1, <1>2, <1>3 DEF IInv, HeapOK, Settled
  <2>2. \A a \in Slots : Rec(a)' = Rec(a)
    BY <1>1, <1>2, <1>7 DEF Rec
  <2>3. \A p, a \in Slots' : IsChild(p, a) /\ a # c' => p \in Slots /\ a \in Slots
    BY <1>6, <1>7 DEF IsChild
  <2>4. \A a \in Slots' : ~IsChild(c', a)
    BY <1>6, <1>7 DEF IsChild
  <2> QED
    BY <1>6, <2>1, <2>2, <2>3, <2>4 DEF HeapOK, Upheld, Sunk, Settled
\* no round yet
<1>12. BlankOK'
  BY <1>1 DEF IInv, MadeOK, BlankOK
<1> QED
  BY <1>4, <1>5, <1>8, <1>9, <1>10, <1>11, <1>12 DEF IInv

\* Swapping two slots.
LEMMA SwapFacts ==
  ASSUME Typed, NEW a \in Slots, NEW b \in Slots,
         UNCHANGED <<data, pos>>, inputs' = Swap(inputs, a, b)
  PROVE  /\ inputs' \in Seq(Sources)
         /\ Slots' = Slots
         /\ inputs'[a] = inputs[b] /\ inputs'[b] = inputs[a]
         /\ \A k \in Slots : k \notin {a, b} => inputs'[k] = inputs[k]
         /\ Rec(a)' = Rec(b) /\ Rec(b)' = Rec(a)
         /\ \A k \in Slots : k \notin {a, b} => Rec(k)' = Rec(k)
         /\ \A s : (\E k \in Slots : inputs'[k] = s) <=> (\E k \in Slots : inputs[k] = s)
         /\ (\A k, l \in Slots : inputs[k] = inputs[l] => k = l)
              => (\A k, l \in Slots : inputs'[k] = inputs'[l] => k = l)
<1>1. inputs' \in Seq(Sources) /\ Slots' = Slots
  BY DEF Typed, Swap, Slots
<1>2. /\ inputs'[a] = inputs[b] /\ inputs'[b] = inputs[a]
      /\ \A k \in Slots : k \notin {a, b} => inputs'[k] = inputs[k]
  BY DEF Typed, Swap, Slots
<1>3. /\ Rec(a)' = Rec(b) /\ Rec(b)' = Rec(a)
      /\ \A k \in Slots : k \notin {a, b} => Rec(k)' = Rec(k)
  BY <1>2 DEF Rec, HasData
<1>4. \A s : (\E k \in Slots : inputs'[k] = s) <=> (\E k \in Slots : inputs[k] = s)
  BY <1>2
<1>5. (\A k, l \in Slots : inputs[k] = inputs[l] => k = l)
        => (\A k, l \in Slots : inputs'[k] = inputs'[l] => k = l)
  BY <1>2
<1> QED
  BY <1>1, <1>2, <1>3, <1>4, <1>5

LEMMA UpSwapIInv ==
  ASSUME InputsOK, IInv, UpSwap
  PROVE  IInv'
<1>0. PICK k \in Nat, b \in Nat : k = c /\ b = k \div 2
  BY DEF IInv, Typed
<1>1. /\ pc = "up" /\ pc' = "up" /\ k > 1 /\ k \in Slots /\ c' = b /\ MayBeLess(k, b)
      /\ inputs' = Swap(inputs, k, b) /\ UNCHANGED <<data, pos, eqs, i, out, good>>
  BY <1>0 DEF UpSwap, IInv, MadeOK
<1>2. b \in Slots /\ b >= 1 /\ b < k /\ IsChild(b, k)
  BY <1>0, <1>1, ParentExists DEF IInv, Typed, Slots
<1>3. /\ Sources' = Sources /\ (\A s : HasData(s)' <=> HasData(s)) /\ ~AnyFailed /\ ~AnyFailed'
      /\ Pending = {} /\ Pending' = {}
  BY <1>1, FailedSame DEF IInv, MadeOK, Pending
<1>4. /\ inputs' \in Seq(Sources)
      /\ Slots' = Slots
      /\ inputs'[k] = inputs[b] /\ inputs'[b] = inputs[k]
      /\ \A l \in Slots : l \notin {k, b} => inputs'[l] = inputs[l]
      /\ Rec(k)' = Rec(b) /\ Rec(b)' = Rec(k)
      /\ \A l \in Slots : l \notin {k, b} => Rec(l)' = Rec(l)
      /\ \A s : (\E l \in Slots : inputs'[l] = s) <=> (\E l \in Slots : inputs[l] = s)
      /\ (\A l, m \in Slots : inputs[l] = inputs[m] => l = m)
           => (\A l, m \in Slots : inputs'[l] = inputs'[m] => l = m)
  BY <1>1, <1>2, SwapFacts DEF IInv
<1>5. Typed'
  BY <1>1, <1>2, <1>3, <1>4 DEF IInv, Typed
<1>6. SlotsOK'
  BY <1>1, <1>2, <1>3, <1>4 DEF IInv, SlotsOK, Standing
<1>7. MadeOK'
  BY <1>1, <1>2, <1>3, <1>4 DEF IInv, MadeOK
<1>8. EqsOK' /\ FoundOK'
  BY <1>1 DEF EqsOK, FoundOK
<1>9. TakenOK'
  BY <1>1, <1>3, TakenSame DEF IInv, TakenOK
<1>10. HeapOK'
  <2>1. /\ \A l \in Slots : Rec(l) \in Int /\ l \in Nat /\ l >= 1
        /\ Rec(k) < Rec(b)
    BY <1>1, <1>2, <1>3, ReadableFacts, SlotFacts DEF IInv
  <2>2. /\ \A p, a \in Slots : IsChild(p, a) /\ a # k => Rec(p) <= Rec(a)
        /\ \A p, a \in Slots : IsChild(p, k) /\ IsChild(k, a) => Rec(p) <= Rec(a)
    BY <1>0, <1>1, <1>3 DEF IInv, HeapOK, Upheld
  <2>3. ASSUME NEW p \in Slots, NEW a \in Slots, IsChild(p, a), a # b
        PROVE  Rec(p)' <= Rec(a)'
    <3>1. CASE p = b
      <4>1. CASE a = k
        BY <1>4, <2>1, <3>1, <4>1, <1>2
      <4>2. CASE a # k
        <5>1. Rec(b) <= Rec(a) /\ Rec(a)' = Rec(a)
          BY <1>4, <2>2, <2>3, <3>1, <4>2
        <5> QED
          BY <1>1, <1>2, <1>4, <2>1, <3>1, <5>1
      <4> QED
        BY <4>1, <4>2
    <3>2. CASE p = k
      BY <1>2, <1>4, <2>1, <2>2, <2>3, <3>2 DEF IsChild
    <3>3. CASE p # b /\ p # k
      BY <1>2, <1>4, <2>1, <2>2, <2>3, <3>3 DEF IsChild
    <3> QED
      BY <3>1, <3>2, <3>3
  <2>4. ASSUME NEW p \in Slots, NEW a \in Slots, IsChild(p, b), IsChild(b, a)
        PROVE  Rec(p)' <= Rec(a)'
    <3>1. Rec(p) <= Rec(b) /\ p # b /\ p # k /\ Rec(p)' = Rec(p)
      BY <1>2, <1>4, <2>1, <2>2, <2>4 DEF IsChild
    <3>2. CASE a = k
      BY <1>4, <3>1, <3>2
    <3>3. CASE a # k
      <4>1. Rec(b) <= Rec(a) /\ a # b /\ Rec(a)' = Rec(a)
        BY <1>2, <1>4, <2>1, <2>2, <2>4, <3>3 DEF IsChild
      <4> QED
        BY <2>1, <3>1, <4>1, <1>2
    <3> QED
      BY <3>2, <3>3
  <2> QED
    BY <1>1, <1>4, <2>3, <2>4 DEF HeapOK, Upheld, Sunk, Settled
<1>11. BlankOK'
  BY <1>1 DEF IInv, MadeOK, BlankOK
<1> QED
  BY <1>5, <1>6, <1>7, <1>8, <1>9, <1>10, <1>11 DEF IInv

LEMMA UpBreakIInv ==
  ASSUME InputsOK, IInv, UpBreak
  PROVE  IInv'
<1>1. /\ pc = "up" /\ pc' = "make" /\ c \in Slots /\ c \in Nat
      /\ c > 1 => MayBeGeq(c, c \div 2)
      /\ UNCHANGED <<data, pos, inputs, eqs, i, c, out, good>>
  BY DEF UpBreak, IInv, MadeOK, Typed
<1>2. /\ Sources' = Sources /\ (\A s : HasData(s)' <=> HasData(s)) /\ ~AnyFailed /\ ~AnyFailed'
      /\ Pending = {} /\ Pending' = {} /\ Slots' = Slots /\ \A k : Rec(k)' = Rec(k)
  BY <1>1, FailedSame DEF IInv, MadeOK, Pending, Slots, Rec, HasData
<1>3. Typed' /\ SlotsOK' /\ MadeOK' /\ EqsOK' /\ FoundOK'
  BY <1>1, <1>2 DEF IInv, Typed, SlotsOK, Standing, MadeOK, EqsOK, FoundOK
<1>4. TakenOK'
  BY <1>1, <1>2, TakenSame DEF IInv, TakenOK
<1>5. HeapOK'
  <2>1. ASSUME NEW p \in Slots, NEW a \in Slots, IsChild(p, a)
        PROVE  Rec(p) <= Rec(a)
    <3>1. CASE a # c
      BY <1>1, <1>2, <2>1, <3>1 DEF IInv, HeapOK, Upheld
    <3>2. CASE a = c
      <4>1. p = c \div 2 /\ c > 1
        BY <1>1, <2>1, <3>2, SlotFacts DEF IInv, IsChild
      <4> QED
        BY <1>1, <1>2, <3>2, <4>1, ReadableFacts DEF IInv
    <3> QED
      BY <3>1, <3>2
  <2> QED
    BY <1>1, <1>2, <2>1 DEF HeapOK, Upheld, Sunk, Settled
<1>20. BlankOK'
  BY <1>1 DEF IInv, MadeOK, BlankOK
<1> QED
  BY <1>3, <1>4, <1>5, <1>20 DEF IInv

LEMMA MakeEndIInv ==
  ASSUME InputsOK, IInv, MakeEnd
  PROVE  IInv'
<1>1. /\ pc = "make" /\ pc' = "read" /\ i \notin Sources
      /\ UNCHANGED <<data, pos, inputs, eqs, i, c, out, good>>
  BY DEF MakeEnd
<1>2. /\ Sources' = Sources /\ (\A s : HasData(s)' <=> HasData(s)) /\ ~AnyFailed /\ ~AnyFailed'
      /\ Pending = {} /\ Pending' = {} /\ Slots' = Slots /\ \A k : Rec(k)' = Rec(k)
  BY <1>1, FailedSame DEF IInv, MadeOK, Pending, Slots, Rec, HasData
<1>3. Typed' /\ MadeOK' /\ EqsOK' /\ FoundOK'
  BY <1>1, <1>2 DEF IInv, Typed, MadeOK, EqsOK, FoundOK
<1>4. SlotsOK'
  <2>1. \A s \in Sources : s < i
    BY <1>1 DEF IInv, Typed, MadeOK, Sources
  <2>2. \A s \in Sources : HasData(s) => \E a \in Slots : inputs[a] = s
    BY <1>1, <2>1 DEF IInv, MadeOK
  <2> QED
    BY <1>1, <1>2, <2>2 DEF IInv, SlotsOK, Standing
<1>5. TakenOK'
  BY <1>1, <1>2, TakenSame DEF IInv, TakenOK
<1>6. HeapOK'
  BY <1>1, <1>2 DEF IInv, HeapOK, Upheld, Sunk, Settled
<1>20. BlankOK'
  BY <1>1 DEF IInv, MadeOK, BlankOK
<1> QED
  BY <1>3, <1>4, <1>5, <1>6, <1>20 DEF IInv
-----------------------------------------------------------------------------
(* A round is found and merged *)

\* Steps that move nothing and leave the round: the next one, or the end.
LEMMA ReadBeginIInv ==
  ASSUME InputsOK, IInv, ReadBegin
  PROVE  IInv'
<1>1. /\ pc = "read" /\ pc' = "gather" /\ eqs' = <<1>> /\ i' = 1 /\ inputs # <<>>
      /\ UNCHANGED <<data, pos, inputs, c, out, good>>
  BY DEF ReadBegin
<1>2. /\ Sources' = Sources /\ (\A s : HasData(s)' <=> HasData(s)) /\ (AnyFailed' <=> AnyFailed)
      /\ Pending = {} /\ Pending' = {} /\ Slots' = Slots /\ \A k : Rec(k)' = Rec(k)
  BY <1>1, FailedSame DEF Pending, Slots, Rec, HasData
<1>3. Typed' /\ SlotsOK' /\ MadeOK'
  BY <1>1, <1>2 DEF IInv, Typed, MadeOK, SlotsOK, Standing
<1>4. EqsOK' /\ FoundOK'
  <2>1. 1 \in Slots
    BY <1>1 DEF IInv, Typed, Slots
  <2> QED
    BY <1>1, <1>2, <2>1 DEF EqsOK, FoundOK, Listed, Seen
<1>5. TakenOK'
  BY <1>1, <1>2, TakenSame DEF IInv, TakenOK
<1>6. HeapOK'
  BY <1>1, <1>2 DEF IInv, HeapOK, Upheld, Sunk, Settled
<1>20. BlankOK'
  BY <1>1, <1>2, BlankSame DEF IInv, OfRound
<1> QED
  BY <1>3, <1>4, <1>5, <1>6, <1>20 DEF IInv

LEMMA ReadEndIInv ==
  ASSUME InputsOK, IInv, ReadEnd
  PROVE  IInv'
<1>1. /\ pc = "read" /\ pc' = "done"
      /\ UNCHANGED <<data, pos, inputs, eqs, i, c, out, good>>
  BY DEF ReadEnd
<1>2. /\ Sources' = Sources /\ (\A s : HasData(s)' <=> HasData(s)) /\ (AnyFailed' <=> AnyFailed)
      /\ Pending = {} /\ Pending' = {} /\ Slots' = Slots /\ \A k : Rec(k)' = Rec(k)
  BY <1>1, FailedSame DEF Pending, Slots, Rec, HasData
<1>3. Typed' /\ SlotsOK' /\ MadeOK' /\ EqsOK' /\ FoundOK'
  BY <1>1, <1>2 DEF IInv, Typed, MadeOK, SlotsOK, Standing, EqsOK, FoundOK
<1>4. TakenOK'
  BY <1>1, <1>2, TakenSame DEF IInv, TakenOK
<1>5. HeapOK'
  BY <1>1, <1>2 DEF IInv, HeapOK, Upheld, Sunk, Settled
<1>20. BlankOK'
  BY <1>1, <1>2, BlankSame DEF IInv, OfRound
<1> QED
  BY <1>3, <1>4, <1>5, <1>20 DEF IInv
\* After a panic nothing is promised of the slots.
LEMMA PanicIInv ==
  ASSUME InputsOK, IInv, Panic
  PROVE  IInv'
<1>1. /\ pc \in {"gather", "down"} /\ pc' = "panic"
      /\ UNCHANGED <<data, pos, inputs, eqs, i, c, out, good>>
  <2>1. Compared # {}
    BY FS_EmptySet DEF Panic
  <2> QED
    BY <2>1 DEF Panic, Compared
<1>2. /\ Sources' = Sources /\ (\A s : HasData(s)' <=> HasData(s)) /\ (AnyFailed' <=> AnyFailed)
      /\ Slots' = Slots /\ Pending' = Slots
  BY <1>1, FailedSame DEF Pending, Slots
<1>3. Typed' /\ MadeOK' /\ EqsOK' /\ FoundOK' /\ HeapOK'
  BY <1>1, <1>2 DEF IInv, Typed, MadeOK, EqsOK, FoundOK, HeapOK, Upheld, Sunk, Settled
<1>4. SlotsOK'
  BY <1>1, <1>2 DEF IInv, SlotsOK, Standing
<1>5. TakenOK'
  BY <1>1, <1>2, TakenSame DEF IInv, TakenOK
<1>20. BlankOK'
  BY <1>1, <1>2 DEF BlankOK, OfRound
<1> QED
  BY <1>3, <1>4, <1>5, <1>20 DEF IInv

LEMMA GatherIInv ==
  ASSUME InputsOK, IInv, Gather
  PROVE  IInv'
<1>0. PICK e \in Nat, L \in Nat : e = eqs[i] /\ L = Len(eqs)
  BY DEF Gather, IInv, Typed, EqsOK
<1>1. PICK found \in EqualChildren(e) : eqs' = eqs \o found
  BY <1>0 DEF Gather
<1>2. /\ pc = "gather" /\ pc' = "gather" /\ i \in 1..L /\ i' = i + 1
      /\ UNCHANGED <<data, pos, inputs, c, out, good>>
      /\ e >= 1 /\ e \in Slots /\ 1 \in Slots /\ \A m \in 1..L : eqs[m] \in Slots /\ eqs[m] \in Nat
  <2>1. /\ pc = "gather" /\ pc' = "gather" /\ i \in 1..L /\ i' = i + 1
        /\ UNCHANGED <<data, pos, inputs, c, out, good>>
    BY <1>0 DEF Gather, IInv, Typed, EqsOK
  <2>2. L >= 1 /\ eqs[1] = 1 /\ \A m \in 1..L : eqs[m] \in Slots
    BY <1>0, <2>1 DEF IInv, EqsOK
  <2>3. \A m \in 1..L : eqs[m] \in Nat /\ eqs[m] >= 1
    BY <1>0 DEF IInv, Typed
  <2> QED
    BY <1>0, <2>1, <2>2, <2>3
<1>3. /\ Sources' = Sources /\ (\A s : HasData(s)' <=> HasData(s)) /\ (AnyFailed' <=> AnyFailed)
      /\ Pending = {} /\ Pending' = {} /\ Slots' = Slots /\ \A k : Rec(k)' = Rec(k)
  BY <1>2, FailedSame DEF Pending, Slots, Rec, HasData
<1>4. PICK n \in 0..2 :
        /\ Len(found) = n /\ found \in Seq(Nat \ {0})
        /\ \A m \in 1..n : IsChild(e, found[m])
        /\ n = 2 => found[1] < found[2]
  <2>1. found \in {<<>>, <<2 * e>>, <<2 * e + 1>>, <<2 * e, 2 * e + 1>>}
    BY <1>1 DEF EqualChildren
  <2>2. CASE found = <<>>
    BY <2>2
  <2>3. CASE found = <<2 * e>>
    BY <1>2, <2>3 DEF IsChild
  <2>4. CASE found = <<2 * e + 1>>
    BY <1>2, <2>4 DEF IsChild
  <2>5. CASE found = <<2 * e, 2 * e + 1>>
    BY <1>2, <2>5 DEF IsChild
  <2> QED
    BY <2>1, <2>2, <2>3, <2>4, <2>5
<1>5. /\ \A m \in 1..n : found[m] \in Slots /\ MayBeGeq(1, found[m])
      /\ \A a \in Slots : IsChild(e, a) => MayBeLess(1, a) \/ \E m \in 1..n : found[m] = a
  <2>1. Range(found) = {found[m] : m \in 1..n}
    BY <1>4 DEF Range
  <2>2. /\ Range(found) \subseteq Children(e)
        /\ \A a \in Children(e) : IF a \in Range(found) THEN MayBeGeq(1, a) ELSE MayBeLess(1, a)
    BY <1>1 DEF EqualChildren
  <2>3. \A a : a \in Children(e) <=> a \in Slots /\ IsChild(e, a)
    BY DEF Children, IsChild, Slots
  <2> QED
    BY <2>1, <2>2, <2>3
<1>6. /\ eqs' \in Seq(Nat \ {0}) /\ Len(eqs') = L + n
      /\ \A m \in 1..L : eqs'[m] = eqs[m]
      /\ \A m \in (L + 1)..(L + n) : eqs'[m] = found[m - L] /\ m - L \in 1..n
      /\ \A m \in 1..n : eqs'[L + m] = found[m]
  BY <1>0, <1>1, <1>4, SMTT(30) DEF IInv, Typed
<1>7. Typed' /\ SlotsOK' /\ MadeOK' /\ HeapOK'
  <2>1. Typed' /\ MadeOK'
    BY <1>2, <1>3, <1>6 DEF IInv, Typed, MadeOK
  <2>2. SlotsOK'
    BY <1>2, <1>3 DEF IInv, SlotsOK, Standing
  <2>3. HeapOK'
    BY <1>2, <1>3 DEF IInv, HeapOK, Upheld, Sunk, Settled
  <2> QED
    BY <2>1, <2>2, <2>3
<1>8. TakenOK'
  BY <1>2, <1>3, TakenSame DEF IInv, TakenOK
<1>9. EqsOK'
  <2>1. ASSUME NEW m \in 1..L PROVE eqs[m] < 2 * e
    <3>1. CASE m = 1
      BY <1>0, <1>2, <3>1 DEF IInv, EqsOK
    <3>2. CASE m # 1
      <4>1. PICK j \in 1..(i - 1) : IsChild(eqs[j], eqs[m])
        BY <1>0, <1>2, <3>2 DEF IInv, EqsOK
      <4>2. eqs[j] < e
        BY <1>0, <1>2, SMTT(30) DEF IInv, EqsOK
      <4> QED
        BY <1>2, <4>1, <4>2 DEF IsChild
    <3> QED
      BY <3>1, <3>2
  <2>2. ASSUME NEW a \in 1..(L + n), NEW b \in 1..(L + n), a < b PROVE eqs'[a] < eqs'[b]
    <3>1. CASE b \in 1..L
      <4>1. a \in 1..L /\ eqs'[a] = eqs[a] /\ eqs'[b] = eqs[b]
        BY <1>6, <2>2, <3>1
      <4> QED
        BY <1>0, <1>2, <2>2, <3>1, <4>1 DEF IInv, EqsOK
    <3>2. CASE a \in 1..L /\ b \in (L + 1)..(L + n)
      <4>1. PICK q \in 1..n : eqs'[b] = found[q]
        BY <1>6, <3>2
      <4>2. found[q] >= 2 * e /\ found[q] \in Nat
        BY <1>4 DEF IsChild
      <4>3. eqs'[a] = eqs[a] /\ eqs[a] < 2 * e /\ eqs[a] \in Nat
        BY <1>2, <1>6, <2>1, <3>2
      <4> QED
        BY <4>1, <4>2, <4>3
    <3>3. CASE a \in (L + 1)..(L + n)
      BY <1>4, <1>6, <2>2, <3>3, SMTT(30)
    <3> QED
      BY <3>1, <3>2, <3>3
  <2>3. ASSUME NEW m \in 2..(L + n)
        PROVE  \E j \in 1..i : j <= m - 1 /\ IsChild(eqs'[j], eqs'[m])
    <3>1. CASE m \in 1..L
      <4>1. PICK j \in 1..(i - 1) : IsChild(eqs[j], eqs[m])
        BY <1>0, <1>2, <3>1 DEF IInv, EqsOK
      <4>2. j < m
        <5>1. eqs[j] < eqs[m] /\ j \in 1..L
          BY <1>2, <3>1, <4>1, SlotFacts DEF IsChild, IInv
        <5> QED
          BY <1>0, <1>2, <3>1, <5>1 DEF IInv, EqsOK
      <4> QED
        BY <1>2, <1>6, <3>1, <4>1, <4>2
    <3>2. CASE m \in (L + 1)..(L + n)
      BY <1>0, <1>2, <1>4, <1>6, <3>2
    <3> QED
      BY <3>1, <3>2
  <2>4. \A m \in 1..(L + n) : eqs'[m] \in Slots
    <3>1. ASSUME NEW m \in (L + 1)..(L + n) PROVE eqs'[m] \in Slots
      BY <1>5, <1>6
    <3> QED
      BY <1>2, <1>6, <3>1
  <2>5. /\ L + n >= 1 /\ eqs'[1] = 1
        /\ \A m \in 2..(L + n) : \E j \in 1..(m - 1) : IsChild(eqs'[j], eqs'[m])
    <3>1. ASSUME NEW m \in 2..(L + n) PROVE \E j \in 1..(m - 1) : IsChild(eqs'[j], eqs'[m])
      BY <1>2, <2>3
    <3> QED
      BY <1>0, <1>2, <1>6, <3>1 DEF IInv, EqsOK
  <2>6. i + 1 \in 1..(L + n + 1)
    BY <1>2, <1>4
  <2>7. \A m \in 2..(L + n) : \E j \in 1..(i + 1 - 1) : IsChild(eqs'[j], eqs'[m])
    BY <1>2, <2>3
  <2> QED
    BY <1>2, <1>3, <1>6, <2>2, <2>4, <2>5, <2>6, <2>7 DEF EqsOK
<1>10. FoundOK'
  <2> SUFFICES ASSUME ~AnyFailed PROVE FoundOK'
    BY <1>3 DEF FoundOK
  <2>1. /\ \A a \in Listed : Rec(a) = Rec(1)
        /\ \A p \in Seen : \A a \in Slots : IsChild(p, a) /\ Rec(a) <= Rec(1) => a \in Listed
    BY <1>2 DEF IInv, FoundOK
  <2>2. \A a \in Slots : /\ Rec(a) \in Int
                         /\ MayBeGeq(1, a) <=> Rec(1) >= Rec(a)
                         /\ MayBeLess(1, a) <=> Rec(1) < Rec(a)
    BY <1>2, <1>3, ReadableFacts DEF IInv
  <2>3. Listed' = Listed \cup {found[q] : q \in 1..n}
    <3>1. ASSUME NEW a, a \in Listed' PROVE a \in Listed \cup {found[q] : q \in 1..n}
      <4>1. PICK m \in 1..(L + n) : eqs'[m] = a
        BY <1>6, <3>1 DEF Listed
      <4>2. CASE m \in 1..L
        BY <1>0, <1>6, <4>1, <4>2 DEF Listed
      <4>3. CASE m \in (L + 1)..(L + n)
        BY <1>6, <4>1, <4>3
      <4> QED
        BY <4>2, <4>3
    <3>2. ASSUME NEW m \in 1..L PROVE eqs[m] \in Listed'
      BY <1>4, <1>6, <3>2 DEF Listed
    <3>3. ASSUME NEW q \in 1..n PROVE found[q] \in Listed'
      <4>1. L + q \in 1..(L + n) /\ eqs'[L + q] = found[q]
        BY <1>6
      <4> QED
        BY <1>6, <4>1 DEF Listed
    <3> QED
      BY <1>0, <3>1, <3>2, <3>3 DEF Listed
  <2>4. Seen' = Seen \cup {e}
    <3>1. Seen' = {eqs'[m] : m \in 1..i}
      BY <1>2 DEF Seen
    <3>2. \A m \in 1..i : eqs'[m] = eqs[m] /\ (m = i \/ m \in 1..(i - 1))
      BY <1>2, <1>6
    <3> QED
      BY <1>0, <1>2, <3>1, <3>2 DEF Seen
  <2>5. e \in Listed
    BY <1>0, <1>2 DEF Listed
  <2>6. \A a \in Slots : IsChild(e, a) => Rec(1) <= Rec(a)
    BY <1>2, <1>3, <2>1, <2>5 DEF IInv, HeapOK, Settled
  <2>7. ASSUME NEW q \in 1..n PROVE Rec(found[q]) = Rec(1)
    BY <1>2, <1>4, <1>5, <2>2, <2>6
  <2>8. ASSUME NEW a \in Slots, IsChild(e, a), Rec(a) <= Rec(1)
        PROVE  \E q \in 1..n : found[q] = a
    BY <1>2, <1>5, <2>2, <2>8
  <2> QED
    BY <1>2, <1>3, <2>1, <2>3, <2>4, <2>7, <2>8 DEF FoundOK
<1>20. BlankOK'
  BY <1>2, <1>3, BlankSame DEF IInv, OfRound
<1> QED
  BY <1>7, <1>8, <1>9, <1>10, <1>20 DEF IInv

\* The parent of a slot of the list is in front of it.
LEMMA ListedClosed ==
  ASSUME IInv, pc \in {"gather", "advance", "sink", "down"},
         NEW p \in Nat, p >= 1, NEW m \in 1..Len(eqs), IsChild(p, eqs[m])
  PROVE  \E j \in 1..(m - 1) : eqs[j] = p
<1>1. /\ eqs[1] = 1 /\ Len(eqs) \in Nat
      /\ \A k \in 1..Len(eqs) : eqs[k] \in Nat
      /\ \A k \in 2..Len(eqs) : \E j \in 1..(k - 1) : IsChild(eqs[j], eqs[k])
  BY DEF IInv, EqsOK, Typed
<1>2. m # 1
  BY <1>1 DEF IsChild
<1>3. PICK j \in 1..(m - 1) : IsChild(eqs[j], eqs[m])
  BY <1>1, <1>2
<1>4. eqs[j] \in Nat
  BY <1>1
<1> QED
  BY <1>1, <1>3, <1>4 DEF IsChild

\* A list that grows from 1 and whose last slot is its length has no gap.
LEMMA NoGap ==
  ASSUME NEW e, e \in Seq(Nat \ {0}), Len(e) >= 1, e[Len(e)] = Len(e),
         \A a, b \in 1..Len(e) : a < b => e[a] < e[b],
         NEW k \in 1..Len(e)
  PROVE  e[k] = k
<1>1. Len(e) \in Nat /\ \A m \in 1..Len(e) : e[m] \in Nat /\ e[m] >= 1
  OBVIOUS
<1>2. e[k] >= k
  <2> DEFINE T == {m \in 1..Len(e) : e[m] < m}
  <2>1. SUFFICES ASSUME T # {} PROVE FALSE
    BY <1>1
  <2>2. PICK m \in T : \A a \in T : m <= a
    <3>1. T \subseteq Nat
      OBVIOUS
    <3> HIDE DEF T
    <3> QED
      BY <2>1, <3>1, LeastNumber
  <2>3. m \in 1..Len(e) /\ e[m] < m /\ m # 1
    BY <1>1
  <2>4. m - 1 \in 1..Len(e) /\ m - 1 \notin T
    BY <2>2, <2>3
  <2>5. e[m - 1] >= m - 1 /\ e[m - 1] < e[m]
    BY <1>1, <2>3, <2>4
  <2> QED
    BY <1>1, <2>3, <2>4, <2>5
<1>3. e[k] <= k
  <2> DEFINE P(d) == \E m \in 1..Len(e) : m + d = Len(e) /\ e[m] > m
             T == {d \in Nat : P(d)}
  <2>1. SUFFICES ASSUME e[k] > k PROVE FALSE
    BY <1>1
  <2>2. T # {}
    <3>1. Len(e) - k \in Nat /\ k + (Len(e) - k) = Len(e)
      BY <1>1
    <3>2. P(Len(e) - k)
      BY <2>1, <3>1
    <3> HIDE DEF P
    <3> QED
      BY <3>1, <3>2
  <2>3. T \subseteq Nat
    OBVIOUS
  <2>4. PICK d \in T : \A a \in T : d <= a
    <3> HIDE DEF T
    <3> QED
      BY <2>2, <2>3, LeastNumber
  <2>5. d \in Nat /\ P(d) /\ \A a \in Nat : P(a) => d <= a
    <3> HIDE DEF P
    <3> QED
      BY <2>4
  <2> HIDE DEF T
  <2>6. PICK m \in 1..Len(e) : m + d = Len(e) /\ e[m] > m
    BY <2>5
  <2>7. d # 0
    BY <1>1, <2>5, <2>6
  <2>8. m + 1 \in 1..Len(e) /\ (m + 1) + (d - 1) = Len(e) /\ d - 1 \in Nat /\ m \in Nat
    <3> HIDE DEF P
    <3>1. d \in Nat
      BY <2>5
    <3>2. m \in Nat /\ m >= 1 /\ m + d = Len(e) /\ d >= 1
      BY <1>1, <2>6, <2>7, <3>1
    <3>3. Len(e) \in Nat
      BY <1>1
    <3>4. m + 1 \in 1..Len(e)
      BY <3>1, <3>2, <3>3
    <3>5. (m + 1) + (d - 1) = Len(e) /\ d - 1 \in Nat
      BY <3>1, <3>2, <3>3
    <3> QED
      BY <3>2, <3>4, <3>5
  <2>9. ~P(d - 1)
    <3> HIDE DEF P
    <3> QED
      BY <2>5, <2>8
  <2>10. e[m + 1] <= m + 1
    BY <1>1, <2>8, <2>9
  <2>11. e[m] < e[m + 1]
    BY <2>8
  <2> QED
    BY <1>1, <2>6, <2>8, <2>10, <2>11
<1> QED
  BY <1>1, <1>2, <1>3

\* The MergeFn permutes no iterator but the contenders, among their slots.
LEMMA OrdersFacts ==
  ASSUME IInv, pc = "gather", i > Len(eqs), inputs' \in MergedOrders
  PROVE  /\ inputs' \in Seq(Sources) /\ Slots' = Slots
         /\ \A k \in Slots : k \notin Listed => inputs'[k] = inputs[k]
         /\ \A k \in Listed : \E l \in Listed : inputs'[k] = inputs[l]
         /\ \A k \in Listed : \E l \in Listed : inputs[k] = inputs'[l]
         /\ \A a, b \in Slots : inputs'[a] = inputs'[b] => a = b
<1>1. /\ eqs \in Seq(Nat \ {0}) /\ Len(eqs) \in Nat /\ Len(eqs) >= 1
      /\ \A a, b \in 1..Len(eqs) : a < b => eqs[a] < eqs[b]
      /\ inputs \in Seq(Sources) /\ Slots = 1..Len(inputs) /\ Len(inputs) \in Nat
      /\ \A m \in 1..Len(eqs) : eqs[m] \in Slots
      /\ Listed \subseteq Slots
      /\ \A a, b \in Slots : inputs[a] = inputs[b] => a = b
  BY DEF IInv, Typed, EqsOK, SlotsOK, Slots, Listed
<1>2. CASE Last(eqs) # Len(eqs)
  BY <1>1, <1>2 DEF MergedOrders, Slots
<1>3. CASE Last(eqs) = Len(eqs)
  <2>1. \A k \in 1..Len(eqs) : eqs[k] = k
    BY <1>1, <1>3, NoGap DEF Last
  <2>2. Listed = 1..Len(eqs) /\ Contenders = {inputs[k] : k \in Listed}
    <3>1. DOMAIN eqs = 1..Len(eqs)
      BY <1>1
    <3> QED
      BY <2>1, <3>1 DEF Listed, Contenders
  <2>3. PICK f \in Bijection(1..Len(eqs), Contenders) :
          inputs' = [k \in DOMAIN inputs |-> IF k <= Len(eqs) THEN f[k] ELSE inputs[k]]
    BY <1>3 DEF MergedOrders
  <2>4. /\ f \in [Listed -> Contenders]
        /\ \A a, b \in Listed : f[a] = f[b] => a = b
        /\ \A s \in Contenders : \E k \in Listed : f[k] = s
    BY <2>2, <2>3 DEF Bijection, Injection, Surjection, IsInjective
  <2>5. /\ \A k \in Listed : inputs'[k] = f[k] /\ f[k] \in Contenders
        /\ \A k \in Slots : k \notin Listed => inputs'[k] = inputs[k]
    BY <1>1, <2>2, <2>3, <2>4 DEF Slots
  <2>6. Contenders \subseteq Sources
    BY <1>1, <2>2
  <2>7. inputs' \in Seq(Sources) /\ Slots' = Slots
    <3>1. \A k \in 1..Len(inputs) : inputs'[k] \in Sources
      BY <1>1, <2>5, <2>6
    <3>2. inputs' = [k \in 1..Len(inputs) |-> inputs'[k]]
      BY <1>1, <2>3 DEF Slots
    <3> QED
      BY <1>1, <3>1, <3>2 DEF Slots
  <2>8. /\ \A k \in Listed : \E l \in Listed : inputs'[k] = inputs[l]
        /\ \A k \in Listed : \E l \in Listed : inputs[k] = inputs'[l]
    <3>1. ASSUME NEW k \in Listed PROVE \E l \in Listed : inputs'[k] = inputs[l]
      BY <2>2, <2>5
    <3>2. ASSUME NEW k \in Listed PROVE \E l \in Listed : inputs[k] = inputs'[l]
      <4>1. inputs[k] \in Contenders
        BY <2>2
      <4>2. PICK l \in Listed : f[l] = inputs[k]
        BY <2>4, <4>1
      <4> QED
        BY <2>5, <4>2
    <3> QED
      BY <3>1, <3>2
  <2>9. ASSUME NEW a \in Slots, NEW b \in Slots, inputs'[a] = inputs'[b] PROVE a = b
    <3>1. CASE a \in Listed /\ b \in Listed
      BY <2>4, <2>5, <2>9, <3>1
    <3>2. CASE a \in Listed /\ b \notin Listed
      BY <1>1, <2>5, <2>8, <2>9, <3>2
    <3>3. CASE a \notin Listed /\ b \in Listed
      BY <1>1, <2>5, <2>8, <2>9, <3>3
    <3>4. CASE a \notin Listed /\ b \notin Listed
      BY <1>1, <2>5, <2>9, <3>4
    <3> QED
      BY <3>1, <3>2, <3>3, <3>4
  <2> QED
    BY <2>5, <2>7, <2>8, <2>9
<1> QED
  BY <1>2, <1>3

\* A round more.
LEMMA TakenAppend ==
  ASSUME NEW r, out \in Seq([key : Int \cup {Bad}, from : SUBSET Sources]), good = Len(out),
         out' = Append(out, r), good' = good + 1, NEW s
  PROVE  /\ Taken(s) \in Nat
         /\ Taken(s)' = IF s \in r.from THEN Taken(s) + 1 ELSE Taken(s)
<1> DEFINE A == {k \in 1..good : s \in out[k].from}
           B == {k \in 1..(good + 1) : s \in out'[k].from}
<1>1. /\ good \in Nat /\ \A k \in 1..good : out'[k] = out[k]
      /\ out'[good + 1] = r
  OBVIOUS
<1>2. IsFiniteSet(A) /\ Cardinality(A) \in Nat
  <2>1. IsFiniteSet(1..good)
    BY <1>1, FS_Interval
  <2>2. A \subseteq 1..good
    OBVIOUS
  <2> HIDE DEF A
  <2> QED
    BY <2>1, <2>2, FS_Subset, FS_CardinalityType
<1>3. B = IF s \in r.from THEN A \cup {good + 1} ELSE A
  BY <1>1
<1>4. good + 1 \notin A
  BY <1>1
<1>5. Cardinality(B) = IF s \in r.from THEN Cardinality(A) + 1 ELSE Cardinality(A)
  <2> HIDE DEF A, B
  <2> QED
    BY <1>2, <1>3, <1>4, FS_AddElement
<1>6. Taken(s) = Cardinality(A) /\ Taken(s)' = Cardinality(B)
  BY DEF Taken
<1> QED
  BY <1>2, <1>5, <1>6

\* The slots of the list are those of the least records.
LEMMA RoundIsFront ==
  ASSUME InputsOK, IInv, ~AnyFailed, pc = "gather", i > Len(eqs)
  PROVE  /\ \A k \in Slots : Rec(k) \in Int /\ Rec(1) <= Rec(k)
         /\ \A k \in Slots : k \in Listed <=> Rec(k) = Rec(1)
         /\ 1 \in Slots /\ Listed \subseteq Slots
         /\ Contenders = {inputs[k] : k \in Listed}
<1> DEFINE v == [k \in Slots |-> Rec(k)]
<1>1. PICK n \in Nat : Slots = 1..n
  BY DEF IInv, Typed, Slots
<1>2. Pending = {} /\ \A k \in Slots : Rec(k) \in Int
  BY ReadableFacts DEF IInv, Pending
<1>3. /\ DOMAIN eqs = 1..Len(eqs) /\ Len(eqs) >= 1 /\ eqs[1] = 1 /\ Len(eqs) \in Nat
      /\ \A m \in 1..Len(eqs) : eqs[m] \in Slots
      /\ i - 1 = Len(eqs)
  BY DEF IInv, Typed, EqsOK
<1>4. 1 \in Listed /\ Listed \subseteq Slots /\ Contenders = {inputs[k] : k \in Listed}
      /\ Seen = Listed
  BY <1>3 DEF Listed, Seen, Contenders
<1>5. /\ \A k \in Slots : k \in Listed => Rec(k) = Rec(1)
      /\ \A p \in Slots : \A a \in Slots :
           p \in Listed /\ IsChild(p, a) /\ Rec(a) <= Rec(1) => a \in Listed
      /\ \A p, a \in Slots : IsChild(p, a) => Rec(p) <= Rec(a)
  BY <1>2, <1>4 DEF IInv, FoundOK, HeapOK, Settled
<1>6. /\ v \in [1..n -> Int]
      /\ \A p, a \in 1..n : IsChild(p, a) => v[p] <= v[a]
      /\ \A p, a \in 1..n : p \in Listed /\ IsChild(p, a) /\ v[a] <= v[1] => a \in Listed
      /\ \A k \in Slots : v[k] = Rec(k)
  BY <1>1, <1>2, <1>4, <1>5
<1> HIDE DEF v
<1>7. \A k \in 1..n : v[1] <= v[k]
  BY <1>6, RootLeast
<1>8. \A k \in 1..n : v[k] = v[1] => k \in Listed
  BY <1>4, <1>6, EqualsReached
<1> QED
  BY <1>1, <1>2, <1>4, <1>5, <1>6, <1>7, <1>8

LEMMA MergeEqualsIInv ==
  ASSUME InputsOK, IInv, MergeEquals
  PROVE  IInv'
<1>1. /\ pc = "gather" /\ pc' = "advance" /\ i > Len(eqs) /\ inputs' \in MergedOrders
      /\ out' = IF Merged = {} THEN out ELSE Append(out, [key |-> Rec(1), from |-> Merged])
      /\ good' = IF AnyFailed \/ Merged = {} THEN good ELSE good + 1
      /\ UNCHANGED <<data, pos, eqs, i, c>>
  BY DEF MergeEquals
<1>2. /\ Sources' = Sources /\ (\A s : HasData(s)' <=> HasData(s)) /\ (AnyFailed' <=> AnyFailed)
      /\ Pending = {} /\ Pending' = {} /\ Listed' = Listed
  BY <1>1, FailedSame DEF Pending, Listed
<1>3. /\ inputs' \in Seq(Sources) /\ Slots' = Slots
      /\ \A k \in Slots : k \notin Listed => inputs'[k] = inputs[k]
      /\ \A k \in Listed : \E l \in Listed : inputs'[k] = inputs[l]
      /\ \A k \in Listed : \E l \in Listed : inputs[k] = inputs'[l]
      /\ \A a, b \in Slots : inputs'[a] = inputs'[b] => a = b
  BY <1>1, OrdersFacts
<1>4. /\ Listed \subseteq Slots /\ 1 \in Slots /\ Contenders = {inputs[k] : k \in Listed}
      /\ Contenders' = {inputs'[k] : k \in Listed}
      /\ Contenders \subseteq Sources
  <2>1. /\ DOMAIN eqs = 1..Len(eqs) /\ Len(eqs) >= 1 /\ eqs[1] = 1
        /\ \A m \in 1..Len(eqs) : eqs[m] \in Slots
    BY <1>1 DEF IInv, Typed, EqsOK
  <2>2. \A k \in Slots : inputs[k] \in Sources
    BY DEF IInv, Typed, Slots
  <2>3. Listed \subseteq Slots /\ 1 \in Slots
    BY <2>1 DEF Listed
  <2>4. Contenders = {inputs[k] : k \in Listed}
    BY <2>1 DEF Listed, Contenders
  <2>5. Contenders' = {inputs'[k] : k \in Listed}
    BY <1>1, <2>1 DEF Listed, Contenders
  <2> QED
    BY <2>2, <2>3, <2>4, <2>5
<1>5. Contenders' = Contenders /\ Merged' = Merged /\ Merged \subseteq Sources
  BY <1>2, <1>3, <1>4 DEF Merged
<1>6. Typed'
  <2>1. [key |-> Rec(1), from |-> Merged] \in [key : Int \cup {Bad}, from : SUBSET Sources]
    BY <1>2, <1>4, <1>5, SlotFacts DEF IInv
  <2>2. /\ out' \in Seq([key : Int \cup {Bad}, from : SUBSET Sources])
        /\ Len(out') = IF Merged = {} THEN Len(out) ELSE Len(out) + 1
        /\ Len(out) \in Nat
    <3>0. PICK T : T = [key : Int \cup {Bad}, from : SUBSET Sources]
      OBVIOUS
    <3>1. PICK r \in T : r = [key |-> Rec(1), from |-> Merged]
      BY <2>1, <3>0
    <3>2. out \in Seq(T) /\ out' = IF Merged = {} THEN out ELSE Append(out, r)
      BY <1>1, <3>0, <3>1 DEF IInv, Typed
    <3>3. CASE Merged = {}
      BY <3>0, <3>2, <3>3
    <3>4. CASE Merged # {}
      <4>1. out \in Seq(T) /\ out' = Append(out, r) /\ r \in T
        BY <3>1, <3>2, <3>4
      <4>2. out' \in Seq(T) /\ Len(out') = Len(out) + 1 /\ Len(out) \in Nat
        BY <4>1
      <4> QED
        BY <3>0, <3>4, <4>2
    <3> QED
      BY <3>3, <3>4
  <2>3. good' \in 0..Len(out')
    BY <1>1, <2>2 DEF IInv, Typed
  <2> QED
    BY <1>1, <1>2, <1>3, <2>2, <2>3 DEF IInv, Typed
<1>7. SlotsOK'
  <2>1. \A a \in Slots : Standing(inputs[a])
    BY <1>2 DEF IInv, SlotsOK
  <2>2. ASSUME NEW a \in Slots PROVE \E b \in Slots : inputs'[a] = inputs[b]
    BY <1>3, <1>4
  <2>3. ASSUME NEW a \in Slots PROVE \E b \in Slots : inputs[a] = inputs'[b]
    BY <1>3, <1>4
  <2>4. \A s \in Sources : HasData(s) => \E a \in Slots : inputs[a] = s
    BY <1>1 DEF IInv, SlotsOK
  <2>5. \A s \in Sources : HasData(s) => \E a \in Slots : inputs'[a] = s
    BY <2>3, <2>4
  <2>6. \A a \in Slots : Standing(inputs'[a])
    BY <2>1, <2>2
  <2> QED
    BY <1>1, <1>2, <1>3, <2>5, <2>6 DEF SlotsOK, Standing, HasData
<1>8. MadeOK' /\ FoundOK' /\ EqsOK'
  BY <1>1, <1>2, <1>3 DEF IInv, MadeOK, FoundOK, EqsOK
<1>9. HeapOK'
  <2> SUFFICES ASSUME ~AnyFailed PROVE HeapOK'
    BY <1>2 DEF HeapOK
  <2>1. \A a \in Listed : Rec(a) = Rec(1)
    BY <1>1 DEF IInv, FoundOK
  <2>2. ASSUME NEW k \in Slots PROVE Rec(k)' = Rec(k)
    <3>1. CASE k \in Listed
      <4>1. PICK l \in Listed : inputs'[k] = inputs[l]
        BY <1>3, <3>1
      <4>2. Rec(k)' = Rec(l)
        BY <1>1, <4>1 DEF Rec, HasData
      <4> QED
        BY <2>1, <3>1, <4>2
    <3>2. CASE k \notin Listed
      BY <1>1, <1>3, <3>2 DEF Rec, HasData
    <3> QED
      BY <3>1, <3>2
  <2>3. \A p, a \in Slots : IsChild(p, a) => Rec(p) <= Rec(a)
    BY <1>1, <1>2 DEF IInv, HeapOK, Settled
  <2> QED
    BY <1>1, <1>2, <1>3, <2>2, <2>3 DEF HeapOK, Upheld, Sunk, Settled
<1>10. TakenOK'
  <2> SUFFICES ASSUME ~AnyFailed PROVE TakenOK'
    BY <1>2 DEF TakenOK
  <2>1. good = Len(out) /\ \A s \in Sources : Taken(s) = pos[s] - 1
    BY <1>1 DEF IInv, TakenOK
  <2>2. /\ out \in Seq([key : Int \cup {Bad}, from : SUBSET Sources])
        /\ Len(out) \in Nat
    BY <1>1 DEF IInv, Typed
  <2>3. ASSUME NEW s \in Sources
        PROVE  Taken(s)' = IF s \in Merged THEN pos[s] ELSE pos[s] - 1
    <3>1. pos[s] \in Nat
      BY DEF IInv, Typed
    <3>2. Taken(s)' = IF s \in Merged THEN Taken(s) + 1 ELSE Taken(s)
      <4>1. CASE Merged = {}
        BY <1>1, <4>1, TakenSame
      <4>2. CASE Merged # {}
        <5>1. PICK r : r = [key |-> Rec(1), from |-> Merged]
          OBVIOUS
        <5>2. r.from = Merged
          BY <5>1
        <5>3. Taken(s)' = IF s \in r.from THEN Taken(s) + 1 ELSE Taken(s)
          BY <1>1, <2>1, <2>2, <4>2, <5>1, TakenAppend
        <5> QED
          BY <5>2, <5>3
      <4> QED
        BY <4>1, <4>2
    <3> QED
      BY <2>1, <3>1, <3>2
  <2>4. good' = Len(out')
    BY <1>1, <2>1, <2>2
  <2> QED
    BY <1>1, <1>2, <1>5, <2>3, <2>4 DEF TakenOK
<1>11. BlankOK'
  <2> SUFFICES ASSUME ~AnyFailed, NEW a \in Slots, a \notin Listed, ~HasData(inputs'[a])
               PROVE  \A k \in 1..Len(out') : out'[k].key < Blank
    BY <1>1, <1>2, <1>3 DEF BlankOK, OfRound, HasData
  <2>1. inputs'[a] = inputs[a]
    BY <1>3
  <2>2. \A k \in 1..Len(out) : out[k].key < Blank
    BY <1>1, <1>2, <2>1 DEF IInv, BlankOK, OfRound
  <2>3. Rec(1) < Blank
    <3>1. Rec(a) \in Int /\ Rec(1) \in Int /\ Rec(1) <= Rec(a) /\ Rec(a) # Rec(1)
      BY <1>1, <1>4, RoundIsFront
    <3>2. Rec(a) = Blank
      BY <2>1 DEF Rec
    <3> QED
      BY <3>1, <3>2
  <2>4. PICK r : r = [key |-> Rec(1), from |-> Merged]
    OBVIOUS
  <2>5. r.key = Rec(1)
    BY <2>4
  <2>6. /\ out \in Seq([key : Int \cup {Bad}, from : SUBSET Sources]) /\ Len(out) \in Nat
        /\ out' = out \/ out' = Append(out, r)
    BY <1>1, <2>4 DEF IInv, Typed
  <2> QED
    BY <2>2, <2>3, <2>5, <2>6
<1> QED
  BY <1>6, <1>7, <1>8, <1>9, <1>10, <1>11 DEF IInv

\* An iterator that failed stays where it is.
LEMMA AdvanceFacts ==
  ASSUME IInv, Advance
  PROVE  /\ Sources' = Sources
         /\ AnyFailed => AnyFailed'
         /\ \A s \in Sources : HasData(s)' => HasData(s)
         /\ \A s \in Sources : s \notin Merged => pos'[s] = pos[s]
         /\ ~AnyFailed => \A s \in Merged : s \in Sources => pos'[s] = pos[s] + 1
         /\ pos' \in [Sources -> Nat]
         /\ \A s \in Merged : s \in Sources /\ HasData(s)
<1>1. /\ pc = "advance" /\ UNCHANGED data /\ Sources' = Sources
      /\ pos' = [s \in Sources |->
                   IF s \in Merged /\ ~HasFailed(s) THEN pos[s] + 1 ELSE pos[s]]
  BY DEF Advance, Sources
<1>2. \A s \in Sources : pos[s] \in Nat /\ Len(data[s]) \in Nat
  BY DEF IInv, Typed, Sources
<1>3. pos' \in [Sources -> Nat]
  BY <1>1, <1>2
<1>4. \A s \in Sources : pos'[s] \in {pos[s], pos[s] + 1}
  BY <1>1
<1>5. \A s \in Sources : HasData(s)' => HasData(s)
  BY <1>1, <1>2, <1>4 DEF HasData
<1>6. ASSUME AnyFailed PROVE AnyFailed'
  <2>1. PICK s \in Sources : HasFailed(s)
    BY <1>6 DEF AnyFailed
  <2>2. pos'[s] = pos[s]
    BY <1>1, <2>1
  <2> QED
    BY <1>1, <2>1, <2>2 DEF AnyFailed, HasFailed, HasData
<1>7. \A s \in Sources : s \notin Merged => pos'[s] = pos[s]
  BY <1>1
<1>8. ~AnyFailed => \A s \in Merged : s \in Sources => pos'[s] = pos[s] + 1
  BY <1>1 DEF AnyFailed
<1>9. \A s \in Merged : s \in Sources /\ HasData(s)
  <2>1. DOMAIN eqs = 1..Len(eqs) /\ \A m \in 1..Len(eqs) : eqs[m] \in Slots
    BY <1>1 DEF IInv, Typed, EqsOK
  <2>2. \A a \in Slots : inputs[a] \in Sources
    BY DEF IInv, Typed, Slots
  <2> QED
    BY <2>1, <2>2 DEF Merged, Contenders
<1> QED
  BY <1>1, <1>3, <1>5, <1>6, <1>7, <1>8, <1>9

LEMMA AdvanceIInv ==
  ASSUME InputsOK, IInv, Advance
  PROVE  IInv'
<1>1. /\ pc = "advance" /\ pc' = "sink" /\ i' = Len(eqs)
      /\ UNCHANGED <<data, inputs, eqs, c, out, good>>
  BY DEF Advance
<1>2. /\ Sources' = Sources /\ (AnyFailed => AnyFailed')
      /\ \A s \in Sources : HasData(s)' => HasData(s)
      /\ \A s \in Sources : s \notin Merged => pos'[s] = pos[s]
      /\ ~AnyFailed => \A s \in Merged : s \in Sources => pos'[s] = pos[s] + 1
      /\ pos' \in [Sources -> Nat]
      /\ \A s \in Merged : s \in Sources /\ HasData(s)
  BY AdvanceFacts
<1>3. /\ Slots' = Slots /\ Pending = {} /\ Pending' = Listed /\ Listed \subseteq Slots
      /\ DOMAIN eqs = 1..Len(eqs) /\ Len(eqs) \in Nat
      /\ Contenders = {inputs[k] : k \in Listed}
  <2>1. /\ DOMAIN eqs = 1..Len(eqs) /\ \A m \in 1..Len(eqs) : eqs[m] \in Slots
        /\ Len(eqs) \in Nat
    BY <1>1 DEF IInv, Typed, EqsOK
  <2>2. Slots' = Slots /\ Pending = {} /\ Pending' = Listed
    BY <1>1 DEF Slots, Pending, Listed
  <2> QED
    BY <2>1, <2>2 DEF Listed, Contenders
<1>4. \A a \in Slots \ Listed : inputs[a] \notin Merged /\ inputs[a] \in Sources
  <2>1. /\ \A a, b \in Slots : inputs[a] = inputs[b] => a = b
        /\ \A a \in Slots : inputs[a] \in Sources
    BY DEF IInv, Typed, SlotsOK, Slots
  <2> QED
    BY <1>3, <2>1 DEF Merged
<1>5. Typed'
  <2>1. ASSUME NEW s \in Sources PROVE pos'[s] \in 1..(Len(data[s]) + 1)
    <3>1. Len(data[s]) \in Nat /\ pos[s] \in 1..(Len(data[s]) + 1)
      BY DEF IInv, Typed, Sources
    <3>2. CASE s \notin Merged
      BY <1>2, <3>1, <3>2
    <3>3. CASE s \in Merged
      <4>1. pos[s] <= Len(data[s])
        BY <1>2, <3>3 DEF HasData
      <4>2. pos'[s] \in {pos[s], pos[s] + 1}
        BY DEF Advance
      <4> QED
        BY <3>1, <4>1, <4>2
    <3> QED
      BY <3>2, <3>3
  <2> QED
    BY <1>1, <1>2, <1>3, <2>1 DEF IInv, Typed
<1>6. SlotsOK'
  <2>1. ASSUME NEW a \in Slots \ Listed PROVE Standing(inputs[a])'
    <3>1. Standing(inputs[a]) /\ pos'[inputs[a]] = pos[inputs[a]]
      BY <1>2, <1>3, <1>4 DEF IInv, SlotsOK
    <3> QED
      BY <1>1, <3>1 DEF Standing, HasData
  <2>2. \A s \in Sources : HasData(s) => \E a \in Slots : inputs[a] = s
    BY <1>1 DEF IInv, SlotsOK
  <2>3. \A a, b \in Slots : inputs[a] = inputs[b] => a = b
    BY DEF IInv, SlotsOK
  <2> QED
    BY <1>1, <1>2, <1>3, <2>1, <2>2, <2>3 DEF SlotsOK, Standing
<1>7. MadeOK' /\ FoundOK' /\ EqsOK'
  BY <1>1, <1>3 DEF IInv, MadeOK, FoundOK, EqsOK
<1>8. HeapOK'
  <2> SUFFICES ASSUME ~AnyFailed' PROVE HeapOK'
    BY DEF HeapOK
  <2>1. ASSUME NEW p \in Slots \ Listed, NEW a \in Slots, IsChild(p, a)
        PROVE  Rec(p)' <= Rec(a)'
    <3>1. a \notin Listed
      <4>1. SUFFICES ASSUME NEW m \in 1..Len(eqs), a = eqs[m] PROVE FALSE
        BY DEF Listed
      <4>2. p \in Nat /\ p >= 1
        BY SlotFacts DEF IInv
      <4>3. \E j \in 1..(m - 1) : eqs[j] = p
        BY <1>1, <2>1, <4>1, <4>2, ListedClosed
      <4> QED
        BY <1>3, <4>3 DEF Listed
    <3>2. \A k \in Slots \ Listed : Rec(k)' = Rec(k)
      BY <1>1, <1>2, <1>4 DEF Rec, HasData
    <3>3. Rec(p) <= Rec(a)
      BY <1>1, <1>2, <1>3, <2>1 DEF IInv, HeapOK, Settled
    <3> QED
      BY <3>1, <3>2, <3>3
  <2> QED
    BY <1>1, <1>3, <2>1 DEF HeapOK, Upheld, Sunk, Settled
<1>9. TakenOK'
  <2> SUFFICES ASSUME ~AnyFailed' PROVE TakenOK'
    BY DEF TakenOK
  <2>1. /\ ~AnyFailed /\ good = Len(out)
        /\ \A s \in Sources : Taken(s) = IF s \in Merged THEN pos[s] ELSE pos[s] - 1
    BY <1>1, <1>2 DEF IInv, TakenOK
  <2>2. ASSUME NEW s \in Sources PROVE Taken(s) = pos'[s] - 1
    <3>1. pos[s] \in Nat
      BY DEF IInv, Typed
    <3> QED
      BY <1>2, <2>1, <3>1
  <2> QED
    BY <1>1, <1>2, <2>1, <2>2, TakenSame DEF TakenOK
<1>10. BlankOK'
  <2> SUFFICES ASSUME ~AnyFailed', NEW a \in Slots, a \notin Listed, ~HasData(inputs[a])'
               PROVE  \A k \in 1..Len(out) : out[k].key < Blank
    BY <1>1, <1>3 DEF BlankOK, OfRound, HasData
  <2>1. pos'[inputs[a]] = pos[inputs[a]]
    BY <1>2, <1>4
  <2>2. ~HasData(inputs[a])
    BY <1>1, <2>1 DEF HasData
  <2> QED
    BY <1>1, <1>2, <2>2 DEF IInv, BlankOK, OfRound
<1> QED
  BY <1>5, <1>6, <1>7, <1>8, <1>9, <1>10 DEF IInv
-----------------------------------------------------------------------------
(* The slots of the round are sunk, the last first *)

\* The slot that is sunk, and its parent, which is still pending.
LEMMA SinkFacts ==
  ASSUME InputsOK, IInv, pc = "sink", i > 0, NEW e, e = eqs[i]
  PROVE  /\ i \in 1..Len(eqs) /\ e \in Nat /\ e >= 1 /\ e \in Slots /\ e \in Pending
         /\ {eqs[j] : j \in 1..(i - 1)} = Pending \ {e}
         /\ \A p \in Pending : p \in Slots /\ p <= e
         /\ \A p \in Slots : IsChild(p, e) => p \in Pending \ {e}
<1>1. /\ i \in 1..Len(eqs) /\ Len(eqs) \in Nat
      /\ Pending = {eqs[j] : j \in 1..i} /\ Pending \subseteq Slots
      /\ \A a, b \in 1..Len(eqs) : a < b => eqs[a] < eqs[b]
      /\ \A a \in 1..Len(eqs) : eqs[a] \in Nat /\ eqs[a] >= 1
  BY DEF IInv, Typed, EqsOK, Pending
<1>2. e \in Pending /\ e \in Nat /\ e >= 1
  BY <1>1
<1>3. \A j \in 1..(i - 1) : eqs[j] < e /\ eqs[j] \in Pending
  BY <1>1
<1>4. {eqs[j] : j \in 1..(i - 1)} = Pending \ {e}
  <2>1. \A j \in 1..i : j = i \/ j \in 1..(i - 1)
    BY <1>1
  <2>2. \A j \in 1..(i - 1) : eqs[j] # e
    BY <1>1, <1>2, <1>3
  <2> QED
    BY <1>1, <1>3, <2>1, <2>2
<1>5. \A p \in Pending : p \in Slots /\ p <= e
  <2>1. ASSUME NEW j \in 1..i PROVE eqs[j] <= e
    BY <1>1, <1>3
  <2> QED
    BY <1>1, <2>1
<1>6. ASSUME NEW p \in Slots, IsChild(p, e) PROVE p \in Pending \ {e}
  <2>1. p \in Nat /\ p >= 1
    BY SlotFacts DEF IInv
  <2>2. \E j \in 1..(i - 1) : eqs[j] = p
    BY <1>1, <1>6, <2>1, ListedClosed
  <2> QED
    BY <1>4, <2>2
<1> QED
  BY <1>1, <1>2, <1>4, <1>5, <1>6

\* What Drop leaves in which slot.
LEMMA DropFacts ==
  ASSUME Typed, NEW e \in Slots, ~HasData(inputs[e]), inputs' = Drop(e)
  PROVE  /\ inputs' \in Seq(Sources)
         /\ Slots = 1..Len(inputs) /\ Len(inputs) \in Nat /\ Slots' = 1..(Len(inputs) - 1)
         /\ \A k \in Slots' : inputs'[k] = IF k = e THEN inputs[Len(inputs)] ELSE inputs[k]
<1> DEFINE full == [inputs EXCEPT ![e] = Last(inputs)]
<1>1. inputs' = SubSeq(full, 1, Len(full) - 1)
  BY DEF Drop, Front
<1>2. /\ inputs \in Seq(Sources) /\ Len(inputs) \in Nat /\ Slots = 1..Len(inputs)
      /\ e \in 1..Len(inputs) /\ Last(inputs) = inputs[Len(inputs)]
  BY DEF Typed, Slots, Last
<1>3. inputs[Len(inputs)] \in Sources
  BY <1>2
<1>4. /\ full \in Seq(Sources) /\ Len(full) = Len(inputs)
      /\ \A k \in 1..Len(inputs) : full[k] = IF k = e THEN inputs[Len(inputs)] ELSE inputs[k]
  BY <1>2, <1>3
<1> HIDE DEF full
<1>5. /\ inputs' \in Seq(Sources) /\ Len(inputs') = Len(inputs) - 1
      /\ \A k \in 1..(Len(inputs) - 1) : inputs'[k] = full[k]
  BY <1>1, <1>2, <1>4
<1> QED
  BY <1>2, <1>4, <1>5 DEF Slots

LEMMA SinkIInv ==
  ASSUME InputsOK, IInv, Sink
  PROVE  IInv'
<1>0. PICK e : e = eqs[i]
  OBVIOUS
<1>1. /\ pc = "sink" /\ pc' = "down" /\ i > 0 /\ c' = e /\ inputs' = Drop(e)
      /\ UNCHANGED <<data, pos, eqs, i, out, good>>
  BY <1>0 DEF Sink
<1>2. /\ i \in 1..Len(eqs) /\ e \in Nat /\ e >= 1 /\ e \in Slots /\ e \in Pending
      /\ {eqs[j] : j \in 1..(i - 1)} = Pending \ {e}
      /\ \A p \in Pending : p \in Slots /\ p <= e
      /\ \A p \in Slots : IsChild(p, e) => p \in Pending \ {e}
  BY <1>0, <1>1, SinkFacts
<1>3. /\ Sources' = Sources /\ (\A s : HasData(s)' <=> HasData(s)) /\ (AnyFailed' <=> AnyFailed)
      /\ Pending' = Pending \ {e}
  <2>1. Pending' = {eqs[j] : j \in 1..(i - 1)}
    BY <1>1 DEF Pending
  <2> QED
    BY <1>1, <1>2, <2>1, FailedSame
<1>4. MadeOK' /\ FoundOK'
  BY <1>1 DEF MadeOK, FoundOK
<1>5. TakenOK'
  BY <1>1, <1>3, TakenSame DEF IInv, TakenOK
<1>6. /\ \A a, b \in Slots : inputs[a] = inputs[b] => a = b
      /\ \A a \in Slots \ Pending : Standing(inputs[a])
      /\ \A s \in Sources : HasData(s) => \E a \in Slots : inputs[a] = s
  BY <1>1 DEF IInv, SlotsOK
<1>7. ~AnyFailed => \A p \in Slots \ Pending : \A a \in Slots : IsChild(p, a) => Rec(p) <= Rec(a)
  BY <1>1 DEF IInv, HeapOK, Settled
\* what of EqsOK does not depend on the slots
<1>8. ASSUME Pending' \subseteq Slots' PROVE EqsOK'
  BY <1>0, <1>1, <1>2, <1>8 DEF IInv, EqsOK
<1>9. CASE HasData(inputs[e])
  <2>1. inputs' = inputs /\ Slots' = Slots /\ \A k : Rec(k)' = Rec(k)
    BY <1>1, <1>9 DEF Drop, Slots, Rec, HasData
  <2>2. Typed' /\ EqsOK'
    BY <1>1, <1>2, <1>3, <1>8, <2>1 DEF IInv, Typed
  <2>3. SlotsOK'
    BY <1>1, <1>3, <1>6, <1>9, <2>1 DEF SlotsOK, Standing
  <2>4. HeapOK'
    BY <1>1, <1>2, <1>3, <1>7, <2>1 DEF HeapOK, Upheld, Sunk, Settled
  <2>5. BlankOK'
    <3>1. OfRound = Pending /\ OfRound' = Pending \ {e}
      BY <1>1, <1>3 DEF OfRound
    <3>2. \A a \in Slots : a \notin OfRound' /\ ~HasData(inputs[a]) => a \in Slots \ OfRound
      BY <1>9, <3>1
    <3> QED
      BY <1>1, <2>1, <3>2, BlankSame DEF IInv
  <2> QED
    BY <1>4, <1>5, <2>2, <2>3, <2>4, <2>5 DEF IInv
<1>10. CASE ~HasData(inputs[e])
  <2>0. PICK n \in Nat : n = Len(inputs)
    BY DEF IInv, Typed
  <2>1. /\ inputs' \in Seq(Sources) /\ Slots = 1..n /\ Slots' = 1..(n - 1)
        /\ \A k \in Slots' : inputs'[k] = IF k = e THEN inputs[n] ELSE inputs[k]
    BY <1>1, <1>2, <1>10, <2>0, DropFacts DEF IInv
  <2>2. Pending' \subseteq Slots'
    <3>1. ASSUME NEW p \in Pending, p # e PROVE p \in 1..(n - 1)
      BY <1>2, <2>1, <3>1
    <3> QED
      BY <1>3, <2>1, <3>1
  <2>3. Typed' /\ EqsOK'
    BY <1>1, <1>2, <1>3, <1>8, <2>1, <2>2 DEF IInv, Typed
  <2>4. ASSUME NEW a \in Slots' PROVE a \in Slots /\ a \in Nat /\ a # n /\ n \in Slots
    BY <2>1
  <2>5. SlotsOK'
    <3>1. ASSUME NEW a \in Slots', NEW b \in Slots', inputs'[a] = inputs'[b] PROVE a = b
      BY <1>6, <2>1, <2>4, <3>1
    <3>2. ASSUME NEW a \in Slots', a \notin Pending' PROVE Standing(inputs'[a])
      <4>1. CASE a = e
        <5>1. n \notin Pending /\ n \in Slots
          BY <1>2, <2>1, <4>1
        <5> QED
          BY <1>6, <2>1, <4>1, <5>1
      <4>2. CASE a # e
        BY <1>3, <1>6, <2>1, <2>4, <3>2, <4>2
      <4> QED
        BY <4>1, <4>2
    <3>3. ASSUME NEW s \in Sources, HasData(s) PROVE \E a \in Slots' : inputs'[a] = s
      <4>1. PICK a \in Slots : inputs[a] = s
        BY <1>6, <3>3
      <4>2. a # e
        BY <1>10, <3>3, <4>1
      <4>3. CASE a = n
        <5>1. e \in Slots'
          BY <1>2, <2>1, <4>2, <4>3
        <5> QED
          BY <2>1, <4>1, <4>3, <5>1
      <4>4. CASE a # n
        BY <2>1, <4>1, <4>2, <4>4
      <4> QED
        BY <4>3, <4>4
    <3> QED
      BY <1>1, <1>3, <3>1, <3>2, <3>3 DEF SlotsOK, Standing, HasData
  <2>6. HeapOK'
    <3> SUFFICES ASSUME ~AnyFailed PROVE HeapOK'
      BY <1>3 DEF HeapOK
    <3>1. \A k \in Slots' : k # e => Rec(k)' = Rec(k)
      BY <1>1, <2>1 DEF Rec, HasData
    <3>2. ASSUME NEW p \in Slots', p \notin Pending', NEW a \in Slots', IsChild(p, a), p # e
          PROVE  Rec(p)' <= Rec(a)'
      <4>1. p \in Slots /\ a \in Slots /\ p \notin Pending
        BY <1>3, <2>4, <3>2
      <4>2. a # e
        BY <1>2, <3>2, <4>1
      <4>3. Rec(p) <= Rec(a)
        BY <1>7, <3>2, <4>1
      <4> QED
        BY <3>1, <3>2, <4>2, <4>3
    <3>3. ASSUME NEW p \in Slots', p \notin Pending', IsChild(p, e)
          PROVE  FALSE
      BY <1>2, <1>3, <2>4, <3>3
    <3> QED
      BY <1>1, <3>2, <3>3 DEF HeapOK, Upheld, Sunk, Settled
  <2>7. BlankOK'
    <3>1. OfRound = Pending /\ OfRound' = Pending \ {e}
      BY <1>1, <1>3 DEF OfRound
    <3>2. ASSUME NEW a \in Slots', a \notin OfRound'
          PROVE  \E b \in Slots \ OfRound : inputs[b] = inputs'[a]
      <4>1. CASE a = e
        <5>1. n \notin Pending /\ n \in Slots
          BY <1>2, <2>1, <4>1
        <5> QED
          BY <2>1, <3>1, <4>1, <5>1
      <4>2. CASE a # e
        BY <2>1, <2>4, <3>1, <3>2, <4>2
      <4> QED
        BY <4>1, <4>2
    <3> QED
      BY <1>1, <3>2, BlankSame DEF IInv
  <2> QED
    BY <1>4, <1>5, <2>3, <2>5, <2>6, <2>7 DEF IInv
<1> QED
  BY <1>9, <1>10

LEMMA SinkEndIInv ==
  ASSUME InputsOK, IInv, SinkEnd
  PROVE  IInv'
<1>1. /\ pc = "sink" /\ pc' = "read" /\ i = 0
      /\ UNCHANGED <<data, pos, inputs, eqs, i, c, out, good>>
  BY DEF SinkEnd
<1>2. /\ Sources' = Sources /\ (\A s : HasData(s)' <=> HasData(s)) /\ (AnyFailed' <=> AnyFailed)
      /\ Pending = {} /\ Pending' = {} /\ Slots' = Slots /\ \A k : Rec(k)' = Rec(k)
  BY <1>1, FailedSame DEF Pending, Slots, Rec, HasData
<1>3. Typed' /\ SlotsOK' /\ MadeOK' /\ EqsOK' /\ FoundOK'
  BY <1>1, <1>2 DEF IInv, Typed, MadeOK, SlotsOK, Standing, EqsOK, FoundOK
<1>4. TakenOK'
  BY <1>1, <1>2, TakenSame DEF IInv, TakenOK
<1>5. HeapOK'
  BY <1>1, <1>2 DEF IInv, HeapOK, Upheld, Sunk, Settled
<1>20. BlankOK'
  BY <1>1, <1>2, BlankSame DEF IInv, OfRound
<1> QED
  BY <1>3, <1>4, <1>5, <1>20 DEF IInv

\* The cursor is past what is pending.
LEMMA DownFacts ==
  ASSUME IInv, pc = "down"
  PROVE  /\ c \in Nat /\ c >= 1 /\ i \in 1..Len(eqs)
         /\ Pending = {eqs[j] : j \in 1..(i - 1)} /\ Pending \subseteq Slots
         /\ \A p \in Pending : p \in Nat /\ p < c
<1>1. /\ c \in Nat /\ i \in 1..Len(eqs) /\ Len(eqs) \in Nat /\ c >= eqs[i]
      /\ Pending \subseteq Slots
      /\ \A a, b \in 1..Len(eqs) : a < b => eqs[a] < eqs[b]
      /\ \A a \in 1..Len(eqs) : eqs[a] \in Nat /\ eqs[a] >= 1
  BY DEF IInv, Typed, EqsOK
<1>2. Pending = {eqs[j] : j \in 1..(i - 1)}
  BY DEF Pending
<1>3. ASSUME NEW j \in 1..(i - 1) PROVE eqs[j] \in Nat /\ eqs[j] < c
  <2>1. eqs[j] \in Nat /\ eqs[i] \in Nat /\ eqs[j] < eqs[i]
    BY <1>1
  <2> QED
    BY <1>1, <2>1
<1>4. c >= 1
  <2>1. eqs[i] \in Nat /\ eqs[i] >= 1
    BY <1>1
  <2> QED
    BY <1>1, <2>1
<1> QED
  BY <1>1, <1>2, <1>3, <1>4

LEMMA DownSwapIInv ==
  ASSUME InputsOK, IInv, DownSwap
  PROVE  IInv'
<1>0. PICK k \in Nat : k = c
  BY DEF IInv, Typed
<1>1. PICK j \in LesserChildren : MayBeLess(j, k) /\ inputs' = Swap(inputs, k, j) /\ c' = j
  BY <1>0 DEF DownSwap
<1>2. pc = "down" /\ pc' = "down" /\ UNCHANGED <<data, pos, eqs, i, out, good>>
  BY DEF DownSwap
<1>3. /\ k >= 1 /\ i \in 1..Len(eqs) /\ Pending \subseteq Slots
      /\ \A p \in Pending : p \in Nat /\ p < k
      /\ Pending' = Pending
  <2>1. Pending' = Pending
    BY <1>2 DEF Pending
  <2> QED
    BY <1>0, <1>2, <2>1, DownFacts
<1>4. /\ IsChild(k, j) /\ j \in Slots /\ j \in Nat /\ j > k
      /\ \A a \in Slots : IsChild(k, a) /\ a # j => MayBeGeq(a, j) \/ MayBeLess(j, a)
  <2>1. /\ j \in {2 * k, 2 * k + 1} /\ j \in Slots
        /\ IF j = 2 * k THEN 2 * k + 1 \in Slots => MayBeGeq(2 * k + 1, 2 * k)
           ELSE MayBeLess(2 * k + 1, 2 * k)
    BY <1>0, <1>1 DEF LesserChildren, Children, Slots
  <2>2. IsChild(k, j) /\ j \in Nat /\ j > k
    BY <1>3, <2>1 DEF IsChild
  <2>3. ASSUME NEW a \in Slots, IsChild(k, a), a # j PROVE MayBeGeq(a, j) \/ MayBeLess(j, a)
    <3>1. CASE j = 2 * k
      BY <2>1, <2>3, <3>1 DEF IsChild
    <3>2. CASE j # 2 * k
      BY <2>1, <2>3, <3>2 DEF IsChild
    <3> QED
      BY <3>1, <3>2
  <2> QED
    BY <2>1, <2>2, <2>3
<1>5. k \in Slots /\ k \notin Pending /\ j \notin Pending
  <2>1. Slots = 1..Len(inputs) /\ Len(inputs) \in Nat
    BY DEF IInv, Typed, Slots
  <2> QED
    BY <1>3, <1>4, <2>1
<1>6. /\ Sources' = Sources /\ (\A s : HasData(s)' <=> HasData(s)) /\ (AnyFailed' <=> AnyFailed)
  BY <1>2, FailedSame
<1>7. /\ inputs' \in Seq(Sources)
      /\ Slots' = Slots
      /\ inputs'[k] = inputs[j] /\ inputs'[j] = inputs[k]
      /\ \A l \in Slots : l \notin {k, j} => inputs'[l] = inputs[l]
      /\ Rec(k)' = Rec(j) /\ Rec(j)' = Rec(k)
      /\ \A l \in Slots : l \notin {k, j} => Rec(l)' = Rec(l)
      /\ \A s : (\E l \in Slots : inputs'[l] = s) <=> (\E l \in Slots : inputs[l] = s)
      /\ (\A l, m \in Slots : inputs[l] = inputs[m] => l = m)
           => (\A l, m \in Slots : inputs'[l] = inputs'[m] => l = m)
  BY <1>1, <1>2, <1>4, <1>5, SwapFacts DEF IInv
<1>8. Typed'
  BY <1>1, <1>2, <1>4, <1>6, <1>7 DEF IInv, Typed
<1>9. SlotsOK'
  <2>1. \A a \in Slots \ Pending : Standing(inputs[a])
    BY DEF IInv, SlotsOK
  <2>2. \A a \in Slots \ Pending : Standing(inputs'[a])
    BY <1>4, <1>5, <1>7, <2>1
  <2>3. \A s \in Sources : HasData(s) => \E a \in Slots : inputs'[a] = s
    BY <1>2, <1>7 DEF IInv, SlotsOK
  <2>4. \A a, b \in Slots : inputs'[a] = inputs'[b] => a = b
    BY <1>7 DEF IInv, SlotsOK
  <2>5. Slots' = Slots
    BY <1>7
  <2> QED
    BY <1>2, <1>3, <1>6, <2>2, <2>3, <2>4, <2>5 DEF SlotsOK, Standing, HasData
<1>10. MadeOK' /\ FoundOK'
  BY <1>2 DEF MadeOK, FoundOK
<1>11. EqsOK'
  <2>1. k >= eqs[i] /\ eqs[i] \in Nat
    BY <1>0, <1>2, <1>3 DEF IInv, EqsOK, Typed
  <2>2. j >= eqs[i]
    BY <1>4, <2>1
  <2> QED
    BY <1>1, <1>2, <1>3, <1>7, <2>2 DEF IInv, EqsOK
<1>12. TakenOK'
  BY <1>2, <1>6, TakenSame DEF IInv, TakenOK
<1>13. HeapOK'
  <2> SUFFICES ASSUME ~AnyFailed PROVE HeapOK'
    BY <1>6 DEF HeapOK
  <2>1. /\ \A l \in Slots \ Pending : Rec(l) \in Int /\ l \in Nat /\ l >= 1
        /\ Rec(j) < Rec(k)
        /\ \A a \in Slots : a \notin Pending /\ IsChild(k, a) => Rec(j) <= Rec(a)
    <3>1. \A l \in Slots \ Pending : Rec(l) \in Int /\ l \in Nat /\ l >= 1
      BY SlotFacts, ReadableFacts DEF IInv
    <3>2. Rec(j) < Rec(k)
      BY <1>1, <1>4, <1>5, ReadableFacts DEF IInv
    <3>3. ASSUME NEW a \in Slots, a \notin Pending, IsChild(k, a) PROVE Rec(j) <= Rec(a)
      <4>1. CASE a = j
        BY <1>4, <1>5, <3>1, <4>1
      <4>2. CASE a # j
        <5>1. MayBeGeq(a, j) \/ MayBeLess(j, a)
          BY <1>4, <3>3, <4>2
        <5>2. Rec(a) >= Rec(j) \/ Rec(j) < Rec(a)
          BY <1>4, <1>5, <3>3, <5>1, ReadableFacts DEF IInv
        <5> QED
          BY <1>4, <1>5, <3>1, <3>3, <5>2
      <4> QED
        BY <4>1, <4>2
    <3> QED
      BY <3>1, <3>2, <3>3
  <2>2. /\ \A p \in Slots \ Pending : \A a \in Slots :
             IsChild(p, a) /\ p # k => Rec(p) <= Rec(a)
        /\ \A p \in Slots \ Pending : \A a \in Slots :
             IsChild(p, k) /\ IsChild(k, a) => Rec(p) <= Rec(a)
    BY <1>0, <1>2 DEF IInv, HeapOK, Sunk
  <2>3. ASSUME NEW a \in Slots, IsChild(k, a) PROVE a \notin Pending /\ a # k
    BY <1>3, <2>3 DEF IsChild
  <2>4. ASSUME NEW p \in Slots \ Pending, NEW a \in Slots, IsChild(p, a), p # j
        PROVE  Rec(p)' <= Rec(a)'
    <3>1. CASE p = k
      <4>1. CASE a = j
        BY <1>4, <1>5, <1>7, <2>1, <3>1, <4>1
      <4>2. CASE a # j
        BY <1>7, <2>1, <2>3, <2>4, <3>1, <4>2
      <4> QED
        BY <4>1, <4>2
    <3>2. CASE p # k
      <4>1. Rec(p)' = Rec(p)
        BY <1>7, <2>4, <3>2
      <4>2. CASE a = k
        <5>1. Rec(p) <= Rec(j)
          BY <1>4, <2>2, <2>4, <4>2
        <5> QED
          BY <1>7, <4>1, <4>2, <5>1
      <4>3. CASE a # k
        <5>1. a # j
          BY <1>4, <2>1, <2>4, <3>2 DEF IsChild
        <5> QED
          BY <1>7, <2>2, <2>4, <3>2, <4>1, <4>3, <5>1
      <4> QED
        BY <4>2, <4>3
    <3> QED
      BY <3>1, <3>2
  <2>5. ASSUME NEW p \in Slots \ Pending, NEW a \in Slots, IsChild(p, j), IsChild(j, a)
        PROVE  Rec(p)' <= Rec(a)'
    <3>1. p = k
      BY <1>4, <2>1, <2>5 DEF IsChild
    <3>2. a # k /\ a # j
      BY <1>4, <2>5 DEF IsChild
    <3>3. Rec(j) <= Rec(a)
      BY <1>4, <1>5, <2>2, <2>5
    <3> QED
      BY <1>7, <3>1, <3>2, <3>3
  <2> QED
    BY <1>1, <1>2, <1>3, <1>7, <2>4, <2>5 DEF HeapOK, Upheld, Sunk, Settled
<1>14. BlankOK'
  <2>1. OfRound = Pending /\ OfRound' = Pending
    BY <1>2, <1>3 DEF OfRound
  <2>2. ASSUME NEW a \in Slots, a \notin Pending
        PROVE  \E b \in Slots \ Pending : inputs[b] = inputs'[a]
    BY <1>4, <1>5, <1>7, <2>2
  <2> QED
    BY <1>2, <1>7, <2>1, <2>2, BlankSame DEF IInv
<1> QED
  BY <1>8, <1>9, <1>10, <1>11, <1>12, <1>13, <1>14 DEF IInv

LEMMA DownBreakIInv ==
  ASSUME InputsOK, IInv, DownBreak
  PROVE  IInv'
<1>0. PICK k \in Nat : k = c
  BY DEF IInv, Typed
<1>1. /\ pc = "down" /\ pc' = "sink" /\ i' = i - 1
      /\ UNCHANGED <<data, pos, inputs, eqs, c, out, good>>
      /\ 2 * k \in Slots => \E j \in LesserChildren : MayBeGeq(j, k)
  BY <1>0 DEF DownBreak, Slots
<1>2. /\ k >= 1 /\ i \in 1..Len(eqs) /\ Len(eqs) \in Nat /\ Pending \subseteq Slots
      /\ \A p \in Pending : p \in Nat /\ p < k
      /\ Pending' = Pending
  <2>1. Pending' = Pending
    BY <1>1, DownFacts DEF Pending
  <2> QED
    BY <1>0, <1>1, <2>1, DownFacts DEF IInv, Typed
<1>3. /\ Sources' = Sources /\ (\A s : HasData(s)' <=> HasData(s)) /\ (AnyFailed' <=> AnyFailed)
      /\ Slots' = Slots /\ \A l : Rec(l)' = Rec(l)
  BY <1>1, FailedSame DEF Slots, Rec, HasData
<1>4. Typed' /\ SlotsOK' /\ MadeOK' /\ FoundOK'
  BY <1>1, <1>2, <1>3 DEF IInv, Typed, SlotsOK, Standing, MadeOK, FoundOK
<1>5. EqsOK'
  BY <1>1, <1>2, <1>3 DEF IInv, EqsOK
<1>6. TakenOK'
  BY <1>1, <1>3, TakenSame DEF IInv, TakenOK
<1>7. HeapOK'
  <2> SUFFICES ASSUME ~AnyFailed PROVE HeapOK'
    BY <1>3 DEF HeapOK
  <2>1. ASSUME NEW a \in Slots, IsChild(k, a), k \in Slots PROVE Rec(k) <= Rec(a)
    <3>1. Slots = 1..Len(inputs) /\ Len(inputs) \in Nat
      BY DEF IInv, Typed, Slots
    <3>2. 2 * k \in Slots
      BY <1>2, <2>1, <3>1 DEF IsChild
    <3>3. PICK j \in LesserChildren : MayBeGeq(j, k)
      BY <1>1, <3>2
    <3>4. \A b \in Slots : IsChild(k, b) => b \notin Pending
      BY <1>2 DEF IsChild
    <3>5. /\ j \in {2 * k, 2 * k + 1} /\ j \in Slots
          /\ IF j = 2 * k THEN 2 * k + 1 \in Slots => MayBeGeq(2 * k + 1, 2 * k)
             ELSE MayBeLess(2 * k + 1, 2 * k)
      BY <1>0 DEF LesserChildren, Children, Slots
    <3>6. /\ k \notin Pending /\ a \notin Pending /\ j \notin Pending /\ 2 * k \notin Pending
          /\ a \in {2 * k, 2 * k + 1}
      BY <1>2, <2>1, <3>2, <3>4, <3>5 DEF IsChild
    <3>7. Rec(k) <= Rec(j) /\ Rec(k) \in Int /\ Rec(j) \in Int /\ Rec(a) \in Int
      BY <2>1, <3>3, <3>5, <3>6, ReadableFacts DEF IInv
    <3>8. CASE a = j
      BY <3>7, <3>8
    <3>9. CASE a # j /\ j = 2 * k
      <4>1. MayBeGeq(a, j)
        BY <2>1, <3>5, <3>6, <3>9
      <4>2. Rec(j) <= Rec(a)
        BY <2>1, <3>5, <3>6, <3>7, <4>1, ReadableFacts DEF IInv
      <4> QED
        BY <3>7, <4>2
    <3>10. CASE a # j /\ j # 2 * k
      <4>1. MayBeLess(j, a)
        BY <3>5, <3>6, <3>10
      <4>2. Rec(j) <= Rec(a)
        BY <2>1, <3>5, <3>6, <3>7, <4>1, ReadableFacts DEF IInv
      <4> QED
        BY <3>7, <4>2
    <3> QED
      BY <3>8, <3>9, <3>10
  <2>2. \A p \in Slots \ Pending : \A a \in Slots :
          IsChild(p, a) /\ p # k => Rec(p) <= Rec(a)
    BY <1>0, <1>1 DEF IInv, HeapOK, Sunk
  <2>3. \A p \in Slots \ Pending : \A a \in Slots : IsChild(p, a) => Rec(p) <= Rec(a)
    BY <2>1, <2>2
  <2> QED
    BY <1>1, <1>2, <1>3, <2>3 DEF HeapOK, Upheld, Sunk, Settled
<1>20. BlankOK'
  BY <1>1, <1>2, <1>3, BlankSame DEF IInv, OfRound
<1> QED
  BY <1>4, <1>5, <1>6, <1>7, <1>20 DEF IInv
-----------------------------------------------------------------------------
(* Theorems *)

LEMMA NextIInv ==
  ASSUME InputsOK, IInv, [Next]_vars
  PROVE  IInv'
<1>1. CASE AddIter      BY <1>1, AddIterIInv
<1>2. CASE UpSwap       BY <1>2, UpSwapIInv
<1>3. CASE UpBreak      BY <1>3, UpBreakIInv
<1>4. CASE MakeEnd      BY <1>4, MakeEndIInv
<1>5. CASE ReadBegin    BY <1>5, ReadBeginIInv
<1>6. CASE ReadEnd      BY <1>6, ReadEndIInv
<1>7. CASE Gather       BY <1>7, GatherIInv
<1>8. CASE MergeEquals  BY <1>8, MergeEqualsIInv
<1>9. CASE Advance      BY <1>9, AdvanceIInv
<1>10. CASE Sink        BY <1>10, SinkIInv
<1>11. CASE SinkEnd     BY <1>11, SinkEndIInv
<1>12. CASE DownSwap    BY <1>12, DownSwapIInv
<1>13. CASE DownBreak   BY <1>13, DownBreakIInv
<1>14. CASE Panic       BY <1>14, PanicIInv
<1>15. CASE UNCHANGED vars
  <2>1. UNCHANGED <<data, pos, inputs, eqs, i, c, out, good, pc>>
    BY <1>15 DEF vars
  <2>2. /\ Sources' = Sources /\ (\A s : HasData(s)' <=> HasData(s)) /\ (AnyFailed' <=> AnyFailed)
        /\ Slots' = Slots /\ Pending' = Pending /\ Listed' = Listed /\ Seen' = Seen
        /\ Contenders' = Contenders /\ Merged' = Merged /\ OfRound' = OfRound
        /\ \A k : Rec(k)' = Rec(k)
    BY <2>1, FailedSame DEF Slots, Pending, Rec, HasData, Listed, Seen, Contenders, Merged, OfRound
  <2>3. Typed' /\ SlotsOK' /\ MadeOK' /\ EqsOK' /\ FoundOK'
    BY <2>1, <2>2 DEF IInv, Typed, SlotsOK, Standing, MadeOK, EqsOK, FoundOK
  <2>4. HeapOK' /\ TakenOK'
    BY <2>1, <2>2, TakenSame DEF IInv, HeapOK, Upheld, Sunk, Settled, TakenOK
  <2>5. BlankOK'
    BY <2>1, <2>2, BlankSame DEF IInv
  <2> QED
    BY <2>3, <2>4, <2>5 DEF IInv
<1> QED
  BY <1>1, <1>2, <1>3, <1>4, <1>5, <1>6, <1>7, <1>8, <1>9, <1>10, <1>11, <1>12, <1>13, <1>14,
     <1>15 DEF Next

\* The invariant of Heap2, its type correctness included: in every state the
\* slots hold different iterators and none that has data is lost, and until
\* one fails the slots are in heap order but for the excused ones, the list of
\* equals is what it says, and the rounds add up to what was read.
THEOREM HeapInvariant == Spec => []IInv
<1> USE Heap2Assumption
<1>1. Init => IInv
  BY InitIInv
<1>2. IInv /\ [Next]_vars => IInv'
  BY NextIInv
<1> QED
  BY <1>1, <1>2, PTL DEF Spec

\* For any number of iterators: between two Reads the heap has every iterator
\* with data, failed ones included, once each; any other it has came with
\* nothing, and until one fails its rank has yet to come up.
THEOREM NoneLost == Spec => []HoldsUnread
<1>1. IInv => HoldsUnread
  <2> SUFFICES ASSUME IInv, pc = "read" PROVE HoldsUnread
    BY DEF HoldsUnread
  <2>1. /\ \A a, b \in Slots : inputs[a] = inputs[b] => a = b
        /\ \A a \in Slots : Standing(inputs[a])
        /\ \A s \in Sources : HasData(s) => \E a \in Slots : inputs[a] = s
    BY DEF IInv, SlotsOK, Pending
  <2>2. /\ \A a \in Slots : inputs[a] \in Sources
        /\ Range(inputs) = {inputs[a] : a \in Slots}
    BY DEF IInv, Typed, Slots, Range
  <2>3. {s \in Range(inputs) : HasData(s)} = {s \in Sources : HasData(s)}
    BY <2>1, <2>2
  <2>4. ASSUME NEW s \in Range(inputs), ~HasData(s)
        PROVE  /\ data[s] = <<>>
               /\ ~AnyFailed => \A k \in DOMAIN out : out[k].key < Blank
    <3>1. PICK a \in Slots : inputs[a] = s
      BY <2>2
    <3>2. data[s] = <<>>
      BY <2>1, <2>4, <3>1 DEF Standing
    <3>3. OfRound = {} /\ DOMAIN out = 1..Len(out)
      BY DEF OfRound, Pending, IInv, Typed
    <3> QED
      BY <2>4, <3>1, <3>2, <3>3 DEF IInv, BlankOK
  <2> QED
    BY <2>1, <2>3, <2>4 DEF HoldsUnread, Slots
<1> QED
  BY <1>1, HeapInvariant, PTL
-----------------------------------------------------------------------------
(* Heap2 implements the multiway merge *)

LEMMA RestOfStream ==
  ASSUME NEW S, NEW q, q \in Seq(S), NEW m \in Nat, m >= 1, m <= Len(q)
  PROVE  /\ SubSeq(q, m, Len(q)) # <<>>
         /\ Head(SubSeq(q, m, Len(q))) = q[m]
         /\ Tail(SubSeq(q, m, Len(q))) = SubSeq(q, m + 1, Len(q))
<1>1. Len(q) \in Nat /\ m \in 1..Len(q) /\ Len(q) \in m..Len(q)
  OBVIOUS
<1>2. /\ Head(SubSeq(q, m, Len(q))) = q[m]
      /\ Tail(SubSeq(q, m, Len(q))) = SubSeq(q, m + 1, Len(q))
  BY <1>1, HeadTailOfSubSeq
<1>3. Len(SubSeq(q, m, Len(q))) > 0
  <2>1. Len(SubSeq(q, m, Len(q))) = Len(q) - m + 1
    BY <1>1
  <2> QED
    BY <1>1, <2>1
<1> QED
  BY <1>2, <1>3

\* What is left of a stream, and where the iterators stand in it.
LEMMA LeftFacts ==
  ASSUME IInv, ~AnyFailed, pc # "advance"
  PROVE  /\ Left = [s \in Sources |-> SubSeq(data[s], pos[s], Len(data[s]))]
         /\ \A s \in Sources :
              /\ Left[s] # <<>> <=> HasData(s)
              /\ HasData(s) => /\ Head(Left[s]) = data[s][pos[s]]
                               /\ Tail(Left[s]) = SubSeq(data[s], pos[s] + 1, Len(data[s]))
<1>1. \A s \in Sources : /\ data[s] \in Seq(Int \cup {Bad}) /\ Len(data[s]) \in Nat
                         /\ pos[s] \in Nat /\ pos[s] >= 1 /\ Taken(s) = pos[s] - 1
  BY DEF IInv, Typed, TakenOK, Sources
<1>2. Left = [s \in Sources |-> SubSeq(data[s], pos[s], Len(data[s]))]
  <2>1. \A s \in Sources : Taken(s) + 1 = pos[s]
    BY <1>1
  <2> QED
    BY <2>1 DEF Left
<1>3. ASSUME NEW s \in Sources
      PROVE  /\ Left[s] # <<>> <=> HasData(s)
             /\ HasData(s) => /\ Head(Left[s]) = data[s][pos[s]]
                              /\ Tail(Left[s]) = SubSeq(data[s], pos[s] + 1, Len(data[s]))
  <2>1. Left[s] = SubSeq(data[s], pos[s], Len(data[s]))
    BY <1>2
  <2>2. CASE HasData(s)
    <3>1. PICK q \in Seq(Int \cup {Bad}), m \in Nat : q = data[s] /\ m = pos[s]
      BY <1>1
    <3>2. q \in Seq(Int \cup {Bad}) /\ m >= 1 /\ m <= Len(q)
      BY <1>1, <2>2, <3>1 DEF HasData
    <3>3. /\ Left[s] = SubSeq(q, m, Len(q))
          /\ SubSeq(q, m, Len(q)) # <<>>
          /\ Head(SubSeq(q, m, Len(q))) = q[m]
          /\ Tail(SubSeq(q, m, Len(q))) = SubSeq(q, m + 1, Len(q))
      BY <2>1, <3>1, <3>2, RestOfStream
    <3> QED
      BY <2>2, <3>1, <3>3
  <2>3. CASE ~HasData(s)
    BY <1>1, <2>1, <2>3 DEF HasData
  <2> QED
    BY <2>2, <2>3
<1> QED
  BY <1>2, <1>3

\* The mapping of a state on the history it keeps.
LEMMA SameRounds ==
  ASSUME Typed, UNCHANGED <<data, good>>, \A k \in 1..good : out'[k] = out[k],
         out' = out \/ \E r : out' = Append(out, r)
  PROVE  Left' = Left /\ GoodRounds' = GoodRounds
<1>1. \A s : Taken(s)' = Taken(s)
  BY DEF Taken
<1>2. Left' = Left
  BY <1>1 DEF Left, Sources
<1>3. GoodRounds' = GoodRounds
  BY DEF GoodRounds, Typed
<1> QED
  BY <1>2, <1>3

\* Once an iterator has failed the mapped state does not change.
LEMMA FailedStutters ==
  ASSUME IInv, AnyFailed, [Next]_vars
  PROVE  Left' = Left /\ GoodRounds' = GoodRounds /\ Status' = Status
<1>1. UNCHANGED <<data, good>> /\ (out' = out \/ \E r : out' = Append(out, r))
  BY DEF Next, vars, AddIter, UpSwap, UpBreak, MakeEnd, ReadBegin, ReadEnd, Gather, MergeEquals,
     Advance, Sink, SinkEnd, DownSwap, DownBreak, Panic
<1>2. \A k \in 1..good : out'[k] = out[k]
  <2>1. CASE out' = out
    BY <2>1
  <2>2. ASSUME NEW r, out' = Append(out, r) PROVE \A k \in 1..good : out'[k] = out[k]
    <3>1. out \in Seq([key : Int \cup {Bad}, from : SUBSET Sources]) /\ good \in 0..Len(out)
      BY DEF IInv, Typed
    <3>2. \A k \in 1..Len(out) : Append(out, r)[k] = out[k]
      BY <3>1
    <3> QED
      BY <2>2, <3>1, <3>2
  <2> QED
    BY <1>1, <2>1, <2>2
<1>3. AnyFailed'
  <2>1. CASE Advance
    BY <2>1, AdvanceFacts
  <2>2. CASE ~Advance
    <3>1. UNCHANGED <<data, pos>>
      BY <2>2 DEF Next, vars, AddIter, UpSwap, UpBreak, MakeEnd, ReadBegin, ReadEnd, Gather,
         MergeEquals, Sink, SinkEnd, DownSwap, DownBreak, Panic
    <3> QED
      BY <3>1, FailedSame
  <2> QED
    BY <2>1, <2>2
<1> QED
  BY <1>1, <1>2, <1>3, SameRounds DEF IInv, Status

\* Steps that read nothing and merge nothing.
LEMMA OtherStutters ==
  ASSUME IInv, UNCHANGED <<data, pos, out, good>>, pc # "done", pc' # "done"
  PROVE  Left' = Left /\ GoodRounds' = GoodRounds /\ Status' = Status
<1>1. Left' = Left /\ GoodRounds' = GoodRounds
  BY SameRounds DEF IInv
<1> QED
  BY <1>1, FailedSame DEF Status

\* The end of the caller's loop.
LEMMA ReadEndRefines ==
  ASSUME IInv, ~AnyFailed, ReadEnd
  PROVE  Abstract!Finish
<1>1. /\ pc = "read" /\ pc' = "done" /\ inputs = <<>>
      /\ UNCHANGED <<data, pos, inputs, eqs, i, c, out, good>>
  BY DEF ReadEnd
<1>2. Left' = Left /\ GoodRounds' = GoodRounds
  BY <1>1, SameRounds DEF IInv
<1>3. Status = "merging" /\ Status' = "merged"
  BY <1>1, FailedSame DEF Status
<1>4. \A s \in Sources : Left[s] = <<>>
  <2>1. \A s \in Sources : ~HasData(s)
    BY <1>1 DEF IInv, SlotsOK, Slots
  <2> QED
    BY <1>1, <2>1, LeftFacts
<1>5. DOMAIN Left = Sources
  BY DEF Left
<1> QED
  BY <1>2, <1>3, <1>4, <1>5 DEF Abstract!Finish, Abstract!Live

\* An iterator that comes to an unreadable record.
LEMMA AdvanceRefines ==
  ASSUME IInv, ~AnyFailed, Advance
  PROVE  \/ Abstract!Fail
         \/ Left' = Left /\ GoodRounds' = GoodRounds /\ Status' = Status
<1>1. pc = "advance" /\ pc' = "sink" /\ UNCHANGED <<data, inputs, eqs, c, out, good>>
  BY DEF Advance
<1>2. Left' = Left /\ GoodRounds' = GoodRounds
  BY <1>1, SameRounds DEF IInv
<1>3. CASE ~AnyFailed'
  BY <1>1, <1>2, <1>3 DEF Status
<1>4. CASE AnyFailed'
  <2>1. PICK s \in Sources : HasFailed(s)'
    BY <1>1, <1>4 DEF AnyFailed, Sources
  <2>2. pos'[s] <= Len(data[s]) /\ data[s][pos'[s]] = Bad
    BY <1>1, <2>1 DEF HasFailed, HasData
  <2>3. /\ s \notin Merged => pos'[s] = pos[s]
        /\ s \in Merged => pos'[s] = pos[s] + 1
    BY AdvanceFacts
  <2>4. s \in Merged
    BY <2>2, <2>3 DEF AnyFailed, HasFailed, HasData
  <2>5. /\ Taken(s) = pos[s] /\ pos[s] \in Nat /\ pos[s] >= 1 /\ Len(data[s]) \in Nat
        /\ data[s] \in Seq(Int \cup {Bad})
    BY <1>1, <2>4 DEF IInv, TakenOK, Typed, Sources
  <2>6. PICK q \in Seq(Int \cup {Bad}), m \in Nat : q = data[s] /\ m = pos[s] + 1
    BY <2>5
  <2>7. Left[s] # <<>> /\ Head(Left[s]) = Bad
    <3>1. q \in Seq(Int \cup {Bad}) /\ m >= 1 /\ m <= Len(q) /\ q[m] = Bad
      BY <2>2, <2>3, <2>4, <2>5, <2>6
    <3>2. Left[s] = SubSeq(q, m, Len(q))
      BY <2>5, <2>6 DEF Left
    <3> QED
      BY <3>1, <3>2, RestOfStream
  <2>8. s \in Abstract!Unreadable
    BY <2>7 DEF Abstract!Unreadable, Abstract!Live, Left
  <2>9. Status = "merging" /\ Status' = "failed"
    BY <1>1, <1>4 DEF Status
  <2> QED
    BY <1>2, <2>8, <2>9 DEF Abstract!Fail
<1> QED
  BY <1>3, <1>4

\* A round of Heap2 that has a record is a round of the merge.
LEMMA MergeEqualsRefines ==
  ASSUME InputsOK, IInv, ~AnyFailed, MergeEquals, Merged # {}
  PROVE  Abstract!MergeNext
<1>1. /\ pc = "gather" /\ pc' = "advance" /\ i > Len(eqs)
      /\ out' = Append(out, [key |-> Rec(1), from |-> Merged]) /\ good' = good + 1
      /\ UNCHANGED <<data, pos, eqs, i, c>>
  BY DEF MergeEquals
<1>2. /\ \A k \in Slots : Rec(k) \in Int /\ Rec(1) <= Rec(k)
      /\ \A k \in Slots : k \in Listed <=> Rec(k) = Rec(1)
      /\ 1 \in Slots /\ Listed \subseteq Slots
      /\ Contenders = {inputs[k] : k \in Listed}
  BY <1>1, RoundIsFront
<1>3. /\ Left = [s \in Sources |-> SubSeq(data[s], pos[s], Len(data[s]))]
      /\ \A s \in Sources :
           /\ Left[s] # <<>> <=> HasData(s)
           /\ HasData(s) => /\ Head(Left[s]) = data[s][pos[s]]
                            /\ Tail(Left[s]) = SubSeq(data[s], pos[s] + 1, Len(data[s]))
  BY <1>1, LeftFacts
<1>4. /\ \A k \in Slots : inputs[k] \in Sources
      /\ \A s \in Sources : HasData(s) => \E k \in Slots : inputs[k] = s
  BY <1>1 DEF IInv, Typed, SlotsOK, Slots, Pending
<1>5. \A k \in Slots : HasData(inputs[k]) => Head(Left[inputs[k]]) = Rec(k)
  BY <1>3, <1>4 DEF Rec
<1>6. /\ Abstract!Live = {s \in Sources : HasData(s)}
      /\ \A s \in Abstract!Live : \E k \in Slots : inputs[k] = s /\ Head(Left[s]) = Rec(k)
  <2>1. Abstract!Live = {s \in Sources : HasData(s)}
    BY <1>3 DEF Abstract!Live
  <2> QED
    BY <1>4, <1>5, <2>1
<1>7. Abstract!Unreadable = {}
  <2>1. \A k \in Slots : Rec(k) # Bad
    BY <1>2 DEF InputsOK
  <2> QED
    BY <1>6, <2>1 DEF Abstract!Unreadable
\* the records of the round
<1>17. \A s \in Merged : s \in Abstract!Live /\ Head(Left[s]) = Rec(1)
  <2>1. ASSUME NEW s \in Merged PROVE s \in Abstract!Live /\ Head(Left[s]) = Rec(1)
    <3>1. PICK k \in Slots : inputs[k] = s /\ Rec(k) = Rec(1)
      BY <1>2 DEF Merged
    <3>2. HasData(s)
      BY DEF Merged
    <3> QED
      BY <1>4, <1>5, <1>6, <3>1, <3>2
  <2> QED
    BY <2>1
<1>8. Abstract!Front = Merged
  <2>1. ASSUME NEW s \in Abstract!Front PROVE s \in Merged
    <3>1. s \in Abstract!Live /\ \A t \in Abstract!Live : Head(Left[s]) <= Head(Left[t])
      BY DEF Abstract!Front
    <3>2. PICK k \in Slots : inputs[k] = s /\ Head(Left[s]) = Rec(k)
      BY <1>6, <3>1
    <3>3. Rec(k) <= Rec(1)
      BY <1>17, <3>1, <3>2
    <3>4. k \in Listed
      BY <1>2, <3>3
    <3> QED
      BY <1>2, <1>6, <3>1, <3>2, <3>4 DEF Merged
  <2>2. ASSUME NEW s \in Merged PROVE s \in Abstract!Front
    <3>1. \A t \in Abstract!Live : Rec(1) <= Head(Left[t])
      BY <1>2, <1>6
    <3> QED
      BY <1>17, <3>1 DEF Abstract!Front
  <2> QED
    BY <2>1, <2>2
<1>9. Abstract!Least = Rec(1)
  <2>1. (CHOOSE s \in Abstract!Front : TRUE) \in Merged
    BY <1>8
  <2> QED
    BY <1>17, <2>1 DEF Abstract!Least
<1>10. /\ good = Len(out) /\ Len(out) \in Nat
       /\ out \in Seq([key : Int \cup {Bad}, from : SUBSET Sources])
       /\ \A s \in Sources : Taken(s) = pos[s] - 1 /\ pos[s] \in Nat
  BY <1>1 DEF IInv, TakenOK, Typed
<1>11. \A s \in Sources : Taken(s)' = IF s \in Merged THEN Taken(s) + 1 ELSE Taken(s)
  <2>1. PICK r : r = [key |-> Rec(1), from |-> Merged]
    OBVIOUS
  <2>2. r.from = Merged
    BY <2>1
  <2>3. \A s : Taken(s)' = IF s \in r.from THEN Taken(s) + 1 ELSE Taken(s)
    BY <1>1, <1>10, <2>1, TakenAppend
  <2> QED
    BY <2>2, <2>3
<1>12. Left' = [s \in DOMAIN Left |-> IF s \in Merged THEN Tail(Left[s]) ELSE Left[s]]
  <2>1. Left' = [s \in Sources |-> SubSeq(data[s], Taken(s)' + 1, Len(data[s]))]
    BY <1>1 DEF Left, Sources
  <2>2. DOMAIN Left = Sources
    BY <1>3
  <2>3. ASSUME NEW s \in Sources
        PROVE  SubSeq(data[s], Taken(s)' + 1, Len(data[s]))
                 = IF s \in Merged THEN Tail(Left[s]) ELSE Left[s]
    <3>1. CASE s \in Merged
      <4>1. HasData(s) /\ Taken(s)' + 1 = pos[s] + 1
        BY <1>10, <1>11, <3>1 DEF Merged
      <4> QED
        BY <1>3, <3>1, <4>1
    <3>2. CASE s \notin Merged
      <4>1. Taken(s)' + 1 = pos[s]
        BY <1>10, <1>11, <3>2
      <4> QED
        BY <1>3, <3>2, <4>1
    <3> QED
      BY <3>1, <3>2
  <2> QED
    BY <2>1, <2>2, <2>3
<1>13. GoodRounds' = Append(GoodRounds, [key |-> Rec(1), from |-> Merged])
  <2>1. GoodRounds = out
    BY <1>10, SubSeqFull DEF GoodRounds
  <2>2. PICK r : r = [key |-> Rec(1), from |-> Merged]
    OBVIOUS
  <2>3. out' \in Seq({r} \cup [key : Int \cup {Bad}, from : SUBSET Sources]) /\ good' = Len(out')
    <3>1. out \in Seq({r} \cup [key : Int \cup {Bad}, from : SUBSET Sources])
      <4>1. [key : Int \cup {Bad}, from : SUBSET Sources]
              \subseteq {r} \cup [key : Int \cup {Bad}, from : SUBSET Sources]
        OBVIOUS
      <4> QED
        BY <1>10, <4>1, SeqMonotonic
    <3>2. out' = Append(out, r) /\ good' = Len(out) + 1
      BY <1>1, <1>10, <2>2
    <3> QED
      BY <3>1, <3>2
  <2>4. GoodRounds' = out'
    BY <2>3, SubSeqFull DEF GoodRounds
  <2> QED
    BY <1>1, <2>1, <2>4
<1>14. Status = "merging" /\ Status' = "merging"
  BY <1>1, FailedSame DEF Status
<1>15. ~Abstract!Clash
  BY DEF Abstract!Clash
<1>16. Abstract!Live # {}
  BY <1>17
<1> QED
  BY <1>7, <1>8, <1>9, <1>12, <1>13, <1>14, <1>15, <1>16 DEF Abstract!MergeNext

\* Draining Heap2 is the multiway merge, for any number of inputs of any
\* length, of nothing included, and however the MergeFn permutes what it is
\* given: every round takes exactly the least records, in order, until an
\* iterator fails.
THEOREM DrainingIsMerging == Spec => ImplementsMerge
<1> USE Heap2Assumption
<1>1. Init => Abstract!Init
  <2> SUFFICES ASSUME Init PROVE Abstract!Init
    OBVIOUS
  <2>1. IInv /\ data \in Heaps2 /\ pc = "make" /\ out = <<>> /\ good = 0
        /\ pos = [s \in Sources |-> 1]
    BY InitIInv DEF Init
  <2>2. ~AnyFailed
    BY <2>1 DEF IInv, MadeOK
  <2>3. Left = data
    <3>1. Left = [s \in Sources |-> SubSeq(data[s], 1, Len(data[s]))]
      BY <2>1, <2>2, LeftFacts
    <3>2. \A s \in Sources : SubSeq(data[s], 1, Len(data[s])) = data[s]
      BY <2>1, SubSeqFull DEF IInv, Typed, Sources
    <3>3. data = [s \in Sources |-> data[s]]
      BY <2>1 DEF IInv, Typed, Sources
    <3> QED
      BY <3>1, <3>2, <3>3
  <2>4. GoodRounds = <<>> /\ Status = "merging"
    BY <2>1, <2>2 DEF GoodRounds, Status
  <2> QED
    BY <2>1, <2>3, <2>4 DEF Abstract!Init
<1>2. IInv /\ [Next]_vars => [Abstract!Next]_(Abstract!vars)
  <2> SUFFICES ASSUME IInv, [Next]_vars PROVE [Abstract!Next]_(Abstract!vars)
    OBVIOUS
  <2>1. Left' = Left /\ GoodRounds' = GoodRounds /\ Status' = Status => UNCHANGED Abstract!vars
    BY DEF Abstract!vars
  <2>2. CASE AnyFailed
    BY <2>1, <2>2, FailedStutters
  <2>3. CASE ~AnyFailed /\ ReadEnd
    BY <2>3, ReadEndRefines DEF Abstract!Next
  <2>4. CASE ~AnyFailed /\ Advance
    BY <2>1, <2>4, AdvanceRefines DEF Abstract!Next
  <2>5. CASE ~AnyFailed /\ MergeEquals
    <3>1. CASE Merged # {}
      BY <2>5, <3>1, MergeEqualsRefines DEF Abstract!Next
    <3>2. CASE Merged = {}
      <4>1. UNCHANGED <<data, pos, out, good>> /\ pc # "done" /\ pc' # "done"
        BY <2>5, <3>2 DEF MergeEquals
      <4> QED
        BY <2>1, <4>1, OtherStutters
    <3> QED
      BY <3>1, <3>2
  <2>6. CASE UNCHANGED vars
    <3>1. Left' = Left /\ GoodRounds' = GoodRounds
      BY <2>6, SameRounds DEF vars, IInv
    <3>2. Status' = Status
      BY <2>6, FailedSame DEF vars, Status
    <3> QED
      BY <2>1, <3>1, <3>2
  <2>7. CASE ~AnyFailed /\ Next /\ ~ReadEnd /\ ~Advance /\ ~MergeEquals
    <3>1. UNCHANGED <<data, pos, out, good>> /\ pc # "done" /\ pc' # "done"
      BY <2>7, FS_EmptySet DEF Next, AddIter, UpSwap, UpBreak, MakeEnd, ReadBegin, Gather, Sink,
         SinkEnd, DownSwap, DownBreak, Panic, Compared
    <3> QED
      BY <2>1, <3>1, OtherStutters
  <2> QED
    BY <2>2, <2>3, <2>4, <2>5, <2>6, <2>7
<1> QED
  BY <1>1, <1>2, HeapInvariant, PTL DEF Spec, ImplementsMerge, Abstract!Spec
============================================================================
