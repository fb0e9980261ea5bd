-------------------------- MODULE MergeHeapProofs --------------------------
(***************************************************************************)
(* Safety of MergeHeap.  The first half holds for every list of inputs,    *)
(* every rank and every outcome of a comparison with a failed iterator: no *)
(* heap order is assumed, so it also covers the inputs for which HeapOrder *)
(* fails.  The second half is about the order, for seven inputs or five.   *)
(***************************************************************************)
EXTENDS MergeHeap, NumberFacts, SequenceTheorems, TLAPS

\* Which part of the slice every loop index points into.
IndexOK ==
  /\ pc \in {"heapize", "heapizeUp"} => /\ i \in 1..(Len(data) + 1)
                                        /\ len < i
                                        /\ \A a \in Live : ih[a] < i
  /\ pc \in {"heapizeUp", "repairUp", "down"} => c \in Live
  /\ pc \in {"eqUp", "emit"} => eqs \in 1..len
  /\ pc = "eqUp" => /\ Len(q) <= eqs + 1
                    /\ \A k \in 1..Len(q) : q[k] >= eqs + k - 1
  /\ pc = "nextK" => i \in -1..(len - 1)
  /\ pc = "down" => i \in Live /\ c >= i
  /\ pc \in {"repair", "repairUp"} => i \in Nat

\* The live slots hold different iterators, each standing at a record.
SlotsOK ==
  /\ \A a \in Live : ih[a] \in Sources /\ pos[ih[a]] \in 1..Len(data[ih[a]])
  /\ OneSlotEach

\* Without an error that record is readable.
ReadableOK ==
  /\ ~err => \A a \in Live : Rec(a) # Bad
  /\ pc \in {"heapize", "heapizeUp", "eqUp", "emit", "down"} => ~err
  /\ pc = "nextK" /\ i >= 0 => ~err

\* EqUp's prefix equals the root.
PrefixOK ==
  pc \in {"eqUp", "emit"} => \A a \in Front : Rec(a) = Rec(0)

\* The slots whose record is in a round while their iterator still stands
\* at it: NextK has yet to come to them.
Pending == IF pc = "nextK" THEN 0..i ELSE IF pc = "down" THEN 0..(i - 1) ELSE {}

\* How many records of s are in rounds.
Taken(s) ==
  IF \E a \in Pending : ih[a] = s THEN pos[s]
  ELSE IF pos[s] = 0 THEN 0 ELSE pos[s] - 1

\* Each input went into rounds of its records' ranks, up to its iterator.
TakenOK ==
  ~err => \A s \in Sources :
            /\ Len(merged[s]) = Taken(s)
            /\ \A k \in 1..Len(merged[s]) : merged[s][k] = data[s][k]

\* MergeNext never lets go of an input it has not exhausted.
InHeap(s) == \E a \in Live : ih[a] = s
KeptOK ==
  op = "MergeNext" /\ ~err =>
    /\ \A s \in Sources : \/ InHeap(s)
                          \/ pos[s] = Len(data[s]) + 1
                          \/ pos[s] = 0 /\ Len(data[s]) = 0
                          \/ pos[s] = 0 /\ pc \in {"heapize", "heapizeUp"} /\ s >= i
    /\ pc = "done" => len = 0
NotBegunOK ==
  pc \in {"heapize", "heapizeUp"} => \A s \in Sources : s >= i => pos[s] = 0

IInv ==
  /\ TypeOK /\ IndexOK /\ SlotsOK /\ ReadableOK
  /\ PrefixOK /\ TakenOK /\ KeptOK /\ NotBegunOK
\* What TypeOK and SlotsOK say of a live slot.
LEMMA LiveFacts ==
  ASSUME TypeOK, SlotsOK, NEW a \in Live
  PROVE  /\ a \in Slots /\ a \in Nat /\ ih[a] \in Sources
         /\ data[ih[a]] \in Seq(Int \cup {Bad})
         /\ Len(data[ih[a]]) \in Nat
         /\ pos[ih[a]] \in 1..Len(data[ih[a]])
         /\ Rec(a) \in Int \cup {Bad}
<1>1. a \in Slots /\ a \in Nat /\ ih[a] \in Sources /\ pos[ih[a]] \in 1..Len(data[ih[a]])
  BY DEF TypeOK, SlotsOK, Live, Slots
<1>2. data[ih[a]] \in Seq(Int \cup {Bad})
  BY <1>1 DEF TypeOK, Sources
<1> QED
  BY <1>1, <1>2 DEF Rec

\* Exchanging two live slots.
LEMMA SwapFacts ==
  ASSUME TypeOK, SlotsOK, NEW a \in Live, NEW b \in Live,
         data' = data, pos' = pos, len' = len, ih' = Swapped(a, b)
  PROVE  /\ ih' \in [Slots -> 0..Len(data)]
         /\ ih'[a] = ih[b] /\ ih'[b] = ih[a]
         /\ \A x \in Live : x \in Slots /\ (x \notin {a, b} => ih'[x] = ih[x])
         /\ \A x \in Live : \E y \in Live : ih'[x] = ih[y]
         /\ (\A x \in Live : Rec(x) # Bad) => (\A x \in Live : Rec(x) # Bad)'
         /\ SlotsOK'
         /\ \A s : InHeap(s)' <=> InHeap(s)
<1>1. a \in Slots /\ b \in Slots /\ Live' = Live /\ \A x \in Live : x \in Slots
  BY LiveFacts DEF Live
<1>2. /\ ih' \in [Slots -> 0..Len(data)]
      /\ ih'[a] = ih[b] /\ ih'[b] = ih[a]
      /\ \A x \in Live : x \notin {a, b} => ih'[x] = ih[x]
  BY <1>1 DEF TypeOK, Swapped
<1>3. \A x \in Live : \E y \in Live : ih'[x] = ih[y]
  BY <1>2
<1>4. (\A x \in Live : Rec(x) # Bad) => (\A x \in Live : Rec(x) # Bad)'
  BY <1>1, <1>3 DEF Rec
<1>5. SlotsOK'
  <2>1. ASSUME NEW x \in Live, NEW y \in Live, ih'[x] = ih'[y] PROVE x = y
    BY <1>1, <1>2, <2>1 DEF SlotsOK, OneSlotEach
  <2>2. \A x \in Live : ih'[x] \in Sources /\ pos[ih'[x]] \in 1..Len(data[ih'[x]])
    BY <1>3 DEF SlotsOK
  <2> QED
    BY <1>1, <2>1, <2>2 DEF SlotsOK, OneSlotEach, Sources
<1>6. ASSUME NEW s PROVE InHeap(s)' <=> InHeap(s)
  BY <1>1, <1>2 DEF InHeap
<1> QED
  BY <1>1, <1>2, <1>3, <1>4, <1>5, <1>6

\* MergeSameSpotElements permutes the iterators of the round.
LEMMA FrontPermuted ==
  ASSUME IInv, pc = "emit", ih' \in FrontOrders, data' = data, pos' = pos, len' = len
  PROVE  /\ ih' \in [Slots -> 0..Len(data)]
         /\ \A a \in Front : a \in Live
         /\ \A s : (\E a \in Front : ih'[a] = s) <=> s \in Contenders
         /\ (\A x \in Live : Rec(x) # Bad) => (\A x \in Live : Rec(x) # Bad)'
         /\ SlotsOK'
         /\ \A s : InHeap(s)' <=> InHeap(s)
<1>1. /\ Live' = Live
      /\ \A a \in Front : a \in Live
      /\ \A a \in Live : a \in Slots /\ ih[a] \in 0..Len(data)
  <2>1. /\ eqs \in 1..len /\ len \in 0..Len(data) /\ Len(data) \in Nat
        /\ ih \in [Slots -> 0..Len(data)]
    BY DEF IInv, TypeOK, IndexOK
  <2> QED
    BY <2>1 DEF Live, Front, Slots
<1>2. /\ ih' \in [Slots -> 0..Len(data)]
      /\ \A a \in Live \ Front : ih'[a] = ih[a]
      /\ \A a \in Front : \E b \in Front : ih'[a] = ih[b]
      /\ \A b \in Front : \E a \in Front : ih'[a] = ih[b]
      /\ \A a, b \in Front : ih'[a] = ih'[b] => a = b
  <2>1. CASE AnyOrder
    <3>1. PICK f \in Bijection(Front, Contenders) :
            ih' = [a \in Slots |-> IF a \in Front THEN f[a] ELSE ih[a]]
      BY <2>1 DEF FrontOrders
    <3>2. /\ f \in [Front -> Contenders]
          /\ \A a, b \in Front : f[a] = f[b] => a = b
          /\ \A s \in Contenders : \E a \in Front : f[a] = s
      BY DEF Bijection, Injection, IsInjective, Surjection
    <3>3. \A a \in Front : ih'[a] = f[a]
      BY <1>1, <3>1
    <3>4. \A a \in Live \ Front : ih'[a] = ih[a]
      BY <1>1, <3>1
    <3>5. \A a \in Front : \E b \in Front : f[a] = ih[b]
      BY <3>2 DEF Contenders
    <3>6. \A b \in Front : \E a \in Front : f[a] = ih[b]
      BY <3>2 DEF Contenders
    <3>7. ih' \in [Slots -> 0..Len(data)]
      <4>1. \A a \in Slots : (IF a \in Front THEN f[a] ELSE ih[a]) \in 0..Len(data)
        BY <1>1, <3>5 DEF IInv, TypeOK
      <4> QED
        BY <3>1, <4>1
    <3>8. \A a, b \in Front : ih'[a] = ih'[b] => a = b
      BY <3>2, <3>3
    <3>9. /\ \A a \in Front : \E b \in Front : ih'[a] = ih[b]
          /\ \A b \in Front : \E a \in Front : ih'[a] = ih[b]
      BY <3>3, <3>5, <3>6
    <3> QED
      BY <3>4, <3>7, <3>8, <3>9
  <2>2. CASE ~AnyOrder
    BY <1>1, <2>2 DEF FrontOrders, IInv, TypeOK, SlotsOK, OneSlotEach
  <2> QED
    BY <2>1, <2>2
<1>3. \A a \in Live : \E b \in Live : ih'[a] = ih[b] /\ (a \in Front <=> b \in Front)
  BY <1>1, <1>2
<1>4. \A b \in Live : \E a \in Live : ih'[a] = ih[b]
  BY <1>1, <1>2
<1>5. (\A x \in Live : Rec(x) # Bad) => (\A x \in Live : Rec(x) # Bad)'
  BY <1>1, <1>3 DEF Rec
<1>6. SlotsOK'
  <2>1. \A a \in Live : ih'[a] \in Sources /\ pos[ih'[a]] \in 1..Len(data[ih'[a]])
    BY <1>3 DEF IInv, SlotsOK
  <2>2. ASSUME NEW a \in Live, NEW b \in Live, ih'[a] = ih'[b] PROVE a = b
    BY <1>2, <1>3, <2>2 DEF IInv, SlotsOK, OneSlotEach
  <2> QED
    BY <1>1, <2>1, <2>2 DEF SlotsOK, OneSlotEach, Sources
<1>7. ASSUME NEW s PROVE InHeap(s)' <=> InHeap(s)
  BY <1>1, <1>3, <1>4 DEF InHeap
<1>8. \A s : (\E a \in Front : ih'[a] = s) <=> s \in Contenders
  BY <1>2 DEF Contenders
<1> QED
  BY <1>1, <1>2, <1>5, <1>6, <1>7, <1>8

\* Cutting a round takes one record of every contender, of the round's key.
LEMMA RoundTaken ==
  ASSUME IInv, pc = "emit", data' = data, pos' = pos, err' = err,
         pc' = "nextK", i' = eqs - 1,
         merged' = [s \in Sources |-> IF s \in Contenders
                                      THEN Append(merged[s], Rec(0))
                                      ELSE merged[s]],
         \A s : (\E a \in Front : ih'[a] = s) <=> s \in Contenders
  PROVE  /\ merged' \in [Sources -> Seq(Int)]
         /\ Round \in [key : Int, from : SUBSET Sources]
         /\ TakenOK'
<1>1. ~err /\ 0 \in Live /\ \A a \in Front : a \in Live
  BY DEF IInv, TypeOK, IndexOK, ReadableOK, Live, Front
<1>2. Rec(0) \in Int
  BY <1>1, LiveFacts DEF IInv, ReadableOK
<1>3. ASSUME NEW s \in Contenders
      PROVE  s \in Sources /\ pos[s] \in Nat \ {0} /\ Rec(0) = data[s][pos[s]]
  <2>1. PICK a \in Front : s = ih[a]
    BY DEF Contenders
  <2>2. Rec(a) = Rec(0)
    BY DEF IInv, PrefixOK
  <2> QED
    BY <1>1, <2>1, <2>2, LiveFacts DEF IInv, Rec
<1>4. Round \in [key : Int, from : SUBSET Sources]
  BY <1>2, <1>3 DEF Round
<1>5. \A s \in Sources : merged[s] \in Seq(Int)
  BY DEF IInv, TypeOK
<1>6. merged' \in [Sources -> Seq(Int)]
  BY <1>2, <1>5
<1>7. ASSUME NEW s \in Sources
      PROVE  /\ Len(merged'[s]) = IF s \in Contenders THEN pos[s]
                                  ELSE IF pos[s] = 0 THEN 0 ELSE pos[s] - 1
             /\ \A k \in 1..Len(merged'[s]) : merged'[s][k] = data[s][k]
  <2>1. /\ Len(merged[s]) = IF pos[s] = 0 THEN 0 ELSE pos[s] - 1
        /\ \A k \in 1..Len(merged[s]) : merged[s][k] = data[s][k]
    BY <1>1 DEF IInv, TakenOK, Taken, Pending
  <2>2. CASE s \in Contenders
    <3>1. merged'[s] = Append(merged[s], Rec(0))
      BY <2>2
    <3>2. Len(merged'[s]) = pos[s] /\ merged'[s][pos[s]] = Rec(0)
      BY <1>2, <1>3, <1>5, <2>1, <2>2, <3>1
    <3>3. \A k \in 1..Len(merged[s]) : merged'[s][k] = merged[s][k]
      BY <1>2, <1>5, <3>1
    <3> QED
      BY <1>3, <2>1, <2>2, <3>2, <3>3
  <2>3. CASE s \notin Contenders
    BY <2>1, <2>3
  <2> QED
    BY <2>2, <2>3
<1>8. Pending' = Front /\ Sources' = Sources
  BY DEF Pending, Front, Sources
<1>9. TakenOK'
  BY <1>7, <1>8 DEF TakenOK, Taken
<1> QED
  BY <1>4, <1>6, <1>9

\* The iterator NextK is at moves on; no other slot holds it.
LEMMA AdvanceFacts ==
  ASSUME IInv, pc = "nextK", i >= 0, Advance, data' = data
  PROVE  \E n \in Live, s \in Sources :
           /\ n = i /\ s = ih[n] /\ n \in Nat /\ n < len /\ len \in Nat
           /\ pos' \in [Sources -> Nat] /\ pos'[s] = pos[s] + 1
           /\ pos[s] \in 1..Len(data[s]) /\ Len(data[s]) \in Nat
           /\ \A t \in Sources \ {s} : pos'[t] = pos[t]
           /\ \A t \in Sources : pos'[t] <= Len(data[t]) + 1
           /\ \A a \in Live \ {n} : ih[a] \in Sources \ {s}
           /\ \A a \in Live : a \in Slots
           /\ ~err
<1>1. PICK n \in Live : n = i /\ n \in Nat /\ n < len /\ len \in Nat
  BY DEF IInv, TypeOK, IndexOK, Live
<1>2. PICK s \in Sources : s = ih[n] /\ pos[s] \in 1..Len(data[s]) /\ Len(data[s]) \in Nat
  BY LiveFacts DEF IInv
<1>3. /\ pos' \in [Sources -> Nat] /\ pos'[s] = pos[s] + 1
      /\ \A t \in Sources \ {s} : pos'[t] = pos[t]
  <2>1. pos \in [Sources -> Nat] /\ pos' = [pos EXCEPT ![s] = pos[s] + 1]
    BY <1>1, <1>2 DEF IInv, TypeOK, Advance
  <2> QED
    BY <1>2, <2>1
<1>4. ASSUME NEW t \in Sources PROVE pos'[t] <= Len(data[t]) + 1
  <2>1. pos[t] <= Len(data[t]) + 1
    BY DEF IInv, TypeOK
  <2> QED
    BY <1>2, <1>3, <2>1
<1>5. \A a \in Live \ {n} : ih[a] \in Sources \ {s}
  BY <1>2 DEF IInv, SlotsOK, OneSlotEach
<1> QED
  BY <1>1, <1>2, <1>3, <1>4, <1>5, LiveFacts DEF IInv, ReadableOK

\* What a step that moves no iterator leaves alone.
LEMMA Frame ==
  ASSUME IInv, data' = data, pos' = pos, ih' = ih, len' = len
  PROVE  /\ Sources' = Sources /\ Slots' = Slots /\ Live' = Live
         /\ SlotsOK'
         /\ \A x : Rec(x)' = Rec(x)
         /\ \A s : InHeap(s)' <=> InHeap(s)
         /\ merged' = merged /\ err' = err /\ Pending' = Pending => TakenOK'
<1>1. Sources' = Sources /\ Slots' = Slots /\ Live' = Live
  BY DEF Sources, Slots, Live
<1>2. SlotsOK' /\ \A x : Rec(x)' = Rec(x)
  BY <1>1 DEF IInv, SlotsOK, OneSlotEach, Rec
<1>3. \A s : InHeap(s)' <=> InHeap(s)
  BY <1>1 DEF InHeap
<1>4. ASSUME merged' = merged, err' = err, Pending' = Pending PROVE TakenOK'
  BY <1>1, <1>4 DEF IInv, TakenOK, Taken
<1> QED
  BY <1>1, <1>2, <1>3, <1>4

\* Heapize passes over an empty input.
LEMMA HeapizeSkipKeeps == IInv /\ HeapizeSkip => IInv'
<1> SUFFICES ASSUME IInv, HeapizeSkip PROVE IInv'
  OBVIOUS
<1>f. /\ Sources' = Sources /\ Slots' = Slots /\ Live' = Live
      /\ SlotsOK'
      /\ \A x : Rec(x)' = Rec(x)
      /\ \A s : InHeap(s)' <=> InHeap(s)
      /\ Pending' = Pending => TakenOK'
  BY Frame DEF HeapizeSkip
<1>i. i \in 1..Len(data) /\ i' = i + 1 /\ Len(data[i]) = 0 /\ len \in Nat
  BY DEF IInv, TypeOK, Sources, HeapizeSkip
<1>1. TypeOK'
  BY <1>f DEF IInv, TypeOK, PCs, HeapizeSkip
<1>2. IndexOK'
  <2>1. \A a \in Live : ih[a] \in Nat /\ ih[a] < i
    BY LiveFacts DEF IInv, IndexOK, Sources, HeapizeSkip
  <2> QED
    BY <1>f, <1>i, <2>1, SMTT(30) DEF IInv, TypeOK, IndexOK, HeapizeSkip
<1>3. SlotsOK'
  BY <1>f
<1>4. ReadableOK'
  BY <1>f DEF IInv, ReadableOK, HeapizeSkip
<1>5. PrefixOK'
  BY <1>f DEF IInv, PrefixOK, Front, HeapizeSkip
<1>6. TakenOK'
  BY <1>f DEF Pending, HeapizeSkip
<1>7. KeptOK'
  <2>1. \A s \in Sources : s \in Int
    BY DEF Sources
  <2> QED
    BY <1>f, <1>i, <2>1 DEF IInv, KeptOK, NotBegunOK, HeapizeSkip
<1>8. NotBegunOK'
  <2>1. \A s \in Sources : s \in Int
    BY DEF Sources
  <2> QED
    BY <1>f, <1>i, <2>1 DEF IInv, NotBegunOK, HeapizeSkip
<1> QED
  BY <1>1, <1>2, <1>3, <1>4, <1>5, <1>6, <1>7, <1>8 DEF IInv

\* Heapize returns: every input is in the slice or empty.
LEMMA HeapizeEndKeeps == IInv /\ HeapizeEnd => IInv'
<1> SUFFICES ASSUME IInv, HeapizeEnd PROVE IInv'
  OBVIOUS
<1>f. /\ Sources' = Sources /\ Slots' = Slots /\ Live' = Live
      /\ SlotsOK'
      /\ \A x : Rec(x)' = Rec(x)
      /\ \A s : InHeap(s)' <=> InHeap(s)
      /\ Pending' = Pending => TakenOK'
  BY Frame DEF HeapizeEnd
<1>1. TypeOK'
  BY <1>f DEF IInv, TypeOK, PCs, HeapizeEnd
<1>2. IndexOK'
  BY <1>f DEF IInv, TypeOK, IndexOK, Sources, Live, HeapizeEnd
<1>3. SlotsOK'
  BY <1>f
<1>4. ReadableOK'
  BY <1>f DEF IInv, ReadableOK, HeapizeEnd
<1>5. PrefixOK'
  BY <1>f DEF IInv, PrefixOK, Front, HeapizeEnd
<1>6. TakenOK'
  BY <1>f DEF Pending, HeapizeEnd
<1>7. KeptOK'
  <2>1. \A s \in Sources : s \in Int /\ ~(s >= i)
    BY DEF IInv, TypeOK, IndexOK, Sources, HeapizeEnd
  <2> QED
    BY <1>f, <2>1 DEF IInv, KeptOK, HeapizeEnd
<1>8. NotBegunOK'
  BY <1>f DEF IInv, NotBegunOK, HeapizeEnd
<1> QED
  BY <1>1, <1>2, <1>3, <1>4, <1>5, <1>6, <1>7, <1>8 DEF IInv

\* Up stops where it is.
LEMMA UpBreakKeeps == IInv /\ UpBreak => IInv'
<1> SUFFICES ASSUME IInv, UpBreak PROVE IInv'
  OBVIOUS
<1>f. /\ Sources' = Sources /\ Slots' = Slots /\ Live' = Live
      /\ SlotsOK'
      /\ \A x : Rec(x)' = Rec(x)
      /\ \A s : InHeap(s)' <=> InHeap(s)
      /\ Pending' = Pending => TakenOK'
  BY Frame DEF UpBreak
<1>1. TypeOK'
  BY <1>f DEF IInv, TypeOK, PCs, UpBreak
<1>2. IndexOK'
  BY <1>f DEF IInv, TypeOK, IndexOK, Sources, Live, UpBreak
<1>3. SlotsOK'
  BY <1>f
<1>4. ReadableOK'
  BY <1>f DEF IInv, ReadableOK, UpBreak
<1>5. PrefixOK'
  BY <1>f DEF IInv, PrefixOK, Front, UpBreak
<1>6. TakenOK'
  BY <1>f DEF Pending, UpBreak
<1>7. KeptOK'
  BY <1>f DEF IInv, KeptOK, UpBreak
<1>8. NotBegunOK'
  BY <1>f DEF IInv, NotBegunOK, UpBreak
<1> QED
  BY <1>1, <1>2, <1>3, <1>4, <1>5, <1>6, <1>7, <1>8 DEF IInv

\* Up can only panic once NextK has met an error: before that all live
\* records are readable.
LEMMA UpPanicKeeps == IInv /\ UpPanic => IInv'
<1> SUFFICES ASSUME IInv, UpPanic PROVE IInv'
  OBVIOUS
<1>f. /\ Sources' = Sources /\ Slots' = Slots /\ Live' = Live
      /\ SlotsOK'
      /\ \A x : Rec(x)' = Rec(x)
      /\ \A s : InHeap(s)' <=> InHeap(s)
      /\ Pending' = Pending => TakenOK'
  BY Frame DEF UpPanic
<1>1. TypeOK'
  BY <1>f DEF IInv, TypeOK, PCs, UpPanic
<1>2. IndexOK'
  BY <1>f DEF IInv, TypeOK, IndexOK, Sources, Live, UpPanic
<1>3. SlotsOK'
  BY <1>f
<1>4. ReadableOK'
  BY <1>f DEF IInv, ReadableOK, UpPanic
<1>5. PrefixOK'
  BY <1>f DEF IInv, PrefixOK, Front, UpPanic
<1>6. TakenOK'
  BY <1>f DEF Pending, UpPanic
<1>7. KeptOK'
  <2>1. c \in Live /\ Parent(c) \in Live
    BY DEF IInv, TypeOK, IndexOK, Live, Parent, UpPanic
  <2>2. err
    BY <2>1 DEF IInv, ReadableOK, Positioned, Failed, UpPanic
  <2> QED
    BY <2>2 DEF KeptOK, UpPanic
<1>8. NotBegunOK'
  BY <1>f DEF IInv, NotBegunOK, UpPanic
<1> QED
  BY <1>1, <1>2, <1>3, <1>4, <1>5, <1>6, <1>7, <1>8 DEF IInv

\* Another round begins with slots 1 and 2 queued.
LEMMA LoopAgainKeeps == IInv /\ LoopAgain => IInv'
<1> SUFFICES ASSUME IInv, LoopAgain PROVE IInv'
  OBVIOUS
<1>f. /\ Sources' = Sources /\ Slots' = Slots /\ Live' = Live
      /\ SlotsOK'
      /\ \A x : Rec(x)' = Rec(x)
      /\ \A s : InHeap(s)' <=> InHeap(s)
      /\ Pending' = Pending => TakenOK'
  BY Frame DEF LoopAgain
<1>1. TypeOK'
  BY <1>f DEF IInv, TypeOK, PCs, LoopAgain, Going
<1>2. IndexOK'
  BY <1>f DEF IInv, TypeOK, IndexOK, Sources, Live, LoopAgain, Going
<1>3. SlotsOK'
  BY <1>f
<1>4. ReadableOK'
  BY <1>f DEF IInv, ReadableOK, LoopAgain, Going
<1>5. PrefixOK'
  BY <1>f DEF IInv, PrefixOK, Front, LoopAgain, Going
<1>6. TakenOK'
  BY <1>f DEF Pending, LoopAgain, Going
<1>7. KeptOK'
  BY <1>f DEF IInv, KeptOK, LoopAgain, Going
<1>8. NotBegunOK'
  BY <1>f DEF IInv, NotBegunOK, LoopAgain, Going
<1> QED
  BY <1>1, <1>2, <1>3, <1>4, <1>5, <1>6, <1>7, <1>8 DEF IInv

\* HeapMerge returns with an empty slice or an error.
LEMMA LoopEndKeeps == IInv /\ LoopEnd => IInv'
<1> SUFFICES ASSUME IInv, LoopEnd PROVE IInv'
  OBVIOUS
<1>f. /\ Sources' = Sources /\ Slots' = Slots /\ Live' = Live
      /\ SlotsOK'
      /\ \A x : Rec(x)' = Rec(x)
      /\ \A s : InHeap(s)' <=> InHeap(s)
      /\ Pending' = Pending => TakenOK'
  BY Frame DEF LoopEnd
<1>1. TypeOK'
  BY <1>f DEF IInv, TypeOK, PCs, LoopEnd, Going
<1>2. IndexOK'
  BY <1>f DEF IInv, TypeOK, IndexOK, Sources, Live, LoopEnd, Going
<1>3. SlotsOK'
  BY <1>f
<1>4. ReadableOK'
  BY <1>f DEF IInv, ReadableOK, LoopEnd, Going
<1>5. PrefixOK'
  BY <1>f DEF IInv, PrefixOK, Front, LoopEnd, Going
<1>6. TakenOK'
  BY <1>f DEF Pending, LoopEnd, Going
<1>7. KeptOK'
  <2>1. op = "MergeNext" /\ ~err => len = 0
    BY DEF IInv, TypeOK, Going, LoopEnd
  <2> QED
    BY <1>f, <2>1 DEF IInv, KeptOK, LoopEnd
<1>8. NotBegunOK'
  BY <1>f DEF IInv, NotBegunOK, LoopEnd, Going
<1> QED
  BY <1>1, <1>2, <1>3, <1>4, <1>5, <1>6, <1>7, <1>8 DEF IInv

\* EqUp drops a slot: the queue stays ahead of the prefix.
LEMMA EqUpPassKeeps == IInv /\ EqUpPass => IInv'
<1> SUFFICES ASSUME IInv, EqUpPass PROVE IInv'
  OBVIOUS
<1>f. /\ Sources' = Sources /\ Slots' = Slots /\ Live' = Live
      /\ SlotsOK'
      /\ \A x : Rec(x)' = Rec(x)
      /\ \A s : InHeap(s)' <=> InHeap(s)
      /\ Pending' = Pending => TakenOK'
  BY Frame DEF EqUpPass
<1>1. TypeOK'
  BY <1>f DEF IInv, TypeOK, PCs, EqUpPass, EqUpMore
<1>2. IndexOK'
  <2>1. q \in Seq(Nat) /\ q # <<>> /\ eqs \in Nat
    BY DEF IInv, TypeOK, EqUpPass, EqUpMore
  <2>2. Len(q) \in Nat /\ Len(q') = Len(q) - 1 /\ \A k \in 1..Len(q') : q'[k] = q[k + 1]
    BY <2>1 DEF EqUpPass
  <2>3. Len(q) <= eqs + 1 /\ \A k \in 1..Len(q) : q[k] >= eqs + k - 1
    BY DEF IInv, IndexOK, EqUpPass
  <2>4. ASSUME NEW k \in 1..Len(q') PROVE q'[k] >= eqs + k - 1
    <3>1. k + 1 \in 1..Len(q) /\ q[k + 1] \in Nat
      BY <2>1, <2>2
    <3>2. q[k + 1] >= eqs + (k + 1) - 1
      BY <2>3, <3>1
    <3> QED
      BY <2>1, <2>2, <3>1, <3>2
  <2> QED
    BY <1>f, <2>1, <2>2, <2>3, <2>4 DEF IInv, IndexOK, EqUpPass
<1>3. SlotsOK'
  BY <1>f
<1>4. ReadableOK'
  BY <1>f DEF IInv, ReadableOK, EqUpPass, EqUpMore
<1>5. PrefixOK'
  BY <1>f DEF IInv, PrefixOK, Front, EqUpPass, EqUpMore
<1>6. TakenOK'
  BY <1>f DEF Pending, EqUpPass, EqUpMore
<1>7. KeptOK'
  BY <1>f DEF IInv, KeptOK, EqUpPass, EqUpMore
<1>8. NotBegunOK'
  BY <1>f DEF IInv, NotBegunOK, EqUpPass, EqUpMore
<1> QED
  BY <1>1, <1>2, <1>3, <1>4, <1>5, <1>6, <1>7, <1>8 DEF IInv

\* EqUp is through with its queue.
LEMMA EqUpEndKeeps == IInv /\ EqUpEnd => IInv'
<1> SUFFICES ASSUME IInv, EqUpEnd PROVE IInv'
  OBVIOUS
<1>f. /\ Sources' = Sources /\ Slots' = Slots /\ Live' = Live
      /\ SlotsOK'
      /\ \A x : Rec(x)' = Rec(x)
      /\ \A s : InHeap(s)' <=> InHeap(s)
      /\ Pending' = Pending => TakenOK'
  BY Frame DEF EqUpEnd
<1>1. TypeOK'
  BY <1>f DEF IInv, TypeOK, PCs, EqUpEnd
<1>2. IndexOK'
  BY <1>f DEF IInv, TypeOK, IndexOK, Sources, Live, EqUpEnd
<1>3. SlotsOK'
  BY <1>f
<1>4. ReadableOK'
  BY <1>f DEF IInv, ReadableOK, EqUpEnd
<1>5. PrefixOK'
  BY <1>f DEF IInv, PrefixOK, Front, EqUpEnd
<1>6. TakenOK'
  BY <1>f DEF Pending, EqUpEnd
<1>7. KeptOK'
  BY <1>f DEF IInv, KeptOK, EqUpEnd
<1>8. NotBegunOK'
  BY <1>f DEF IInv, NotBegunOK, EqUpEnd
<1> QED
  BY <1>1, <1>2, <1>3, <1>4, <1>5, <1>6, <1>7, <1>8 DEF IInv

\* NextK goes on to the slot before.
LEMMA DownBreakKeeps == IInv /\ DownBreak => IInv'
<1> SUFFICES ASSUME IInv, DownBreak PROVE IInv'
  OBVIOUS
<1>f. /\ Sources' = Sources /\ Slots' = Slots /\ Live' = Live
      /\ SlotsOK'
      /\ \A x : Rec(x)' = Rec(x)
      /\ \A s : InHeap(s)' <=> InHeap(s)
      /\ Pending' = Pending => TakenOK'
  BY Frame DEF DownBreak
<1>1. TypeOK'
  BY <1>f DEF IInv, TypeOK, PCs, DownBreak
<1>2. IndexOK'
  BY <1>f DEF IInv, TypeOK, IndexOK, Sources, Live, DownBreak
<1>3. SlotsOK'
  BY <1>f
<1>4. ReadableOK'
  BY <1>f DEF IInv, ReadableOK, DownBreak
<1>5. PrefixOK'
  BY <1>f DEF IInv, PrefixOK, Front, DownBreak
<1>6. TakenOK'
  BY <1>f DEF Pending, DownBreak
<1>7. KeptOK'
  BY <1>f DEF IInv, KeptOK, DownBreak
<1>8. NotBegunOK'
  BY <1>f DEF IInv, NotBegunOK, DownBreak
<1> QED
  BY <1>1, <1>2, <1>3, <1>4, <1>5, <1>6, <1>7, <1>8 DEF IInv

\* NextK is through: nothing is pending any more.
LEMMA MergeNextRepairsKeeps == IInv /\ MergeNextRepairs => IInv'
<1> SUFFICES ASSUME IInv, MergeNextRepairs PROVE IInv'
  OBVIOUS
<1>f. /\ Sources' = Sources /\ Slots' = Slots /\ Live' = Live
      /\ SlotsOK'
      /\ \A x : Rec(x)' = Rec(x)
      /\ \A s : InHeap(s)' <=> InHeap(s)
      /\ Pending' = Pending => TakenOK'
  BY Frame DEF MergeNextRepairs
<1>1. TypeOK'
  BY <1>f DEF IInv, TypeOK, PCs, MergeNextRepairs
<1>2. IndexOK'
  BY <1>f DEF IInv, TypeOK, IndexOK, Sources, Live, MergeNextRepairs
<1>3. SlotsOK'
  BY <1>f
<1>4. ReadableOK'
  BY <1>f DEF IInv, ReadableOK, MergeNextRepairs
<1>5. PrefixOK'
  BY <1>f DEF IInv, PrefixOK, Front, MergeNextRepairs
<1>6. TakenOK'
  BY <1>f DEF Pending, MergeNextRepairs
<1>7. KeptOK'
  BY <1>f DEF IInv, KeptOK, MergeNextRepairs
<1>8. NotBegunOK'
  BY <1>f DEF IInv, NotBegunOK, MergeNextRepairs
<1> QED
  BY <1>1, <1>2, <1>3, <1>4, <1>5, <1>6, <1>7, <1>8 DEF IInv

\* The repair loop comes to the next slot.
LEMMA RepairUpKeeps == IInv /\ RepairUp => IInv'
<1> SUFFICES ASSUME IInv, RepairUp PROVE IInv'
  OBVIOUS
<1>f. /\ Sources' = Sources /\ Slots' = Slots /\ Live' = Live
      /\ SlotsOK'
      /\ \A x : Rec(x)' = Rec(x)
      /\ \A s : InHeap(s)' <=> InHeap(s)
      /\ Pending' = Pending => TakenOK'
  BY Frame DEF RepairUp
<1>1. TypeOK'
  <2>1. i \in Nat
    BY DEF IInv, IndexOK, RepairUp
  <2> QED
    BY <1>f, <2>1 DEF IInv, TypeOK, PCs, RepairUp
<1>2. IndexOK'
  BY <1>f DEF IInv, TypeOK, IndexOK, Sources, Live, RepairUp
<1>3. SlotsOK'
  BY <1>f
<1>4. ReadableOK'
  BY <1>f DEF IInv, ReadableOK, RepairUp
<1>5. PrefixOK'
  BY <1>f DEF IInv, PrefixOK, Front, RepairUp
<1>6. TakenOK'
  BY <1>f DEF Pending, RepairUp
<1>7. KeptOK'
  BY <1>f DEF IInv, KeptOK, RepairUp
<1>8. NotBegunOK'
  BY <1>f DEF IInv, NotBegunOK, RepairUp
<1> QED
  BY <1>1, <1>2, <1>3, <1>4, <1>5, <1>6, <1>7, <1>8 DEF IInv

\* The repair loop ends.
LEMMA RepairEndKeeps == IInv /\ RepairEnd => IInv'
<1> SUFFICES ASSUME IInv, RepairEnd PROVE IInv'
  OBVIOUS
<1>f. /\ Sources' = Sources /\ Slots' = Slots /\ Live' = Live
      /\ SlotsOK'
      /\ \A x : Rec(x)' = Rec(x)
      /\ \A s : InHeap(s)' <=> InHeap(s)
      /\ Pending' = Pending => TakenOK'
  BY Frame DEF RepairEnd
<1>1. TypeOK'
  BY <1>f DEF IInv, TypeOK, PCs, RepairEnd
<1>2. IndexOK'
  BY <1>f DEF IInv, TypeOK, IndexOK, Sources, Live, RepairEnd
<1>3. SlotsOK'
  BY <1>f
<1>4. ReadableOK'
  BY <1>f DEF IInv, ReadableOK, RepairEnd
<1>5. PrefixOK'
  BY <1>f DEF IInv, PrefixOK, Front, RepairEnd
<1>6. TakenOK'
  BY <1>f DEF Pending, RepairEnd
<1>7. KeptOK'
  BY <1>f DEF IInv, KeptOK, RepairEnd
<1>8. NotBegunOK'
  BY <1>f DEF IInv, NotBegunOK, RepairEnd
<1> QED
  BY <1>1, <1>2, <1>3, <1>4, <1>5, <1>6, <1>7, <1>8 DEF IInv

\* Up exchanges a slot and its parent.
LEMMA UpSwapKeeps == IInv /\ UpSwap => IInv'
<1> SUFFICES ASSUME IInv, UpSwap PROVE IInv'
  OBVIOUS
<1>s. PICK x \in Live, y \in Live : x = c /\ y = Parent(c)
  BY DEF IInv, TypeOK, IndexOK, Live, Parent, UpSwap
<1>f. /\ ih' \in [Slots -> 0..Len(data)]
      /\ ih'[x] = ih[y] /\ ih'[y] = ih[x]
      /\ \A z \in Live : z \in Slots /\ (z \notin {x, y} => ih'[z] = ih[z])
      /\ \A z \in Live : \E w \in Live : ih'[z] = ih[w]
      /\ (\A z \in Live : Rec(z) # Bad) => (\A z \in Live : Rec(z) # Bad)'
      /\ SlotsOK'
      /\ \A s : InHeap(s)' <=> InHeap(s)
  <2>1. ih' = Swapped(x, y) /\ UNCHANGED <<data, pos, len>>
    BY <1>s DEF UpSwap
  <2> QED
    BY <2>1, SwapFacts DEF IInv
<1>g. Sources' = Sources /\ Slots' = Slots /\ Live' = Live
  BY DEF Sources, Slots, Live, UpSwap
<1>1. TypeOK'
  <2>1. c' \in Nat
    BY <1>s, LiveFacts DEF IInv, UpSwap
  <2> QED
    BY <1>f, <1>g, <2>1 DEF IInv, TypeOK, PCs, UpSwap
<1>2. IndexOK'
  <2>1. pc \in {"heapizeUp", "repairUp"} /\ c' \in Live
    BY <1>s DEF UpSwap
  <2>2. pc = "heapizeUp" => \A z \in Live : ih'[z] < i
    BY <1>f DEF IInv, IndexOK
  <2> QED
    BY <1>g, <2>1, <2>2 DEF IInv, IndexOK, UpSwap
<1>3. SlotsOK'
  BY <1>f
<1>4. ReadableOK'
  BY <1>f DEF IInv, ReadableOK, UpSwap
<1>5. PrefixOK'
  BY DEF PrefixOK, UpSwap
<1>6. TakenOK'
  BY <1>g DEF IInv, TakenOK, Taken, Pending, UpSwap
<1>7. KeptOK'
  BY <1>f, <1>g DEF IInv, KeptOK, UpSwap
<1>8. NotBegunOK'
  BY <1>g DEF IInv, NotBegunOK, UpSwap
<1> QED
  BY <1>1, <1>2, <1>3, <1>4, <1>5, <1>6, <1>7, <1>8 DEF IInv

\* Down exchanges a slot and a child, both behind the pending slots.
LEMMA DownSwapKeeps == IInv /\ DownSwap => IInv'
<1> SUFFICES ASSUME IInv, DownSwap PROVE IInv'
  OBVIOUS
<1>s. PICK x \in Live, y \in Live : x = c /\ y = LesserChild(c)
  BY DEF IInv, TypeOK, IndexOK, Live, DownMoves, LesserChild, Left, DownSwap
<1>f. /\ ih' \in [Slots -> 0..Len(data)]
      /\ ih'[x] = ih[y] /\ ih'[y] = ih[x]
      /\ \A z \in Live : z \in Slots /\ (z \notin {x, y} => ih'[z] = ih[z])
      /\ \A z \in Live : \E w \in Live : ih'[z] = ih[w]
      /\ (\A z \in Live : Rec(z) # Bad) => (\A z \in Live : Rec(z) # Bad)'
      /\ SlotsOK'
      /\ \A s : InHeap(s)' <=> InHeap(s)
  <2>1. ih' = Swapped(x, y) /\ UNCHANGED <<data, pos, len>>
    BY <1>s DEF DownSwap
  <2> QED
    BY <2>1, SwapFacts DEF IInv
<1>g. Sources' = Sources /\ Slots' = Slots /\ Live' = Live
  BY DEF Sources, Slots, Live, DownSwap
<1>h. i \in Live /\ i \in Int /\ len \in Int /\ x \in Int /\ y \in Int /\ y > x /\ x >= i
  BY <1>s DEF IInv, TypeOK, IndexOK, Live, LesserChild, Left, DownSwap
<1>1. TypeOK'
  <2>1. c' \in Nat
    BY <1>s, LiveFacts DEF IInv, DownSwap
  <2> QED
    BY <1>f, <1>g, <2>1 DEF IInv, TypeOK, PCs, DownSwap
<1>2. IndexOK'
  BY <1>s, <1>g, <1>h DEF IndexOK, DownSwap
<1>3. SlotsOK'
  BY <1>f
<1>4. ReadableOK'
  BY <1>f DEF IInv, ReadableOK, DownSwap
<1>5. PrefixOK'
  BY DEF PrefixOK, DownSwap
<1>6. TakenOK'
  <2>1. Pending' = Pending
    BY DEF Pending, DownSwap
  <2>2. ASSUME NEW z \in Pending PROVE ih'[z] = ih[z]
    <3>1. z \in 0..(i - 1)
      BY DEF Pending, DownSwap
    <3>2. z \in Live /\ z \notin {x, y}
      BY <1>h, <3>1 DEF Live
    <3> QED
      BY <1>f, <3>2
  <2> QED
    BY <1>g, <2>1, <2>2 DEF IInv, TakenOK, Taken, DownSwap
<1>7. KeptOK'
  BY <1>f, <1>g DEF IInv, KeptOK, DownSwap
<1>8. NotBegunOK'
  BY <1>g DEF IInv, NotBegunOK, DownSwap
<1> QED
  BY <1>1, <1>2, <1>3, <1>4, <1>5, <1>6, <1>7, <1>8 DEF IInv

\* EqUp moves an equal record to the end of the prefix; its slot cannot be
\* inside the prefix, because the queue stays ahead of it.
LEMMA EqUpFoundKeeps == IInv /\ EqUpFound => IInv'
<1> SUFFICES ASSUME IInv, EqUpFound PROVE IInv'
  OBVIOUS
<1>s. PICK x \in Live, y \in Live : x = eqs /\ y = Head(q)
  <2>1. q \in Seq(Nat) /\ q # <<>> /\ Len(q) \in Nat /\ Head(q) = q[1] /\ Head(q) \in Nat
    BY DEF IInv, TypeOK, EqUpFound, EqUpMore
  <2>2. Head(q) >= eqs /\ Head(q) < len /\ eqs \in 1..len /\ len \in Nat
    BY <2>1 DEF IInv, TypeOK, IndexOK, EqUpFound, EqUpMore
  <2> QED
    BY <2>1, <2>2 DEF Live
<1>f. /\ ih' \in [Slots -> 0..Len(data)]
      /\ ih'[x] = ih[y] /\ ih'[y] = ih[x]
      /\ \A z \in Live : z \in Slots /\ (z \notin {x, y} => ih'[z] = ih[z])
      /\ \A z \in Live : \E w \in Live : ih'[z] = ih[w]
      /\ (\A z \in Live : Rec(z) # Bad) => (\A z \in Live : Rec(z) # Bad)'
      /\ SlotsOK'
      /\ \A s : InHeap(s)' <=> InHeap(s)
  <2>1. ih' = Swapped(x, y) /\ UNCHANGED <<data, pos, len>>
    BY <1>s DEF EqUpFound
  <2> QED
    BY <2>1, SwapFacts DEF IInv
<1>g. Sources' = Sources /\ Slots' = Slots /\ Live' = Live
  BY DEF Sources, Slots, Live, EqUpFound
<1>q. /\ q \in Seq(Nat) /\ Len(q) \in Nat \ {0} /\ q' \in Seq(Nat)
      /\ Len(q') = Len(q) + 1
      /\ \A k \in 1..(Len(q) - 1) : q'[k] = q[k + 1]
      /\ q'[Len(q)] = 2 * y + 1 /\ q'[Len(q) + 1] = 2 * y + 2
  <2>1. q \in Seq(Nat) /\ q # <<>> /\ y \in Nat
    BY <1>s DEF IInv, TypeOK, Live, EqUpFound, EqUpMore
  <2>2. q' = Append(Append(Tail(q), 2 * y + 1), 2 * y + 2)
    BY <1>s DEF EqUpFound
  <2> DEFINE t == Tail(q)
             r == Append(t, 2 * y + 1)
  <2>3. /\ t \in Seq(Nat) /\ Len(t) = Len(q) - 1 /\ Len(q) \in Nat \ {0}
        /\ \A k \in 1..(Len(q) - 1) : t[k] = q[k + 1]
    BY <2>1
  <2> HIDE DEF t
  <2>4. /\ r \in Seq(Nat) /\ Len(r) = Len(q) /\ r[Len(q)] = 2 * y + 1
        /\ \A k \in 1..(Len(q) - 1) : r[k] = t[k]
    BY <2>1, <2>3
  <2>5. q' = Append(r, 2 * y + 2)
    BY <2>2 DEF t
  <2> HIDE DEF r
  <2>6. /\ q' \in Seq(Nat) /\ Len(q') = Len(q) + 1 /\ q'[Len(q) + 1] = 2 * y + 2
        /\ \A k \in 1..Len(q) : q'[k] = r[k]
    <3>1. 2 * y + 2 \in Nat
      BY <2>1
    <3>2. /\ Append(r, 2 * y + 2) \in Seq(Nat)
          /\ Len(Append(r, 2 * y + 2)) = Len(r) + 1
          /\ Append(r, 2 * y + 2)[Len(r) + 1] = 2 * y + 2
          /\ \A k \in 1..Len(r) : Append(r, 2 * y + 2)[k] = r[k]
      BY <3>1, <2>4, AppendProperties
    <3> QED
      BY <2>4, <2>5, <3>2
  <2>7. \A k \in 1..(Len(q) - 1) : q'[k] = q[k + 1]
    BY <2>3, <2>4, <2>6
  <2>8. q'[Len(q)] = 2 * y + 1
    <3>1. Len(q) \in 1..Len(q)
      BY <2>3
    <3> QED
      BY <2>4, <2>6, <3>1
  <2> QED
    BY <2>1, <2>3, <2>6, <2>7, <2>8
<1>e. /\ eqs \in Nat /\ eqs >= 1 /\ x = eqs /\ y < len /\ y \in Nat /\ len \in Nat
      /\ len <= Len(data) /\ Len(data) \in Nat /\ eqs' = eqs + 1
      /\ Len(q) <= eqs + 1
      /\ \A k \in 1..Len(q) : q[k] >= eqs + k - 1
  <2>1. y \in Nat /\ y < len /\ len \in Nat
    BY <1>s DEF IInv, TypeOK, Live
  <2> QED
    BY <1>s, <2>1 DEF IInv, TypeOK, IndexOK, EqUpFound
<1>h. y >= eqs
  BY <1>q, <1>e, <1>s DEF EqUpFound
<1>p. pc = "eqUp" /\ pc' = "eqUp" /\ Rec(0) = Rec(y) /\ data' = data /\ pos' = pos
  BY <1>s DEF EqUpFound
<1>1. TypeOK'
  <2>1. eqs' \in 0..Len(data)
    BY <1>e, <1>h
  <2> QED
    BY <1>q, <1>f, <1>g, <2>1 DEF IInv, TypeOK, PCs, EqUpFound
<1>2. IndexOK'
  <2>1. ASSUME NEW k \in 1..Len(q') PROVE q'[k] >= eqs' + k - 1
    <3>1. CASE k \in 1..(Len(q) - 1)
      <4>1. k + 1 \in 1..Len(q) /\ q[k + 1] \in Nat
        BY <1>q, <3>1, SMTT(30)
      <4>2. q[k + 1] >= eqs + (k + 1) - 1
        BY <1>e, <4>1
      <4>3. q'[k] = q[k + 1]
        BY <1>q, <3>1
      <4> QED
        BY <1>e, <3>1, <4>1, <4>2, <4>3
    <3>2. CASE k = Len(q)
      <4>1. q'[k] = 2 * y + 1 /\ k \in Nat /\ k <= eqs + 1
        BY <1>q, <1>e, <3>2
      <4> QED
        BY <1>e, <1>h, <4>1
    <3>3. CASE k = Len(q) + 1
      <4>1. q'[k] = 2 * y + 2 /\ k \in Nat /\ k <= eqs + 2
        BY <1>q, <1>e, <3>3
      <4> QED
        BY <1>e, <1>h, <4>1
    <3> QED
      BY <1>q, <3>1, <3>2, <3>3
  <2>2. eqs' \in 1..len /\ Len(q') <= eqs' + 1
    BY <1>e, <1>h, <1>q
  <2> QED
    BY <1>p, <2>1, <2>2 DEF IndexOK, EqUpFound
<1>3. SlotsOK'
  BY <1>f
<1>4. ReadableOK'
  BY <1>f DEF IInv, ReadableOK, EqUpFound
<1>5. PrefixOK'
  <2>0. 0 \in Live /\ \A a \in Front : a \in Live /\ a \notin {x, y}
    BY <1>e, <1>h DEF Live, Front
  <2>1. ASSUME NEW a \in Front PROVE Rec(a)' = Rec(0)
    <3>1. ih'[a] = ih[a] /\ Rec(a) = Rec(0)
      BY <1>f, <1>p, <2>0 DEF IInv, PrefixOK
    <3> QED
      BY <1>p, <3>1 DEF Rec
  <2>2. data[ih'[x]][pos[ih'[x]]] = Rec(0)
    BY <1>f, <1>p DEF Rec
  <2>3. Front' = Front \cup {x} /\ 0 \in Front
    BY <1>e DEF Front
  <2> QED
    BY <1>p, <2>1, <2>2, <2>3 DEF PrefixOK, Rec
<1>6. TakenOK'
  BY <1>g DEF IInv, TakenOK, Taken, Pending, EqUpFound
<1>7. KeptOK'
  BY <1>f, <1>g DEF IInv, KeptOK, EqUpFound
<1>8. NotBegunOK'
  BY <1>g DEF IInv, NotBegunOK, EqUpFound
<1> QED
  BY <1>1, <1>2, <1>3, <1>4, <1>5, <1>6, <1>7, <1>8 DEF IInv

\* MergeNext cuts a round.
LEMMA EmitMergedKeeps == IInv /\ EmitMerged => IInv'
<1> SUFFICES ASSUME IInv, EmitMerged PROVE IInv'
  OBVIOUS
<1>f. /\ ih' \in [Slots -> 0..Len(data)]
      /\ \A s : (\E a \in Front : ih'[a] = s) <=> s \in Contenders
      /\ (\A x \in Live : Rec(x) # Bad) => (\A x \in Live : Rec(x) # Bad)'
      /\ SlotsOK'
      /\ \A s : InHeap(s)' <=> InHeap(s)
  BY FrontPermuted DEF EmitMerged
<1>t. /\ merged' \in [Sources -> Seq(Int)]
      /\ Round \in [key : Int, from : SUBSET Sources]
      /\ TakenOK'
  BY <1>f, RoundTaken DEF EmitMerged
<1>g. Sources' = Sources /\ Slots' = Slots /\ Live' = Live
  BY DEF Sources, Slots, Live, EmitMerged
<1>1. TypeOK'
  BY <1>f, <1>t, <1>g DEF IInv, TypeOK, PCs, EmitMerged
<1>2. IndexOK'
  BY DEF IInv, TypeOK, IndexOK, Live, EmitMerged
<1>3. SlotsOK'
  BY <1>f
<1>4. ReadableOK'
  BY <1>f DEF IInv, ReadableOK, EmitMerged
<1>5. PrefixOK'
  BY DEF PrefixOK, EmitMerged
<1>6. TakenOK'
  BY <1>t
<1>7. KeptOK'
  BY <1>f, <1>g DEF IInv, KeptOK, EmitMerged
<1>8. NotBegunOK'
  BY DEF NotBegunOK, EmitMerged
<1> QED
  BY <1>1, <1>2, <1>3, <1>4, <1>5, <1>6, <1>7, <1>8 DEF IInv

\* MergeSameSpotElements fails.
LEMMA EmitFailKeeps == IInv /\ EmitFail => IInv'
<1> SUFFICES ASSUME IInv, EmitFail PROVE IInv'
  OBVIOUS
<1>f. ih' \in [Slots -> 0..Len(data)] /\ SlotsOK'
  BY FrontPermuted DEF EmitFail
<1>g. Sources' = Sources /\ Slots' = Slots /\ Live' = Live
  BY DEF Sources, Slots, Live, EmitFail
<1>1. TypeOK'
  BY <1>f, <1>g DEF IInv, TypeOK, PCs, EmitFail
<1>2. IndexOK'
  BY DEF IndexOK, EmitFail
<1>3. SlotsOK'
  BY <1>f
<1>4. ReadableOK'
  BY DEF ReadableOK, EmitFail
<1>5. PrefixOK'
  BY DEF PrefixOK, EmitFail
<1>6. TakenOK'
  BY DEF TakenOK, EmitFail
<1>7. KeptOK'
  BY DEF KeptOK, EmitFail
<1>8. NotBegunOK'
  BY DEF NotBegunOK, EmitFail
<1> QED
  BY <1>1, <1>2, <1>3, <1>4, <1>5, <1>6, <1>7, <1>8 DEF IInv

\* IntersectNext takes a round.
LEMMA EmitIntersectedKeeps == IInv /\ EmitIntersected => IInv'
<1> SUFFICES ASSUME IInv, EmitIntersected PROVE IInv'
  OBVIOUS
<1>f. /\ Sources' = Sources /\ Slots' = Slots /\ Live' = Live
      /\ SlotsOK'
      /\ \A x : Rec(x)' = Rec(x)
  BY Frame DEF EmitIntersected
<1>t. /\ merged' \in [Sources -> Seq(Int)]
      /\ Round \in [key : Int, from : SUBSET Sources]
      /\ TakenOK'
  <2>1. \A s : (\E a \in Front : ih'[a] = s) <=> s \in Contenders
    BY DEF Contenders, EmitIntersected
  <2> QED
    BY <2>1, RoundTaken DEF EmitIntersected
<1>1. TypeOK'
  <2>1. out' \in Seq([key : Int, from : SUBSET Sources])
    <3>1. out \in Seq([key : Int, from : SUBSET Sources])
      BY DEF IInv, TypeOK
    <3>2. Append(out, Round) \in Seq([key : Int, from : SUBSET Sources])
      BY <1>t, <3>1
    <3> QED
      BY <3>1, <3>2 DEF EmitIntersected
  <2> QED
    BY <1>f, <1>t, <2>1 DEF IInv, TypeOK, PCs, EmitIntersected
<1>2. IndexOK'
  BY DEF IInv, TypeOK, IndexOK, Live, EmitIntersected
<1>3. SlotsOK'
  BY <1>f
<1>4. ReadableOK'
  BY <1>f DEF IInv, ReadableOK, EmitIntersected
<1>5. PrefixOK'
  BY DEF PrefixOK, EmitIntersected
<1>6. TakenOK'
  BY <1>t
<1>7. KeptOK'
  BY DEF KeptOK, EmitIntersected
<1>8. NotBegunOK'
  BY DEF NotBegunOK, EmitIntersected
<1> QED
  BY <1>1, <1>2, <1>3, <1>4, <1>5, <1>6, <1>7, <1>8 DEF IInv

\* Heapize appends an iterator no other slot holds.
LEMMA HeapizeAddKeeps == IInv /\ HeapizeAdd => IInv'
<1> SUFFICES ASSUME IInv, HeapizeAdd PROVE IInv'
  OBVIOUS
<1>i. /\ i \in 1..Len(data) /\ i \in Sources /\ len \in Slots /\ len \in Nat
      /\ len < i /\ Len(data) \in Nat /\ pos[i] = 0 /\ 1 \in 1..Len(data[i])
  <2>1. i \in 1..Len(data) /\ i \in Sources /\ data[i] \in Seq(Int \cup {Bad}) /\ data[i] # <<>>
    BY DEF IInv, TypeOK, Sources, HeapizeAdd
  <2>2. 1 \in 1..Len(data[i])
    BY <2>1
  <2>3. len < i /\ len \in Nat /\ Len(data) \in Nat /\ pos[i] = 0
    BY <2>1 DEF IInv, TypeOK, IndexOK, NotBegunOK, HeapizeAdd
  <2> QED
    BY <2>1, <2>2, <2>3 DEF Slots
<1>a. \A a \in Live : a \in Slots /\ a # len /\ ih[a] \in Sources /\ ih[a] \in Nat /\ ih[a] < i
  <2>1. \A a \in Live : a \in Slots /\ ih[a] \in Sources /\ ih[a] < i
    BY LiveFacts DEF IInv, IndexOK, HeapizeAdd
  <2> QED
    BY <1>i, <2>1 DEF Live, Sources
<1>b. /\ ih' \in [Slots -> 0..Len(data)] /\ ih'[len] = i
      /\ \A a \in Live : ih'[a] = ih[a]
  BY <1>i, <1>a DEF IInv, TypeOK, HeapizeAdd
<1>c. /\ pos' \in [Sources -> Nat] /\ pos'[i] = 1
      /\ \A s \in Sources \ {i} : pos'[s] = pos[s]
  BY <1>i DEF IInv, TypeOK, HeapizeAdd
<1>g. Sources' = Sources /\ Slots' = Slots /\ Live' = Live \cup {len}
  BY <1>i DEF Sources, Slots, Live, HeapizeAdd
<1>h. i' = i + 1 /\ len' = len + 1 /\ c' = len /\ pc' = "heapizeUp" /\ data' = data /\ err' = err
  BY DEF HeapizeAdd
<1>1. TypeOK'
  <2>1. ASSUME NEW s \in Sources PROVE pos'[s] <= Len(data[s]) + 1
    <3>1. pos[s] <= Len(data[s]) + 1 /\ Len(data[s]) \in Nat
      BY DEF IInv, TypeOK, Sources
    <3> QED
      BY <1>c, <3>1
  <2> QED
    BY <1>i, <1>b, <1>c, <1>g, <1>h, <2>1, SMTT(30) DEF IInv, TypeOK, PCs, HeapizeAdd
<1>2. IndexOK'
  <2>1. \A a \in Live' : ih'[a] < i'
    BY <1>i, <1>a, <1>b, <1>g, <1>h
  <2> QED
    BY <1>i, <1>g, <1>h, <2>1 DEF IndexOK
<1>3. SlotsOK'
  <2>1. \A a \in Live' : ih'[a] \in Sources /\ pos'[ih'[a]] \in 1..Len(data[ih'[a]])
    BY <1>i, <1>a, <1>b, <1>c, <1>g DEF IInv, SlotsOK
  <2>2. \A a, b \in Live' : ih'[a] = ih'[b] => a = b
    BY <1>i, <1>a, <1>b, <1>g DEF IInv, SlotsOK, OneSlotEach
  <2> QED
    BY <1>g, <1>h, <2>1, <2>2 DEF SlotsOK, OneSlotEach
<1>4. ReadableOK'
  <2>1. ~err /\ \A a \in Live : Rec(a) # Bad
    BY DEF IInv, ReadableOK, HeapizeAdd
  <2>2. data[ih'[len]][pos'[ih'[len]]] # Bad
    BY <1>b, <1>c DEF HeapizeAdd
  <2>3. \A a \in Live : data[ih'[a]][pos'[ih'[a]]] = Rec(a)
    BY <1>i, <1>a, <1>b, <1>c DEF Rec
  <2> QED
    BY <1>g, <1>h, <2>1, <2>2, <2>3 DEF ReadableOK, Rec
<1>5. PrefixOK'
  BY <1>h DEF PrefixOK
<1>6. TakenOK'
  <2>1. Pending = {} /\ Pending' = {}
    BY DEF Pending, HeapizeAdd
  <2>2. \A s \in Sources : Taken(s)' = Taken(s)
    BY <1>i, <1>c, <2>1 DEF Taken
  <2> QED
    BY <1>g, <2>2 DEF IInv, TakenOK, HeapizeAdd
<1>7. KeptOK'
  <2>1. \A s : s = i \/ InHeap(s) => InHeap(s)'
    BY <1>b, <1>g DEF InHeap
  <2>2. \A s \in Sources : s \in Int
    BY DEF Sources
  <2> QED
    BY <1>i, <1>c, <1>g, <1>h, <2>1, <2>2 DEF IInv, KeptOK, HeapizeAdd
<1>8. NotBegunOK'
  <2>1. \A s \in Sources : s \in Int
    BY DEF Sources
  <2> QED
    BY <1>i, <1>c, <1>g, <1>h, <2>1 DEF IInv, NotBegunOK, HeapizeAdd
<1> QED
  BY <1>1, <1>2, <1>3, <1>4, <1>5, <1>6, <1>7, <1>8 DEF IInv

\* Heapize fails and drops the slice.
LEMMA HeapizeFailKeeps == IInv /\ HeapizeFail => IInv'
<1> SUFFICES ASSUME IInv, HeapizeFail PROVE IInv'
  OBVIOUS
<1>g. Sources' = Sources /\ Slots' = Slots /\ Live' = {}
  BY DEF Sources, Slots, Live, HeapizeFail
<1>1. TypeOK'
  <2>1. len' \in 0..Len(data) /\ pc' \in PCs /\ err' \in BOOLEAN
    BY DEF IInv, TypeOK, PCs, HeapizeFail
  <2> QED
    BY <1>g, <2>1 DEF IInv, TypeOK, HeapizeFail
<1>2. IndexOK'
  BY DEF IndexOK, HeapizeFail
<1>3. SlotsOK'
  BY <1>g DEF SlotsOK, OneSlotEach
<1>4. ReadableOK'
  BY DEF ReadableOK, HeapizeFail
<1>5. PrefixOK'
  BY DEF PrefixOK, HeapizeFail
<1>6. TakenOK'
  BY DEF TakenOK, HeapizeFail
<1>7. KeptOK'
  BY DEF KeptOK, HeapizeFail
<1>8. NotBegunOK'
  BY DEF NotBegunOK, HeapizeFail
<1> QED
  BY <1>1, <1>2, <1>3, <1>4, <1>5, <1>6, <1>7, <1>8 DEF IInv

\* IntersectNext keeps the slice or empties it.
LEMMA IntersectNextReturnsKeeps == IInv /\ IntersectNextReturns => IInv'
<1> SUFFICES ASSUME IInv, IntersectNextReturns PROVE IInv'
  OBVIOUS
<1>g. /\ Sources' = Sources /\ Slots' = Slots /\ len' \in 0..len /\ len \in Nat
      /\ \A a \in Live' : a \in Live
  BY DEF IInv, TypeOK, Sources, Slots, Live, IntersectNextReturns
<1>1. TypeOK'
  BY <1>g DEF IInv, TypeOK, PCs, IntersectNextReturns
<1>2. IndexOK'
  BY DEF IndexOK, IntersectNextReturns
<1>3. SlotsOK'
  BY <1>g DEF IInv, SlotsOK, OneSlotEach, IntersectNextReturns
<1>4. ReadableOK'
  BY <1>g DEF IInv, ReadableOK, Rec, IntersectNextReturns
<1>5. PrefixOK'
  BY DEF PrefixOK, IntersectNextReturns
<1>6. TakenOK'
  <2>1. Pending = {} /\ Pending' = {}
    BY DEF Pending, IntersectNextReturns
  <2> QED
    BY <1>g, <2>1 DEF IInv, TakenOK, Taken, IntersectNextReturns
<1>7. KeptOK'
  BY DEF KeptOK, IntersectNextReturns
<1>8. NotBegunOK'
  BY DEF NotBegunOK, IntersectNextReturns
<1> QED
  BY <1>1, <1>2, <1>3, <1>4, <1>5, <1>6, <1>7, <1>8 DEF IInv

\* NextK reads the next record of slot i, which is no longer pending.
LEMMA NextKReadKeeps == IInv /\ NextKRead => IInv'
<1> SUFFICES ASSUME IInv, NextKRead PROVE IInv'
  OBVIOUS
<1>n. PICK n \in Live, s \in Sources :
        /\ n = i /\ s = ih[n] /\ n \in Nat /\ n < len /\ len \in Nat
        /\ pos' \in [Sources -> Nat] /\ pos'[s] = pos[s] + 1
        /\ pos[s] \in 1..Len(data[s]) /\ Len(data[s]) \in Nat
        /\ \A t \in Sources \ {s} : pos'[t] = pos[t]
        /\ \A t \in Sources : pos'[t] <= Len(data[t]) + 1
        /\ \A a \in Live \ {n} : ih[a] \in Sources \ {s}
        /\ \A a \in Live : a \in Slots
        /\ ~err
  BY AdvanceFacts DEF NextKRead
<1>g. Sources' = Sources /\ Slots' = Slots
  BY DEF Sources, Slots, NextKRead
<1>1. TypeOK'
  BY <1>n, <1>g DEF IInv, TypeOK, PCs, NextKRead
<1>2. IndexOK'
  BY <1>n DEF IndexOK, Live, NextKRead
<1>3. SlotsOK'
  <2>1. pos[s] + 1 \in 1..Len(data[s])
    BY <1>n DEF AtLast, NextKRead
  <2>2. Live' = Live
    BY DEF Live, NextKRead
  <2>3. \A a \in Live : ih[a] \in Sources /\ pos'[ih[a]] \in 1..Len(data[ih[a]])
    BY <1>n, <2>1 DEF IInv, SlotsOK
  <2> QED
    BY <1>g, <2>2, <2>3 DEF IInv, SlotsOK, OneSlotEach, NextKRead
<1>4. ReadableOK'
  <2>1. \A a \in Live : data[ih[a]][pos'[ih[a]]] # Bad
    BY <1>n DEF IInv, ReadableOK, Rec, Upcoming, NextKRead
  <2> QED
    BY <1>n, <2>1 DEF ReadableOK, Rec, Live, NextKRead
<1>5. PrefixOK'
  BY DEF PrefixOK, NextKRead
<1>6. TakenOK'
  <2>1. Pending = 0..n /\ Pending' = 0..(n - 1)
    BY <1>n DEF Pending, NextKRead
  <2>2. \A a \in 0..(n - 1) : a \in Live \ {n}
    BY <1>n DEF Live
  <2>3. Taken(s) = pos[s]
    BY <1>n, <2>1 DEF Taken
  <2>4. Taken(s)' = pos[s]
    BY <1>n, <2>1, <2>2 DEF Taken, NextKRead
  <2>5. ASSUME NEW t \in Sources \ {s} PROVE Taken(t)' = Taken(t)
    <3>1. (\E a \in 0..n : ih[a] = t) <=> (\E a \in 0..(n - 1) : ih[a] = t)
      BY <1>n, SMTT(30)
    <3> QED
      BY <1>n, <2>1, <3>1 DEF Taken, NextKRead
  <2> QED
    BY <1>g, <2>3, <2>4, <2>5 DEF IInv, TakenOK, NextKRead
<1>7. KeptOK'
  <2>1. \A t : InHeap(t)' <=> InHeap(t)
    BY DEF InHeap, Live, NextKRead
  <2>2. InHeap(s)
    BY <1>n DEF InHeap
  <2> QED
    BY <1>n, <1>g, <2>1, <2>2 DEF IInv, KeptOK, NextKRead
<1>8. NotBegunOK'
  BY DEF NotBegunOK, NextKRead
<1> QED
  BY <1>1, <1>2, <1>3, <1>4, <1>5, <1>6, <1>7, <1>8 DEF IInv

\* NextK meets an unreadable record.
LEMMA NextKFailKeeps == IInv /\ NextKFail => IInv'
<1> SUFFICES ASSUME IInv, NextKFail PROVE IInv'
  OBVIOUS
<1>n. PICK n \in Live, s \in Sources :
        /\ n = i /\ s = ih[n] /\ n \in Nat /\ n < len /\ len \in Nat
        /\ pos' \in [Sources -> Nat] /\ pos'[s] = pos[s] + 1
        /\ pos[s] \in 1..Len(data[s]) /\ Len(data[s]) \in Nat
        /\ \A t \in Sources \ {s} : pos'[t] = pos[t]
        /\ \A t \in Sources : pos'[t] <= Len(data[t]) + 1
        /\ \A a \in Live \ {n} : ih[a] \in Sources \ {s}
        /\ \A a \in Live : a \in Slots
        /\ ~err
  BY AdvanceFacts DEF NextKFail
<1>g. Sources' = Sources /\ Slots' = Slots
  BY DEF Sources, Slots, NextKFail
<1>1. TypeOK'
  BY <1>n, <1>g, SMTT(30) DEF IInv, TypeOK, PCs, NextKFail
<1>2. IndexOK'
  BY <1>n DEF IndexOK, Live, NextKFail
<1>3. SlotsOK'
  <2>1. pos[s] + 1 \in 1..Len(data[s])
    BY <1>n DEF AtLast, NextKFail
  <2>2. Live' = Live
    BY DEF Live, NextKFail
  <2>3. \A a \in Live : ih[a] \in Sources /\ pos'[ih[a]] \in 1..Len(data[ih[a]])
    BY <1>n, <2>1 DEF IInv, SlotsOK
  <2> QED
    BY <1>g, <2>2, <2>3 DEF IInv, SlotsOK, OneSlotEach, NextKFail
<1>4. ReadableOK'
  BY DEF ReadableOK, NextKFail
<1>5. PrefixOK'
  BY DEF PrefixOK, NextKFail
<1>6. TakenOK'
  BY DEF TakenOK, NextKFail
<1>7. KeptOK'
  BY DEF KeptOK, NextKFail
<1>8. NotBegunOK'
  BY DEF NotBegunOK, NextKFail
<1> QED
  BY <1>1, <1>2, <1>3, <1>4, <1>5, <1>6, <1>7, <1>8 DEF IInv

\* NextK removes an exhausted iterator: the last slot fills the gap.
LEMMA NextKRemoveKeeps == IInv /\ NextKRemove => IInv'
<1> SUFFICES ASSUME IInv, NextKRemove PROVE IInv'
  OBVIOUS
<1>n. PICK n \in Live, s \in Sources :
        /\ n = i /\ s = ih[n] /\ n \in Nat /\ n < len /\ len \in Nat
        /\ pos' \in [Sources -> Nat] /\ pos'[s] = pos[s] + 1
        /\ pos[s] \in 1..Len(data[s]) /\ Len(data[s]) \in Nat
        /\ \A t \in Sources \ {s} : pos'[t] = pos[t]
        /\ \A t \in Sources : pos'[t] <= Len(data[t]) + 1
        /\ \A a \in Live \ {n} : ih[a] \in Sources \ {s}
        /\ \A a \in Live : a \in Slots
        /\ ~err
  BY AdvanceFacts DEF NextKRemove
<1>g. Sources' = Sources /\ Slots' = Slots
  BY DEF Sources, Slots, NextKRemove
<1>l. len - 1 \in Live /\ len - 1 \in Slots
  BY <1>n DEF Live
<1>h. /\ ih' \in [Slots -> 0..Len(data)]
      /\ ih'[n] = ih[len - 1]
      /\ \A a \in Live \ {n, len - 1} : ih'[a] = ih[a]
  BY <1>n, <1>l DEF IInv, TypeOK, Swapped, NextKRemove
<1>v. len' = len - 1 /\ Live' = Live \ {len - 1}
  BY <1>n DEF Live, NextKRemove
<1>p. Pending = 0..n /\ Pending' = 0..(n - 1)
  BY <1>n DEF Pending, NextKRemove
<1>m. \A a \in Live' : /\ ih'[a] = IF a = n THEN ih[len - 1] ELSE ih[a]
                       /\ ih'[a] \in Sources \ {s}
  BY <1>n, <1>l, <1>h, <1>v
<1>1. TypeOK'
  <2>1. i' \in Int /\ c' \in Nat /\ pc' \in PCs
    <3>1. c \in Nat /\ pc = "nextK"
      BY DEF IInv, TypeOK, NextKRemove
    <3>2. CASE n < len - 1
      BY <1>n, <3>1, <3>2 DEF PCs, NextKRemove
    <3>3. CASE ~(n < len - 1)
      BY <1>n, <3>1, <3>3 DEF PCs, NextKRemove
    <3> QED
      BY <3>2, <3>3
  <2>2. len' \in 0..Len(data)
    BY <1>n, <1>v DEF IInv, TypeOK
  <2> QED
    BY <1>n, <1>g, <1>h, <2>1, <2>2 DEF IInv, TypeOK, NextKRemove
<1>2. IndexOK'
  <2>1. CASE n < len - 1
    BY <1>n, <1>v, <2>1 DEF IndexOK, Live, NextKRemove
  <2>2. CASE ~(n < len - 1)
    BY <1>n, <1>v, <2>2 DEF IndexOK, Live, NextKRemove
  <2> QED
    BY <2>1, <2>2
<1>3. SlotsOK'
  <2>1. \A a \in Live' : ih'[a] \in Sources /\ pos'[ih'[a]] \in 1..Len(data[ih'[a]])
    BY <1>n, <1>l, <1>m, <1>v, SMTT(30) DEF IInv, SlotsOK
  <2>2. ASSUME NEW a \in Live', NEW b \in Live', ih'[a] = ih'[b] PROVE a = b
    <3>1. \A x, y \in Live : ih[x] = ih[y] => x = y
      BY DEF IInv, SlotsOK, OneSlotEach
    <3> QED
      BY <1>l, <1>m, <1>v, <2>2, <3>1
  <2> QED
    BY <1>g, <2>1, <2>2 DEF SlotsOK, OneSlotEach, NextKRemove
<1>4. ReadableOK'
  <2>1. ASSUME NEW a \in Live' PROVE data[ih'[a]][pos'[ih'[a]]] # Bad
    <3>1. PICK b \in Live : ih'[a] = ih[b]
      BY <1>l, <1>m, <1>v
    <3>2. Rec(b) # Bad /\ ih[b] \in Sources \ {s}
      BY <1>n, <1>m, <3>1 DEF IInv, ReadableOK
    <3> QED
      BY <1>n, <3>1, <3>2 DEF Rec
  <2> QED
    BY <1>n, <2>1 DEF ReadableOK, Rec, NextKRemove
<1>5. PrefixOK'
  BY DEF PrefixOK, NextKRemove
<1>6. TakenOK'
  <2>1. \A a \in 0..(n - 1) : a \in Live \ {n, len - 1} /\ ih'[a] = ih[a]
    BY <1>n, <1>h DEF Live
  <2>2. Taken(s) = pos[s]
    BY <1>n, <1>p DEF Taken
  <2>3. Taken(s)' = pos[s]
    BY <1>n, <1>p, <2>1, SMTT(30) DEF Taken, NextKRemove
  <2>4. ASSUME NEW t \in Sources \ {s} PROVE Taken(t)' = Taken(t)
    <3>1. (\E a \in 0..n : ih[a] = t) <=> (\E a \in 0..(n - 1) : ih'[a] = t)
      <4>1. \A a \in 0..n : a = n \/ a \in 0..(n - 1)
        BY <1>n
      <4>2. \A a \in 0..(n - 1) : a \in 0..n
        BY <1>n
      <4> QED
        BY <1>n, <2>1, <4>1, <4>2
    <3> QED
      BY <1>n, <1>p, <3>1 DEF Taken
  <2> QED
    BY <1>g, <2>2, <2>3, <2>4 DEF IInv, TakenOK, NextKRemove
<1>7. KeptOK'
  <2>1. ASSUME NEW t \in Sources \ {s}, InHeap(t) PROVE InHeap(t)'
    <3>1. PICK a \in Live : ih[a] = t /\ a # n
      BY <1>n, <2>1 DEF InHeap
    <3>2. CASE a = len - 1
      <4>1. n \in Live' /\ ih'[n] = t
        BY <1>n, <1>m, <1>v, <3>1, <3>2
      <4> QED
        BY <4>1 DEF InHeap
    <3>3. CASE a # len - 1
      BY <1>m, <1>v, <3>1, <3>3 DEF InHeap
    <3> QED
      BY <3>2, <3>3
  <2>2. pos'[s] = Len(data[s]) + 1
    BY <1>n DEF AtLast, NextKRemove
  <2>3. pc = "nextK" /\ pc' \in {"nextK", "down"} /\ op' = op /\ err' = err /\ data' = data
    BY DEF NextKRemove
  <2>4. ASSUME op = "MergeNext", ~err, NEW t \in Sources
        PROVE  InHeap(t)' \/ pos'[t] = Len(data[t]) + 1 \/ (pos'[t] = 0 /\ Len(data[t]) = 0)
    BY <1>n, <2>1, <2>2, <2>3, <2>4 DEF IInv, KeptOK
  <2> QED
    BY <1>g, <2>3, <2>4 DEF KeptOK
<1>8. NotBegunOK'
  BY DEF NotBegunOK, NextKRemove
<1> QED
  BY <1>1, <1>2, <1>3, <1>4, <1>5, <1>6, <1>7, <1>8 DEF IInv

\* The calls begin with an empty slice.
LEMMA InitOK == Init => IInv
<1> SUFFICES ASSUME Init PROVE IInv
  OBVIOUS
<1>1. data \in Seq(Seq(Int \cup {Bad})) /\ Len(data) \in Nat
  BY InputsAssumption DEF Init
<1>2. \A s \in Sources : data[s] \in Seq(Int \cup {Bad}) /\ Len(data[s]) \in Nat
  BY <1>1 DEF Sources
<1>3. Live = {} /\ pc = "heapize" /\ ~err /\ len = 0 /\ i = 1
  BY DEF Init, Live
<1>4. TypeOK
  <2>1. ih \in [Slots -> 0..Len(data)]
    BY <1>1 DEF Init
  <2>2. pos \in [Sources -> Nat] /\ \A s \in Sources : pos[s] <= Len(data[s]) + 1
    BY <1>2 DEF Init
  <2>3. merged \in [Sources -> Seq(Int)] /\ q \in Seq(Nat)
    BY DEF Init
  <2>4. op \in {"MergeNext", "IntersectNext"} /\ out \in Seq([key : Int, from : SUBSET Sources])
    BY DEF Init
  <2>5. len \in 0..Len(data) /\ eqs \in 0..Len(data) /\ i \in Int /\ c \in Nat
    BY <1>1 DEF Init
  <2>6. err \in BOOLEAN /\ pc \in PCs
    BY DEF Init, PCs
  <2> QED
    BY <1>1, <2>1, <2>2, <2>3, <2>4, <2>5, <2>6 DEF TypeOK
<1>5. IndexOK /\ SlotsOK /\ ReadableOK /\ PrefixOK
  BY <1>1, <1>3 DEF IndexOK, SlotsOK, OneSlotEach, ReadableOK, PrefixOK
<1>6. TakenOK
  <2>1. Pending = {}
    BY <1>3 DEF Pending
  <2>2. ASSUME NEW s \in Sources PROVE pos[s] = 0 /\ merged[s] = <<>>
    BY DEF Init
  <2> QED
    BY <2>1, <2>2 DEF TakenOK, Taken
<1>7. KeptOK /\ NotBegunOK
  <2>1. \A s \in Sources : pos[s] = 0 /\ s >= i
    BY <1>3 DEF Init, Sources
  <2> QED
    BY <1>3, <2>1 DEF KeptOK, NotBegunOK
<1> QED
  BY <1>4, <1>5, <1>6, <1>7 DEF IInv

\* A step that changes nothing.
LEMMA StutterKeeps == IInv /\ UNCHANGED vars => IInv'
<1> SUFFICES ASSUME IInv, UNCHANGED vars PROVE IInv'
  OBVIOUS
<1>f. /\ Sources' = Sources /\ Slots' = Slots /\ Live' = Live
      /\ SlotsOK'
      /\ \A x : Rec(x)' = Rec(x)
      /\ \A s : InHeap(s)' <=> InHeap(s)
      /\ Pending' = Pending => TakenOK'
  BY Frame DEF vars
<1>1. TypeOK' /\ IndexOK'
  BY <1>f DEF IInv, TypeOK, IndexOK, vars
<1>2. ReadableOK' /\ PrefixOK'
  BY <1>f DEF IInv, ReadableOK, PrefixOK, Front, vars
<1>3. TakenOK'
  BY <1>f DEF Pending, vars
<1>4. KeptOK' /\ NotBegunOK'
  BY <1>f DEF IInv, KeptOK, NotBegunOK, vars
<1> QED
  BY <1>f, <1>1, <1>2, <1>3, <1>4 DEF IInv

\* IInv is inductive.
LEMMA StepKeeps == IInv /\ [Next]_vars => IInv'
  BY HeapizeSkipKeeps, HeapizeAddKeeps, HeapizeFailKeeps, HeapizeEndKeeps,
     UpSwapKeeps, UpBreakKeeps, UpPanicKeeps, LoopAgainKeeps, LoopEndKeeps,
     EqUpFoundKeeps, EqUpPassKeeps, EqUpEndKeeps,
     EmitMergedKeeps, EmitFailKeeps, EmitIntersectedKeeps,
     NextKReadKeeps, NextKFailKeeps, NextKRemoveKeeps,
     DownSwapKeeps, DownBreakKeeps, MergeNextRepairsKeeps,
     RepairUpKeeps, RepairEndKeeps, IntersectNextReturnsKeeps, StutterKeeps
  DEF Next, Done

\* IInv is an invariant of HeapMerge and of repeated IntersectNext.
THEOREM Inductive == Spec => []IInv
<1>1. IInv /\ [Next]_vars => IInv'
  BY StepKeeps
<1> QED
  BY InitOK, <1>1, PTL DEF Spec

\* No index leaves the Heap slice and no iterator runs past its input, for
\* any number of inputs.
THEOREM TypeCorrect == Spec => []TypeOK
<1>1. IInv => TypeOK
  BY DEF IInv
<1> QED
  BY <1>1, Inductive, PTL

\* The swaps of Up, Down, EqUp, Remove and MergeSameSpotElements never put
\* one iterator into two live slots.
THEOREM SlotsStayDistinct == Spec => []OneSlotEach
<1>1. IInv => OneSlotEach
  BY DEF IInv, SlotsOK
<1> QED
  BY <1>1, Inductive, PTL

\* A round never mixes records of different rank and never holds an
\* unreadable one, also where the heap order is lost.
THEOREM RoundsAreOfEquals == Spec => []RoundsOfEquals
<1>1. IInv => RoundsOfEquals
  <2> SUFFICES ASSUME IInv, pc = "emit", NEW a \in Front
               PROVE  Rec(a) = Rec(0) /\ Rec(a) # Bad
    BY DEF RoundsOfEquals
  <2>1. a \in Live /\ ~err
    BY DEF IInv, TypeOK, IndexOK, ReadableOK, Live, Front
  <2> QED
    BY <2>1 DEF IInv, PrefixOK, ReadableOK
<1> QED
  BY <1>1, Inductive, PTL

\* HeapMerge without an error puts every record of every input, in its
\* input's order, into one round of the record's rank: for any number of
\* inputs, sorted or not, it loses and repeats nothing.
THEOREM NothingIsLost == Spec => []NothingLost
<1>1. IInv => NothingLost
  <2> SUFFICES ASSUME IInv, pc = "done", ~err, op = "MergeNext", NEW s \in Sources
               PROVE  merged[s] = data[s]
    BY DEF NothingLost
  <2>1. len = 0 /\ Live = {} /\ Pending = {}
    BY DEF IInv, KeptOK, Live, Pending
  <2>2. pos[s] = Len(data[s]) + 1 \/ (pos[s] = 0 /\ Len(data[s]) = 0)
    BY <2>1 DEF IInv, KeptOK, InHeap
  <2>3. data[s] \in Seq(Int \cup {Bad}) /\ merged[s] \in Seq(Int)
    <3>1. data[s] \in Seq(Int \cup {Bad})
      BY DEF IInv, TypeOK, Sources
    <3>2. merged[s] \in Seq(Int)
      BY DEF IInv, TypeOK
    <3> QED
      BY <3>1, <3>2
  <2>4. Len(merged[s]) = Len(data[s])
    BY <2>1, <2>2, <2>3 DEF IInv, TakenOK, Taken
  <2>5. \A k \in 1..Len(data[s]) : merged[s][k] = data[s][k]
    BY <2>4 DEF IInv, TakenOK
  <2> QED
    BY <2>3, <2>4, <2>5
<1> QED
  BY <1>1, Inductive, PTL
-----------------------------------------------------------------------------
(***************************************************************************)
(* The order of the heap.  Neither Down below a hole nor the repair loop   *)
(* of MergeNext is right in general (eight inputs can come out unsorted),  *)
(* so the invariant says what each of them leaves undone, and for how many *)
(* inputs that is made good: seven for MergeNext, whose repair loop raises *)
(* every slot past the front, five for IntersectNext, which has none.      *)
(***************************************************************************)

\* The records of the live slots.
Keys == [a \in Live |-> Rec(a)]

\* In k[0..n-1] no slot before m is less than its parent,
Heaped(k, m) == \A a \in 1..(m - 1) : k[Parent(a)] <= k[a]
\* but for slot x, on its way up.
Rising(k, m, x) ==
  /\ \A a \in 1..(m - 1) : a # x => k[Parent(a)] <= k[a]
  /\ x # 0 => \A a \in 1..(m - 1) : Parent(a) = x => k[Parent(x)] <= k[a]

InScope(a) == a < eqs \/ eqs = 1 \/ Len(data) <= 5

Settled(k, n) ==
  \A a \in 1..(len - 1) : Parent(a) >= n /\ InScope(Parent(a)) => k[Parent(a)] <= k[a]
FrontHeaped(k) == \A a \in 1..(len - 1) : InScope(a) => k[Parent(a)] <= k[a]

Sinking(k, n, x) ==
  /\ n > 0 \/ x = 0 =>
       /\ x = n \/ x >= 3
       /\ \A a \in 1..(len - 1) :
            Parent(a) >= n /\ InScope(Parent(a)) /\ Parent(a) # x => k[Parent(a)] <= k[a]
  /\ n = 0 /\ x # 0 =>
       /\ \A a \in 1..(len - 1) : InScope(a) /\ Parent(a) # x => k[Parent(a)] <= k[a]
       /\ InScope(x) /\ x < 3 => \A a \in 1..(len - 1) : Parent(a) = x => k[0] <= k[a]

UpOK ==
  /\ pc \in {"heapize", "loop"} => Heaped(Keys, len)
  /\ pc = "heapizeUp" => Rising(Keys, len, c)
  /\ pc = "repair" => \A a \in Live : a < i /\ a # 0 => Keys[Parent(a)] <= Keys[a]
  /\ pc = "repairUp" => c < i /\ i <= len /\ Rising(Keys, i, c)
DownOK ==
  /\ pc \in {"nextK", "down"} => eqs >= 1
  /\ pc = "nextK" => IF i = -1 THEN FrontHeaped(Keys) ELSE Settled(Keys, i + 1)
  /\ pc = "down" => Sinking(Keys, i, c)
EqOK ==
  /\ pc \in {"eqUp", "emit"} =>
       /\ \A a \in Live : Keys[0] <= Keys[a]
       /\ eqs = 1 => Heaped(Keys, len)
  /\ pc = "eqUp" =>
       /\ \A j, k \in 1..Len(q) : j < k => q[j] < q[k]
       /\ \A k \in 1..Len(q) : q[k] <= 2 * q[1]
       /\ \A a \in Live : a >= eqs /\ Keys[a] = Keys[0] =>
            \/ \E k \in 1..Len(q) : q[k] = a
            \/ Parent(a) >= eqs /\ Keys[Parent(a)] = Keys[0]
  /\ pc = "emit" => \A a \in Live : Keys[a] = Keys[0] => a \in Front

Fits == Len(data) <= IF op = "MergeNext" THEN 7 ELSE 5
OrderOK == Fits /\ ~err => UpOK /\ DownOK /\ EqOK

\* A parent is a lesser slot, and has two children.
LEMMA ParentFacts ==
  ASSUME NEW a \in Nat
  PROVE  /\ Parent(a) \in Nat
         /\ a # 0 => Parent(a) < a
         /\ \A b \in Nat : b # 0 /\ Parent(b) = a <=> b \in {2 * a + 1, 2 * a + 2}
  BY DEF Parent

\* Without an error the live slots stand at integers.
LEMMA KeysFacts ==
  ASSUME IInv, ~err
  PROVE  /\ len \in Nat /\ Live = 0..(len - 1) /\ len <= Len(data) /\ Len(data) \in Nat
         /\ \A a \in Live : a \in Nat /\ Keys[a] = Rec(a) /\ Rec(a) \in Int
         /\ Keys \in [0..(len - 1) -> Int]
<1>1. len \in Nat /\ Live = 0..(len - 1) /\ len <= Len(data) /\ Len(data) \in Nat
  BY DEF IInv, TypeOK, Live
<1>2. \A a \in Live : a \in Nat /\ Rec(a) \in Int
  BY <1>1, LiveFacts DEF IInv, ReadableOK
<1> QED
  BY <1>1, <1>2 DEF Keys

\* A swap of slots swaps their records.
LEMMA KeysSwapped ==
  ASSUME IInv, ~err, NEW a \in Live, NEW b \in Live,
         data' = data, pos' = pos, len' = len, ih' = Swapped(a, b)
  PROVE  Keys' = [Keys EXCEPT ![a] = Keys[b], ![b] = Keys[a]]
<1>1. /\ ih'[a] = ih[b] /\ ih'[b] = ih[a]
      /\ \A x \in Live : x \notin {a, b} => ih'[x] = ih[x]
  BY SwapFacts DEF IInv
<1>2. Live' = Live
  BY DEF Live
<1>3. Keys' = [x \in Live |-> data[ih'[x]][pos[ih'[x]]]]
  BY <1>2 DEF Keys, Rec
<1> QED
  BY <1>1, <1>3 DEF Keys, Rec

\* A step that moves nothing leaves the records alone.
LEMMA KeysSame ==
  ASSUME data' = data, pos' = pos, len' = len, ih' = ih
  PROVE  Keys' = Keys /\ Live' = Live
  BY DEF Keys, Rec, Live

\* A slot less than its parent changes places with it.
LEMMA Rises ==
  ASSUME NEW n \in Nat, NEW m \in 0..n, NEW k \in [0..(n - 1) -> Int],
         NEW x \in 0..(m - 1), Parent(x) # x, k[x] < k[Parent(x)], Rising(k, m, x),
         NEW l, l = [k EXCEPT ![x] = k[Parent(x)], ![Parent(x)] = k[x]]
  PROVE  Rising(l, m, Parent(x))
<1> DEFINE p == Parent(x)
<1>1. x # 0 /\ p \in 0..(m - 1) /\ p < x /\ p # x
  BY ParentFacts DEF Parent
<1>2. l[x] = k[p] /\ l[p] = k[x] /\ \A a \in 0..(m - 1) : a \notin {x, p} => l[a] = k[a]
  BY <1>1
<1>3. ASSUME NEW a \in 1..(m - 1) PROVE Parent(a) \in 0..(m - 1) /\ Parent(a) < a
  <2>1. a \in Nat /\ a # 0 /\ a <= m - 1
    OBVIOUS
  <2>2. Parent(a) \in Nat /\ Parent(a) < a
    BY <2>1, ParentFacts
  <2> QED
    BY <2>1, <2>2
<1>4. \A a \in 0..(m - 1) : k[a] \in Int
  OBVIOUS
<1>p. p = Parent(x)
  OBVIOUS
<1> HIDE DEF p
<1>5. ASSUME NEW a \in 1..(m - 1), a # p PROVE l[Parent(a)] <= l[a]
  <2>1. CASE a = x
    BY <2>1, <1>1, <1>2, <1>3, <1>p, <1>4
  <2>2. CASE a # x /\ Parent(a) = x
    BY <2>2, <1>1, <1>2, <1>3, <1>5, <1>p DEF Rising
  <2>3. CASE a # x /\ Parent(a) = p
    <3>1. k[p] <= k[a]
      BY <1>3, <2>3 DEF Rising
    <3> QED
      BY <2>3, <3>1, <1>1, <1>2, <1>3, <1>4, <1>5, <1>p
  <2>4. CASE a # x /\ Parent(a) \notin {x, p}
    BY <2>4, <1>1, <1>2, <1>3, <1>5 DEF Rising
  <2> QED
    BY <2>1, <2>2, <2>3, <2>4
<1>6. ASSUME p # 0, NEW a \in 1..(m - 1), Parent(a) = p PROVE l[Parent(p)] <= l[a]
  <2>1. Parent(p) \in 0..(m - 1) /\ Parent(p) < p /\ k[Parent(p)] <= k[p]
    BY <1>1, <1>3, <1>6 DEF Rising
  <2>2. l[Parent(p)] = k[Parent(p)]
    BY <1>1, <1>2, <1>3, <2>1
  <2>3. CASE a = x
    BY <1>2, <2>1, <2>2, <2>3
  <2>4. CASE a # x
    <3>1. k[p] <= k[a] /\ l[a] = k[a]
      BY <1>2, <1>3, <1>6, <2>4 DEF Rising
    <3> QED
      BY <1>1, <1>4, <2>1, <2>2, <3>1
  <2> QED
    BY <2>3, <2>4
<1> QED
  BY <1>5, <1>6, <1>p DEF Rising

\* One that is not less than its parent is where it belongs.
LEMMA Risen ==
  ASSUME NEW k, NEW m \in Nat, NEW x \in 0..(m - 1), Rising(k, m, x),
         x = 0 \/ k[Parent(x)] <= k[x]
  PROVE  Heaped(k, m)
  BY DEF Rising, Heaped

\* An empty input changes nothing.
LEMMA HeapizeSkipOrders == IInv /\ OrderOK /\ HeapizeSkip => OrderOK'
<1> SUFFICES ASSUME IInv, OrderOK, HeapizeSkip, (Fits /\ ~err)' PROVE (UpOK /\ DownOK /\ EqOK)'
  BY DEF OrderOK
<1>1. Keys' = Keys /\ Fits /\ ~err /\ len' = len
  BY KeysSame DEF HeapizeSkip, Fits
<1> QED
  BY <1>1 DEF HeapizeSkip, OrderOK, UpOK, DownOK, EqOK

\* The new iterator starts to rise from the last slot.
LEMMA HeapizeAddOrders == IInv /\ OrderOK /\ HeapizeAdd => OrderOK'
<1> SUFFICES ASSUME IInv, OrderOK, HeapizeAdd, (Fits /\ ~err)' PROVE (UpOK /\ DownOK /\ EqOK)'
  BY DEF OrderOK
<1>1. Fits /\ ~err
  BY DEF HeapizeAdd, Fits
<1>2. /\ len \in Nat /\ Live = 0..(len - 1) /\ len < i /\ i \in 1..Len(data)
      /\ ih \in [Slots -> 0..Len(data)] /\ pos \in [Sources -> Nat]
      /\ \A a \in Live : a \in Slots /\ ih[a] \in Sources /\ ih[a] < i /\ ih[a] # i
  <2>1. /\ len \in Nat /\ Live = 0..(len - 1) /\ len < i /\ i \in 1..Len(data)
        /\ ih \in [Slots -> 0..Len(data)] /\ pos \in [Sources -> Nat]
    BY <1>1, KeysFacts DEF IInv, TypeOK, IndexOK, HeapizeAdd, Sources
  <2>2. \A a \in Live : a \in Slots /\ ih[a] \in Sources /\ ih[a] \in Int /\ ih[a] < i
    BY LiveFacts DEF IInv, IndexOK, HeapizeAdd, Sources
  <2> QED
    BY <2>1, <2>2
<1>3. \A a \in 0..(len - 1) : Keys'[a] = Keys[a]
  <2>1. ASSUME NEW a \in 0..(len - 1) PROVE ih'[a] = ih[a] /\ pos'[ih[a]] = pos[ih[a]]
    BY <1>2 DEF HeapizeAdd
  <2>2. \A a \in 0..(len - 1) : a \in Live /\ a \in Live'
    BY <1>2 DEF Live, HeapizeAdd
  <2> QED
    BY <2>1, <2>2 DEF Keys, Rec, HeapizeAdd
<1>4. Heaped(Keys, len)
  BY <1>1 DEF OrderOK, UpOK, HeapizeAdd
<1>5. Rising(Keys', len + 1, len)
  <2>1. \A a \in 1..len : a # len => a \in 1..(len - 1)
    BY <1>2
  <2>2. \A a \in 1..len : Parent(a) \in 0..(len - 1) /\ Parent(a) # len
    BY <1>2 DEF Parent
  <2>3. PICK k, l, n : k = Keys /\ l = Keys' /\ n = len
    OBVIOUS
  <2>4. ASSUME NEW a \in 1..n, a # n PROVE l[Parent(a)] <= l[a]
    <3>1. a \in 1..(n - 1) /\ a \in 0..(n - 1) /\ Parent(a) \in 0..(n - 1)
      BY <1>2, <2>2, <2>3, <2>4
    <3>2. k[Parent(a)] <= k[a]
      BY <1>4, <2>3, <3>1 DEF Heaped
    <3> QED
      BY <1>3, <2>3, <3>1, <3>2
  <2> QED
    BY <2>2, <2>3, <2>4, <1>2 DEF Rising
<1> QED
  BY <1>5 DEF HeapizeAdd, UpOK, DownOK, EqOK

\* Heapize leaves a heap.
LEMMA HeapizeEndOrders == IInv /\ OrderOK /\ HeapizeEnd => OrderOK'
<1> SUFFICES ASSUME IInv, OrderOK, HeapizeEnd, (Fits /\ ~err)' PROVE (UpOK /\ DownOK /\ EqOK)'
  BY DEF OrderOK
<1>1. Keys' = Keys /\ Fits /\ ~err /\ len' = len
  BY KeysSame DEF HeapizeEnd, Fits
<1> QED
  BY <1>1 DEF HeapizeEnd, OrderOK, UpOK, DownOK, EqOK

\* One step of Up.
LEMMA UpSwapOrders == IInv /\ OrderOK /\ UpSwap => OrderOK'
<1> SUFFICES ASSUME IInv, OrderOK, UpSwap, (Fits /\ ~err)' PROVE (UpOK /\ DownOK /\ EqOK)'
  BY DEF OrderOK
<1>1. Fits /\ ~err
  BY DEF UpSwap, Fits
<1>2. c \in Live /\ Parent(c) \in Live /\ Parent(c) # c /\ c \in Nat
  <2>1. c \in Live /\ c \in Nat /\ Parent(c) # c
    BY DEF IInv, TypeOK, IndexOK, UpSwap
  <2> QED
    BY <1>1, <2>1, KeysFacts DEF Parent
<1>3. Keys[c] < Keys[Parent(c)]
  BY <1>1, <1>2, KeysFacts DEF UpSwap, MayBeLess, Positioned, Failed, IInv, ReadableOK
<1>4. Keys' = [Keys EXCEPT ![c] = Keys[Parent(c)], ![Parent(c)] = Keys[c]]
  BY <1>1, <1>2, KeysSwapped DEF UpSwap
<1>5. len \in Nat /\ len \in 0..len /\ c \in 0..(len - 1) /\ Keys \in [0..(len - 1) -> Int]
  BY <1>1, <1>2, KeysFacts
<1>6. CASE pc = "heapizeUp"
  <2>1. Rising(Keys, len, c)
    BY <1>1, <1>6 DEF OrderOK, UpOK
  <2>2. Rising(Keys', len, Parent(c))
    BY <1>1, <1>2, <1>3, <1>4, <1>5, <2>1, Rises
  <2> QED
    BY <1>6, <2>2 DEF UpSwap, UpOK, DownOK, EqOK
<1>7. CASE pc = "repairUp"
  <2>1. c < i /\ i <= len /\ Rising(Keys, i, c) /\ i \in 0..len /\ c \in 0..(i - 1)
    BY <1>1, <1>2, <1>5, <1>7 DEF OrderOK, UpOK, IInv, TypeOK
  <2>2. Rising(Keys', i, Parent(c))
    BY <1>1, <1>2, <1>3, <1>4, <1>5, <2>1, Rises
  <2>3. Parent(c) < i
    BY <1>2, <2>1, ParentFacts DEF Parent
  <2> QED
    BY <1>7, <2>1, <2>2, <2>3 DEF UpSwap, UpOK, DownOK, EqOK
<1> QED
  BY <1>6, <1>7 DEF UpSwap

\* The end of Up.
LEMMA UpBreakOrders == IInv /\ OrderOK /\ UpBreak => OrderOK'
<1> SUFFICES ASSUME IInv, OrderOK, UpBreak, (Fits /\ ~err)' PROVE (UpOK /\ DownOK /\ EqOK)'
  BY DEF OrderOK
<1>1. Fits /\ ~err /\ Keys' = Keys /\ Live' = Live /\ len' = len /\ i' = i
  BY KeysSame DEF UpBreak, Fits
<1>2. c \in Live /\ Parent(c) \in Live /\ c \in Nat /\ len \in Nat /\ Live = 0..(len - 1)
  <2>1. c \in Live /\ c \in Nat /\ len \in Nat /\ Live = 0..(len - 1)
    BY <1>1, KeysFacts DEF IInv, IndexOK, UpBreak
  <2>2. Parent(c) \in Nat /\ Parent(c) <= c
    BY <2>1 DEF Parent
  <2> QED
    BY <2>1, <2>2
<1>3. c = 0 \/ Keys[Parent(c)] <= Keys[c]
  <2>1. Parent(c) = c => c = 0
    BY <1>2, ParentFacts
  <2> QED
    BY <1>1, <1>2, <2>1, KeysFacts DEF UpBreak, MayBeGeq, Positioned, Failed, IInv, ReadableOK
<1>4. CASE pc = "heapizeUp"
  <2>1. Heaped(Keys, len)
    BY <1>1, <1>2, <1>3, <1>4, Risen DEF OrderOK, UpOK
  <2> QED
    BY <1>1, <1>4, <2>1 DEF UpBreak, UpOK, DownOK, EqOK
<1>5. CASE pc = "repairUp"
  <2>1. c < i /\ i <= len /\ Rising(Keys, i, c) /\ i \in Nat
    BY <1>1, <1>2, <1>5 DEF OrderOK, UpOK, IInv, TypeOK
  <2>2. Heaped(Keys, i)
    BY <1>2, <1>3, <2>1, Risen
  <2> QED
    BY <1>1, <1>2, <1>5, <2>1, <2>2 DEF UpBreak, UpOK, DownOK, EqOK, Heaped
<1> QED
  BY <1>4, <1>5 DEF UpBreak

\* The repair loop of MergeNext takes the next slot.
LEMMA RepairUpOrders == IInv /\ OrderOK /\ RepairUp => OrderOK'
<1> SUFFICES ASSUME IInv, OrderOK, RepairUp, (Fits /\ ~err)' PROVE (UpOK /\ DownOK /\ EqOK)'
  BY DEF OrderOK
<1>1. Fits /\ ~err /\ Keys' = Keys /\ len' = len
  BY KeysSame DEF RepairUp, Fits
<1>2. i \in Nat /\ i < len /\ len \in Nat /\ Live = 0..(len - 1) /\ c' = i /\ i' = i + 1
  BY <1>1, KeysFacts DEF RepairUp, IInv, IndexOK, TypeOK
<1>3. \A a \in Live : a < i /\ a # 0 => Keys[Parent(a)] <= Keys[a]
  BY <1>1 DEF RepairUp, OrderOK, UpOK
<1>4. Rising(Keys, i + 1, i)
  <2>1. \A a \in 1..i : Parent(a) # i
    BY <1>2, ParentFacts
  <2> QED
    BY <1>2, <1>3, <2>1 DEF Rising
<1> QED
  BY <1>1, <1>2, <1>4 DEF RepairUp, UpOK, DownOK, EqOK

\* Having taken all, it leaves a heap.
LEMMA RepairEndOrders == IInv /\ OrderOK /\ RepairEnd => OrderOK'
<1> SUFFICES ASSUME IInv, OrderOK, RepairEnd, (Fits /\ ~err)' PROVE (UpOK /\ DownOK /\ EqOK)'
  BY DEF OrderOK
<1>1. Fits /\ ~err /\ Keys' = Keys /\ len' = len
  BY KeysSame DEF RepairEnd, Fits
<1>2. i >= len /\ len \in Nat /\ Live = 0..(len - 1) /\ i \in Nat
  BY <1>1, KeysFacts DEF RepairEnd, IInv, IndexOK, TypeOK
<1>3. Heaped(Keys, len)
  BY <1>1, <1>2 DEF RepairEnd, OrderOK, UpOK, Heaped
<1> QED
  BY <1>1, <1>3 DEF RepairEnd, UpOK, DownOK, EqOK

\* The front being a heap, Up is called on all other slots in turn.
LEMMA MergeNextRepairsOrders == IInv /\ OrderOK /\ MergeNextRepairs => OrderOK'
<1> SUFFICES ASSUME IInv, OrderOK, MergeNextRepairs, (Fits /\ ~err)' PROVE (UpOK /\ DownOK /\ EqOK)'
  BY DEF OrderOK
<1>1. Fits /\ ~err /\ Keys' = Keys /\ len' = len /\ Live' = Live
  BY KeysSame DEF MergeNextRepairs, Fits
<1>2. len \in Nat /\ Live = 0..(len - 1) /\ eqs \in Nat /\ eqs >= 1
  BY <1>1, KeysFacts DEF IInv, TypeOK, MergeNextRepairs, OrderOK, DownOK
<1>3. FrontHeaped(Keys)
  BY <1>1 DEF MergeNextRepairs, OrderOK, DownOK
<1>4. CASE eqs > 1
  <2>1. \A a \in Live : a < eqs /\ a # 0 => Keys[Parent(a)] <= Keys[a]
    BY <1>2, <1>3 DEF FrontHeaped, InScope
  <2> QED
    BY <1>1, <1>4, <2>1 DEF MergeNextRepairs, UpOK, DownOK, EqOK
<1>5. CASE ~(eqs > 1)
  <2>1. Heaped(Keys, len)
    BY <1>2, <1>3, <1>5 DEF FrontHeaped, InScope, Heaped
  <2> QED
    BY <1>1, <1>5, <2>1 DEF MergeNextRepairs, UpOK, DownOK, EqOK
<1> QED
  BY <1>4, <1>5

\* IntersectNext has no repair loop; up to five inputs need none.
LEMMA IntersectNextReturnsOrders == IInv /\ OrderOK /\ IntersectNextReturns => OrderOK'
<1> SUFFICES ASSUME IInv, OrderOK, IntersectNextReturns, (Fits /\ ~err)'
             PROVE (UpOK /\ DownOK /\ EqOK)'
  BY DEF OrderOK
<1>1. Fits /\ ~err /\ len \in Nat /\ len' \in {0, len}
  BY KeysFacts DEF IntersectNextReturns, Fits
<1>2. Heaped(Keys, len)
  <2>1. Len(data) <= 5 /\ FrontHeaped(Keys)
    BY <1>1 DEF IntersectNextReturns, OrderOK, DownOK, Fits
  <2> QED
    BY <1>1, <2>1 DEF FrontHeaped, InScope, Heaped
<1>3. Heaped(Keys', len')
  <2>1. CASE len' = 0
    BY <2>1 DEF Heaped
  <2>2. CASE len' = len
    BY <1>2, <2>2, KeysSame DEF IntersectNextReturns
  <2> QED
    BY <1>1, <2>1, <2>2
<1> QED
  BY <1>3 DEF IntersectNextReturns, UpOK, DownOK, EqOK

\* NextK, Down: the slots from the last of the front to the root.
LEMMA NextKReadOrders == IInv /\ OrderOK /\ NextKRead => OrderOK'
<1> SUFFICES ASSUME IInv, OrderOK, NextKRead, (Fits /\ ~err)' PROVE (UpOK /\ DownOK /\ EqOK)'
  BY DEF OrderOK
<1>1. Fits /\ ~err /\ len' = len /\ i' = i /\ c' = i /\ data' = data /\ eqs' = eqs
  BY DEF NextKRead, Fits
<1>2. /\ len \in Nat /\ i \in Nat /\ i \in Live /\ Live = 0..(len - 1)
      /\ \A a \in Live \ {i} : pos'[ih[a]] = pos[ih[a]]
  <2>1. PICK n \in Live, s \in Sources :
           /\ n = i /\ s = ih[n] /\ n \in Nat
           /\ \A t \in Sources \ {s} : pos'[t] = pos[t]
           /\ \A a \in Live \ {n} : ih[a] \in Sources \ {s}
    BY AdvanceFacts DEF NextKRead
  <2> QED
    BY <1>1, <2>1, KeysFacts
<1>3. \A a \in Live : a # i => Keys'[a] = Keys[a]
  BY <1>1, <1>2 DEF Keys, Live, Rec, NextKRead
<1>4. Settled(Keys, i + 1) /\ eqs >= 1
  BY <1>1, <1>2 DEF NextKRead, OrderOK, DownOK
<1>5. ASSUME NEW a \in 1..(len - 1), Parent(a) >= i, InScope(Parent(a)), Parent(a) # i
      PROVE  Keys'[Parent(a)] <= Keys'[a]
  <2>a. a \in Nat /\ a # 0 /\ a <= len - 1
    BY <1>2, <1>5
  <2>b. Parent(a) \in Nat /\ Parent(a) < a
    BY <2>a, ParentFacts
  <2>1. a \in Live /\ Parent(a) \in Live /\ a # i /\ Parent(a) >= i + 1
    BY <1>2, <1>5, <2>a, <2>b
  <2> QED
    BY <1>2, <1>3, <1>4, <1>5, <2>1 DEF Settled
<1>6. \A a : InScope(a)' <=> InScope(a)
  BY <1>1 DEF InScope
<1>7. Sinking(Keys, i, i)'
  BY <1>1, <1>2, <1>5, <1>6 DEF Sinking
<1> QED
  BY <1>1, <1>4, <1>7 DEF NextKRead, UpOK, DownOK, EqOK

\* The last slot fills the gap and is sunk from there.
LEMMA NextKRemoveOrders == IInv /\ OrderOK /\ NextKRemove => OrderOK'
<1> SUFFICES ASSUME IInv, OrderOK, NextKRemove, (Fits /\ ~err)' PROVE (UpOK /\ DownOK /\ EqOK)'
  BY DEF OrderOK
<1>1. Fits /\ ~err /\ len' = len - 1 /\ data' = data /\ eqs' = eqs
  BY DEF NextKRemove, Fits
<1>2. /\ len \in Nat /\ i \in Nat /\ i \in Live /\ Live = 0..(len - 1) /\ Live' = 0..(len - 2)
      /\ \A a \in Live \ {i} : pos'[ih[a]] = pos[ih[a]]
      /\ \A a \in Live : a \in Slots
  <2>1. PICK n \in Live, s \in Sources :
           /\ n = i /\ s = ih[n] /\ n \in Nat
           /\ \A t \in Sources \ {s} : pos'[t] = pos[t]
           /\ \A a \in Live \ {n} : ih[a] \in Sources \ {s}
           /\ \A a \in Live : a \in Slots
    BY AdvanceFacts DEF NextKRemove
  <2>2. Live' = 0..(len - 2)
    BY <1>1, KeysFacts DEF Live
  <2> QED
    BY <1>1, <2>1, <2>2, KeysFacts
<1>3. \A a \in Live' : a # i => Keys'[a] = Keys[a]
  <2>1. ih \in [Slots -> 0..Len(data)]
    BY DEF IInv, TypeOK
  <2>2. ASSUME NEW a \in Live', a # i PROVE ih'[a] = ih[a] /\ a \in Live \ {i}
    <3>1. a \in Live /\ a # len - 1
      BY <1>2, <2>2
    <3> QED
      BY <1>2, <2>1, <2>2, <3>1 DEF NextKRemove, Swapped
  <2> QED
    BY <1>1, <1>2, <2>2 DEF Keys, Rec
<1>4. Settled(Keys, i + 1) /\ eqs >= 1
  BY <1>1, <1>2 DEF NextKRemove, OrderOK, DownOK
<1>6. \A a : InScope(a)' <=> InScope(a)
  BY <1>1 DEF InScope
<1>8. CASE i < len - 1
  <2>1. ASSUME NEW a \in 1..(len - 2), Parent(a) >= i, InScope(Parent(a)), Parent(a) # i
        PROVE  Keys'[Parent(a)] <= Keys'[a]
    <3>a. a \in Nat /\ a # 0 /\ a <= len - 2
      BY <1>2, <2>1
    <3>b. Parent(a) \in Nat /\ Parent(a) < a
      BY <3>a, ParentFacts
    <3>1. a \in Live' /\ Parent(a) \in Live' /\ a # i /\ Parent(a) >= i + 1 /\ a \in 1..(len - 1)
      BY <1>2, <2>1, <3>a, <3>b
    <3> QED
      BY <1>2, <1>3, <1>4, <2>1, <3>1 DEF Settled
  <2>2. Sinking(Keys, i, i)'
    BY <1>1, <1>2, <1>6, <1>8, <2>1 DEF Sinking, NextKRemove
  <2> QED
    BY <1>1, <1>4, <1>8, <2>2 DEF NextKRemove, UpOK, DownOK, EqOK
<1>9. CASE ~(i < len - 1)
  <2>1. i = len - 1 /\ i' = i - 1 /\ pc' = "nextK"
    BY <1>2, <1>9 DEF NextKRemove
  <2>2. \A a \in 1..(len' - 1) : Parent(a) < i
    BY <1>1, <1>2, <2>1, ParentFacts
  <2>3. i' = -1 => FrontHeaped(Keys)'
    BY <1>1, <2>1 DEF FrontHeaped
  <2>4. Settled(Keys, i + 1)'
    BY <1>1, <1>2, <2>1, <2>2, ParentFacts DEF Settled
  <2> QED
    BY <1>1, <1>4, <2>1, <2>3, <2>4 DEF UpOK, DownOK, EqOK
<1> QED
  BY <1>8, <1>9

\* What Down compares a slot with.
LEMMA ChildFacts ==
  ASSUME IInv, OrderOK, ~err, Fits, pc = "down"
  PROVE  /\ c \in 0..(len - 1) /\ i \in 0..(len - 1) /\ c >= i /\ len \in 0..7
         /\ Sinking(Keys, i, c)
         /\ DownMoves => \E d \in {2 * c + 1, 2 * c + 2} :
              /\ d = LesserChild(c) /\ d < len /\ Keys[d] < Keys[c]
              /\ \A a \in 1..(len - 1) : Parent(a) = c => Keys[d] <= Keys[a]
         /\ ~DownMoves => \A a \in 1..(len - 1) : Parent(a) = c => Keys[c] <= Keys[a]
<1>1. /\ c \in 0..(len - 1) /\ i \in 0..(len - 1) /\ c >= i /\ len \in Nat
      /\ Live = 0..(len - 1)
  BY KeysFacts DEF IInv, IndexOK
<1>2. len \in 0..7
  BY <1>1, KeysFacts DEF Fits
<1>3. Sinking(Keys, i, c)
  BY DEF OrderOK, DownOK
<1>4. \A a \in 1..(len - 1) : Parent(a) = c => a \in {2 * c + 1, 2 * c + 2}
  BY <1>1 DEF Parent
<1>5. \A a \in 0..(len - 1) : Keys[a] = Rec(a) /\ Keys[a] \in Int
  BY <1>1, KeysFacts
<1>6. ASSUME DownMoves
      PROVE  \E d \in {2 * c + 1, 2 * c + 2} :
              /\ d = LesserChild(c) /\ d < len /\ Keys[d] < Keys[c]
              /\ \A a \in 1..(len - 1) : Parent(a) = c => Keys[d] <= Keys[a]
  <2>1. /\ LesserChild(c) \in {2 * c + 1, 2 * c + 2} /\ LesserChild(c) \in 0..(len - 1)
        /\ \A a \in {2 * c + 1, 2 * c + 2} : a < len => Keys[LesserChild(c)] <= Keys[a]
    BY <1>1, <1>5, <1>6 DEF DownMoves, LesserChild, Left
  <2>2. Keys[LesserChild(c)] < Keys[c]
    BY <1>1, <1>5, <1>6, <2>1 DEF DownMoves
  <2> QED
    BY <1>1, <1>4, <2>1, <2>2
<1>7. ASSUME ~DownMoves, NEW a \in 1..(len - 1), Parent(a) = c PROVE Keys[c] <= Keys[a]
  <2>1. a \in {2 * c + 1, 2 * c + 2} /\ a < len /\ a \in Nat /\ c \in Nat
    BY <1>1, <1>4, <1>7
  <2>2. 2 * c + 1 < len /\ Left(c) = 2 * c + 1
    BY <1>1, <2>1 DEF Left
  <2>3. 2 * c + 1 \in 0..(len - 1) /\ a \in 0..(len - 1) /\ c \in 0..(len - 1)
    BY <1>1, <2>1, <2>2
  <2>4. Rec(2 * c + 1) \in Int /\ Rec(a) \in Int /\ Rec(c) \in Int
    BY <1>5, <2>3
  <2>5. ~(Rec(LesserChild(c)) < Rec(c))
    BY <1>7, <2>2 DEF DownMoves
  <2>6. CASE a = 2 * c + 2
    <3>1. 2 * c + 1 + 1 = a
      BY <2>1, <2>6
    <3>2. LesserChild(c) = IF Rec(a) < Rec(2 * c + 1) THEN a ELSE 2 * c + 1
      BY <2>1, <2>2, <3>1 DEF LesserChild
    <3>3. Rec(c) <= Rec(a)
      BY <2>4, <2>5, <3>2
    <3> QED
      BY <1>5, <2>3, <3>3
  <2>7. CASE a = 2 * c + 1
    <3>1. CASE LesserChild(c) = a
      <4>1. Rec(c) <= Rec(a)
        BY <2>4, <2>5, <3>1
      <4> QED
        BY <1>5, <2>3, <4>1
    <3>2. CASE LesserChild(c) # a
      <4>1. LesserChild(c) = 2 * c + 1 + 1 /\ 2 * c + 1 + 1 < len /\ Rec(2 * c + 1 + 1) < Rec(a)
        BY <2>2, <2>7, <3>2 DEF LesserChild
      <4>2. 2 * c + 1 + 1 \in 0..(len - 1)
        BY <1>1, <2>1, <4>1
      <4>3. Rec(2 * c + 1 + 1) \in Int
        BY <1>5, <4>2
      <4>4. Rec(c) <= Rec(a)
        BY <2>4, <2>5, <4>1, <4>3
      <4> QED
        BY <1>5, <2>3, <4>4
    <3> QED
      BY <3>1, <3>2
  <2> QED
    BY <2>1, <2>6, <2>7
<1> QED
  BY <1>1, <1>2, <1>3, <1>6, <1>7

\* The end of Down.
LEMMA DownBreakOrders == IInv /\ OrderOK /\ DownBreak => OrderOK'
<1> SUFFICES ASSUME IInv, OrderOK, DownBreak, (Fits /\ ~err)' PROVE (UpOK /\ DownOK /\ EqOK)'
  BY DEF OrderOK
<1>1. /\ Fits /\ ~err /\ pc = "down" /\ ~DownMoves
      /\ Keys' = Keys /\ len' = len /\ eqs' = eqs /\ i' = i - 1 /\ pc' = "nextK"
      /\ data' = data
  BY KeysSame DEF DownBreak, Fits
<1>2. /\ c \in 0..(len - 1) /\ i \in 0..(len - 1) /\ c >= i /\ len \in 0..7
      /\ Sinking(Keys, i, c)
      /\ \A a \in 1..(len - 1) : Parent(a) = c => Keys[c] <= Keys[a]
  BY <1>1, ChildFacts
<1>3. \A a : InScope(a)' <=> InScope(a)
  BY <1>1 DEF InScope
<1>4. eqs >= 1 /\ eqs \in Nat
  BY <1>1 DEF OrderOK, DownOK, IInv, TypeOK
<1>5. CASE i > 0
  <2>1. Settled(Keys, i)
    BY <1>2, <1>5 DEF Settled, Sinking
  <2>2. Settled(Keys, i + 1)'
    BY <1>1, <1>2, <1>3, <2>1 DEF Settled
  <2> QED
    BY <1>1, <1>2, <1>4, <1>5, <2>2 DEF UpOK, DownOK, EqOK
<1>6. CASE i = 0
  <2>1. ASSUME NEW a \in 1..(len - 1), InScope(a) PROVE Keys[Parent(a)] <= Keys[a]
    <3>a. a \in Nat /\ a # 0
      BY <1>2, <2>1
    <3>b. Parent(a) \in Nat /\ Parent(a) < a
      BY <3>a, ParentFacts
    <3>1. InScope(Parent(a)) /\ Parent(a) \in Nat
      BY <1>4, <2>1, <3>a, <3>b DEF InScope
    <3> QED
      BY <1>2, <1>6, <2>1, <3>1 DEF Sinking
  <2>2. FrontHeaped(Keys)'
    BY <1>1, <1>3, <2>1 DEF FrontHeaped
  <2> QED
    BY <1>1, <1>4, <1>6, <2>2 DEF UpOK, DownOK, EqOK
<1> QED
  BY <1>2, <1>5, <1>6

\* One step of Down.
LEMMA DownSwapOrders == IInv /\ OrderOK /\ DownSwap => OrderOK'
<1> SUFFICES ASSUME IInv, OrderOK, DownSwap, (Fits /\ ~err)' PROVE (UpOK /\ DownOK /\ EqOK)'
  BY DEF OrderOK
<1>1. /\ Fits /\ ~err /\ pc = "down" /\ DownMoves
      /\ len' = len /\ eqs' = eqs /\ i' = i /\ pc' = "down" /\ data' = data
  BY DEF DownSwap, Fits
<1>2. /\ c \in 0..(len - 1) /\ i \in 0..(len - 1) /\ c >= i /\ len \in 0..7
      /\ Sinking(Keys, i, c)
  BY <1>1, ChildFacts
<1>3. PICK d \in {2 * c + 1, 2 * c + 2} :
              /\ d = LesserChild(c) /\ d < len /\ Keys[d] < Keys[c]
              /\ \A a \in 1..(len - 1) : Parent(a) = c => Keys[d] <= Keys[a]
  BY <1>1, ChildFacts
<1>4. /\ c \in Live /\ d \in Live /\ d \in 0..(len - 1)
      /\ \A a \in 0..(len - 1) : Keys[a] \in Int
      /\ Keys \in [0..(len - 1) -> Int]
  BY <1>1, <1>2, <1>3, KeysFacts
<1>5. Keys' = [Keys EXCEPT ![c] = Keys[d], ![d] = Keys[c]]
  BY <1>1, <1>3, <1>4, KeysSwapped DEF DownSwap
<1>6. c' = d /\ eqs >= 1 /\ eqs \in Nat
  BY <1>1, <1>3 DEF DownSwap, OrderOK, DownOK, IInv, TypeOK
<1>7. \A a : InScope(a)' <=> InScope(a)
  BY <1>1 DEF InScope
<1>k. PICK k, l, n : k = Keys /\ l = Keys' /\ n = len
  OBVIOUS
<1>8. /\ n \in 0..7 /\ c \in 0..(n - 1) /\ d \in 0..(n - 1) /\ Parent(d) = c /\ d > c
      /\ l[c] = k[d] /\ l[d] = k[c] /\ k[d] < k[c]
      /\ \A a \in 0..(n - 1) : k[a] \in Int /\ (a \notin {c, d} => l[a] = k[a])
      /\ \A a \in 1..(n - 1) : Parent(a) \in 0..(n - 1) /\ Parent(a) < a
      /\ \A a \in 1..(n - 1) : Parent(a) = c => k[d] <= k[a]
  <2>1. \A a \in 1..(len - 1) : Parent(a) \in 0..(len - 1) /\ Parent(a) < a
    BY <1>2, ParentFacts
  <2>2. Parent(d) = c /\ d > c
    BY <1>2, <1>3 DEF Parent
  <2> QED
    BY <1>2, <1>3, <1>4, <1>5, <1>k, <2>1, <2>2
\* what the slot that moved up is to its children
<1>9. ASSUME NEW a \in 1..(n - 1), Parent(a) = c PROVE l[c] <= l[a]
  BY <1>8, <1>9
<1>10. CASE i > 0
  <2>1. c = i /\ d >= 3
    BY <1>2, <1>3, <1>10 DEF Sinking
  <2>2. ASSUME NEW a \in 1..(n - 1), Parent(a) >= i, InScope(Parent(a)), Parent(a) # d
        PROVE  l[Parent(a)] <= l[a]
    <3>1. CASE Parent(a) = c
      BY <1>9, <3>1
    <3>2. CASE Parent(a) # c
      <4>1. a \notin {c, d} /\ Parent(a) \notin {c, d}
        BY <1>8, <2>1, <2>2, <3>2
      <4>2. k[Parent(a)] <= k[a]
        BY <1>2, <1>10, <1>k, <2>2, <3>2 DEF Sinking
      <4> QED
        BY <1>8, <4>1, <4>2
    <3> QED
      BY <3>1, <3>2
  <2>3. Sinking(Keys, i, c)'
    BY <1>1, <1>6, <1>7, <1>10, <1>k, <2>1, <2>2 DEF Sinking
  <2> QED
    BY <1>1, <1>6, <2>3 DEF UpOK, DownOK, EqOK
<1>11. CASE i = 0
  <2>1. ASSUME NEW a \in 1..(n - 1), InScope(a), Parent(a) # d PROVE l[Parent(a)] <= l[a]
    <3>1. CASE Parent(a) = c
      BY <1>9, <3>1
    <3>2. CASE Parent(a) # c /\ a # c
      <4>1. a # d /\ Parent(a) \in Nat /\ InScope(Parent(a))
        BY <1>6, <1>8, <2>1, <3>2 DEF InScope
      <4>2. k[Parent(a)] <= k[a]
        BY <1>2, <1>11, <1>k, <2>1, <3>2, <4>1 DEF Sinking
      <4> QED
        BY <1>8, <2>1, <3>2, <4>1, <4>2
    <3>3. CASE a = c
      <4>1. c < 3 /\ Parent(c) = 0 /\ c # 0 /\ InScope(c)
        BY <1>2, <1>3, <2>1, <3>3 DEF Parent
      <4>2. k[0] <= k[d]
        BY <1>2, <1>8, <1>11, <1>k, <4>1 DEF Sinking
      <4>3. l[0] = k[0]
        BY <1>8, <4>1
      <4> QED
        BY <1>8, <3>3, <4>1, <4>2, <4>3
    <3> QED
      BY <3>1, <3>2, <3>3
  <2>2. ASSUME InScope(d), d < 3, NEW a \in 1..(n - 1), Parent(a) = d PROVE l[0] <= l[a]
    <3>1. c = 0
      BY <1>2, <1>3, <2>2
    <3>2. k[d] <= k[a]
      BY <1>2, <1>8, <1>11, <1>k, <2>2, <3>1 DEF Sinking
    <3> QED
      BY <1>8, <2>2, <3>1, <3>2
  <2>3. Sinking(Keys, i, c)'
    BY <1>1, <1>2, <1>3, <1>6, <1>7, <1>11, <1>k, <2>1, <2>2 DEF Sinking
  <2> QED
    BY <1>1, <1>6, <2>3 DEF UpOK, DownOK, EqOK
<1> QED
  BY <1>2, <1>10, <1>11

\* The root of a heap is its least.
LEMMA RootLeast ==
  ASSUME NEW n \in Nat, NEW k \in [0..(n - 1) -> Int], Heaped(k, n)
  PROVE  \A a \in 0..(n - 1) : k[0] <= k[a]
<1> DEFINE T == {a \in 0..(n - 1) : k[a] < k[0]}
<1>1. SUFFICES ASSUME T # {} PROVE FALSE
  <2> SUFFICES ASSUME NEW a \in 0..(n - 1) PROVE k[0] <= k[a]
    OBVIOUS
  <2>1. a \notin T /\ 0 \in 0..(n - 1) /\ k[0] \in Int /\ k[a] \in Int
    BY <1>1
  <2> QED
    BY <2>1
<1>2. T \subseteq Nat
  OBVIOUS
<1>3. PICK m \in T : \A x \in T : m <= x
  <2> HIDE DEF T
  <2> QED
    BY <1>1, <1>2, LeastNumber
<1>4. m \in 1..(n - 1) /\ m \in Nat /\ k[0] \in Int /\ k[m] < k[0] /\ k[m] \in Int
  OBVIOUS
<1>p. Parent(m) \in Nat /\ Parent(m) < m
  BY <1>4, ParentFacts
<1>5. Parent(m) \in 0..(n - 1) /\ k[Parent(m)] \in Int
  BY <1>4, <1>p
<1>6. k[Parent(m)] <= k[m]
  BY <1>4 DEF Heaped
<1>7. Parent(m) \in T
  BY <1>4, <1>5, <1>6
<1> HIDE DEF T
<1> QED
  BY <1>3, <1>4, <1>p, <1>7

\* EqUp starts from the two children of the root.
LEMMA LoopAgainOrders == IInv /\ OrderOK /\ LoopAgain => OrderOK'
<1> SUFFICES ASSUME IInv, OrderOK, LoopAgain, (Fits /\ ~err)' PROVE (UpOK /\ DownOK /\ EqOK)'
  BY DEF OrderOK
<1>1. Fits /\ ~err /\ Keys' = Keys /\ len' = len /\ Live' = Live
  BY KeysSame DEF LoopAgain, Fits
<1>2. len \in Nat /\ Live = 0..(len - 1) /\ Keys \in [0..(len - 1) -> Int] /\ len > 0
  BY <1>1, KeysFacts DEF LoopAgain, Going
<1>3. Heaped(Keys, len)
  BY <1>1 DEF LoopAgain, OrderOK, UpOK
<1>4. \A a \in Live : Keys[0] <= Keys[a]
  BY <1>2, <1>3, RootLeast
<1>5. q' = <<1, 2>> /\ eqs' = 1 /\ pc' = "eqUp" /\ Len(q') = 2 /\ q'[1] = 1 /\ q'[2] = 2
  BY DEF LoopAgain
<1>6. ASSUME NEW a \in Live, a >= 1, Keys[a] = Keys[0]
      PROVE  a \in {1, 2} \/ (Parent(a) >= 1 /\ Keys[Parent(a)] = Keys[0])
  <2>1. SUFFICES ASSUME a \notin {1, 2} PROVE Parent(a) >= 1 /\ Keys[Parent(a)] = Keys[0]
    OBVIOUS
  <2>2. a \in Nat /\ a >= 3 /\ a \in 1..(len - 1)
    BY <1>2, <1>6, <2>1
  <2>3. Parent(a) \in Nat /\ Parent(a) >= 1 /\ Parent(a) < a
    BY <2>2 DEF Parent
  <2>4. Parent(a) \in Live
    BY <1>2, <2>2, <2>3
  <2>5. Keys[Parent(a)] <= Keys[a] /\ Keys[0] <= Keys[Parent(a)]
    BY <1>3, <1>4, <2>2, <2>4 DEF Heaped
  <2>6. Keys[Parent(a)] \in Int /\ Keys[0] \in Int
    BY <1>2, <2>4
  <2> QED
    BY <1>6, <2>3, <2>5, <2>6
<1>7. \A a \in Live' : a >= eqs' /\ Keys'[a] = Keys'[0] =>
        \/ \E k \in 1..Len(q') : q'[k] = a
        \/ Parent(a) >= eqs' /\ Keys'[Parent(a)] = Keys'[0]
  <2>1. 1 \in 1..Len(q') /\ 2 \in 1..Len(q')
    BY <1>5
  <2> QED
    BY <1>1, <1>5, <1>6, <2>1
<1>8. /\ \A j, k \in 1..Len(q') : j < k => q'[j] < q'[k]
      /\ \A k \in 1..Len(q') : q'[k] <= 2 * q'[1]
  BY <1>5
<1>9. EqOK'
  BY <1>1, <1>3, <1>4, <1>5, <1>7, <1>8 DEF EqOK
<1> QED
  BY <1>5, <1>9 DEF UpOK, DownOK

\* The end of the loop.
LEMMA LoopEndOrders == IInv /\ OrderOK /\ LoopEnd => OrderOK'
  BY DEF LoopEnd, OrderOK, UpOK, DownOK, EqOK

\* What EqUp knows of a slot that it has passed over.
LEMMA EqUpFacts ==
  ASSUME IInv, OrderOK, Fits, ~err, pc = "eqUp"
  PROVE  /\ len \in Nat /\ Live = 0..(len - 1) /\ eqs \in 1..len
         /\ Keys \in [0..(len - 1) -> Int]
         /\ \A a \in Live : Keys[0] <= Keys[a]
         /\ eqs = 1 => Heaped(Keys, len)
         /\ q \in Seq(Nat) /\ Len(q) \in Nat
         /\ \A k \in 1..Len(q) : q[k] \in Nat /\ q[k] >= eqs
         /\ \A j, k \in 1..Len(q) : j < k => q[j] < q[k]
         /\ \A k \in 1..Len(q) : q[k] <= 2 * q[1]
         /\ \A a \in Live : a >= eqs /\ Keys[a] = Keys[0] =>
              \/ \E k \in 1..Len(q) : q[k] = a
              \/ Parent(a) >= eqs /\ Keys[Parent(a)] = Keys[0]
<1>1. len \in Nat /\ Live = 0..(len - 1) /\ Keys \in [0..(len - 1) -> Int]
  BY KeysFacts
<1>2. q \in Seq(Nat) /\ eqs \in 1..len
  BY DEF IInv, TypeOK, IndexOK
<1>3. Len(q) \in Nat /\ \A k \in 1..Len(q) : q[k] \in Nat
  BY <1>2
<1>4. \A k \in 1..Len(q) : q[k] >= eqs + k - 1
  BY DEF IInv, IndexOK
<1>5. \A k \in 1..Len(q) : q[k] >= eqs
  BY <1>1, <1>2, <1>3, <1>4
<1> QED
  BY <1>1, <1>2, <1>3, <1>5 DEF OrderOK, EqOK

\* A slot that does not equal the root is passed over, with its subtree.
LEMMA EqUpPassOrders == IInv /\ OrderOK /\ EqUpPass => OrderOK'
<1> SUFFICES ASSUME IInv, OrderOK, EqUpPass, (Fits /\ ~err)' PROVE (UpOK /\ DownOK /\ EqOK)'
  BY DEF OrderOK
<1>1. /\ Fits /\ ~err /\ pc = "eqUp" /\ Keys' = Keys /\ len' = len /\ Live' = Live
      /\ eqs' = eqs /\ pc' = "eqUp"
  BY KeysSame DEF EqUpPass, Fits
<1>2. /\ len \in Nat /\ Live = 0..(len - 1) /\ eqs \in 1..len
      /\ \A a \in Live : Keys[0] <= Keys[a]
      /\ eqs = 1 => Heaped(Keys, len)
      /\ q \in Seq(Nat) /\ Len(q) \in Nat
      /\ \A k \in 1..Len(q) : q[k] \in Nat /\ q[k] >= eqs
  BY <1>1, EqUpFacts
<1>3. /\ \A j, k \in 1..Len(q) : j < k => q[j] < q[k]
      /\ \A k \in 1..Len(q) : q[k] <= 2 * q[1]
      /\ \A a \in Live : a >= eqs /\ Keys[a] = Keys[0] =>
              \/ \E k \in 1..Len(q) : q[k] = a
              \/ Parent(a) >= eqs /\ Keys[Parent(a)] = Keys[0]
  BY <1>1, EqUpFacts
<1>4. /\ q # <<>> /\ Head(q) = q[1] /\ q' = Tail(q) /\ Len(q) >= 1
      /\ Len(q') = Len(q) - 1 /\ \A k \in 1..Len(q') : q'[k] = q[k + 1]
      /\ q[1] \in Nat
  BY <1>2 DEF EqUpPass, EqUpMore
<1>5. q[1] \in Live /\ Keys[q[1]] # Keys[0] /\ 0 \in Live
  BY <1>2, <1>4 DEF EqUpPass, EqUpMore, Keys
<1>6. \A j, k \in 1..Len(q') : j < k => q'[j] < q'[k]
  BY <1>2, <1>3, <1>4
<1>7. ASSUME NEW k \in 1..Len(q') PROVE q'[k] <= 2 * q'[1]
  <2>1. k + 1 \in 1..Len(q) /\ 2 \in 1..Len(q) /\ 1 \in 1..Len(q) /\ 1 \in 1..Len(q')
    BY <1>2, <1>4
  <2>2. q'[k] = q[k + 1] /\ q'[1] = q[2] /\ q[1] < q[2] /\ q[k + 1] <= 2 * q[1]
    BY <1>3, <1>4, <2>1
  <2>3. q[1] \in Nat /\ q[2] \in Nat /\ q[k + 1] \in Nat
    BY <1>2, <2>1
  <2> QED
    BY <2>2, <2>3
<1>8. ASSUME NEW a \in Live, a >= eqs, Keys[a] = Keys[0]
      PROVE  \/ \E k \in 1..Len(q') : q'[k] = a
             \/ Parent(a) >= eqs /\ Keys[Parent(a)] = Keys[0]
  <2>1. CASE \E k \in 1..Len(q) : q[k] = a
    <3>1. PICK k \in 1..Len(q) : q[k] = a
      BY <2>1
    <3>2. k # 1
      BY <1>5, <1>8, <3>1
    <3>3. k - 1 \in 1..Len(q') /\ q'[k - 1] = a
      BY <1>2, <1>4, <3>1, <3>2
    <3> QED
      BY <3>3
  <2> QED
    BY <1>3, <1>8, <2>1
<1>9. EqOK'
  BY <1>1, <1>2, <1>6, <1>7, <1>8 DEF EqOK
<1> QED
  BY <1>1, <1>9 DEF UpOK, DownOK

\* What EqUp's queue becomes when a slot's children join it.
LEMMA QueueGrown ==
  ASSUME NEW s \in Seq(Nat), Len(s) >= 1, NEW x \in Nat, NEW y \in Nat,
         NEW t, t = Append(Append(Tail(s), x), y)
  PROVE  /\ Len(t) = Len(s) + 1
         /\ \A k \in 1..(Len(s) - 1) : t[k] = s[k + 1]
         /\ t[Len(s)] = x /\ t[Len(s) + 1] = y
<1>a. Tail(s) \in Seq(Nat)
  OBVIOUS
<1>1. PICK r \in Seq(Nat) : r = Tail(s)
  BY <1>a
<1>b. Append(r, x) \in Seq(Nat)
  OBVIOUS
<1>2. PICK u \in Seq(Nat) : u = Append(r, x)
  BY <1>b
<1>3. Len(r) = Len(s) - 1 /\ \A k \in 1..(Len(s) - 1) : r[k] = s[k + 1]
  BY <1>1
<1>4. Len(u) = Len(r) + 1 /\ u[Len(u)] = x /\ \A k \in 1..Len(r) : u[k] = r[k]
  BY <1>2
<1>5. Len(t) = Len(u) + 1 /\ t[Len(t)] = y /\ \A k \in 1..Len(u) : t[k] = u[k]
  BY <1>1, <1>2
<1> QED
  BY <1>3, <1>4, <1>5

\* The slot found changes places with the first one past the front, which
\* does not equal the root: it would have been found before.
LEMMA EqUpFoundOrders == IInv /\ OrderOK /\ EqUpFound => OrderOK'
<1> SUFFICES ASSUME IInv, OrderOK, EqUpFound, (Fits /\ ~err)' PROVE (UpOK /\ DownOK /\ EqOK)'
  BY DEF OrderOK
<1>1. /\ Fits /\ ~err /\ pc = "eqUp" /\ len' = len /\ Live' = Live
      /\ eqs' = eqs + 1 /\ pc' = "eqUp"
  BY DEF EqUpFound, Fits, Live
<1>2. /\ len \in Nat /\ Live = 0..(len - 1) /\ eqs \in 1..len
      /\ Keys \in [0..(len - 1) -> Int]
      /\ \A a \in Live : Keys[0] <= Keys[a]
      /\ q \in Seq(Nat) /\ Len(q) \in Nat
      /\ \A k \in 1..Len(q) : q[k] \in Nat /\ q[k] >= eqs
  BY <1>1, EqUpFacts
<1>3. /\ \A j, k \in 1..Len(q) : j < k => q[j] < q[k]
      /\ \A k \in 1..Len(q) : q[k] <= 2 * q[1]
      /\ \A a \in Live : a >= eqs /\ Keys[a] = Keys[0] =>
              \/ \E k \in 1..Len(q) : q[k] = a
              \/ Parent(a) >= eqs /\ Keys[Parent(a)] = Keys[0]
  BY <1>1, EqUpFacts
<1>h. PICK h : h = Head(q)
  OBVIOUS
<1>4. h = q[1] /\ h \in Nat /\ Len(q) >= 1 /\ h >= eqs /\ h < len
  BY <1>2, <1>h DEF EqUpFound, EqUpMore
<1>5. /\ Len(q') = Len(q) + 1
      /\ \A k \in 1..(Len(q) - 1) : q'[k] = q[k + 1]
      /\ q'[Len(q)] = 2 * h + 1 /\ q'[Len(q) + 1] = 2 * h + 2
  <2>1. q' = Append(Append(Tail(q), 2 * h + 1), 2 * h + 2)
    BY <1>h DEF EqUpFound
  <2>2. 2 * h + 1 \in Nat /\ 2 * h + 2 \in Nat
    BY <1>4
  <2>3. PICK x \in Nat, y \in Nat : x = 2 * h + 1 /\ y = 2 * h + 2
    BY <2>2
  <2>4. q \in Seq(Nat) /\ Len(q) >= 1 /\ q' = Append(Append(Tail(q), x), y)
    BY <1>2, <1>4, <2>1, <2>3
  <2>5. /\ Len(q') = Len(q) + 1
        /\ \A k \in 1..(Len(q) - 1) : q'[k] = q[k + 1]
        /\ q'[Len(q)] = x /\ q'[Len(q) + 1] = y
    BY <2>4, QueueGrown
  <2> QED
    BY <2>3, <2>5
<1>L. Len(q) \in Nat /\ Len(q) >= 1 /\ Len(q') = Len(q) + 1
  BY <1>2, <1>4, <1>5
<1>6. h \in Live /\ eqs \in Live /\ 0 \in Live /\ Keys[h] = Keys[0]
  BY <1>h, <1>2, <1>4 DEF EqUpFound, Keys
<1>7. /\ \A a \in Live : Keys'[a] = IF a = eqs THEN Keys[h] ELSE IF a = h THEN Keys[eqs] ELSE Keys[a]
      /\ Keys'[0] = Keys[0]
  <2>1. Keys' = [Keys EXCEPT ![eqs] = Keys[h], ![h] = Keys[eqs]]
    BY <1>1, <1>6, <1>h, KeysSwapped DEF EqUpFound
  <2>2. \A a \in Live : Keys'[a] = IF a = eqs THEN Keys[h] ELSE IF a = h THEN Keys[eqs] ELSE Keys[a]
    BY <1>2, <1>6, <2>1
  <2> QED
    BY <1>2, <1>4, <1>6, <2>2
<1>8. eqs # h => Keys[eqs] # Keys[0]
  <2>1. Parent(eqs) < eqs /\ Parent(eqs) \in Nat
    BY <1>2, ParentFacts
  <2>2. eqs # h => ~ \E k \in 1..Len(q) : q[k] = eqs
    <3> SUFFICES ASSUME eqs # h, NEW k \in 1..Len(q), q[k] = eqs PROVE FALSE
      OBVIOUS
    <3>1. k # 1 /\ 1 \in 1..Len(q)
      BY <1>2, <1>4
    <3>2. q[1] < q[k]
      BY <1>2, <1>3, <3>1
    <3> QED
      BY <1>2, <1>4, <3>2
  <2> SUFFICES ASSUME eqs # h, Keys[eqs] = Keys[0] PROVE FALSE
    OBVIOUS
  <2>3. eqs >= eqs
    BY <1>2
  <2>4. Parent(eqs) >= eqs
    BY <1>3, <1>6, <2>2, <2>3
  <2> QED
    BY <1>2, <2>1, <2>4
<1>k. PICK k, l, n : k = Keys /\ l = Keys' /\ n = eqs
  OBVIOUS
<1>9. ASSUME NEW j \in 1..Len(q'), NEW m \in 1..Len(q'), j < m PROVE q'[j] < q'[m]
  <2>1. CASE m <= Len(q) - 1
    <3>a. /\ j + 1 \in 1..Len(q) /\ m + 1 \in 1..Len(q) /\ j + 1 < m + 1
          /\ j \in 1..(Len(q) - 1) /\ m \in 1..(Len(q) - 1)
      BY <1>L, <1>9, <2>1
    <3>1. q'[j] = q[j + 1] /\ q'[m] = q[m + 1]
      BY <1>5, <3>a
    <3> QED
      BY <1>3, <3>a, <3>1
  <2>2. CASE j <= Len(q) - 1 /\ m > Len(q) - 1
    <3>a. j + 1 \in 1..Len(q) /\ j \in 1..(Len(q) - 1) /\ (m = Len(q) \/ m = Len(q) + 1)
      BY <1>L, <1>9, <2>2
    <3>b. q'[j] = q[j + 1]
      BY <1>5, <3>a
    <3>c. q'[m] \in {2 * h + 1, 2 * h + 2}
      BY <1>5, <3>a
    <3>1. j + 1 \in 1..Len(q) /\ q'[j] = q[j + 1] /\ q'[m] \in {2 * h + 1, 2 * h + 2}
      BY <3>a, <3>b, <3>c
    <3>2. q[j + 1] <= 2 * h /\ q[j + 1] \in Nat
      BY <1>2, <1>3, <1>4, <3>1
    <3> QED
      BY <1>4, <3>1, <3>2
  <2>3. CASE j > Len(q) - 1
    <3>1. j = Len(q) /\ m = Len(q) + 1
      BY <1>2, <1>5, <1>9, <2>3
    <3> QED
      BY <1>4, <1>5, <3>1
  <2> QED
    BY <1>2, <1>5, <1>9, <2>1, <2>2, <2>3
<1>10. ASSUME NEW m \in 1..Len(q') PROVE q'[m] <= 2 * q'[1]
  <2>1. q'[m] <= 2 * h + 2 /\ q'[m] \in Nat
    <3>1. CASE m <= Len(q) - 1
      <4>1. m + 1 \in 1..Len(q) /\ q'[m] = q[m + 1]
        BY <1>2, <1>5, <3>1
      <4>2. q[m + 1] <= 2 * h /\ q[m + 1] \in Nat
        BY <1>2, <1>3, <1>4, <4>1
      <4> QED
        BY <1>4, <4>1, <4>2
    <3>2. CASE ~(m <= Len(q) - 1)
      <4>a. m = Len(q) \/ m = Len(q) + 1
        BY <1>2, <1>5, <3>2
      <4>1. q'[m] \in {2 * h + 1, 2 * h + 2}
        BY <1>5, <4>a
      <4> QED
        BY <1>4, <4>1
    <3> QED
      BY <3>1, <3>2
  <2>2. q'[1] >= h + 1 /\ q'[1] \in Nat
    <3>1. CASE Len(q) >= 2
      <4>1. 1 \in 1..(Len(q) - 1) /\ 2 \in 1..Len(q) /\ 1 \in 1..Len(q)
        BY <1>2, <3>1
      <4>2. q'[1] = q[2] /\ q[1] < q[2]
        BY <1>3, <1>5, <4>1
      <4>3. q[2] \in Nat
        BY <1>2, <4>1
      <4> QED
        BY <1>4, <4>2, <4>3
    <3>2. CASE Len(q) = 1
      <4>2. q'[1] = 2 * h + 1
        <5>1. q'[Len(q)] = 2 * h + 1
          BY <1>5
        <5> QED
          BY <3>2, <5>1
      <4> QED
        BY <1>4, <4>2
    <3> QED
      BY <1>L, <3>1, <3>2
  <2>3. h \in Nat
    BY <1>4
  <2>4. \A x, y, z \in Nat : x <= 2 * z + 2 /\ y >= z + 1 => x <= 2 * y
    OBVIOUS
  <2> QED
    BY <2>1, <2>2, <2>3, <2>4
<1>11. ASSUME NEW a \in Live, a >= n + 1, l[a] = l[0]
       PROVE  \/ \E m \in 1..Len(q') : q'[m] = a
              \/ Parent(a) >= n + 1 /\ l[Parent(a)] = l[0]
  <2>1. a \in Nat /\ a # 0 /\ a # n /\ a >= n /\ n \in Nat /\ n >= 1
    BY <1>2, <1>11, <1>k
  <2>2. a # h /\ k[a] = k[0]
    BY <1>7, <1>8, <1>11, <1>k, <2>1
  <2>3. CASE \E m \in 1..Len(q) : q[m] = a
    <3>1. PICK m \in 1..Len(q) : q[m] = a
      BY <2>3
    <3>2. m # 1
      BY <1>4, <2>2, <3>1
    <3>3. m - 1 \in 1..(Len(q) - 1) /\ m - 1 \in 1..Len(q') /\ (m - 1) + 1 = m
      BY <1>2, <1>5, <3>2
    <3>4. q'[m - 1] = a
      BY <1>5, <3>1, <3>3
    <3> QED
      BY <3>3, <3>4
  <2>4. CASE Parent(a) >= n /\ k[Parent(a)] = k[0]
    <3>1. Parent(a) \in Nat /\ Parent(a) < a
      BY <2>1, ParentFacts
    <3>p. Parent(a) \in Live
      BY <1>2, <2>1, <3>1
    <3>2. CASE Parent(a) = h
      <4>1. a \in {2 * h + 1, 2 * h + 2}
        BY <1>4, <2>1, <3>2 DEF Parent
      <4>2. Len(q) \in 1..Len(q') /\ Len(q) + 1 \in 1..Len(q')
        BY <1>2, <1>4, <1>5
      <4> QED
        BY <1>5, <4>1, <4>2
    <3>3. CASE Parent(a) # h
      <4>1. Parent(a) # n
        BY <1>8, <1>k, <2>4, <3>3
      <4>2. l[Parent(a)] = l[0]
        BY <1>7, <1>k, <2>4, <3>3, <3>p, <4>1
      <4> QED
        BY <2>1, <2>4, <3>1, <4>1, <4>2
    <3> QED
      BY <3>2, <3>3
  <2> QED
    BY <1>3, <1>k, <2>1, <2>2, <2>3, <2>4
<1>12. \A a \in Live : l[0] <= l[a]
  BY <1>2, <1>6, <1>7, <1>k
<1>13. EqOK'
  <2>1. eqs' # 1
    BY <1>1, <1>2
  <2>2. \A j, m \in 1..Len(q') : j < m => q'[j] < q'[m]
    BY <1>9
  <2>3. \A m \in 1..Len(q') : q'[m] <= 2 * q'[1]
    BY <1>10
  <2> QED
    BY <1>1, <1>k, <1>11, <1>12, <2>1, <2>2, <2>3 DEF EqOK
<1> QED
  BY <1>1, <1>13 DEF UpOK, DownOK

\* The queue used up, no slot past the front equals the root.
LEMMA EqUpEndOrders == IInv /\ OrderOK /\ EqUpEnd => OrderOK'
<1> SUFFICES ASSUME IInv, OrderOK, EqUpEnd, (Fits /\ ~err)' PROVE (UpOK /\ DownOK /\ EqOK)'
  BY DEF OrderOK
<1>1. /\ Fits /\ ~err /\ pc = "eqUp" /\ Keys' = Keys /\ len' = len /\ Live' = Live
      /\ eqs' = eqs /\ pc' = "emit"
  BY KeysSame DEF EqUpEnd, Fits
<1>2. /\ len \in Nat /\ Live = 0..(len - 1) /\ eqs \in 1..len
      /\ \A a \in Live : Keys[0] <= Keys[a]
      /\ eqs = 1 => Heaped(Keys, len)
      /\ q \in Seq(Nat) /\ Len(q) \in Nat
      /\ \A k \in 1..Len(q) : q[k] \in Nat
  BY <1>1, EqUpFacts
<1>3. /\ \A j, k \in 1..Len(q) : j < k => q[j] < q[k]
      /\ \A a \in Live : a >= eqs /\ Keys[a] = Keys[0] =>
              \/ \E k \in 1..Len(q) : q[k] = a
              \/ Parent(a) >= eqs /\ Keys[Parent(a)] = Keys[0]
  BY <1>1, EqUpFacts
<1>4. \A k \in 1..Len(q) : q[k] \notin Live
  <2> SUFFICES ASSUME NEW k \in 1..Len(q) PROVE q[k] >= len
    BY <1>2
  <2>1. q # <<>> /\ Head(q) = q[1] /\ 1 \in 1..Len(q)
    BY <1>2
  <2>2. q[1] >= len
    BY <2>1, <1>2 DEF EqUpEnd, EqUpMore
  <2>3. k # 1 => q[1] < q[k]
    BY <1>3, <2>1
  <2> QED
    BY <1>2, <2>1, <2>2, <2>3
<1> DEFINE T == {a \in Live : a >= eqs /\ Keys[a] = Keys[0]}
<1>5. T = {}
  <2> SUFFICES ASSUME T # {} PROVE FALSE
    OBVIOUS
  <2>1. T \subseteq Nat
    BY <1>2
  <2>2. PICK m \in T : \A x \in T : m <= x
    <3> HIDE DEF T
    <3> QED
      BY <2>1, LeastNumber
  <2>3. m \in Live /\ m >= eqs /\ Keys[m] = Keys[0] /\ m \in Nat /\ m # 0
    BY <1>2
  <2>4. Parent(m) >= eqs /\ Keys[Parent(m)] = Keys[0]
    BY <1>3, <1>4, <2>3
  <2>5. Parent(m) \in Nat /\ Parent(m) < m
    BY <2>3, ParentFacts
  <2>6. Parent(m) \in Live
    BY <1>2, <2>3, <2>5
  <2>7. Parent(m) \in T
    BY <2>4, <2>6
  <2> QED
    BY <2>2, <2>3, <2>5, <2>7
<1>6. \A a \in Live : Keys[a] = Keys[0] => a \in Front
  <2> SUFFICES ASSUME NEW a \in Live, Keys[a] = Keys[0] PROVE a \in Front
    OBVIOUS
  <2>1. a \notin T
    BY <1>5
  <2>2. ~(a >= eqs) /\ a \in Nat
    BY <1>2, <2>1
  <2> QED
    BY <1>2, <2>2 DEF Front
<1>7. Front' = Front
  BY <1>1 DEF Front
<1>8. EqOK'
  BY <1>1, <1>2, <1>6, <1>7 DEF EqOK
<1> QED
  BY <1>1, <1>8 DEF UpOK, DownOK

\* The round leaves the front to NextK, and past it a heap if the front is
\* the root alone, or nothing with a child of its own if there are five.
LEMMA EmitOrders ==
  ASSUME IInv, OrderOK, Fits, ~err, pc = "emit", Keys' = Keys, len' = len, eqs' = eqs,
         data' = data, i' = eqs - 1, pc' = "nextK"
  PROVE  (UpOK /\ DownOK /\ EqOK)'
<1>1. len \in Nat /\ len <= Len(data) /\ Len(data) \in Nat /\ eqs \in 1..len
  BY KeysFacts DEF IInv, IndexOK
<1>2. eqs = 1 => Heaped(Keys, len)
  BY DEF OrderOK, EqOK
<1>3. ASSUME NEW a \in 1..(len - 1), Parent(a) >= eqs, InScope(Parent(a))
      PROVE  Keys[Parent(a)] <= Keys[a]
  <2>1. Parent(a) \in Nat /\ a >= 2 * Parent(a) + 1
    BY <1>1 DEF Parent
  <2>2. CASE eqs = 1
    BY <1>2, <2>2 DEF Heaped
  <2>3. CASE eqs # 1
    <3>1. Len(data) <= 5
      BY <1>1, <1>3, <2>1, <2>3 DEF InScope
    <3> QED
      BY <1>1, <1>3, <2>1, <2>3, <3>1
  <2> QED
    BY <2>2, <2>3
<1>4. \A a : InScope(a)' <=> InScope(a)
  BY DEF InScope
<1>5. Settled(Keys, eqs)'
  BY <1>3, <1>4 DEF Settled
<1>6. i' # -1 /\ i' + 1 = eqs
  BY <1>1
<1> QED
  BY <1>1, <1>5, <1>6 DEF UpOK, DownOK, EqOK, Settled

\* MergeSameSpotElements permutes equals only.
LEMMA EmitMergedOrders == IInv /\ OrderOK /\ EmitMerged => OrderOK'
<1> SUFFICES ASSUME IInv, OrderOK, EmitMerged, (Fits /\ ~err)' PROVE (UpOK /\ DownOK /\ EqOK)'
  BY DEF OrderOK
<1>1. Fits /\ ~err
  BY DEF EmitMerged, Fits
<1>2. /\ \A a \in Front : a \in Live
      /\ \A s : (\E a \in Front : ih'[a] = s) <=> s \in Contenders
  BY FrontPermuted DEF EmitMerged
<1>3. \A a \in Live : a \notin Front => ih'[a] = ih[a]
  <2>1. \A a \in Live : a \in Slots
    BY LiveFacts DEF IInv
  <2> QED
    BY <2>1 DEF EmitMerged, FrontOrders
<1>4. \A a \in Front : Rec(a) = Rec(0)
  BY DEF IInv, PrefixOK, EmitMerged
<1>5. ASSUME NEW a \in Live PROVE data[ih'[a]][pos[ih'[a]]] = Rec(a)
  <2>1. CASE a \in Front
    <3>1. ih'[a] \in Contenders
      BY <1>2, <2>1
    <3>2. PICK b \in Front : ih'[a] = ih[b]
      BY <3>1 DEF Contenders
    <3> QED
      BY <1>4, <2>1, <3>2 DEF Rec
  <2>2. CASE a \notin Front
    BY <1>3, <2>2 DEF Rec
  <2> QED
    BY <2>1, <2>2
<1>6. Keys' = Keys
  BY <1>5 DEF Keys, Rec, Live, EmitMerged
<1> QED
  BY <1>1, <1>6, EmitOrders DEF EmitMerged

\* IntersectNext permutes nothing.
LEMMA EmitIntersectedOrders == IInv /\ OrderOK /\ EmitIntersected => OrderOK'
<1> SUFFICES ASSUME IInv, OrderOK, EmitIntersected, (Fits /\ ~err)' PROVE (UpOK /\ DownOK /\ EqOK)'
  BY DEF OrderOK
<1>1. Fits /\ ~err /\ Keys' = Keys
  BY KeysSame DEF EmitIntersected, Fits
<1> QED
  BY <1>1, EmitOrders DEF EmitIntersected

\* An error or a panic ends the order.
LEMMA FailOrders ==
  IInv /\ OrderOK /\ (HeapizeFail \/ EmitFail \/ NextKFail \/ UpPanic) => OrderOK'
<1>1. HeapizeFail \/ EmitFail \/ NextKFail => OrderOK'
  BY DEF HeapizeFail, EmitFail, NextKFail, OrderOK
<1>2. UpPanic => OrderOK'
  BY DEF UpPanic, OrderOK, UpOK, DownOK, EqOK
<1> QED
  BY <1>1, <1>2

\* A step that changes nothing.
LEMMA StutterOrders == IInv /\ OrderOK /\ UNCHANGED vars => OrderOK'
<1> SUFFICES ASSUME IInv, OrderOK, UNCHANGED vars, (Fits /\ ~err)' PROVE (UpOK /\ DownOK /\ EqOK)'
  BY DEF OrderOK
<1>1. Fits /\ ~err /\ Keys' = Keys /\ len' = len /\ Live' = Live
  BY KeysSame DEF vars, Fits
<1>2. UpOK /\ DownOK /\ EqOK
  BY <1>1 DEF OrderOK
<1>3. UpOK'
  BY <1>1, <1>2 DEF vars, UpOK
<1>4. DownOK'
  BY <1>1, <1>2 DEF vars, DownOK, Settled, FrontHeaped, Sinking, InScope
<1>5. EqOK'
  BY <1>1, <1>2 DEF vars, EqOK, Front
<1> QED
  BY <1>3, <1>4, <1>5

\* The empty slice is a heap.
LEMMA InitOrders == Init => OrderOK
  BY DEF Init, OrderOK, UpOK, DownOK, EqOK, Heaped, Live

\* OrderOK is inductive relative to IInv.
LEMMA StepOrders == IInv /\ OrderOK /\ [Next]_vars => OrderOK'
  BY HeapizeSkipOrders, HeapizeAddOrders, HeapizeEndOrders, UpSwapOrders, UpBreakOrders,
     LoopAgainOrders, LoopEndOrders, EqUpFoundOrders, EqUpPassOrders, EqUpEndOrders,
     EmitMergedOrders, EmitIntersectedOrders, NextKReadOrders, NextKRemoveOrders,
     DownSwapOrders, DownBreakOrders, MergeNextRepairsOrders, RepairUpOrders,
     RepairEndOrders, IntersectNextReturnsOrders, FailOrders, StutterOrders
  DEF Next, Done

\* Both invariants hold of every behaviour.
LEMMA Ordered == Spec => [](IInv /\ OrderOK)
<1>1. IInv /\ OrderOK /\ [Next]_vars => (IInv /\ OrderOK)'
  BY StepKeeps, StepOrders
<1> QED
  BY InitOK, InitOrders, <1>1, PTL DEF Spec

\* Nothing writes the inputs.
LEMMA InputsStay == [Next]_vars => data' = data /\ op' = op
  BY DEF Next, vars, HeapizeSkip, HeapizeAdd, HeapizeFail, HeapizeEnd, UpSwap, UpBreak,
         UpPanic, LoopAgain, LoopEnd, EqUpFound, EqUpPass, EqUpEnd, EmitMerged, EmitFail,
         EmitIntersected, NextKRead, NextKFail, NextKRemove, DownSwap, DownBreak,
         MergeNextRepairs, RepairUp, RepairEnd, IntersectNextReturns, Done

\* Between two calls of MergeNext the slice of no more than seven inputs is
\* a binary heap, whatever the ranks of their records, sorted or not, and
\* however MergeSameSpotElements permutes a round.
THEOREM HeapRestored ==
  ASSUME \A d \in MergeInputs : Len(d) <= 7
  PROVE  Spec => []HeapOrder
<1> DEFINE Few == op = "MergeNext" => Len(data) <= 7
<1>1. IInv /\ OrderOK /\ Few => HeapOrder
  <2> SUFFICES ASSUME IInv, OrderOK, Len(data) <= 7, pc = "loop", ~err, op = "MergeNext",
                      NEW a \in Live, a # 0
               PROVE  Rec(Parent(a)) <= Rec(a)
    BY DEF HeapOrder
  <2>1. len \in Nat /\ Live = 0..(len - 1) /\ Heaped(Keys, len)
    BY KeysFacts DEF OrderOK, Fits, UpOK
  <2>2. a \in 1..(len - 1) /\ a \in Nat
    BY <2>1
  <2>p. Parent(a) \in Nat /\ Parent(a) < a
    BY <2>2, ParentFacts
  <2>3. Parent(a) \in Live
    BY <2>1, <2>2, <2>p
  <2>4. Keys[Parent(a)] <= Keys[a]
    BY <2>1, <2>2 DEF Heaped
  <2> QED
    BY <2>3, <2>4 DEF Keys
<1>2. Init => Few
  BY DEF Init
<1>3. Few /\ [Next]_vars => Few'
  BY InputsStay
<1> HIDE DEF Few
<1> QED
  BY <1>1, <1>2, <1>3, Ordered, PTL DEF Spec

\* What is left of a stream.
LEMMA SuffixFacts ==
  ASSUME NEW S, NEW d, d \in Seq(S), NEW m \in Nat, m >= 1
  PROVE  /\ m <= Len(d) => /\ SubSeq(d, m, Len(d)) # <<>>
                           /\ Head(SubSeq(d, m, Len(d))) = d[m]
                           /\ Tail(SubSeq(d, m, Len(d))) = SubSeq(d, m + 1, Len(d))
         /\ m > Len(d) => SubSeq(d, m, Len(d)) = <<>>
<1>1. ASSUME m <= Len(d)
      PROVE  /\ SubSeq(d, m, Len(d)) # <<>>
             /\ Head(SubSeq(d, m, Len(d))) = d[m]
             /\ Tail(SubSeq(d, m, Len(d))) = SubSeq(d, m + 1, Len(d))
  <2>1. Len(d) \in Nat /\ m \in 1..Len(d) /\ Len(d) \in m..Len(d)
    BY <1>1
  <2>2. /\ Head(SubSeq(d, m, Len(d))) = d[m]
        /\ Tail(SubSeq(d, m, Len(d))) = SubSeq(d, m + 1, Len(d))
    BY <2>1, HeadTailOfSubSeq
  <2>3. Len(SubSeq(d, m, Len(d))) = Len(d) - m + 1
    BY <2>1
  <2>4. Len(SubSeq(d, m, Len(d))) > 0
    BY <2>1, <2>3
  <2>5. SubSeq(d, m, Len(d)) # <<>>
    <3>1. Len(<<>>) = 0
      OBVIOUS
    <3> QED
      BY <2>4, <3>1
  <2> QED
    BY <2>2, <2>5
<1>2. ASSUME m > Len(d) PROVE SubSeq(d, m, Len(d)) = <<>>
  <2>1. m \in Int /\ Len(d) \in Int /\ Len(d) < m
    BY <1>2
  <2> QED
    BY <2>1, SubSeqEmpty
<1> QED
  BY <1>1, <1>2

\* The head of what is left of each input.
LEMMA RestFacts ==
  ASSUME IInv, ~err, op = "MergeNext", NEW s \in Sources
  PROVE  /\ DOMAIN Rest = Sources
         /\ Rest[s] = SubSeq(data[s], Taken(s) + 1, Len(data[s]))
         /\ Taken(s) \in 0..Len(data[s])
         /\ data[s] \in Seq(Int \cup {Bad}) /\ Len(data[s]) \in Nat /\ pos[s] \in Nat
         /\ Taken(s) < Len(data[s]) =>
              /\ Rest[s] # <<>>
              /\ Head(Rest[s]) = data[s][Taken(s) + 1]
              /\ Tail(Rest[s]) = SubSeq(data[s], Taken(s) + 2, Len(data[s]))
         /\ Taken(s) = Len(data[s]) => Rest[s] = <<>>
<1>1. /\ data[s] \in Seq(Int \cup {Bad}) /\ Len(data[s]) \in Nat /\ pos[s] \in Nat
      /\ pos[s] <= Len(data[s]) + 1
  <2>1. data[s] \in Seq(Int \cup {Bad})
    BY DEF IInv, TypeOK, Sources
  <2>2. pos[s] \in Nat /\ pos[s] <= Len(data[s]) + 1
    BY DEF IInv, TypeOK
  <2> QED
    BY <2>1, <2>2
<1>2. Len(merged[s]) = Taken(s)
  BY DEF IInv, TakenOK
<1>3. Rest = [t \in Sources |-> SubSeq(data[t], Len(merged[t]) + 1, Len(data[t]))]
  BY DEF Rest, Merging
<1>4. Taken(s) \in 0..Len(data[s])
  <2>1. CASE \E a \in Pending : ih[a] = s
    <3>1. PICK a \in Pending : ih[a] = s
      BY <2>1
    <3>2. a \in Live
      BY KeysFacts DEF Pending, IInv, IndexOK, Live
    <3>3. pos[s] \in 1..Len(data[s])
      BY <3>1, <3>2, LiveFacts DEF IInv
    <3> QED
      BY <2>1, <3>3 DEF Taken
  <2>2. CASE ~ \E a \in Pending : ih[a] = s
    BY <1>1, <2>2 DEF Taken
  <2> QED
    BY <2>1, <2>2
<1>5. Rest[s] = SubSeq(data[s], Taken(s) + 1, Len(data[s]))
  BY <1>2, <1>3
<1>m. PICK d \in Seq(Int \cup {Bad}), m \in Nat : d = data[s] /\ m = Taken(s) + 1 /\ m >= 1
  BY <1>1, <1>4
<1>6. /\ m <= Len(d) => /\ SubSeq(d, m, Len(d)) # <<>>
                        /\ Head(SubSeq(d, m, Len(d))) = d[m]
                        /\ Tail(SubSeq(d, m, Len(d))) = SubSeq(d, m + 1, Len(d))
      /\ m > Len(d) => SubSeq(d, m, Len(d)) = <<>>
  BY <1>m, SuffixFacts
<1>7. /\ Taken(s) < Len(data[s]) <=> m <= Len(d)
      /\ Taken(s) = Len(data[s]) => m > Len(d)
      /\ m + 1 = Taken(s) + 2
  BY <1>1, <1>4, <1>m
<1> QED
  BY <1>1, <1>3, <1>4, <1>5, <1>6, <1>7, <1>m

\* When EqUp is done the front is what the merge takes next.
LEMMA FrontIsLeast ==
  ASSUME IInv, OrderOK, Fits, op = "MergeNext", pc = "emit"
  PROVE  /\ Abstract!Live = {ih[a] : a \in Live}
         /\ Abstract!Live # {}
         /\ Abstract!Unreadable = {}
         /\ Abstract!Front = Contenders
         /\ Abstract!Least = Rec(0)
         /\ Abstract!Clash <=> MergeFails
         /\ \A s \in Contenders : s \in Sources /\ Rest[s] # <<>>
<1>1. ~err /\ Pending = {}
  BY DEF IInv, ReadableOK, Pending
<1>2. /\ len \in Nat /\ Live = 0..(len - 1) /\ eqs \in 1..len
      /\ \A a \in Live : a \in Nat /\ Keys[a] = Rec(a) /\ Rec(a) \in Int
      /\ 0 \in Live /\ \A a \in Front : a \in Live
  BY <1>1, KeysFacts DEF IInv, IndexOK, Front
<1>3. /\ \A a \in Live : Rec(0) <= Rec(a) /\ (Rec(a) = Rec(0) => a \in Front)
      /\ \A a \in Front : Rec(a) = Rec(0)
  BY <1>1, <1>2 DEF OrderOK, EqOK, IInv, PrefixOK
<1>4. ASSUME NEW a \in Live
      PROVE  ih[a] \in Sources /\ Rest[ih[a]] # <<>> /\ Head(Rest[ih[a]]) = Rec(a)
  <2>1. ih[a] \in Sources /\ pos[ih[a]] \in 1..Len(data[ih[a]]) /\ Len(data[ih[a]]) \in Nat
    BY LiveFacts DEF IInv
  <2>2. Taken(ih[a]) = pos[ih[a]] - 1
    BY <1>1, <2>1 DEF Taken
  <2>3. Taken(ih[a]) < Len(data[ih[a]]) /\ Taken(ih[a]) + 1 = pos[ih[a]]
    BY <2>1, <2>2
  <2> QED
    BY <1>1, <2>1, <2>3, RestFacts DEF Rec
<1>5. ASSUME NEW s \in Sources, Rest[s] # <<>> PROVE \E a \in Live : ih[a] = s
  <2>1. Taken(s) # Len(data[s]) /\ Len(data[s]) \in Nat
    BY <1>1, <1>5, RestFacts
  <2>2. pos[s] # Len(data[s]) + 1 /\ ~(pos[s] = 0 /\ Len(data[s]) = 0)
    BY <1>1, <2>1 DEF Taken
  <2> QED
    BY <1>1, <2>2 DEF IInv, KeptOK, InHeap
<1>6. DOMAIN Rest = Sources
  BY DEF Rest, Merging
<1>7. Abstract!Live = {ih[a] : a \in Live} /\ Abstract!Live # {}
  BY <1>2, <1>4, <1>5, <1>6 DEF Abstract!Live
<1>8. Abstract!Unreadable = {}
  <2>1. \A a \in Live : Head(Rest[ih[a]]) # Bad
    BY <1>1, <1>4 DEF IInv, ReadableOK
  <2> QED
    BY <1>7, <2>1 DEF Abstract!Unreadable
<1>9. Abstract!Front = Contenders
  <2>1. ASSUME NEW s \in Abstract!Front PROVE s \in Contenders
    <3>1. PICK a \in Live : ih[a] = s
      BY <1>7 DEF Abstract!Front
    <3>2. ih[0] \in Abstract!Live
      BY <1>2, <1>7
    <3>3. Rec(a) <= Rec(0)
      BY <1>2, <1>4, <3>1, <3>2 DEF Abstract!Front
    <3>4. a \in Front
      BY <1>2, <1>3, <3>3
    <3> QED
      BY <3>1, <3>4 DEF Contenders
  <2>2. ASSUME NEW s \in Contenders PROVE s \in Abstract!Front
    <3>1. PICK a \in Live : ih[a] = s /\ Rec(a) = Rec(0)
      BY <1>2, <1>3 DEF Contenders
    <3>2. \A t \in Abstract!Live : Head(Rest[s]) <= Head(Rest[t])
      BY <1>3, <1>4, <1>7, <3>1
    <3> QED
      BY <1>7, <3>1, <3>2 DEF Abstract!Front
  <2> QED
    BY <2>1, <2>2
<1>10. \A s \in Contenders : s \in Sources /\ Rest[s] # <<>> /\ Head(Rest[s]) = Rec(0)
  BY <1>2, <1>3, <1>4 DEF Contenders
<1>11. Abstract!Least = Rec(0)
  <2>1. ih[0] \in Contenders
    BY <1>2 DEF Contenders, Front
  <2>2. (CHOOSE s \in Abstract!Front : TRUE) \in Contenders
    BY <1>9, <2>1
  <2> QED
    BY <1>10, <2>2 DEF Abstract!Least
<1>12. Abstract!Clash <=> MergeFails
  <2>1. eqs > 1 <=> \E s, t \in Contenders : s # t
    <3>1. ASSUME eqs > 1 PROVE \E s, t \in Contenders : s # t
      <4>1. 0 \in Front /\ 1 \in Front /\ 0 \in Live /\ 1 \in Live
        BY <1>2, <3>1 DEF Front
      <4>2. ih[0] \in Contenders /\ ih[1] \in Contenders
        BY <4>1 DEF Contenders
      <4>3. ih[0] # ih[1]
        BY <4>1 DEF IInv, SlotsOK, OneSlotEach
      <4> QED
        BY <4>2, <4>3
    <3>2. ASSUME NEW s \in Contenders, NEW t \in Contenders, s # t PROVE eqs > 1
      <4>1. PICK a \in Front, b \in Front : ih[a] = s /\ ih[b] = t
        BY DEF Contenders
      <4>2. a # b
        BY <3>2, <4>1
      <4> QED
        BY <1>2, <4>2 DEF Front
    <3> QED
      BY <3>1, <3>2
  <2> QED
    BY <1>9, <1>11, <2>1 DEF Abstract!Clash, MergeFails
<1> QED
  BY <1>7, <1>8, <1>9, <1>10, <1>11, <1>12

\* A round of HeapMerge is a round of the merge.
LEMMA EmitRefines ==
  ASSUME IInv, OrderOK, Fits, EmitMerged
  PROVE  Abstract!MergeNext
<1>1. /\ op = "MergeNext" /\ op' = op /\ pc = "emit" /\ pc' = "nextK"
      /\ data' = data /\ pos' = pos /\ err' = err /\ ~MergeFails
      /\ out' = Append(out, Round)
      /\ merged' = [s \in Sources |-> IF s \in Contenders THEN Append(merged[s], Rec(0))
                                      ELSE merged[s]]
      /\ Sources' = Sources
  BY DEF EmitMerged, Sources
<1>2. /\ Abstract!Live # {}
      /\ Abstract!Unreadable = {}
      /\ Abstract!Front = Contenders
      /\ Abstract!Least = Rec(0)
      /\ ~Abstract!Clash
      /\ \A s \in Contenders : s \in Sources /\ Rest[s] # <<>>
  BY <1>1, FrontIsLeast
<1>3. ~err /\ 0 \in Live /\ Rec(0) \in Int /\ \A s \in Sources : merged[s] \in Seq(Int)
  <2>1. ~err /\ 0 \in Live
    BY <1>1 DEF IInv, ReadableOK, IndexOK, TypeOK, Live
  <2> QED
    BY <2>1, KeysFacts DEF IInv, TypeOK
<1>4. ASSUME NEW s \in Sources
      PROVE  Rest'[s] = IF s \in Contenders THEN Tail(Rest[s]) ELSE Rest[s]
  <2>1. Rest'[s] = SubSeq(data[s], Len(merged'[s]) + 1, Len(data[s]))
    BY <1>1 DEF Rest, Merging
  <2>2. Len(merged[s]) = Taken(s) /\ Taken(s) \in Nat
    BY <1>1, <1>3, RestFacts DEF IInv, TakenOK
  <2>3. CASE s \in Contenders
    <3>1. merged'[s] = Append(merged[s], Rec(0))
      BY <1>1, <2>3
    <3>2. Len(merged'[s]) + 1 = Taken(s) + 2
      BY <1>3, <2>2, <3>1
    <3>3. Taken(s) # Len(data[s])
      BY <1>1, <1>2, <1>3, <2>3, RestFacts
    <3>4. Taken(s) \in 0..Len(data[s]) /\ Len(data[s]) \in Nat
      BY <1>1, <1>3, RestFacts
    <3>5. Taken(s) < Len(data[s])
      BY <3>3, <3>4
    <3>6. Tail(Rest[s]) = SubSeq(data[s], Taken(s) + 2, Len(data[s]))
      BY <1>1, <1>3, <3>5, RestFacts
    <3> QED
      BY <2>1, <2>3, <3>2, <3>6
  <2>4. CASE s \notin Contenders
    <3>1. merged'[s] = merged[s]
      BY <1>1, <2>4
    <3> QED
      BY <1>1, <1>3, <2>1, <2>2, <2>4, <3>1, RestFacts
  <2> QED
    BY <2>3, <2>4
<1>5. Rest' = [s \in DOMAIN Rest |-> IF s \in Contenders THEN Tail(Rest[s]) ELSE Rest[s]]
  <2>1. DOMAIN Rest = Sources /\ Rest' = [s \in Sources |-> Rest'[s]]
    BY <1>1 DEF Rest, Merging
  <2> QED
    BY <1>4, <2>1
<1>6. Rounds' = Append(Rounds, [key |-> Rec(0), from |-> Contenders])
  BY <1>1 DEF Rounds, Merging, Round
<1>7. Status = "merging" /\ Status' = "merging"
  BY <1>1 DEF Status
<1> QED
  BY <1>2, <1>5, <1>6, <1>7 DEF Abstract!MergeNext

\* The merge can go no further.
Stuck == Abstract!Unreadable # {} \/ (Abstract!Live # {} /\ Abstract!Clash)

\* HeapMerge gives up only when the merge is stuck, and panics only then.
StuckOK ==
  /\ op = "MergeNext" /\ err => Stuck
  /\ pc = "panic" => err

\* The mapped streams change with the rounds only.
LEMMA RestSame ==
  ASSUME UNCHANGED <<data, op, merged>>
  PROVE  Rest' = Rest
  BY DEF Rest, Merging, Sources

\* So does their being stuck.
LEMMA StuckSame ==
  ASSUME UNCHANGED <<data, op, merged>>, Stuck
  PROVE  Stuck'
<1>1. Rest' = Rest
  BY RestSame
<1>2. (Abstract!Live)' = Abstract!Live
  BY <1>1 DEF Abstract!Live
<1>3. (Abstract!Unreadable)' = Abstract!Unreadable
  BY <1>1, <1>2 DEF Abstract!Unreadable
<1>4. (Abstract!Front)' = Abstract!Front
  BY <1>1, <1>2 DEF Abstract!Front
<1>5. (Abstract!Least)' = Abstract!Least
  BY <1>1, <1>4 DEF Abstract!Least
<1>6. Abstract!Clash => (Abstract!Clash)'
  BY <1>4, <1>5 DEF Abstract!Clash
<1> QED
  BY <1>2, <1>3, <1>6 DEF Stuck

\* The three steps that set err.
LEMMA FailsWhenStuck ==
  ASSUME IInv, OrderOK, Fits, op = "MergeNext", HeapizeFail \/ EmitFail \/ NextKFail
  PROVE  Stuck
<1>1. CASE HeapizeFail
  <2>1. i \in Sources /\ data[i] # <<>> /\ data[i][1] = Bad /\ pc = "heapize" /\ i \in Int
    BY <1>1 DEF HeapizeFail, Sources
  <2>2. ~err /\ pos[i] = 0
    BY <2>1 DEF IInv, ReadableOK, NotBegunOK
  <2>3. Taken(i) = 0 /\ Len(data[i]) > 0
    <3>1. Pending = {}
      BY <2>1 DEF Pending
    <3> QED
      BY <2>1, <2>2, <3>1 DEF Taken, IInv, TypeOK, Sources
  <2>4. DOMAIN Rest = Sources /\ Rest[i] # <<>> /\ Head(Rest[i]) = Bad
    BY <2>1, <2>2, <2>3, RestFacts
  <2> QED
    BY <2>1, <2>4 DEF Stuck, Abstract!Unreadable, Abstract!Live
<1>2. CASE EmitFail
  BY <1>2, FrontIsLeast DEF EmitFail, Stuck
<1>3. CASE NextKFail
  <2>1. /\ pc = "nextK" /\ i >= 0 /\ ~AtLast(ih[i]) /\ Upcoming = Bad /\ Advance
        /\ data' = data
    BY <1>3 DEF NextKFail
  <2>2. PICK n \in Live, s \in Sources :
           /\ n = i /\ s = ih[n] /\ n \in Nat
           /\ pos[s] \in 1..Len(data[s]) /\ Len(data[s]) \in Nat
           /\ ~err
    BY <2>1, AdvanceFacts
  <2>3. Taken(s) = pos[s]
    <3>1. n \in Pending
      BY <2>1, <2>2 DEF Pending
    <3> QED
      BY <2>2, <3>1 DEF Taken
  <2>4. pos[s] < Len(data[s]) /\ data[s][pos[s] + 1] = Bad
    BY <2>1, <2>2 DEF AtLast, Upcoming
  <2>5. DOMAIN Rest = Sources /\ Rest[s] # <<>> /\ Head(Rest[s]) = Bad
    BY <2>2, <2>3, <2>4, RestFacts
  <2> QED
    BY <2>2, <2>5 DEF Stuck, Abstract!Unreadable, Abstract!Live
<1> QED
  BY <1>1, <1>2, <1>3

\* Which steps set err.
LEMMA ErrFacts ==
  ASSUME IInv, [Next]_vars
  PROVE  /\ data' = data /\ op' = op
         /\ ~err /\ err' => HeapizeFail \/ EmitFail \/ NextKFail
         /\ err => err' /\ merged' = merged /\ out' = out
         /\ ~EmitMerged /\ op = "MergeNext" => merged' = merged /\ out' = out
         /\ pc \in {"done", "panic"} => UNCHANGED vars
         /\ pc' \in {"done", "panic"} /\ pc # pc' => HeapizeFail \/ UpPanic \/ LoopEnd
  BY DEF Next, vars, HeapizeSkip, HeapizeAdd, HeapizeFail, HeapizeEnd, UpSwap, UpBreak,
           UpPanic, LoopAgain, LoopEnd, EqUpFound, EqUpPass, EqUpEnd, EmitMerged, EmitFail,
           EmitIntersected, NextKRead, NextKFail, NextKRemove, DownSwap, DownBreak,
           MergeNextRepairs, RepairUp, RepairEnd, IntersectNextReturns, Done, IInv, ReadableOK

\* Up never compares a failed iterator before an error is known.
LEMMA PanicsAfterError == IInv /\ UpPanic => err
<1> SUFFICES ASSUME IInv, UpPanic, ~err PROVE FALSE
  OBVIOUS
<1>1. c \in Live /\ Parent(c) # c
  BY DEF IInv, IndexOK, UpPanic
<1>2. c \in Nat /\ c # 0 /\ len \in Nat /\ Live = 0..(len - 1)
  BY <1>1, KeysFacts DEF Parent
<1>3. Parent(c) \in Nat /\ Parent(c) < c
  BY <1>2, ParentFacts
<1>4. Parent(c) \in Live
  BY <1>1, <1>2, <1>3
<1> QED
  BY <1>1, <1>4 DEF UpPanic, Positioned, Failed, IInv, ReadableOK

\* An error is known only when the merge is stuck.
LEMMA StuckKept ==
  ASSUME IInv, OrderOK, op = "MergeNext" => Fits, StuckOK, [Next]_vars
  PROVE  StuckOK'
<1>1. ASSUME op' = "MergeNext", err' PROVE Stuck'
  <2>1. op = "MergeNext" /\ Fits
    BY <1>1, ErrFacts
  <2>2. ~EmitMerged
    BY <1>1 DEF EmitMerged, IInv, ReadableOK
  <2>3. UNCHANGED <<data, op, merged>>
    BY <2>1, <2>2, ErrFacts
  <2>4. Stuck
    BY <1>1, <2>1, ErrFacts, FailsWhenStuck DEF StuckOK
  <2> QED
    BY <2>3, <2>4, StuckSame
<1>2. ASSUME pc' = "panic" PROVE err'
  <2>1. CASE pc = "panic"
    BY <2>1, ErrFacts DEF StuckOK
  <2>2. CASE pc # "panic"
    <3>1. UpPanic
      BY <1>2, <2>2, ErrFacts DEF HeapizeFail, LoopEnd
    <3> QED
      BY <3>1, PanicsAfterError, ErrFacts
  <2> QED
    BY <2>1, <2>2
<1> QED
  BY <1>1, <1>2 DEF StuckOK

\* HeapMerge stops as the merge does.
LEMMA EndRefines ==
  ASSUME IInv, OrderOK, Fits, StuckOK, op = "MergeNext", [Next]_vars,
         pc \notin {"done", "panic"}, pc' \in {"done", "panic"}
  PROVE  Abstract!Fail \/ Abstract!Finish
<1>1. /\ HeapizeFail \/ UpPanic \/ LoopEnd
      /\ data' = data /\ op' = op
  BY ErrFacts
<1>2. Rest' = Rest /\ Rounds' = Rounds
  <2>1. UNCHANGED <<data, op, merged, out>>
    BY <1>1 DEF HeapizeFail, UpPanic, LoopEnd
  <2> QED
    BY <2>1, RestSame DEF Rounds, Merging
<1>3. Status = "merging" /\ Status' = IF err' THEN "failed" ELSE "merged"
  BY <1>1 DEF Status, Merging
<1>4. CASE err'
  <2>1. Stuck
    BY <1>1, <1>4, PanicsAfterError, FailsWhenStuck DEF StuckOK, LoopEnd, HeapizeFail
  <2> QED
    BY <1>2, <1>3, <1>4, <2>1 DEF Stuck, Abstract!Fail
<1>5. CASE ~err'
  <2>1. LoopEnd /\ ~err
    BY <1>1, <1>5, PanicsAfterError DEF HeapizeFail, UpPanic, LoopEnd
  <2>2. Live = {} /\ Pending = {} /\ pc = "loop"
    BY <2>1, KeysFacts DEF LoopEnd, Going, Pending, Live
  <2>3. ASSUME NEW s \in Sources PROVE Rest[s] = <<>>
    <3>1. pos[s] = Len(data[s]) + 1 \/ (pos[s] = 0 /\ Len(data[s]) = 0)
      BY <2>1, <2>2 DEF IInv, KeptOK, InHeap
    <3>2. Taken(s) = Len(data[s])
      BY <2>1, <2>2, <3>1, RestFacts DEF Taken
    <3> QED
      BY <2>1, <3>2, RestFacts
  <2>4. DOMAIN Rest = Sources
    BY DEF Rest, Merging
  <2> QED
    BY <1>2, <1>3, <1>5, <2>3, <2>4 DEF Abstract!Finish, Abstract!Live
<1> QED
  BY <1>4, <1>5

\* HeapMerge of no more than seven inputs is the multiway merge: whatever
\* the ranks of the records, sorted or not, each round takes the least of
\* the records at hand and all its equals, an unreadable record or two
\* malformed ones of one rank stop it, and nothing else does.
THEOREM MergesLikeTheMerge ==
  ASSUME \A d \in MergeInputs : Len(d) <= 7, IntersectInputs # {} => <<>> \in MergeInputs
  PROVE  Spec => ImplementsMerge
<1> DEFINE J == IInv /\ OrderOK
           K == StuckOK /\ (op = "MergeNext" => Fits)
<1>1. Init => Abstract!Init /\ K
  <2> SUFFICES ASSUME Init PROVE Abstract!Init /\ StuckOK
    BY DEF Init, Fits
  <2>1. StuckOK
    BY DEF Init, StuckOK
  <2>2. Rounds = <<>> /\ Status = "merging"
    BY DEF Init, Rounds, Status
  <2>3. CASE op = "MergeNext"
    <3>1. \A s \in Sources : data[s] \in Seq(Int \cup {Bad}) /\ merged[s] = <<>>
      BY InitOK DEF Init, IInv, TypeOK, Sources
    <3>2. \A s \in Sources : SubSeq(data[s], Len(merged[s]) + 1, Len(data[s])) = data[s]
      <4>1. Len(<<>>) + 1 = 1
        OBVIOUS
      <4> QED
        BY <3>1, <4>1, SubSeqFull
    <3>3. data \in Seq(Seq(Int \cup {Bad}))
      BY InitOK DEF IInv, TypeOK
    <3>4. data = [s \in Sources |-> data[s]]
      BY <3>3 DEF Sources
    <3>5. Rest = data
      BY <2>3, <3>2, <3>4 DEF Rest, Merging
    <3> QED
      BY <2>1, <2>2, <2>3, <3>5 DEF Init, Abstract!Init
  <2>4. CASE op = "IntersectNext"
    BY <2>1, <2>2, <2>4 DEF Init, Abstract!Init, Rest, Merging
  <2> QED
    BY <2>3, <2>4 DEF Init
<1>2. J /\ K /\ [Next]_vars => K'
  BY StuckKept, InputsStay DEF Fits
<1>3. J /\ K /\ [Next]_vars => [Abstract!Next]_(Abstract!vars)
  <2> SUFFICES ASSUME J, K, [Next]_vars PROVE [Abstract!Next]_(Abstract!vars)
    OBVIOUS
  <2>1. data' = data /\ op' = op
    BY ErrFacts
  <2>2. CASE op = "MergeNext"
    <3>1. Fits
      BY <2>2
    <3>2. CASE EmitMerged
      BY <3>1, <3>2, EmitRefines DEF Abstract!Next
    <3>3. CASE pc \notin {"done", "panic"} /\ pc' \in {"done", "panic"}
      BY <2>2, <3>1, <3>3, EndRefines DEF Abstract!Next
    <3>4. CASE /\ ~EmitMerged
               /\ pc \notin {"done", "panic"} => pc' \notin {"done", "panic"}
      <4>1. UNCHANGED <<data, op, merged, out>>
        BY <2>2, <3>4, ErrFacts
      <4>2. Rest' = Rest /\ Rounds' = Rounds
        BY <4>1, RestSame DEF Rounds, Merging
      <4>3. Status' = Status
        BY <2>1, <3>4, ErrFacts DEF Status, Merging, vars
      <4> QED
        BY <4>2, <4>3 DEF Abstract!vars
    <3> QED
      BY <3>2, <3>3, <3>4
  <2>3. CASE op # "MergeNext"
    BY <2>1, <2>3 DEF Abstract!vars, Rest, Rounds, Status, Merging
  <2> QED
    BY <2>2, <2>3
<1>4. Spec => []J
  BY Ordered
<1> HIDE DEF J, K
<1> QED
  BY <1>1, <1>2, <1>3, <1>4, PTL DEF Spec, ImplementsMerge, Abstract!Spec

Exhausted(s) == Len(data[s]) = 0 \/ pos[s] = Len(data[s]) + 1

\* IntersectNext goes on only while no input is missing from the heap.
FullOK ==
  op = "IntersectNext" /\ ~err =>
    /\ pc \in {"heapize", "heapizeUp"} =>
         \/ len = i - 1 /\ \A s \in Sources : s < i => InHeap(s)
         \/ len < i - 1 /\ \E s \in Sources : Exhausted(s)
    /\ pc \notin {"heapize", "heapizeUp"} =>
         \/ len = Len(data) /\ \A s \in Sources : InHeap(s)
         \/ len < Len(data) /\ \E s \in Sources : Exhausted(s)
    /\ pc \in {"eqUp", "emit"} => len = Len(data)
    /\ pc = "done" => len = 0 \/ len # Len(data)

\* An exhausted input stays so.
LEMMA StaysExhausted ==
  ASSUME IInv, [Next]_vars, NEW s \in Sources, Exhausted(s), pc # "heapize"
  PROVE  Exhausted(s)'
<1>1. CASE pos' = pos
  BY <1>1, ErrFacts DEF Exhausted
<1>2. CASE Len(data[s]) = 0
  BY <1>2, ErrFacts DEF Exhausted
<1>3. CASE pos' # pos /\ pos[s] = Len(data[s]) + 1
  <2>1. pc = "nextK" /\ i >= 0 /\ Advance /\ data' = data
    BY <1>3 DEF Next, vars, HeapizeSkip, HeapizeAdd, HeapizeFail, HeapizeEnd, UpSwap, UpBreak,
           UpPanic, LoopAgain, LoopEnd, EqUpFound, EqUpPass, EqUpEnd, EmitMerged, EmitFail,
           EmitIntersected, NextKRead, NextKFail, NextKRemove, DownSwap, DownBreak,
           MergeNextRepairs, RepairUp, RepairEnd, IntersectNextReturns, Done
  <2>2. PICK t \in Sources :
           /\ pos[t] \in 1..Len(data[t]) /\ Len(data[t]) \in Nat
           /\ \A u \in Sources \ {t} : pos'[u] = pos[u]
    BY <2>1, AdvanceFacts
  <2>3. s # t
    BY <1>3, <2>2
  <2> QED
    BY <1>3, <2>1, <2>2, <2>3 DEF Exhausted
<1> QED
  BY <1>1, <1>2, <1>3 DEF Exhausted

\* Steps that leave the heap as large as it is and lose no iterator.
LEMMA FullSame ==
  ASSUME IInv, FullOK, [Next]_vars, len' = len, i' = i, \A s : InHeap(s)' <=> InHeap(s),
         pc # "heapize", pc \in {"heapizeUp"} <=> pc' \in {"heapize", "heapizeUp"},
         pc' \in {"eqUp", "emit"} => len = Len(data),
         pc' = "done" => len = 0 \/ len # Len(data)
  PROVE  FullOK'
<1>1. data' = data /\ op' = op /\ Sources' = Sources /\ (err => err')
  BY ErrFacts DEF Sources
<1>2. \A s \in Sources : Exhausted(s) => Exhausted(s)'
  BY StaysExhausted
<1> QED
  BY <1>1, <1>2 DEF FullOK

\* FullOK is inductive relative to IInv.
LEMMA FullKept ==
  ASSUME IInv, FullOK, [Next]_vars
  PROVE  FullOK'
<1>d. data' = data /\ op' = op /\ Sources' = Sources /\ (err => err')
  BY ErrFacts DEF Sources
<1> SUFFICES ASSUME op = "IntersectNext", ~err, ~err' PROVE FullOK'
  BY <1>d DEF FullOK
<1>n. len \in Nat /\ len <= Len(data) /\ Len(data) \in Nat /\ i \in Int
  BY DEF IInv, TypeOK
<1>1. CASE HeapizeSkip
  <2>1. /\ pc = "heapize" /\ pc' = "heapize" /\ i \in Sources /\ data[i] = <<>>
        /\ i' = i + 1 /\ len' = len /\ pos' = pos /\ ih' = ih
    BY <1>1 DEF HeapizeSkip
  <2>2. PICK s \in Sources : s = i
    BY <2>1
  <2>3. Len(data[s]) = 0 /\ len < i
    BY <2>1, <2>2 DEF IInv, IndexOK
  <2>4. Exhausted(s)' /\ len' < i' - 1
    BY <1>d, <1>n, <2>1, <2>3 DEF Exhausted
  <2> QED
    BY <1>d, <2>1, <2>4 DEF FullOK
<1>2. CASE HeapizeAdd
  <2>1. /\ pc = "heapize" /\ pc' = "heapizeUp" /\ i \in Sources
        /\ i' = i + 1 /\ len' = len + 1 /\ pos' = [pos EXCEPT ![i] = 1]
        /\ ih' = [ih EXCEPT ![len] = i]
    BY <1>2 DEF HeapizeAdd
  <2>2. i \in Nat /\ len < i /\ i <= Len(data) /\ ih \in [Slots -> 0..Len(data)]
    BY <2>1 DEF IInv, TypeOK, IndexOK, Sources
  <2>3. len \in Slots /\ len \in Live' /\ \A a \in Live : a \in Slots /\ a \in Live' /\ a # len
    BY <1>n, <2>1, <2>2 DEF Slots, Live
  <2>4. ih'[len] = i /\ \A a \in Live : ih'[a] = ih[a]
    BY <2>1, <2>2, <2>3
  <2>5. \A s : s = i \/ InHeap(s) => InHeap(s)'
    BY <2>3, <2>4 DEF InHeap
  <2>6. CASE len = i - 1 /\ \A s \in Sources : s < i => InHeap(s)
    <3>1. \A s \in Sources : s < i' => InHeap(s)'
      BY <2>1, <2>2, <2>5, <2>6 DEF Sources
    <3> QED
      BY <1>d, <1>n, <2>1, <2>6, <3>1 DEF FullOK
  <2>7. CASE len < i - 1 /\ \E s \in Sources : Exhausted(s)
    <3>1. PICK s \in Sources : Exhausted(s)
      BY <2>7
    <3>2. s = i => pos[s] = 0
      BY <2>1, <2>2 DEF IInv, NotBegunOK
    <3>3. data[i] # <<>> /\ data[i] \in Seq(Int \cup {Bad})
      BY <1>2, <2>1 DEF HeapizeAdd, IInv, TypeOK, Sources
    <3>4. s # i
      BY <3>1, <3>2, <3>3 DEF Exhausted
    <3>5. Exhausted(s)'
      BY <1>d, <2>1, <3>1, <3>4 DEF Exhausted, IInv, TypeOK
    <3> QED
      BY <1>d, <1>n, <2>1, <2>2, <2>7, <3>1, <3>5 DEF FullOK
  <2> QED
    BY <2>1, <2>6, <2>7 DEF FullOK
<1>3. CASE HeapizeEnd
  <2>1. pc = "heapize" /\ pc' = "loop" /\ i \notin Sources /\ UNCHANGED <<pos, ih, len, i>>
    BY <1>3 DEF HeapizeEnd
  <2>2. i = Len(data) + 1 /\ \A s \in Sources : s < i
    BY <1>n, <2>1 DEF IInv, IndexOK, Sources
  <2>3. \A s : (InHeap(s)' <=> InHeap(s)) /\ (Exhausted(s)' <=> Exhausted(s))
    BY <1>d, <2>1 DEF InHeap, Exhausted, Live
  <2> QED
    BY <1>d, <1>n, <2>1, <2>2, <2>3 DEF FullOK
<1>4. CASE NextKRead
  <2>1. \A s : InHeap(s)' <=> InHeap(s)
    BY <1>4 DEF InHeap, Live, NextKRead
  <2> QED
    BY <1>4, <2>1, FullSame DEF NextKRead
<1>5. CASE NextKRemove
  <2>1. /\ pc = "nextK" /\ i >= 0 /\ Advance /\ AtLast(ih[i]) /\ len' = len - 1
        /\ pc' \in {"nextK", "down"}
    BY <1>5 DEF NextKRemove
  <2>2. PICK s \in Sources :
           /\ s = ih[i] /\ pos'[s] = pos[s] + 1
    BY <1>d, <2>1, AdvanceFacts
  <2>3. Exhausted(s)'
    BY <1>d, <2>1, <2>2 DEF Exhausted, AtLast
  <2>4. len' < Len(data)
    BY <1>n, <2>1
  <2> QED
    BY <1>d, <2>1, <2>3, <2>4 DEF FullOK
<1>6. CASE IntersectNextReturns
  <2>1. /\ pc = "nextK" /\ pc' = "loop" /\ len' = IF len # Len(data) THEN 0 ELSE len
        /\ UNCHANGED <<pos, ih, i>>
    BY <1>6 DEF IntersectNextReturns
  <2>2. CASE len # Len(data)
    <3>1. PICK s \in Sources : Exhausted(s)
      BY <2>1, <2>2 DEF FullOK
    <3>2. Exhausted(s)' /\ len' < Len(data)
      BY <1>d, <1>n, <2>1, <2>2, <3>1 DEF Exhausted
    <3> QED
      BY <1>d, <2>1, <3>2 DEF FullOK
  <2>3. CASE len = Len(data)
    <3>1. len' = len /\ \A s : InHeap(s)' <=> InHeap(s)
      BY <2>1, <2>3 DEF InHeap, Live
    <3> QED
      BY <2>1, <3>1, FullSame
  <2> QED
    BY <2>2, <2>3
<1>7. CASE UpSwap \/ EqUpFound \/ DownSwap
  <2>1. \A s : InHeap(s)' <=> InHeap(s)
    <3>1. \E a, b \in Live : ih' = Swapped(a, b)
      <4>1. CASE UpSwap
        <5>1. c \in Live /\ c \in Nat /\ Live = 0..(len - 1)
          BY <1>n, <4>1 DEF UpSwap, IInv, IndexOK, Live
        <5>2. Parent(c) \in Live
          BY <1>n, <5>1 DEF Parent
        <5> QED
          BY <4>1, <5>1, <5>2 DEF UpSwap
      <4>2. CASE EqUpFound
        <5>1. eqs \in 1..len /\ q \in Seq(Nat) /\ q # <<>> /\ Head(q) < len
          BY <4>2 DEF EqUpFound, EqUpMore, IInv, IndexOK, TypeOK
        <5>2. Head(q) \in Nat /\ Head(q) >= eqs
          <6>1. Head(q) = q[1] /\ q[1] \in Nat /\ 1 \in 1..Len(q)
            BY <5>1
          <6>2. q[1] >= eqs + 1 - 1
            BY <4>2, <6>1 DEF EqUpFound, IInv, IndexOK
          <6> QED
            BY <1>n, <5>1, <6>1, <6>2
        <5>3. eqs \in Live /\ Head(q) \in Live
          BY <1>n, <5>1, <5>2 DEF Live
        <5> QED
          BY <4>2, <5>3 DEF EqUpFound
      <4>3. CASE DownSwap
        <5>1. c \in Live /\ c \in Nat /\ Live = 0..(len - 1)
          BY <1>n, <4>3 DEF DownSwap, IInv, IndexOK, Live
        <5>2. LesserChild(c) \in Live
          BY <1>n, <4>3, <5>1 DEF DownSwap, DownMoves, LesserChild, Left
        <5> QED
          BY <4>3, <5>1, <5>2 DEF DownSwap
      <4> QED
        BY <1>7, <4>1, <4>2, <4>3
    <3>2. data' = data /\ pos' = pos /\ len' = len
      BY <1>7 DEF UpSwap, EqUpFound, DownSwap
    <3> QED
      BY <3>1, <3>2, SwapFacts DEF IInv
  <2> QED
    BY <1>7, <2>1, FullSame DEF UpSwap, EqUpFound, DownSwap, FullOK
<1>8. CASE \/ UpBreak \/ LoopAgain \/ LoopEnd \/ EqUpPass \/ EqUpEnd \/ EmitIntersected
           \/ DownBreak \/ RepairUp \/ RepairEnd \/ UNCHANGED vars
  <2>1. UNCHANGED <<pos, ih, len>>
    BY <1>8 DEF vars, UpBreak, LoopAgain, LoopEnd, EqUpPass, EqUpEnd, EmitIntersected,
           DownBreak, RepairUp, RepairEnd
  <2>2. \A s : (InHeap(s)' <=> InHeap(s)) /\ (Exhausted(s)' <=> Exhausted(s))
    BY <1>d, <2>1 DEF InHeap, Exhausted, Live
  <2>3. /\ pc \in {"heapize", "heapizeUp"} <=> pc' \in {"heapize", "heapizeUp"}
        /\ pc \in {"heapize", "heapizeUp"} => i' = i
        /\ pc' \in {"eqUp", "emit"} => pc \in {"eqUp", "emit"} \/ len = Len(data)
        /\ pc' = "done" => pc = "done" \/ len = 0 \/ len # Len(data)
    BY <1>8, <1>n DEF vars, UpBreak, LoopAgain, LoopEnd, EqUpPass, EqUpEnd, EmitIntersected,
           DownBreak, RepairUp, RepairEnd, Going
  <2> QED
    BY <1>d, <1>n, <2>1, <2>2, <2>3 DEF FullOK
<1> QED
  BY <1>1, <1>2, <1>3, <1>4, <1>5, <1>6, <1>7, <1>8, PanicsAfterError
  DEF Next, Done, HeapizeFail, EmitMerged, EmitFail, NextKFail, MergeNextRepairs

\* What the round takes of each input.
LEMMA RoundFacts ==
  ASSUME IInv, OrderOK, Fits, FullOK, pc = "emit"
  PROVE  /\ ~err /\ Rec(0) \in Int
         /\ \A s \in Sources : InHeap(s) =>
              /\ pos[s] \in 1..Len(data[s]) /\ Len(merged[s]) = pos[s] - 1
              /\ data[s][pos[s]] \in Int /\ Rec(0) <= data[s][pos[s]]
              /\ s \in Contenders <=> data[s][pos[s]] = Rec(0)
         /\ \A s \in Sources : ~InHeap(s) =>
              /\ op = "MergeNext" /\ Len(merged[s]) = Len(data[s]) /\ s \notin Contenders
         /\ eqs = len <=> \A s \in Sources : InHeap(s) => s \in Contenders
<1>1. ~err /\ Pending = {}
  BY DEF IInv, ReadableOK, Pending
<1>2. /\ len \in Nat /\ Live = 0..(len - 1) /\ eqs \in 1..len
      /\ \A a \in Live : a \in Nat /\ Keys[a] = Rec(a) /\ Rec(a) \in Int
      /\ 0 \in Live /\ \A a \in Front : a \in Live
  BY <1>1, KeysFacts DEF IInv, IndexOK, Front
<1>3. /\ \A a \in Live : Rec(0) <= Rec(a) /\ (Rec(a) = Rec(0) => a \in Front)
      /\ \A a \in Front : Rec(a) = Rec(0)
  BY <1>1, <1>2 DEF OrderOK, EqOK, IInv, PrefixOK
<1>4. ASSUME NEW s \in Sources, InHeap(s)
      PROVE  /\ pos[s] \in 1..Len(data[s]) /\ Len(merged[s]) = pos[s] - 1
             /\ data[s][pos[s]] \in Int /\ Rec(0) <= data[s][pos[s]]
             /\ s \in Contenders <=> data[s][pos[s]] = Rec(0)
  <2>1. PICK a \in Live : ih[a] = s
    BY <1>4 DEF InHeap
  <2>2. Rec(a) = data[s][pos[s]] /\ pos[s] \in 1..Len(data[s])
    BY <2>1, LiveFacts DEF IInv, Rec
  <2>3. Len(merged[s]) = pos[s] - 1
    BY <1>1, <2>2 DEF IInv, TakenOK, Taken
  <2>4. s \in Contenders <=> a \in Front
    BY <1>2, <2>1 DEF Contenders, IInv, SlotsOK, OneSlotEach
  <2> QED
    BY <1>2, <1>3, <2>2, <2>3, <2>4
<1>5. ASSUME NEW s \in Sources, ~InHeap(s)
      PROVE  op = "MergeNext" /\ Len(merged[s]) = Len(data[s]) /\ s \notin Contenders
  <2>1. op = "MergeNext"
    BY <1>1, <1>2, <1>5 DEF FullOK, IInv, TypeOK
  <2>2. pos[s] = Len(data[s]) + 1 \/ (pos[s] = 0 /\ Len(data[s]) = 0)
    BY <1>1, <1>5, <2>1 DEF IInv, KeptOK
  <2>3. Len(data[s]) \in Nat /\ pos[s] \in Nat
    BY <1>1, <2>1, RestFacts
  <2>4. Len(merged[s]) = Len(data[s])
    BY <1>1, <2>2, <2>3 DEF IInv, TakenOK, Taken
  <2>5. s \notin Contenders
    BY <1>2, <1>5 DEF Contenders, InHeap
  <2> QED
    BY <2>1, <2>4, <2>5
<1>6. eqs = len => \A s \in Sources : InHeap(s) => s \in Contenders
  BY <1>2 DEF InHeap, Contenders, Front
<1>7. ASSUME \A s \in Sources : InHeap(s) => s \in Contenders PROVE eqs = len
  <2>1. len - 1 \in Live
    BY <1>2
  <2>2. ih[len - 1] \in Sources /\ InHeap(ih[len - 1])
    BY <2>1 DEF IInv, SlotsOK, InHeap
  <2>3. PICK a \in Front : ih[a] = ih[len - 1]
    BY <1>7, <2>2 DEF Contenders
  <2>4. a = len - 1
    BY <1>2, <2>1, <2>3 DEF IInv, SlotsOK, OneSlotEach
  <2> QED
    BY <1>2, <2>3, <2>4 DEF Front
<1> QED
  BY <1>1, <1>2, <1>4, <1>5, <1>6, <1>7

\* Streams whose readable records come in order, and in strict order.
Ascending(d) ==
  \A s \in DOMAIN d : \A j, k \in 1..Len(d[s]) :
    j < k /\ d[s][j] # Bad /\ d[s][k] # Bad => d[s][j] <= d[s][k]
StrictlyAscending(d) ==
  \A s \in DOMAIN d : \A j, k \in 1..Len(d[s]) :
    j < k /\ d[s][j] # Bad /\ d[s][k] # Bad => d[s][j] < d[s][k]

\* A value common to all inputs is in a round or still to come in each.
Has(s, v) == \E j \in 1..Len(data[s]) : data[s][j] = v
Remains(s, v) == \E j \in 1..Len(data[s]) : j > Len(merged[s]) /\ data[s][j] = v
InRound(v) == \E k \in 1..Len(out) : out[k].key = v
ExactOK ==
  op = "IntersectNext" /\ ~err =>
    /\ \A v : InRound(v) => \A s \in Sources : Has(s, v)
    /\ \A v : (\A s \in Sources : Has(s, v)) => InRound(v) \/ \A s \in Sources : Remains(s, v)

\* Cutting a round, or passing over one that some input lacks.
LEMMA ExactRound ==
  ASSUME IInv, OrderOK, Fits, FullOK, Ascending(data), ExactOK, EmitIntersected
  PROVE  ExactOK'
<1>1. /\ pc = "emit" /\ op = "IntersectNext" /\ data' = data /\ op' = op /\ err' = err
      /\ out' = IF eqs = len THEN Append(out, Round) ELSE out
      /\ merged' = [s \in Sources |-> IF s \in Contenders THEN Append(merged[s], Rec(0))
                                      ELSE merged[s]]
      /\ Sources' = Sources
  BY DEF EmitIntersected, Sources
<1>2. /\ ~err /\ Rec(0) \in Int
      /\ \A s \in Sources : InHeap(s) /\
              /\ pos[s] \in 1..Len(data[s]) /\ Len(merged[s]) = pos[s] - 1
              /\ data[s][pos[s]] \in Int /\ Rec(0) <= data[s][pos[s]]
              /\ s \in Contenders <=> data[s][pos[s]] = Rec(0)
      /\ eqs = len <=> \A s \in Sources : s \in Contenders
  BY <1>1, RoundFacts
<1>3. \A s, v : Has(s, v)' <=> Has(s, v)
  BY <1>1 DEF Has
<1>4. /\ out \in Seq([key : Int, from : SUBSET Sources]) /\ Len(out) \in Nat
      /\ \A s \in Sources : merged[s] \in Seq(Int) /\ Len(data[s]) \in Nat /\ pos[s] \in Nat
      /\ DOMAIN data = Sources
  <2>1. data \in Seq(Seq(Int \cup {Bad})) /\ DOMAIN data = Sources
    BY DEF IInv, TypeOK, Sources
  <2>2. \A s \in Sources : Len(data[s]) \in Nat
    BY <2>1 DEF Sources
  <2> QED
    BY <2>1, <2>2 DEF IInv, TypeOK
<1>5. \A v : InRound(v)' <=> InRound(v) \/ (eqs = len /\ v = Rec(0))
  <2>1. CASE eqs = len
    <3>k. Round.key = Rec(0)
      BY DEF Round
    <3>1. PICK r : r = Round /\ r.key = Rec(0)
      BY <3>k
    <3>2. out' = Append(out, r)
      BY <1>1, <2>1, <3>1
    <3>3. /\ Len(out') = Len(out) + 1 /\ out'[Len(out) + 1] = r
          /\ \A k \in 1..Len(out) : out'[k] = out[k]
      BY <1>4, <3>2
    <3> QED
      BY <1>4, <2>1, <3>1, <3>3 DEF InRound
  <2>2. CASE eqs # len
    BY <1>1, <2>2 DEF InRound
  <2> QED
    BY <2>1, <2>2
<1>6. ASSUME NEW v, InRound(v)', NEW s \in Sources PROVE Has(s, v)
  <2>1. CASE InRound(v)
    BY <1>1, <1>2, <2>1 DEF ExactOK
  <2>2. CASE eqs = len /\ v = Rec(0)
    BY <1>2, <2>2 DEF Has
  <2> QED
    BY <1>5, <1>6, <2>1, <2>2
<1>7. ASSUME NEW v, \A s \in Sources : Has(s, v), ~InRound(v)', NEW s \in Sources
      PROVE  Remains(s, v)'
  <2>1. ~InRound(v) /\ \A t \in Sources : Remains(t, v)
    BY <1>1, <1>2, <1>5, <1>7 DEF ExactOK
  <2>2. v # Rec(0)
    <3> SUFFICES ASSUME v = Rec(0) PROVE FALSE
      OBVIOUS
    <3>1. ASSUME NEW t \in Sources PROVE t \in Contenders
      <4>1. PICK j \in 1..Len(data[t]) : j > Len(merged[t]) /\ data[t][j] = v
        BY <2>1 DEF Remains
      <4>2. /\ pos[t] \in 1..Len(data[t]) /\ Len(merged[t]) = pos[t] - 1
            /\ data[t][pos[t]] \in Int /\ Rec(0) <= data[t][pos[t]]
            /\ t \in Contenders <=> data[t][pos[t]] = Rec(0)
        BY <1>2
      <4>3. pos[t] < j \/ pos[t] = j
        BY <1>4, <4>1, <4>2
      <4>4. data[t][pos[t]] # Bad /\ data[t][j] # Bad
        BY <1>2, <4>1, <4>2, InputsAssumption
      <4>5. data[t][pos[t]] <= Rec(0)
        BY <1>2, <1>4, <4>1, <4>2, <4>3, <4>4 DEF Ascending
      <4> QED
        BY <1>2, <4>2, <4>5
    <3> QED
      BY <1>2, <1>5, <1>7, <3>1
  <2>3. PICK j \in 1..Len(data[s]) : j > Len(merged[s]) /\ data[s][j] = v
    BY <2>1 DEF Remains
  <2>4. CASE s \in Contenders
    <3>1. merged'[s] = Append(merged[s], Rec(0))
      BY <1>1, <2>4
    <3>2. Len(merged'[s]) = Len(merged[s]) + 1
      BY <1>2, <1>4, <3>1
    <3>3. j # pos[s]
      BY <1>2, <2>2, <2>3, <2>4
    <3>4. j > Len(merged'[s])
      BY <1>2, <1>4, <2>3, <3>2, <3>3
    <3> QED
      BY <1>1, <2>3, <3>4 DEF Remains
  <2>5. CASE s \notin Contenders
    BY <1>1, <2>3, <2>5 DEF Remains
  <2> QED
    BY <2>4, <2>5
<1> QED
  BY <1>1, <1>3, <1>6, <1>7 DEF ExactOK

\* ExactOK is inductive.
LEMMA ExactKept ==
  ASSUME IInv, OrderOK, Fits, FullOK, Ascending(data), ExactOK, [Next]_vars
  PROVE  ExactOK'
<1>1. CASE EmitIntersected
  BY <1>1, ExactRound
<1>2. CASE ~EmitIntersected
  <2>1. data' = data /\ op' = op /\ (err => err') /\ Sources' = Sources
    BY ErrFacts DEF Sources
  <2>2. op = "IntersectNext" => merged' = merged /\ out' = out
    BY <1>2 DEF Next, vars, HeapizeSkip, HeapizeAdd, HeapizeFail, HeapizeEnd, UpSwap, UpBreak,
           UpPanic, LoopAgain, LoopEnd, EqUpFound, EqUpPass, EqUpEnd, EmitMerged, EmitFail,
           NextKRead, NextKFail, NextKRemove, DownSwap, DownBreak,
           MergeNextRepairs, RepairUp, RepairEnd, IntersectNextReturns, Done
  <2>3. ASSUME op = "IntersectNext", NEW v
        PROVE  /\ InRound(v)' <=> InRound(v)
               /\ \A s : Has(s, v)' <=> Has(s, v)
               /\ \A s : Remains(s, v)' <=> Remains(s, v)
    BY <2>1, <2>2, <2>3 DEF InRound, Has, Remains
  <2> QED
    BY <2>1, <2>3 DEF ExactOK
<1> QED
  BY <1>1, <1>2

\* Repeated IntersectNext over no more than five ascending inputs returns
\* every record that all of them hold and no other.
THEOREM IntersectsExactly ==
  ASSUME \A d \in IntersectInputs : Len(d) <= 5 /\ Ascending(d)
  PROVE  Spec => []IntersectExact
<1> DEFINE J == IInv /\ OrderOK
           K == /\ op = "IntersectNext" => Len(data) <= 5 /\ Ascending(data) /\ ExactOK
                /\ FullOK
<1>1. Init => K
  <2> SUFFICES ASSUME Init PROVE K
    OBVIOUS
  <2>1. FullOK
    BY InitOK DEF Init, FullOK, Sources, IInv, TypeOK
  <2>2. \A s \in Sources : Len(data[s]) \in Nat /\ merged[s] = <<>>
    BY InitOK DEF Init, IInv, TypeOK, Sources
  <2>3. ASSUME NEW s \in Sources, NEW v, Has(s, v) PROVE Remains(s, v)
    <3>1. PICK j \in 1..Len(data[s]) : data[s][j] = v
      BY <2>3 DEF Has
    <3>2. j > Len(merged[s])
      BY <2>2, <3>1
    <3> QED
      BY <3>1, <3>2 DEF Remains
  <2>4. \A v : ~InRound(v)
    BY DEF Init, InRound
  <2>5. ExactOK
    BY <2>3, <2>4 DEF ExactOK
  <2> QED
    BY <2>1, <2>5 DEF Init
<1>2. J /\ K /\ [Next]_vars => K'
  <2> SUFFICES ASSUME J, K, [Next]_vars PROVE K'
    OBVIOUS
  <2>1. data' = data /\ op' = op
    BY ErrFacts
  <2>2. FullOK'
    BY FullKept
  <2>3. op = "IntersectNext" => ExactOK'
    BY ExactKept DEF Fits
  <2>4. Ascending(data) => Ascending(data)'
    BY <2>1 DEF Ascending
  <2> QED
    BY <2>1, <2>2, <2>3, <2>4
<1>3. J /\ K => IntersectExact
  <2> SUFFICES ASSUME J, K, pc = "done", ~err, op = "IntersectNext", data # <<>>
               PROVE  {out[k].key : k \in DOMAIN out} =
                        {v \in Range(data[1]) : \A s \in Sources : v \in Range(data[s])}
    BY DEF IntersectExact
  <2>1. /\ data \in Seq(Seq(Int \cup {Bad})) /\ Len(data) \in Nat
        /\ out \in Seq([key : Int, from : SUBSET Sources])
    BY DEF IInv, TypeOK
  <2>2. 1 \in Sources /\ \A s \in Sources : data[s] \in Seq(Int \cup {Bad}) /\ Len(data[s]) \in Nat
    BY <2>1 DEF Sources
  <2>3. \A s \in Sources : \A v : v \in Range(data[s]) <=> Has(s, v)
    BY <2>2 DEF Range, Has
  <2>4. \A v : v \in {out[k].key : k \in DOMAIN out} <=> InRound(v)
    BY <2>1 DEF InRound
  <2>5. PICK s \in Sources : Exhausted(s)
    <3>1. len # Len(data) \/ len = 0
      BY DEF FullOK
    <3>2. Len(data) # 0
      BY <2>1
    <3> QED
      BY <3>1, <3>2 DEF FullOK
  <2>6. Len(merged[s]) = Len(data[s])
    <3>1. pos[s] \in Nat /\ pos[s] <= Len(data[s]) + 1 /\ Len(data[s]) \in Nat
      BY <2>2 DEF IInv, TypeOK
    <3>2. Pending = {}
      BY DEF Pending
    <3>3. Len(merged[s]) = IF pos[s] = 0 THEN 0 ELSE pos[s] - 1
      BY <3>2 DEF IInv, TakenOK, Taken
    <3> QED
      BY <2>5, <3>1, <3>3 DEF Exhausted
  <2>7. \A v : ~Remains(s, v)
    BY <2>2, <2>6 DEF Remains
  <2>8. \A v : InRound(v) <=> \A t \in Sources : Has(t, v)
    BY <2>7 DEF ExactOK
  <2> QED
    BY <2>2, <2>3, <2>4, <2>8
<1>4. Spec => []J
  BY Ordered
<1> HIDE DEF J, K
<1> QED
  BY <1>1, <1>2, <1>3, <1>4, PTL DEF Spec

\* What is still to come is past the last round.
LastOK ==
  /\ MergedInOrder
  /\ ~err /\ out # <<>> =>
       \A s \in Sources : \A k \in 1..Len(data[s]) :
         k > Len(merged[s]) /\ data[s][k] # Bad => out[Len(out)].key < data[s][k]

\* A round takes what is least.
LEMMA RoundPasses ==
  ASSUME IInv, OrderOK, Fits, FullOK, StrictlyAscending(data), LastOK,
         pc = "emit", data' = data, out' = out \/ out' = Append(out, Round),
         merged' = [s \in Sources |-> IF s \in Contenders THEN Append(merged[s], Rec(0))
                                      ELSE merged[s]]
  PROVE  LastOK'
<1>1. /\ ~err /\ Rec(0) \in Int
      /\ \A s \in Sources : InHeap(s) =>
              /\ pos[s] \in 1..Len(data[s]) /\ Len(merged[s]) = pos[s] - 1
              /\ data[s][pos[s]] \in Int /\ Rec(0) <= data[s][pos[s]]
              /\ s \in Contenders <=> data[s][pos[s]] = Rec(0)
      /\ \A s \in Sources : ~InHeap(s) => Len(merged[s]) = Len(data[s]) /\ s \notin Contenders
  BY RoundFacts
<1>2. /\ out \in Seq([key : Int, from : SUBSET Sources]) /\ Len(out) \in Nat
      /\ \A s \in Sources : data[s] \in Seq(Int \cup {Bad}) /\ Len(data[s]) \in Nat
      /\ \A s \in Sources : merged[s] \in Seq(Int) /\ pos[s] \in Nat
      /\ DOMAIN data = Sources /\ Sources' = Sources
  <2>1. data \in Seq(Seq(Int \cup {Bad})) /\ DOMAIN data = Sources /\ Sources' = Sources
    BY DEF IInv, TypeOK, Sources
  <2>2. \A s \in Sources : data[s] \in Seq(Int \cup {Bad}) /\ Len(data[s]) \in Nat
    BY <2>1 DEF Sources
  <2> QED
    BY <2>1, <2>2 DEF IInv, TypeOK
<1>3. ASSUME NEW s \in Sources
      PROVE  /\ Len(merged'[s]) \in Nat /\ Len(merged[s]) \in Nat
             /\ Len(merged'[s]) >= Len(merged[s])
             /\ s \in Contenders => Len(merged'[s]) = Len(merged[s]) + 1
  <2>1. CASE s \in Contenders
    <3>1. merged'[s] = Append(merged[s], Rec(0))
      BY <2>1
    <3>2. Len(merged'[s]) = Len(merged[s]) + 1 /\ Len(merged[s]) \in Nat
      BY <1>1, <1>2, <3>1
    <3> QED
      BY <3>2
  <2>2. CASE s \notin Contenders
    <3>1. merged'[s] = merged[s] /\ Len(merged[s]) \in Nat
      BY <1>2, <2>2
    <3> QED
      BY <2>2, <3>1
  <2> QED
    BY <2>1, <2>2
<1>4. CASE out' = out
  <2>1. MergedInOrder'
    BY <1>4 DEF LastOK, MergedInOrder
  <2>2. ASSUME out # <<>>, NEW s \in Sources, NEW k \in 1..Len(data[s]),
               k > Len(merged'[s]), data[s][k] # Bad
        PROVE  out[Len(out)].key < data[s][k]
    <3>1. k > Len(merged[s])
      BY <1>2, <1>3, <2>2
    <3> QED
      BY <1>1, <2>2, <3>1 DEF LastOK
  <2> QED
    BY <1>2, <1>4, <2>1, <2>2 DEF LastOK
<1>5. CASE out' = Append(out, Round)
  <2>k. Round.key = Rec(0)
    BY DEF Round
  <2>1. PICK r : r = Round /\ r.key = Rec(0)
    BY <2>k
  <2>2. /\ Len(out') = Len(out) + 1 /\ out'[Len(out) + 1] = r
        /\ \A k \in 1..Len(out) : out'[k] = out[k]
        /\ DOMAIN out' = 1..(Len(out) + 1)
    BY <1>2, <1>5, <2>1
  <2>3. ASSUME NEW s \in Sources, NEW k \in 1..Len(data[s]),
               k > Len(merged'[s]), data[s][k] # Bad
        PROVE  Rec(0) < data[s][k]
    <3>1. InHeap(s)
      BY <1>1, <1>2, <1>3, <2>3
    <3>2. /\ pos[s] \in 1..Len(data[s]) /\ Len(merged[s]) = pos[s] - 1
          /\ data[s][pos[s]] \in Int /\ Rec(0) <= data[s][pos[s]]
          /\ s \in Contenders <=> data[s][pos[s]] = Rec(0)
      BY <1>1, <3>1
    <3>3. k >= pos[s] /\ k \in Int /\ (s \in Contenders => k > pos[s])
      BY <1>2, <1>3, <2>3, <3>2
    <3>4. data[s][k] \in Int /\ data[s][pos[s]] # Bad
      BY <1>2, <2>3, <3>2, InputsAssumption
    <3>5. k > pos[s] => data[s][pos[s]] < data[s][k]
      BY <1>2, <2>3, <3>2, <3>4 DEF StrictlyAscending
    <3>6. CASE k = pos[s]
      <4>1. data[s][k] # Rec(0)
        BY <1>2, <3>2, <3>3, <3>6
      <4> QED
        BY <1>1, <3>2, <3>4, <3>6, <4>1
    <3>7. CASE k > pos[s]
      BY <1>1, <3>2, <3>4, <3>5, <3>7
    <3> QED
      BY <1>2, <3>2, <3>3, <3>6, <3>7
  <2>4. out # <<>> => out[Len(out)].key < Rec(0)
    <3> SUFFICES ASSUME out # <<>> PROVE out[Len(out)].key < Rec(0)
      OBVIOUS
    <3>1. 0 \in Live
      BY DEF IInv, IndexOK, TypeOK, Live
    <3>2. PICK s \in Sources : s = ih[0] /\ InHeap(s)
      BY <3>1 DEF IInv, SlotsOK, InHeap
    <3>3. Rec(0) = data[s][pos[s]] /\ Rec(0) # Bad
      BY <1>1, <3>2, InputsAssumption DEF Rec
    <3>4. pos[s] > Len(merged[s]) /\ pos[s] \in 1..Len(data[s])
      BY <1>1, <1>2, <3>2
    <3> QED
      BY <1>1, <3>2, <3>3, <3>4 DEF LastOK
  <2>5. ASSUME NEW k \in DOMAIN out', k > 1 PROVE out'[k - 1].key < out'[k].key
    <3>1. CASE k = Len(out) + 1
      <4>1. out # <<>> /\ Len(out) \in 1..Len(out) /\ k - 1 = Len(out)
        BY <1>2, <2>5, <3>1
      <4> QED
        BY <2>1, <2>2, <2>4, <3>1, <4>1
    <3>2. CASE k # Len(out) + 1
      <4>1. k \in 1..Len(out) /\ k - 1 \in 1..Len(out) /\ k \in DOMAIN out
        BY <1>2, <2>2, <2>5, <3>2
      <4>2. out[k - 1].key < out[k].key
        BY <2>5, <4>1 DEF LastOK, MergedInOrder
      <4> QED
        BY <2>2, <4>1, <4>2
    <3> QED
      BY <3>1, <3>2
  <2>6. MergedInOrder'
    BY <2>5 DEF MergedInOrder
  <2>7. out'[Len(out')].key = Rec(0)
    BY <2>1, <2>2
  <2> QED
    BY <1>2, <2>3, <2>6, <2>7 DEF LastOK
<1> QED
  BY <1>4, <1>5

\* LastOK is inductive.
LEMMA LastKept ==
  ASSUME IInv, OrderOK, Fits, FullOK, StrictlyAscending(data), LastOK, [Next]_vars
  PROVE  LastOK'
<1>1. CASE EmitMerged
  BY <1>1, RoundPasses DEF EmitMerged
<1>2. CASE EmitIntersected
  BY <1>2, RoundPasses DEF EmitIntersected
<1>3. CASE ~EmitMerged /\ ~EmitIntersected
  <2>1. data' = data /\ (err => err') /\ Sources' = Sources
    BY ErrFacts DEF Sources
  <2>2. merged' = merged /\ out' = out
    BY <1>3 DEF Next, vars, HeapizeSkip, HeapizeAdd, HeapizeFail, HeapizeEnd, UpSwap, UpBreak,
           UpPanic, LoopAgain, LoopEnd, EqUpFound, EqUpPass, EqUpEnd, EmitFail,
           NextKRead, NextKFail, NextKRemove, DownSwap, DownBreak,
           MergeNextRepairs, RepairUp, RepairEnd, IntersectNextReturns, Done
  <2> QED
    BY <2>1, <2>2 DEF LastOK, MergedInOrder
<1> QED
  BY <1>1, <1>2, <1>3

\* HeapMerge of no more than seven inputs, and IntersectNext over no more
\* than five, whose records come in strict order: so do the rounds.
THEOREM RoundsAscend ==
  ASSUME \A d \in MergeInputs : Len(d) <= 7 /\ StrictlyAscending(d),
         \A d \in IntersectInputs : Len(d) <= 5 /\ StrictlyAscending(d)
  PROVE  Spec => []MergedInOrder
<1> DEFINE J == IInv /\ OrderOK
           K == Fits /\ StrictlyAscending(data) /\ FullOK /\ LastOK
<1>1. Init => K
  <2> SUFFICES ASSUME Init PROVE K
    OBVIOUS
  <2>1. FullOK
    BY InitOK DEF Init, FullOK, Sources, IInv, TypeOK
  <2>2. LastOK
    BY DEF Init, LastOK, MergedInOrder
  <2>3. Fits /\ StrictlyAscending(data)
    BY DEF Init, Fits
  <2> QED
    BY <2>1, <2>2, <2>3
<1>2. J /\ K /\ [Next]_vars => K'
  <2> SUFFICES ASSUME J, K, [Next]_vars PROVE K'
    OBVIOUS
  <2>1. data' = data /\ op' = op
    BY ErrFacts
  <2>2. FullOK' /\ LastOK'
    BY FullKept, LastKept
  <2>3. Fits' /\ StrictlyAscending(data)'
    BY <2>1 DEF Fits, StrictlyAscending
  <2> QED
    BY <2>2, <2>3
<1>3. K => MergedInOrder
  BY DEF LastOK
<1>4. Spec => []J
  BY Ordered
<1> HIDE DEF J, K
<1> QED
  BY <1>1, <1>2, <1>3, <1>4, PTL DEF Spec
=============================================================================
