----------------------------- MODULE MergeHeap -----------------------------
(***************************************************************************)
(* The heap of iterators of itheap.go: Heapize, Up, EqUp, NextK, Down,     *)
(* Remove, and the two loops driven by it, HeapMerge (over MergeNext) and  *)
(* repeated IntersectNext.  One action per iteration of each loop of the   *)
(* code.                                                                   *)
(*                                                                         *)
(* A record is abstracted to its rank under the comparator Z in use: every *)
(* comparator of rdx.go is a total preorder (module OrderLaws), so an      *)
(* integer stands for a class of records that contend for one spot.  Bad   *)
(* stands for bytes that Iter.Read cannot parse.  What same-spot records   *)
(* merge into is module SameSpot's business; here a round appends one      *)
(* entry to out.                                                           *)
(***************************************************************************)
EXTENDS Integers, Sequences, Functions

CONSTANTS
  MergeInputs,      \* the argument lists of HeapMerge to try, and those of
  IntersectInputs,  \* Heapize and IntersectNext: sets of sequences of streams
  Bad,       \* an unreadable record
  Broken,    \* the ranks whose records hold malformed contents: merging two
             \* of them fails (MergeSameSpotElements returns an error)
  AnyOrder   \* TRUE: MergeSameSpotElements may permute its slice;
             \* FALSE: the contending records are identical, it does not

ASSUME InputsAssumption ==
  /\ Bad \notin Int
  /\ \A d \in MergeInputs \cup IntersectInputs : d \in Seq(Seq(Int \cup {Bad}))

ASSUME OptionsAssumption == AnyOrder \in BOOLEAN /\ Broken \subseteq Int

VARIABLES
  data,      \* rdx [][]byte, the inputs
  op,        \* the loop being run
  pos,       \* pos[s]: index of the record iterator s stands at; 0 before
             \* the first Read, Len(data[s]) + 1 once exhausted
  ih,        \* the backing array of the Heap slice, 0-based, of iterators
  len,       \* the length of the Heap slice
  q,         \* EqUp's queue of slots to look at
  eqs,       \* EqUp's result: the first eqs slots contend for the spot
  i,         \* index of the enclosing loop (Heapize, NextK, MergeNext)
  c,         \* cursor of Up and Down
  out,       \* the rounds appended so far
  merged,    \* history: merged[s] is the keys of the rounds that took a
             \* record of s, in order
  err,       \* err != nil
  pc

vars == <<data, op, pos, ih, len, q, eqs, i, c, out, merged, err, pc>>

Sources == 1..Len(data)
Slots == 0..(Len(data) - 1)

\* Iter.Value() and friends of the record that the iterator in slot a stands at
Rec(a) == data[ih[a]][pos[ih[a]]]
Failed(a) == Rec(a) = Bad

\* z(&ih[a], &ih[b]) < Eq and >= Eq.  On an iterator whose Read failed the
\* comparator slices the input by stale lengths: either answer, or a panic
\* (UpPanic) if they reach past its end.
Positioned(a, b) == ~Failed(a) /\ ~Failed(b)
MayBeLess(a, b) == Positioned(a, b) => Rec(a) < Rec(b)
MayBeGeq(a, b) == Positioned(a, b) => Rec(a) >= Rec(b)

\* mistake: one half of the exchange
SwappedHalf(a, b) == [ih EXCEPT ![a] = ih[b]]
Swapped(a, b) == [ih EXCEPT ![a] = ih[b], ![b] = ih[a]]

Init ==
  /\ \/ op = "MergeNext" /\ data \in MergeInputs
     \/ op = "IntersectNext" /\ data \in IntersectInputs
  /\ pos = [s \in Sources |-> 0]
  /\ ih = [a \in Slots |-> 0]
  /\ len = 0
  /\ q = <<>>
  /\ eqs = 0
  /\ i = 1
  /\ c = 0
  /\ out = <<>>
  /\ merged = [s \in Sources |-> <<>>]
  /\ err = FALSE
  /\ pc = "heapize"
-----------------------------------------------------------------------------
(* Heapize: one iteration per input *)

\* len(r) == 0: continue
HeapizeSkip ==
  /\ pc = "heapize"
  /\ i \in Sources
  /\ data[i] = <<>>
  /\ i' = i + 1
  /\ UNCHANGED <<data, op, pos, ih, len, q, eqs, c, out, merged, err, pc>>

\* i.Read() is true: append the iterator, then LastUp
HeapizeAdd ==
  /\ pc = "heapize"
  /\ i \in Sources
  /\ data[i] # <<>>
  /\ data[i][1] # Bad
  /\ pos' = [pos EXCEPT ![i] = 1]
  /\ ih' = [ih EXCEPT ![len] = i]
  /\ len' = len + 1
  /\ c' = len
  /\ i' = i + 1
  /\ pc' = "heapizeUp"
  /\ UNCHANGED <<data, op, q, eqs, out, merged, err>>

\* i.Read() is false: return nil, i.Error()
HeapizeFail ==
  /\ pc = "heapize"
  /\ i \in Sources
  /\ data[i] # <<>>
  /\ data[i][1] = Bad
  /\ len' = 0
  /\ err' = TRUE
  /\ pc' = "done"
  /\ UNCHANGED <<data, op, pos, ih, q, eqs, i, c, out, merged>>

HeapizeEnd ==
  /\ pc = "heapize"
  /\ i \notin Sources
  /\ pc' = "loop"
  /\ UNCHANGED <<data, op, pos, ih, len, q, eqs, i, c, out, merged, err>>

(* Up, called by LastUp in Heapize and by the repair loop of MergeNext *)

\* (a - 1) / 2, which truncates toward zero
Parent(a) == IF a = 0 THEN 0 ELSE (a - 1) \div 2

UpSwap ==
  /\ pc \in {"heapizeUp", "repairUp"}
  /\ Parent(c) # c
  /\ MayBeLess(c, Parent(c))
  /\ ih' = Swapped(c, Parent(c))
  /\ c' = Parent(c)
  /\ UNCHANGED <<data, op, pos, len, q, eqs, i, out, merged, err, pc>>

UpBreak ==
  /\ pc \in {"heapizeUp", "repairUp"}
  /\ Parent(c) # c => MayBeGeq(c, Parent(c))
  /\ pc' = IF pc = "heapizeUp" THEN "heapize" ELSE "repair"
  /\ UNCHANGED <<data, op, pos, ih, len, q, eqs, i, c, out, merged, err>>
UpPanic ==
  /\ pc \in {"heapizeUp", "repairUp"}
  /\ Parent(c) # c
  /\ ~Positioned(c, Parent(c))
  /\ pc' = "panic"
  /\ UNCHANGED <<data, op, pos, ih, len, q, eqs, i, c, out, merged, err>>
-----------------------------------------------------------------------------
(* HeapMerge: for len(heap) > 0 && err == nil { heap.MergeNext(...) }.     *)
(* The caller of IntersectNext also stops once an input is missing.        *)

\* mistake: the last iterator is left
GoingOffByOne == len > 1 /\ ~err
Going ==
  /\ len > 0
  /\ ~err
  /\ op = "IntersectNext" => len = Len(data)

LoopAgain ==
  /\ pc = "loop"
  /\ Going
  /\ q' = <<1, 2>>
  /\ eqs' = 1
  /\ pc' = "eqUp"
  /\ UNCHANGED <<data, op, pos, ih, len, i, c, out, merged, err>>

LoopEnd ==
  /\ pc = "loop"
  /\ ~Going
  /\ pc' = "done"
  /\ UNCHANGED <<data, op, pos, ih, len, q, eqs, i, c, out, merged, err>>

(* EqUp: gather at the front the iterators that equal the root.  With one  *)
(* iterator the loop below ends at once with eqs = 1, as the early return  *)
(* does.                                                                   *)

EqUpMore == q # <<>> /\ Head(q) < len

\* mistake: any slot of the queue counts as equal
EqUpFoundAny ==
  /\ pc = "eqUp"
  /\ EqUpMore
  /\ q' = Append(Append(Tail(q), 2 * Head(q) + 1), 2 * Head(q) + 2)
  /\ ih' = Swapped(eqs, Head(q))
  /\ eqs' = eqs + 1
  /\ UNCHANGED <<data, op, pos, len, i, c, out, merged, err, pc>>

EqUpFound ==
  /\ pc = "eqUp"
  /\ EqUpMore
  /\ Rec(0) = Rec(Head(q))
  /\ q' = Append(Append(Tail(q), 2 * Head(q) + 1), 2 * Head(q) + 2)
  /\ ih' = Swapped(eqs, Head(q))
  /\ eqs' = eqs + 1
  /\ UNCHANGED <<data, op, pos, len, i, c, out, merged, err, pc>>

EqUpPass ==
  /\ pc = "eqUp"
  /\ EqUpMore
  /\ Rec(0) # Rec(Head(q))
  /\ q' = Tail(q)
  /\ UNCHANGED <<data, op, pos, ih, len, eqs, i, c, out, merged, err, pc>>

EqUpEnd ==
  /\ pc = "eqUp"
  /\ ~EqUpMore
  /\ pc' = "emit"
  /\ UNCHANGED <<data, op, pos, ih, len, q, eqs, i, c, out, merged, err>>

(* The round: what MergeNext and IntersectNext do between EqUp and NextK *)

Front == 0..(eqs - 1)
Contenders == {ih[a] : a \in Front}
Round == [key |-> Rec(0), from |-> Contenders]

\* The orders in which MergeSameSpotElements may leave heap[:eqs].
FrontOrders ==
  IF AnyOrder
  THEN {[a \in Slots |-> IF a \in Front THEN f[a] ELSE ih[a]] :
          f \in Bijection(Front, Contenders)}
  ELSE {ih}

MergeFails == eqs > 1 /\ Rec(0) \in Broken

\* MergeNext: append the record or MergeSameSpotElements(heap[:eqlen])
EmitMerged ==
  /\ pc = "emit"
  /\ op = "MergeNext"
  /\ ~MergeFails
  /\ out' = Append(out, Round)
  /\ merged' = [s \in Sources |-> IF s \in Contenders
                                 THEN Append(merged[s], Rec(0))
                                 ELSE merged[s]]
  /\ ih' \in FrontOrders
  /\ i' = eqs - 1
  /\ pc' = "nextK"
  /\ UNCHANGED <<data, op, pos, len, q, eqs, c, err>>

\* MergeNext: MergeSameSpotElements returned an error, which skips NextK
EmitFail ==
  /\ pc = "emit"
  /\ op = "MergeNext"
  /\ MergeFails
  /\ err' = TRUE
  /\ ih' \in FrontOrders
  /\ pc' = "loop"
  /\ UNCHANGED <<data, op, pos, len, q, eqs, i, c, out, merged>>

\* mistake: two equal iterators are taken for all of them
EmitIntersectedPairs ==
  /\ pc = "emit"
  /\ op = "IntersectNext"
  /\ out' = IF eqs > 1 THEN Append(out, Round) ELSE out
  /\ merged' = merged
  /\ i' = eqs - 1
  /\ pc' = "nextK"
  /\ UNCHANGED <<data, op, pos, ih, len, q, eqs, c, err>>

\* IntersectNext: the record is returned if all the l iterators equal it
EmitIntersected ==
  /\ pc = "emit"
  /\ op = "IntersectNext"
  /\ out' = IF eqs = len THEN Append(out, Round) ELSE out
  /\ merged' = [s \in Sources |-> IF s \in Contenders
                                 THEN Append(merged[s], Rec(0))
                                 ELSE merged[s]]
  /\ i' = eqs - 1
  /\ pc' = "nextK"
  /\ UNCHANGED <<data, op, pos, ih, len, q, eqs, c, err>>
-----------------------------------------------------------------------------
(* NextK: advance the first eqs iterators, last slot first *)

\* the record that the iterator in slot i moves to
Upcoming == data[ih[i]][pos[ih[i]] + 1]
AtLast(s) == pos[s] = Len(data[s])

\* mistake: Read skips a record
AdvanceTwice == pos' = [pos EXCEPT ![ih[i]] = @ + 2]
Advance == pos' = [pos EXCEPT ![ih[i]] = @ + 1]

\* Read() is true: Down(i)
NextKRead ==
  /\ pc = "nextK"
  /\ i >= 0
  /\ ~AtLast(ih[i])
  /\ Upcoming # Bad
  /\ Advance
  /\ c' = i
  /\ pc' = "down"
  /\ UNCHANGED <<data, op, ih, len, q, eqs, i, out, merged, err>>

\* Read() is false and HasFailed(): keep the error and break
NextKFail ==
  /\ pc = "nextK"
  /\ i >= 0
  /\ ~AtLast(ih[i])
  /\ Upcoming = Bad
  /\ Advance
  /\ err' = TRUE
  /\ i' = -1
  /\ UNCHANGED <<data, op, ih, len, q, eqs, c, out, merged, pc>>

\* Read() is false at the end of the input: Remove(i), with its Down(i)
NextKRemove ==
  /\ pc = "nextK"
  /\ i >= 0
  /\ AtLast(ih[i])
  /\ Advance
  /\ ih' = Swapped(len - 1, i)
  /\ len' = len - 1
  /\ IF i < len - 1
     THEN pc' = "down" /\ c' = i /\ i' = i
     ELSE pc' = pc /\ c' = c /\ i' = i - 1
  /\ UNCHANGED <<data, op, q, eqs, out, merged, err>>

(* Down *)

Left(a) == 2 * a + 1
\* mistake: the right child is never looked at
LeftChild(a) == Left(a)
LesserChild(a) ==
  IF Left(a) + 1 < len /\ Rec(Left(a) + 1) < Rec(Left(a))
  THEN Left(a) + 1
  ELSE Left(a)
DownMoves == Left(c) < len /\ Rec(LesserChild(c)) < Rec(c)

DownSwap ==
  /\ pc = "down"
  /\ DownMoves
  /\ ih' = Swapped(c, LesserChild(c))
  /\ c' = LesserChild(c)
  /\ UNCHANGED <<data, op, pos, len, q, eqs, i, out, merged, err, pc>>

DownBreak ==
  /\ pc = "down"
  /\ ~DownMoves
  /\ i' = i - 1
  /\ pc' = "nextK"
  /\ UNCHANGED <<data, op, pos, ih, len, q, eqs, c, out, merged, err>>
-----------------------------------------------------------------------------
(* After NextK *)

\* mistake: no repair loop
MergeNextReturns ==
  /\ pc = "nextK"
  /\ i = -1
  /\ op = "MergeNext"
  /\ pc' = "loop"
  /\ UNCHANGED <<data, op, pos, ih, len, q, eqs, i, c, out, merged, err>>

\* MergeNext: if eqlen > 1 { for i := eqlen; i < len(*heap); i++ { Up(i) } }
MergeNextRepairs ==
  /\ pc = "nextK"
  /\ i = -1
  /\ op = "MergeNext"
  /\ IF eqs > 1
     THEN pc' = "repair" /\ i' = eqs
     ELSE pc' = "loop" /\ i' = i
  /\ UNCHANGED <<data, op, pos, ih, len, q, eqs, c, out, merged, err>>

\* mistake: no i++
RepairUpStays ==
  /\ pc = "repair"
  /\ i < len
  /\ c' = i
  /\ pc' = "repairUp"
  /\ UNCHANGED <<data, op, pos, ih, len, q, eqs, i, out, merged, err>>
RepairUp ==
  /\ pc = "repair"
  /\ i < len
  /\ c' = i
  /\ i' = i + 1
  /\ pc' = "repairUp"
  /\ UNCHANGED <<data, op, pos, ih, len, q, eqs, out, merged, err>>

RepairEnd ==
  /\ pc = "repair"
  /\ i >= len
  /\ pc' = "loop"
  /\ UNCHANGED <<data, op, pos, ih, len, q, eqs, i, c, out, merged, err>>

\* IntersectNext: if len(*heap) != l, an input was exhausted, the heap is
\* emptied; l is Len(data), see Going
IntersectNextReturns ==
  /\ pc = "nextK"
  /\ i = -1
  /\ op = "IntersectNext"
  /\ len' = IF len # Len(data) THEN 0 ELSE len
  /\ pc' = "loop"
  /\ UNCHANGED <<data, op, pos, ih, q, eqs, i, c, out, merged, err>>

Done == pc \in {"done", "panic"} /\ UNCHANGED vars

Next ==
  \/ HeapizeSkip \/ HeapizeAdd \/ HeapizeFail \/ HeapizeEnd
  \/ UpSwap \/ UpBreak \/ UpPanic
  \/ LoopAgain \/ LoopEnd
  \/ EqUpFound \/ EqUpPass \/ EqUpEnd
  \/ EmitMerged \/ EmitFail \/ EmitIntersected
  \/ NextKRead \/ NextKFail \/ NextKRemove
  \/ DownSwap \/ DownBreak
  \/ MergeNextRepairs \/ RepairUp \/ RepairEnd \/ IntersectNextReturns
  \/ Done

\* The calls run on one goroutine to their return: the next step is taken.
Spec == Init /\ [][Next]_vars /\ WF_vars(Next)
-----------------------------------------------------------------------------
(* Properties *)

PCs == {"heapize", "heapizeUp", "loop", "eqUp", "emit", "nextK", "down",
        "repair", "repairUp", "done", "panic"}
Live == 0..(len - 1)

\* The Heap slice and every index into it stay within the inputs.
TypeOK ==
  /\ data \in Seq(Seq(Int \cup {Bad}))
  /\ op \in {"MergeNext", "IntersectNext"}
  /\ pos \in [Sources -> Nat]
  /\ \A s \in Sources : pos[s] <= Len(data[s]) + 1
  /\ ih \in [Slots -> 0..Len(data)]
  /\ len \in 0..Len(data)
  /\ q \in Seq(Nat)
  /\ eqs \in 0..Len(data)
  /\ i \in Int
  /\ c \in Nat
  /\ out \in Seq([key : Int, from : SUBSET Sources])
  /\ merged \in [Sources -> Seq(Int)]
  /\ err \in BOOLEAN
  /\ pc \in PCs

\* Whatever Up, Down, EqUp, Remove and MergeSameSpotElements swap, every live
\* slot holds an iterator of its own and none is counted twice in a round.
OneSlotEach == \A a, b \in Live : ih[a] = ih[b] => a = b

\* EqUp and NextK never mix spots: when a round is cut, the first eqs slots
\* all stand at a readable record equal to the root's.
RoundsOfEquals ==
  pc = "emit" => \A a \in Front : Rec(a) = Rec(0) /\ Rec(a) # Bad

\* MergeNext drops and repeats nothing: when HeapMerge returns without an
\* error each input has gone, record by record and in its own order, into
\* rounds of the record's own rank.
NothingLost ==
  pc = "done" /\ ~err /\ op = "MergeNext" =>
    \A s \in Sources : merged[s] = data[s]

\* Between two MergeNext calls the slice is a binary heap again, although
\* EqUp swaps across subtrees and NextK sinks several slots.
HeapOrder ==
  pc = "loop" /\ ~err /\ op = "MergeNext" =>
    \A a \in Live : a # 0 => Rec(Parent(a)) <= Rec(a)

\* Repeated IntersectNext returns what appears in all inputs and only that.
IntersectExact ==
  pc = "done" /\ ~err /\ op = "IntersectNext" /\ data # <<>> =>
    {out[k].key : k \in DOMAIN out} =
      {v \in Range(data[1]) : \A s \in Sources : v \in Range(data[s])}

\* The rounds come out in strictly increasing order.
MergedInOrder ==
  \A k \in DOMAIN out : k > 1 => out[k - 1].key < out[k].key

\* Every loop comes to its end, but for one crash: when MergeNext has merged
\* several records and cannot read past one of them, its repair loop still
\* runs Up over the iterator that failed, and the comparator may panic.  With
\* readable inputs, and in IntersectNext whatever the inputs, every call
\* returns.
CrashedInRepair ==
  /\ pc = "panic"
  /\ op = "MergeNext"
  /\ eqs > 1
  /\ \E a \in Live : Failed(a)
Terminates == <>(pc = "done" \/ CrashedInRepair)

\* HeapMerge implements the multiway merge: a round is visible as soon as it
\* is cut, whatever the heap still has to do to itself.  IntersectNext is no
\* merge: it is shown as one of no inputs that has yet to begin.
Merging == op = "MergeNext"
Rest ==
  IF Merging
  THEN [s \in Sources |-> SubSeq(data[s], Len(merged[s]) + 1, Len(data[s]))]
  ELSE <<>>
Rounds == IF Merging THEN out ELSE <<>>
Status ==
  IF ~Merging \/ pc \notin {"done", "panic"} THEN "merging"
  ELSE IF err THEN "failed" ELSE "merged"
Abstract == INSTANCE MultiwayMerge WITH
  Inputs <- MergeInputs, rest <- Rest, out <- Rounds, status <- Status

ImplementsMerge == Abstract!Spec
=============================================================================
