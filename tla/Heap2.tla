------------------------------- MODULE Heap2 -------------------------------
(***************************************************************************)
(* Heap2 of itheap.go over the generic HeapUp and HeapDownN of heap.go: a  *)
(* heap of iterators that a caller drains with Read, one merged record per *)
(* call.  Unlike the older Heap it leaves equal iterators in their slots   *)
(* and lists them.                                                         *)
(*                                                                         *)
(* Records are ranks under the LessFn z, as in MergeHeap; slots count from *)
(* 1, so the children of slot k are 2k and 2k + 1.  By the convention of   *)
(* Iter the caller hands over iterators that stand at their first record,  *)
(* or iterators of nothing, which have none: AddIter takes both.  The      *)
(* MergeFn y may permute the slice it is given, and drops what has no      *)
(* record.                                                                 *)
(***************************************************************************)
EXTENDS Integers, Sequences, SequencesExt, Functions

CONSTANTS
  Heaps2,     \* the lists of streams to drain
  Bad,        \* an unreadable record
  Blank,      \* the rank z gives an iterator of nothing, whose Parsed() is a
              \* zero type, a zero ID and no value
  MaxRounds   \* bound: calls of Read

\* what a caller hands over: records are ranks, the first of them was read
InputsOK ==
  /\ Bad \notin Int
  /\ Blank \in Int
  /\ \A d \in Heaps2 : d \in Seq(Seq(Int \cup {Bad}))
  /\ \A d \in Heaps2 : \A s \in DOMAIN d : d[s] # <<>> => d[s][1] # Bad

ASSUME Heap2Assumption == InputsOK /\ MaxRounds \in Nat

VARIABLES
  data,     \* the streams under the iterators
  pos,      \* pos[s]: the record that iterator s stands at, Len(data[s]) + 1
            \* once it has no data
  inputs,   \* heap.inputs, iterators by slot
  eqs,      \* the slots found equal to the first
  i,        \* the loop index over data or eqs
  c,        \* the cursor of HeapUp and HeapDownN
  out,      \* heap.out, a round per call
  good,     \* history: the number of rounds before an iterator failed
  pc

vars == <<data, pos, inputs, eqs, i, c, out, good, pc>>

Sources == DOMAIN data
HasData(s) == pos[s] <= Len(data[s])
Rec(k) == IF HasData(inputs[k]) THEN data[inputs[k]][pos[inputs[k]]] ELSE Blank
HasFailed(s) == HasData(s) /\ data[s][pos[s]] = Bad
AnyFailed == \E s \in Sources : HasFailed(s)

\* the two answers of heap.Less; on an iterator whose Read failed z works on
\* stale lengths, and gives either answer or panics
Positioned(a, b) == Rec(a) # Bad /\ Rec(b) # Bad
MayBeLess(a, b) == Positioned(a, b) => Rec(a) < Rec(b)
MayBeGeq(a, b) == Positioned(a, b) => Rec(a) >= Rec(b)

Swap(s, a, b) == [s EXCEPT ![a] = s[b], ![b] = s[a]]

Init ==
  /\ data \in Heaps2
  /\ pos = [s \in Sources |-> 1]
  /\ inputs = <<>>
  /\ eqs = <<>>
  /\ i = 1
  /\ c = 0
  /\ out = <<>>
  /\ good = 0
  /\ pc = "make"
-----------------------------------------------------------------------------
(* MakeHeap2: AddIter for every iterator, one of nothing included *)

AddIter ==
  /\ pc = "make"
  /\ i \in Sources
  /\ inputs' = Append(inputs, i)
  /\ c' = Len(inputs')
  /\ i' = i + 1
  /\ pc' = "up"
  /\ UNCHANGED <<data, pos, eqs, out, good>>

UpSwap ==
  /\ pc = "up"
  /\ c > 1
  /\ MayBeLess(c, c \div 2)
  /\ inputs' = Swap(inputs, c, c \div 2)
  /\ c' = c \div 2
  /\ UNCHANGED <<data, pos, eqs, i, out, good, pc>>

UpBreak ==
  /\ pc = "up"
  /\ c > 1 => MayBeGeq(c, c \div 2)
  /\ pc' = "make"
  /\ UNCHANGED <<data, pos, inputs, eqs, i, c, out, good>>

MakeEnd ==
  /\ pc = "make"
  /\ i \notin Sources
  /\ pc' = "read"
  /\ UNCHANGED <<data, pos, inputs, eqs, i, c, out, good>>
-----------------------------------------------------------------------------
(* Read *)

ReadBegin ==
  /\ pc = "read"
  /\ inputs # <<>>
  /\ Len(out) < MaxRounds
  /\ eqs' = <<1>>
  /\ i' = 1
  /\ pc' = "gather"
  /\ UNCHANGED <<data, pos, inputs, c, out, good>>

\* len(heap.inputs) == 0: false
ReadEnd ==
  /\ pc = "read"
  /\ inputs = <<>>
  /\ pc' = "done"
  /\ UNCHANGED <<data, pos, inputs, eqs, i, c, out, good>>

\* the children of slot k, and the lists of those of them that
\* !z(inputs[0], inputs[child]) may hold for
Children(k) == {2 * k, 2 * k + 1} \cap DOMAIN inputs
EqualChildren(k) ==
  {found \in {<<>>, <<2 * k>>, <<2 * k + 1>>, <<2 * k, 2 * k + 1>>} :
     /\ Range(found) \subseteq Children(k)
     /\ \A a \in Children(k) : IF a \in Range(found) THEN MayBeGeq(1, a) ELSE MayBeLess(1, a)}

Gather ==
  /\ pc = "gather"
  /\ i <= Len(eqs)
  /\ \E found \in EqualChildren(eqs[i]) : eqs' = eqs \o found
  /\ i' = i + 1
  /\ UNCHANGED <<data, pos, inputs, c, out, good, pc>>

Contenders == {inputs[eqs[k]] : k \in DOMAIN eqs}

\* If the equals are the first slots the MergeFn gets that part of the heap's
\* own slice, and what it permutes stays permuted; else it gets a copy.
\* mistake: it always gets the first slots
MergedOrdersPrefix ==
  {[k \in DOMAIN inputs |-> IF k <= Len(eqs) THEN f[k] ELSE inputs[k]] :
     f \in Bijection(1..Len(eqs), {inputs[k] : k \in 1..Len(eqs)})}
MergedOrders ==
  IF Last(eqs) = Len(eqs)
  THEN {[k \in DOMAIN inputs |-> IF k <= Len(eqs) THEN f[k] ELSE inputs[k]] :
          f \in Bijection(1..Len(eqs), Contenders)}
  ELSE {inputs}

\* what y merges; a round of nothing adds no record
Merged == {s \in Contenders : HasData(s)}

MergeEquals ==
  /\ pc = "gather"
  /\ i > Len(eqs)
  /\ out' = IF Merged = {} THEN out ELSE Append(out, [key |-> Rec(1), from |-> Merged])
  /\ inputs' \in MergedOrders
  /\ good' = IF AnyFailed \/ Merged = {} THEN good ELSE good + 1
  /\ pc' = "advance"
  /\ UNCHANGED <<data, pos, eqs, i, c>>

\* mistake: the loop ends before the first slot
AdvanceButFirst ==
  /\ pc = "advance"
  /\ pos' = [s \in Sources |->
               IF s \in Merged \ {inputs[1]} /\ ~HasFailed(s) THEN pos[s] + 1 ELSE pos[s]]
  /\ i' = Len(eqs)
  /\ pc' = "sink"
  /\ UNCHANGED <<data, inputs, eqs, c, out, good>>

\* heap.inputs[eqs[i]].Read() for all of them; a failed iterator and one of
\* nothing stay
Advance ==
  /\ pc = "advance"
  /\ pos' = [s \in Sources |->
               IF s \in Merged /\ ~HasFailed(s) THEN pos[s] + 1 ELSE pos[s]]
  /\ i' = Len(eqs)
  /\ pc' = "sink"
  /\ UNCHANGED <<data, inputs, eqs, c, out, good>>

\* mistake: the last iterator takes the slot and is left where it was
DropKeepsLast(k) == IF HasData(inputs[k]) THEN inputs ELSE [inputs EXCEPT ![k] = Last(inputs)]
\* if !HasData(), the last iterator takes the slot
Drop(k) ==
  IF HasData(inputs[k]) THEN inputs
  ELSE Front([inputs EXCEPT ![k] = Last(inputs)])

\* the slots of eqs, last first: drop what has no data, then HeapDownN
Sink ==
  /\ pc = "sink"
  /\ i > 0
  /\ inputs' = Drop(eqs[i])
  /\ c' = eqs[i]
  /\ pc' = "down"
  /\ UNCHANGED <<data, pos, eqs, i, out, good>>

SinkEnd ==
  /\ pc = "sink"
  /\ i = 0
  /\ pc' = "read"
  /\ UNCHANGED <<data, pos, inputs, eqs, i, c, out, good>>

\* the children that HeapDownN may take for the lesser one
LesserChildren ==
  {j \in Children(c) :
     IF j = 2 * c THEN 2 * c + 1 \in DOMAIN inputs => MayBeGeq(2 * c + 1, 2 * c)
     ELSE MayBeLess(2 * c + 1, 2 * c)}

DownSwap ==
  /\ pc = "down"
  /\ \E j \in LesserChildren :
       MayBeLess(j, c) /\ inputs' = Swap(inputs, c, j) /\ c' = j
  /\ UNCHANGED <<data, pos, eqs, i, out, good, pc>>

DownBreak ==
  /\ pc = "down"
  /\ 2 * c \in DOMAIN inputs => \E j \in LesserChildren : MayBeGeq(j, c)
  /\ i' = i - 1
  /\ pc' = "sink"
  /\ UNCHANGED <<data, pos, inputs, eqs, c, out, good>>

\* a comparison with a failed iterator
Compared ==
  CASE pc = "gather" /\ i <= Len(eqs) -> {1, 2 * eqs[i], 2 * eqs[i] + 1}
    [] pc = "down" -> {c, 2 * c, 2 * c + 1}
    [] OTHER -> {}
Panic ==
  /\ Cardinality(Compared \cap DOMAIN inputs) > 1
  /\ \E k \in Compared \cap DOMAIN inputs : Rec(k) = Bad
  /\ pc' = "panic"
  /\ UNCHANGED <<data, pos, inputs, eqs, i, c, out, good>>

Next ==
  \/ AddIter \/ UpSwap \/ UpBreak \/ MakeEnd
  \/ ReadBegin \/ ReadEnd \/ Gather \/ MergeEquals \/ Advance
  \/ Sink \/ SinkEnd \/ DownSwap \/ DownBreak \/ Panic

\* the caller calls Read until it is false
Spec == Init /\ [][Next]_vars /\ WF_vars(Next)
-----------------------------------------------------------------------------
(* Properties *)

\* Between two Reads the heap holds every iterator that has data, a failed
\* one included, once each.  The others it holds were handed over with
\* nothing, and until an iterator fails each of them still waits for its rank
\* to come up: Read never clears one late.
HoldsUnread ==
  pc = "read" =>
    /\ \A a, b \in DOMAIN inputs : inputs[a] = inputs[b] => a = b
    /\ {s \in Range(inputs) : HasData(s)} = {s \in Sources : HasData(s)}
    /\ \A s \in Range(inputs) : ~HasData(s) =>
         /\ data[s] = <<>>
         /\ ~AnyFailed => \A k \in DOMAIN out : out[k].key < Blank

\* what the good rounds took of s, and what they left of each stream
Taken(s) == Cardinality({k \in 1..good : s \in out[k].from})
Left == [s \in Sources |-> SubSeq(data[s], Taken(s) + 1, Len(data[s]))]
GoodRounds == SubSeq(out, 1, good)
Status == IF AnyFailed THEN "failed" ELSE IF pc = "done" THEN "merged" ELSE "merging"

\* Until an iterator fails, draining Heap2 is the multiway merge, for any
\* number of inputs, those with nothing included wherever z ranks them; once
\* one has failed no more is promised.
Abstract == INSTANCE MultiwayMerge WITH
  Inputs <- Heaps2, Broken <- {}, rest <- Left, out <- GoodRounds, status <- Status
ImplementsMerge == Abstract!Spec

\* With readable inputs the caller's loop ends.
Readable == \A s \in Sources : Bad \notin Range(data[s])
Drained == Readable ~> pc = "done"
=============================================================================
