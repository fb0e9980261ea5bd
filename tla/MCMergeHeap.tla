---------------------------- MODULE MCMergeHeap ----------------------------
(* Small argument lists for HeapMerge and IntersectNext *)
EXTENDS MergeHeap, FiniteSets

\* up to four inputs: empty, equal, overlapping, unsorted and cut-off streams
MixedStreams == {<<>>, <<1>>, <<1, 2>>, <<2, 3>>, <<3, 1>>, <<1, Bad>>, <<Bad>>}
MixedInputs == UNION {[1..n -> MixedStreams] : n \in 0..4}

\* seven inputs, the most for which the repair loop restores the heap, no more
\* than three of them at one rank
Contend(d, r) == Cardinality({s \in DOMAIN d : r \in Range(d[s])})
SevenInputs ==
  {d \in [1..7 -> {<<1, 4>>, <<2>>, <<3>>}] : \A r \in 1..4 : Contend(d, r) <= 3}

AllInputs == MixedInputs \cup SevenInputs

\* five inputs, the most for which IntersectNext finds every common record
FiveStreams == {<<>>, <<3>>, <<1, 3>>, <<2, 3>>, <<1, 2, 3>>}
FiveInputs == UNION {[1..n -> FiveStreams] : n \in 2..5}

\* one input more than the repair loop of MergeNext copes with
EightInputs == {<< <<1>>, <<1, 4>>, <<3>>, <<1, 4>>, <<3>>, <<4>>, <<3>>, <<2>> >>}
=============================================================================
