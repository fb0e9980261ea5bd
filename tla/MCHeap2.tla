------------------------------ MODULE MCHeap2 ------------------------------
(* Small lists of iterators for Heap2 *)
EXTENDS Heap2

\* up to three inputs: empty, equal, overlapping, unsorted and cut-off streams;
\* once an iterator has failed any comparison may come out either way, so
\* those lists are of two inputs
Streams == {<<>>, <<1>>, <<1, 2>>, <<2, 3>>, <<3, 1>>}
FewInputs == UNION {[1..n -> Streams] : n \in 0..3} \cup
             UNION {[1..n -> Streams \cup {<<1, Bad>>}] : n \in 0..2}

\* eight inputs that the older heap leaves unsorted, and nine: every rotation
\* and every exchange of two
Eight == << <<1>>, <<1, 4>>, <<3>>, <<1, 4>>, <<3>>, <<4>>, <<3>>, <<2>> >>
Nine == << <<1, 4>>, <<2>>, <<3>>, <<2, 5>>, <<1>>, <<3, 5>>, <<1, 3>>, <<2>>, <<4>> >>
Rotations(d) == {[s \in DOMAIN d |-> d[((s + k) % Len(d)) + 1]] : k \in DOMAIN d}
Exchanges(d) == {[d EXCEPT ![a] = d[b], ![b] = d[a]] : a, b \in DOMAIN d}
Long == UNION {Rotations(d) \cup Exchanges(d) : d \in {Eight, Nine}}

AllInputs == FewInputs \cup Long
=============================================================================
