------------------------------ MODULE SameSpot ------------------------------
(***************************************************************************)
(* MergeSameSpotElements of rdx.go: which of the elements that contend for *)
(* one spot win it, and under which ID.  One action per iteration of the   *)
(* loop.  The slice is modelled by the indices into input it holds, with   *)
(* heap[1] for the code's heap[0].                                         *)
(***************************************************************************)
EXTENDS RdxOrder

CONSTANT Inputs   \* the slices to try: non-empty sequences of elements

ASSUME SpotInputsAssumption ==
  \A d \in Inputs :
    /\ Len(d) \in Nat \ {0} /\ DOMAIN d = 1..Len(d)
    /\ \A k \in DOMAIN d : d[k].id \in [src : Nat, seq : Nat]

VARIABLES
  input,   \* the slice as it was passed
  heap,    \* heap[k]: which element of input is in slot k
  n,       \* len(heap)
  eq,      \* the first eq slots share the spot
  id,      \* the greatest ID among them
  i,       \* the slot the loop is at
  result,  \* what is written: [lit, id, vals]
  pc       \* "loop", "done" or "failed"

vars == <<input, heap, n, eq, id, i, result, pc>>

At(k) == input[heap[k]]
\* mistake: one half of the exchange
SwappedHalf(a, b) == [heap EXCEPT ![a] = heap[b]]
Swapped(a, b) == [heap EXCEPT ![a] = heap[b], ![b] = heap[a]]

NoResult == [lit |-> "", id |-> ZeroID, vals |-> <<>>]

Init ==
  /\ input \in Inputs
  /\ heap = [k \in DOMAIN input |-> k]
  /\ n = Len(input)
  /\ eq = 1
  /\ id = input[1].id
  /\ i = 2
  /\ result = NoResult
  /\ pc = "loop"

\* z < Eq: slot i takes the spot over
Overtake ==
  /\ pc = "loop"
  /\ i <= n
  /\ SpotCompare(At(1), At(i)) < Eq
  /\ heap' = Swapped(1, i)
  /\ id' = At(i).id
  /\ eq' = 1
  /\ i' = i + 1
  /\ UNCHANGED <<input, n, result, pc>>

\* mistakes: no i--, no swap with the last, no shorter slice
DropSkips ==
  /\ pc = "loop"
  /\ i <= n
  /\ SpotCompare(At(1), At(i)) > Eq
  /\ heap' = Swapped(n, i)
  /\ n' = n - 1
  /\ i' = i + 1
  /\ UNCHANGED <<input, eq, id, result, pc>>
DropLast ==
  /\ pc = "loop"
  /\ i <= n
  /\ SpotCompare(At(1), At(i)) > Eq
  /\ n' = n - 1
  /\ UNCHANGED <<input, heap, eq, id, i, result, pc>>
DropNone ==
  /\ pc = "loop"
  /\ i <= n
  /\ SpotCompare(At(1), At(i)) > Eq
  /\ heap' = Swapped(n, i)
  /\ UNCHANGED <<input, n, eq, id, i, result, pc>>

\* z > Eq: slot i goes to the end and out of the slice
Drop ==
  /\ pc = "loop"
  /\ i <= n
  /\ SpotCompare(At(1), At(i)) > Eq
  /\ heap' = Swapped(n, i)
  /\ n' = n - 1
  /\ UNCHANGED <<input, eq, id, i, result, pc>>

\* mistake: the first winner's ID is kept
JoinKeepsID ==
  /\ pc = "loop"
  /\ i <= n
  /\ SpotCompare(At(1), At(i)) = Eq
  /\ heap' = Swapped(eq + 1, i)
  /\ eq' = eq + 1
  /\ i' = i + 1
  /\ UNCHANGED <<input, n, id, result, pc>>

\* z == Eq: slot i shares the spot
Join ==
  /\ pc = "loop"
  /\ i <= n
  /\ SpotCompare(At(1), At(i)) = Eq
  /\ heap' = Swapped(eq + 1, i)
  /\ id' = IF IDLess(id, At(i).id) THEN At(i).id ELSE id
  /\ eq' = eq + 1
  /\ i' = i + 1
  /\ UNCHANGED <<input, n, result, pc>>

\* the winners' values, as they are passed to mergeValues / mergeElements
Vals == [k \in 1..eq |-> At(k).val]

\* the record is written: one value, or the contents to merge recursively
Write ==
  /\ pc = "loop"
  /\ i > n
  /\ At(1).lit \in FIRST \cup PLEX
  /\ result' = [lit |-> At(1).lit, id |-> id,
                vals |-> IF IsPLEX(At(1).lit) THEN Vals
                         ELSE <<MergeValues(At(1).lit, Vals)>>]
  /\ pc' = "done"
  /\ UNCHANGED <<input, heap, n, eq, id, i>>

\* default: ErrBadRDXRecord
Refuse ==
  /\ pc = "loop"
  /\ i > n
  /\ At(1).lit \notin FIRST \cup PLEX
  /\ pc' = "failed"
  /\ UNCHANGED <<input, heap, n, eq, id, i, result>>

Done == pc # "loop" /\ UNCHANGED vars

Next == Overtake \/ Drop \/ Join \/ Write \/ Refuse \/ Done

Spec == Init /\ [][Next]_vars /\ WF_vars(Next)
-----------------------------------------------------------------------------
(* Properties *)

Positions == DOMAIN input
Winners == {heap[k] : k \in 1..eq}

\* The counters of the slice, of the winners and of the loop stay in range
\* and in order, although Drop shortens the slice under the loop.
TypeOK ==
  /\ heap \in [Positions -> Positions]
  /\ n \in Positions
  /\ eq \in 1..n
  /\ i \in 2..(n + 1)
  /\ eq < i
  /\ pc \in {"loop", "done", "failed"}

\* The slice is only permuted: HeapMerge goes on to advance the iterators it
\* holds, so losing one would lose an input.
Permuted == \A k, l \in Positions : heap[k] = heap[l] => k = l

\* The elements whose values are merged all equal the first of them, also
\* after an Overtake left former winners in the slice.
WinnersEqual == \A k \in 2..eq : SpotCompare(At(1), At(k)) = Eq

\* The ID written is the greatest of the winners' IDs.
GreatestID ==
  /\ \E k \in Winners : id = input[k].id
  /\ \A k \in Winners : ~IDLess(id, input[k].id)

\* SpotCompare orders the elements of the slice consistently.
Coherent ==
  /\ \A x, y \in Positions :
       SpotCompare(input[x], input[y]) <= Eq <=> SpotCompare(input[y], input[x]) >= Eq
  /\ \A x, y, z \in Positions :
       SpotCompare(input[x], input[y]) <= Eq /\ SpotCompare(input[y], input[z]) <= Eq =>
         SpotCompare(input[x], input[z]) <= Eq

\* If it does, the winners are exactly the greatest elements, whatever the
\* order of the slice: the last write wins.
LastWriteWins ==
  pc = "done" /\ Coherent =>
    Winners = {k \in Positions : \A j \in Positions :
                 SpotCompare(input[j], input[k]) <= Eq}

\* The loop ends, although Drop does not advance i.
Terminates == <>(pc # "loop")
=============================================================================
