------------------------------ MODULE RdxMerge ------------------------------
(***************************************************************************)
(* Merge and Normalize of rdx.go as functions of documents.  A document is *)
(* the sequence of the elements of a stream; a container's val is one too. *)
(* The iterator heap is computed slot by slot, as MergeHeap steps through  *)
(* it, since the order of equals in it decides ties.  Slots count from 1;  *)
(* an iterator is the part of its stream that starts at its record.        *)
(***************************************************************************)
EXTENDS RdxOrder, SequencesExt

\* what Merge and Normalize return together with an error
Failure == <<[lit |-> "error", id |-> ZeroID, val |-> <<>>]>>
HasFailed(rdx) == Len(rdx) = 1 /\ rdx[1].lit = "error"

Exchange(s, a, b) == [s EXCEPT ![a] = s[b], ![b] = s[a]]

\* the comparison lit's comparator makes of two iterators
IterCompare(lit, p, q) == CompareIn(lit, p[1], q[1])
-----------------------------------------------------------------------------
(* The heap *)

RECURSIVE Up(_, _, _)
Up(h, a, lit) ==
  IF a < 2 \/ IterCompare(lit, h[a], h[a \div 2]) >= Eq THEN h
  ELSE Up(Exchange(h, a, a \div 2), a \div 2, lit)

Heapize(bare, lit) ==
  LET Add(h, r) == IF r = <<>> THEN h ELSE Up(Append(h, r), Len(h) + 1, lit)
  IN  FoldLeft(Add, <<>>, bare)

RECURSIVE Down(_, _, _)
Down(h, a, lit) ==
  LET l == 2 * a
      r == l + 1
      j == IF r <= Len(h) /\ IterCompare(lit, h[r], h[l]) < Eq THEN r ELSE l
  IN  IF l > Len(h) \/ IterCompare(lit, h[j], h[a]) >= Eq THEN h
      ELSE Down(Exchange(h, a, j), j, lit)

\* the queue q leads the search for the slots equal to the first
RECURSIVE EqUpFrom(_, _, _, _)
EqUpFrom(h, q, eqs, lit) ==
  IF q = <<>> \/ q[1] > Len(h) THEN [heap |-> h, eqs |-> eqs]
  ELSE IF IterCompare(lit, h[1], h[q[1]]) = Eq
       THEN EqUpFrom(Exchange(h, eqs + 1, q[1]),
                     Tail(q) \o <<2 * q[1], 2 * q[1] + 1>>, eqs + 1, lit)
       ELSE EqUpFrom(h, Tail(q), eqs, lit)
EqUp(h, lit) ==
  IF Len(h) < 2 THEN [heap |-> h, eqs |-> Len(h)] ELSE EqUpFrom(h, <<2, 3>>, 1, lit)

HeapRemove(h, a, lit) ==
  LET rest == Front(Exchange(h, a, Len(h)))
  IN  IF a <= Len(rest) THEN Down(rest, a, lit) ELSE rest

RECURSIVE NextK(_, _, _)
NextK(h, k, lit) ==
  IF k = 0 THEN h
  ELSE NextK(IF Len(h[k]) = 1 THEN HeapRemove(h, k, lit)
             ELSE Down([h EXCEPT ![k] = Tail(@)], k, lit), k - 1, lit)

\* "FIXME bad": the slots from eqs on are moved up, one after the other
Repair(h, eqs, lit) ==
  IF eqs = 1 THEN h
  ELSE FoldLeft(LAMBDA g, k : Up(g, k, lit), h, [k \in 1..(Len(h) - eqs) |-> eqs + k])
-----------------------------------------------------------------------------
(* The spot *)

\* the loop of MergeSameSpotElements over the slots of h, from slot k on
RECURSIVE Contest(_, _, _, _, _)
\* mistake: no i-- after a loser is dropped
ContestSkips(h, n, eq, id, k) ==
  LET z == SpotCompare(h[1][1], h[k][1])
      mine == h[k][1].id
  IN  IF k > n THEN [heap |-> h, eq |-> eq, id |-> id]
      ELSE IF z < Eq THEN Contest(Exchange(h, 1, k), n, 1, mine, k + 1)
      ELSE IF z > Eq THEN Contest(Exchange(h, n, k), n - 1, eq, id, k + 1)
      ELSE Contest(Exchange(h, eq + 1, k), n, eq + 1,
                   IF IDLess(id, mine) THEN mine ELSE id, k + 1)
\* mistake: the last winner's ID
ContestLastID(h, n, eq, id, k) ==
  LET z == SpotCompare(h[1][1], h[k][1])
      mine == h[k][1].id
  IN  IF k > n THEN [heap |-> h, eq |-> eq, id |-> id]
      ELSE IF z < Eq THEN Contest(Exchange(h, 1, k), n, 1, mine, k + 1)
      ELSE IF z > Eq THEN Contest(Exchange(h, n, k), n - 1, eq, id, k)
      ELSE Contest(Exchange(h, eq + 1, k), n, eq + 1, mine, k + 1)
Contest(h, n, eq, id, k) ==
  LET z == SpotCompare(h[1][1], h[k][1])
      mine == h[k][1].id
  IN  IF k > n THEN [heap |-> h, eq |-> eq, id |-> id]
      ELSE IF z < Eq THEN Contest(Exchange(h, 1, k), n, 1, mine, k + 1)
      ELSE IF z > Eq THEN Contest(Exchange(h, n, k), n - 1, eq, id, k)
      ELSE Contest(Exchange(h, eq + 1, k), n, eq + 1,
                   IF IDLess(id, mine) THEN mine ELSE id, k + 1)

RECURSIVE HeapMerge(_, _)
RECURSIVE MergeAll(_, _, _)

\* what MergeSameSpotElements writes once the loop is over
Merged(c) ==
  LET lit == c.heap[1][1].lit
      vals == [k \in 1..c.eq |-> c.heap[k][1].val]
      inner == HeapMerge(vals, lit)
  IN  CASE lit \in FIRST ->
             <<[lit |-> lit, id |-> c.id, val |-> MergeValues(lit, vals)]>>
        [] IsPLEX(lit) ->
             IF HasFailed(inner) THEN Failure
             ELSE <<[lit |-> lit, id |-> c.id, val |-> inner]>>
        [] OTHER -> Failure

\* MergeNext until the heap is empty
MergeAll(h, out, lit) ==
  LET e == EqUp(h, lit)
      c == Contest(e.heap, e.eqs, 1, e.heap[1][1].id, 2)
      rec == IF e.eqs = 1 THEN <<e.heap[1][1]>> ELSE Merged(c)
      h2 == NextK(IF e.eqs = 1 THEN e.heap ELSE c.heap, e.eqs, lit)
  IN  IF h = <<>> THEN out
      ELSE IF HasFailed(rec) THEN Failure
      ELSE MergeAll(Repair(h2, e.eqs, lit), out \o rec, lit)

HeapMerge(bare, lit) == MergeAll(Heapize(bare, lit), <<>>, lit)

Merge(bare) == HeapMerge(bare, "P")
-----------------------------------------------------------------------------
(* Normalize *)

\* the containers whose contents are put in order
Sorts(lit) == lit \in {"E", "X"}

RECURSIVE NormalizeIn(_, _)
\* appendNorm for an element of a container of type lit ("" for none)
AppendNorm(a, lit) ==
  IF a.lit \in FIRST THEN <<a>>
  ELSE LET inner == NormalizeIn(a.val, a.lit)
       IN  CASE ~IsPLEX(a.lit) -> <<>>
             [] HasFailed(inner) -> Failure
             [] a.lit = "P" /\ lit = "E" /\ inner = <<>> -> <<>>
             [] OTHER -> <<[a EXCEPT !.val = inner]>>

\* mistake: equals are let through
CutsIfGreater(lit, a, b) == Sorts(lit) /\ CompareIn(lit, a, b) = Grtr
\* the contents are cut where an element is not Less than the next one
Cuts(lit, a, b) == Sorts(lit) /\ CompareIn(lit, a, b) # Less

\* if there are cuts, the chunks are heap-merged
NormalizeIn(rdx, lit) ==
  LET norms == [k \in DOMAIN rdx |-> AppendNorm(rdx[k], lit)]
      Add(c, k) == [c EXCEPT ![Len(c)] = @ \o norms[k]]
      Chunked(c, k) == IF k < Len(rdx) /\ Cuts(lit, rdx[k], rdx[k + 1])
                       THEN Append(Add(c, k), <<>>) ELSE Add(c, k)
      chunks == FoldLeft(Chunked, <<<<>>>>, [k \in DOMAIN rdx |-> k])
  IN  IF \E k \in DOMAIN norms : HasFailed(norms[k]) THEN Failure
      ELSE IF Len(chunks) = 1 THEN chunks[1]
      ELSE HeapMerge(chunks, lit)

Normalize(rdx) == NormalizeIn(rdx, "")

\* every set and every multiplexed container is in strict order, all the way
\* down
RECURSIVE Ordered(_, _)
Ordered(rdx, lit) ==
  /\ Sorts(lit) => \A k \in 1..(Len(rdx) - 1) : CompareIn(lit, rdx[k], rdx[k + 1]) = Less
  /\ \A k \in DOMAIN rdx : IsPLEX(rdx[k].lit) => Ordered(rdx[k].val, rdx[k].lit)
=============================================================================
