------------------------------- MODULE MCLaws -------------------------------
(* What is smaller than a document, with RevMod = RonBase = 4 and            *)
(* RonDigits = 3: MergeSameSpotElements on small slices or, with one slice   *)
(* that is done with, the laws of elements, of words and of hashes: all      *)
(* triples of small elements and, from one of them, all pairs of words of    *)
(* eight bits, or all lines of hashes.                                       *)
EXTENDS SameSpot, OrderLaws, Words, Merkle7574

El(lit, src, seq, val) == [lit |-> lit, id |-> [src |-> src, seq |-> seq], val |-> val]

\* values and letters
Scalars ==
  {El("I", 0, 0, 1), El("I", 1, 4, 0), El("T", 0, 0, 0), El("S", 0, 1, 0),
   El("F", 0, 0, <<0, 0>>), El("F", 0, 0, <<0, 1>>), El("F", 0, 5, <<1, 0>>),
   El("R", 0, 4, [src |-> 1, seq |-> 8]), El("R", 0, 4, [src |-> 1, seq |-> 9]),
   El("?", 0, 0, <<>>)}
\* positions of one, two and three digits, at both ends of the ring, and one
\* that has too many
RingPlaces == {0, 1, 2, 3, 4, 7, 8, 12, 14, 15, 16, 31, 47, 48, 62, 63, 64}
Items == {El("I", 0, RevMod * p, 1) : p \in RingPlaces}
         \cup {El("I", 1, RevMod * p, 1) : p \in {0, 3, 16, 63}}
Tuples1 == {El("P", 0, 0, <<a>>) : a \in Scalars} \cup {El("P", 0, 0, <<>>), El("P", 1, 1, <<>>)}
Sets == {El("E", 0, 0, <<>>), El("E", 1, 0, <<>>), El("E", 1, 1, <<>>), El("X", 1, 0, <<>>)}
Nested == {El("P", 0, 1, <<a, El("I", 0, 0, 1)>>) : a \in Sets \cup Tuples1}

AllElements == Scalars \cup Items \cup Tuples1 \cup Sets \cup Nested
Anchor == El("?", 0, 0, <<>>)

\* slices for the spot: values, types, revisions, authors, tombstones, two
\* zeroes, two revisions of a referenced ID, empty and non-empty containers, an
\* unknown letter
SpotElements ==
  {El("I", 0, 0, 1), El("I", 0, 2, 0), El("T", 0, 0, 0), El("S", 1, 1, 0),
   El("F", 0, 0, <<0, 0>>), El("F", 0, 0, <<0, 1>>),
   El("R", 0, 2, [src |-> 1, seq |-> 4]), El("R", 0, 2, [src |-> 1, seq |-> 6]),
   El("P", 0, 0, <<>>), El("P", 0, 0, <<El("I", 0, 0, 1)>>),
   El("P", 0, 2, <<>>), El("E", 0, 0, <<>>), El("E", 1, 4, <<>>), Anchor}
SpotInputs == UNION {[1..k -> SpotElements] : k \in 1..4}

\* where the slices are tried, where the laws are, and where the counting of
\* words and the appending of hashes start
AtAnchor == x = Anchor /\ y = x /\ z = x
NoSlice == input = <<Anchor>>

LawsInit ==
  /\ Init /\ ElementInit /\ u = 0 /\ v = 0 /\ MerkleInit
  /\ AtAnchor \/ NoSlice

lawsVars == <<vars, elementVars, u, v, merkleVars>>

NextSpot == Next /\ UNCHANGED <<elementVars, u, v, merkleVars>>
NextElement ==
  /\ NoSlice /\ pc # "loop" /\ u = 0 /\ v = 0 /\ appended = <<>>
  /\ ElementNext
  /\ UNCHANGED <<vars, u, v, merkleVars>>
NextWords ==
  /\ NoSlice /\ pc # "loop" /\ AtAnchor /\ appended = <<>>
  /\ NextWord
  /\ UNCHANGED <<vars, elementVars, merkleVars>>
NextHash ==
  /\ NoSlice /\ pc # "loop" /\ AtAnchor /\ u = 0 /\ v = 0
  /\ MerkleNext
  /\ UNCHANGED <<vars, elementVars, u, v>>

LawsNext == NextSpot \/ NextElement \/ NextWords \/ NextHash
LawsSpec == LawsInit /\ [][LawsNext]_lawsVars /\ WF_lawsVars(NextSpot)
=============================================================================
