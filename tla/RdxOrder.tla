------------------------------ MODULE RdxOrder ------------------------------
(***************************************************************************)
(* RDX elements, their IDs and the comparators of rdx.go, id.go, ron.go.   *)
(*                                                                         *)
(* An element is [lit, id, val].  The value of an Integer, String or Term  *)
(* is its rank, a Float's is <<number, bits>> (two zeroes differ in bits   *)
(* only), a Reference's is an ID, and a PLEX container's is the sequence   *)
(* of its elements.  A lit outside FIRST and PLEX is a letter the reader   *)
(* lets through.                                                           *)
(***************************************************************************)
EXTENDS Integers, Sequences

CONSTANTS
  RevMod,     \* revisions per ID: 2^6 in the code
  RonBase,    \* values of a RON digit: 2^6
  RonDigits   \* digits of a RON number: 10

ASSUME RdxOrderAssumption ==
  /\ RevMod \in Nat \ {0}
  /\ RonBase \in Nat \ {0, 1}
  /\ RonDigits \in Nat \ {0}

FIRST == {"F", "I", "R", "S", "T"}
PLEX == {"P", "L", "E", "X"}
IsPLEX(lit) == lit \in PLEX

\* the ASCII order of the letters; "?" is any other letter, "" no element
LitRank ==
  [l \in FIRST \cup PLEX \cup {"?"} |->
     CASE l = "?" -> 0 [] l = "E" -> 1 [] l = "F" -> 2 [] l = "I" -> 3
       [] l = "L" -> 4 [] l = "P" -> 5 [] l = "R" -> 6 [] l = "S" -> 7
       [] l = "T" -> 8 [] l = "X" -> 9]

Less == -2
Eq == 0
Grtr == 2

\* the three-way comparison of two numbers
Sign(x, y) == IF x < y THEN Less ELSE IF x > y THEN Grtr ELSE Eq
\* z1, and z2 if that is Eq
Then(z1, z2) == IF z1 # Eq THEN z1 ELSE z2
-----------------------------------------------------------------------------
(* IDs: [src, seq], the low bits of seq being the revision *)

ZeroID == [src |-> 0, seq |-> 0]
Rev(id) == id.seq % RevMod
Base(id) == [src |-> id.src, seq |-> id.seq - Rev(id)]
IsLive(id) == id.seq % 2 = 0

\* ID.RevCompare: revisions included
RevCompare(a, b) == Then(Sign(a.seq, b.seq), Sign(a.src, b.src))
\* ID.Less
IDLess(a, b) == RevCompare(a, b) = Less
\* ID.Compare: revisions masked out
IDCompare(a, b) == RevCompare(Base(a), Base(b))

\* mistake: no | 1
RemovedPlain(id) == [id EXCEPT !.seq = @ + 1]
\* ID.Removed, ID.Recovered, ID.Replaced
Removed(id) == [id EXCEPT !.seq = IF @ % 2 = 0 THEN @ + 1 ELSE @ + 2]
Recovered(id) == [id EXCEPT !.seq = IF @ % 2 = 0 THEN @ + 2 ELSE @ + 1]
Replaced(id) == [src |-> 0, seq |-> Base(id).seq + RevMod]
-----------------------------------------------------------------------------
(* Ron60: positions of a Linear container, digits aligned to the left *)

\* what a digit counts for that k others follow
RonWeight[k \in 0..(RonDigits + 1)] == IF k = 0 THEN 1 ELSE RonBase * RonWeight[k - 1]
RonTop == RonWeight[RonDigits] - 1 - RonWeight[RonDigits - 1]

\* NewRon60
NewRon60(x) ==
  LET y == x % RonWeight[RonDigits]
      Fits(k) == y * RonWeight[k] < RonWeight[RonDigits]
  IN  IF y = 0 THEN RonTop
      ELSE y * RonWeight[CHOOSE k \in 0..(RonDigits - 1) : Fits(k) /\ ~Fits(k + 1)]

\* Ron60.Less, on a ring cut open before the last first digit
RonKey(r) == (r + RonWeight[RonDigits - 1]) % RonWeight[RonDigits]
-----------------------------------------------------------------------------
(* The comparators *)

\* no element: an Iter whose Read was false
Absent == [lit |-> "", id |-> ZeroID, val |-> <<>>]
IsEmpty(a) == a.lit = ""

IsEmptyTuple(a) == a.lit = "P" /\ a.val = <<>>

\* FIRST before PLEX, then by letter
CompareType(a, b) ==
  IF a.lit = b.lit THEN Eq
  ELSE IF IsPLEX(a.lit) # IsPLEX(b.lit)
       THEN IF IsPLEX(a.lit) THEN Grtr ELSE Less
       ELSE Sign(LitRank[a.lit], LitRank[b.lit])

\* two elements of one type; containers by ID, unknown letters not at all
CompareSameType(a, b) ==
  CASE a.lit = "F" -> Sign(a.val[1], b.val[1])
    [] a.lit \in {"I", "S", "T"} -> Sign(a.val, b.val)
    [] a.lit = "R" -> IDCompare(a.val, b.val)
    [] IsPLEX(a.lit) -> IDCompare(a.id, b.id)
    [] OTHER -> Eq

CompareValue(a, b) ==
  IF IsEmpty(a) \/ IsEmpty(b)
  THEN IF IsEmpty(a) /\ IsEmpty(b) THEN Eq ELSE IF IsEmpty(a) THEN Less ELSE Grtr
  ELSE Then(CompareType(a, b), CompareSameType(a, b))

\* mistake: the empty tuple only loses on the right
CompareLWWOneSided(a, b) ==
  Then(RevCompare(a.id, b.id),
       IF a.lit = b.lit THEN CompareValue(a, b)
       ELSE IF IsEmptyTuple(b) THEN Grtr ELSE CompareType(a, b))

\* last write wins: by ID and revision, type, value; an empty tuple loses to
\* every other type
CompareLWW(a, b) ==
  Then(RevCompare(a.id, b.id),
       IF a.lit = b.lit THEN CompareValue(a, b)
       ELSE IF IsEmptyTuple(b) THEN Grtr
       ELSE IF IsEmptyTuple(a) THEN Less
       ELSE CompareType(a, b))

CompareTuple(a, b) == Eq

\* mistake: greater positions fall through to the authors
CompareLinearOneSided(a, b) ==
  IF RonKey(NewRon60(a.id.seq \div RevMod)) < RonKey(NewRon60(b.id.seq \div RevMod))
  THEN Less ELSE Sign(a.id.src, b.id.src)
CompareLinear(a, b) ==
  Then(Sign(RonKey(NewRon60(a.id.seq \div RevMod)),
            RonKey(NewRon60(b.id.seq \div RevMod))),
       Sign(a.id.src, b.id.src))

\* a tuple stands for its first element
KeyOf(a) == IF a.lit # "P" THEN a ELSE IF a.val = <<>> THEN Absent ELSE a.val[1]
\* mistake: only one side is unwrapped
CompareEulerOneSided(a, b) == CompareValue(KeyOf(a), b)
CompareEuler(a, b) == CompareValue(KeyOf(a), KeyOf(b))

\* mistake: no Grtr
CompareMultixOneSided(a, b) == IF a.id.src < b.id.src THEN Less ELSE Eq
CompareMultix(a, b) == Sign(a.id.src, b.id.src)

\* the comparator that orders the elements of a container
CompareIn(lit, a, b) ==
  CASE lit = "P" -> CompareTuple(a, b)
    [] lit = "L" -> CompareLinear(a, b)
    [] lit = "E" -> CompareEuler(a, b)
    [] lit = "X" -> CompareMultix(a, b)
-----------------------------------------------------------------------------
(* Elements that contend for one spot *)

\* same element, maybe different revision
IsSame(a, b) == a.lit = b.lit /\ Base(a.id) = Base(b.id)

SpotCompare(a, b) ==
  IF IsSame(a, b) /\ IsPLEX(a.lit) THEN Eq ELSE CompareLWW(a, b)

\* mergeValuesF/I/R/S/T: the first of the greatest values
Wins(lit, v, w) ==
  CASE lit = "F" -> v[1] > w[1]
    [] lit = "R" -> IDCompare(w, v) < 0
    [] OTHER -> v > w
MergeValues(lit, vals) ==
  vals[CHOOSE k \in DOMAIN vals :
         /\ \A j \in DOMAIN vals : ~Wins(lit, vals[j], vals[k])
         /\ \A j \in 1..(k - 1) : Wins(lit, vals[k], vals[j])]
=============================================================================
