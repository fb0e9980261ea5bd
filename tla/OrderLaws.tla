----------------------------- MODULE OrderLaws -----------------------------
(***************************************************************************)
(* What the heap and the spot rely on: that the comparators of rdx.go      *)
(* order any three elements consistently.  The only state is the three     *)
(* iterators a caller hands to them.                                       *)
(***************************************************************************)
EXTENDS RdxOrder

CONSTANT Elements

IDs == [src : Nat, seq : Nat]

\* a value as its type has it; contents are elements themselves
ValueOK(a) ==
  CASE a.lit = "F" -> a.val \in Int \X Int
    [] a.lit \in {"I", "S", "T"} -> a.val \in Int
    [] a.lit = "R" -> a.val \in IDs
    [] IsPLEX(a.lit) -> a.val \in Seq(Elements)
    [] OTHER -> TRUE

ASSUME ElementsAssumption ==
  \A a \in Elements :
    a.lit \in FIRST \cup PLEX \cup {"?"} /\ a.id \in IDs /\ ValueOK(a)

VARIABLES x, y, z

elementVars == <<x, y, z>>

ElementInit == x \in Elements /\ y = x /\ z = x

\* the second and the third iterator are read, in either order
ReadSecond == y = x /\ y' \in Elements /\ UNCHANGED <<x, z>>
ReadThird == z = x /\ z' \in Elements /\ UNCHANGED <<x, y>>

ElementNext == ReadSecond \/ ReadThird

ElementSpec == ElementInit /\ [][ElementNext]_elementVars
-----------------------------------------------------------------------------
\* C orders a, b and c: both directions agree, and it is transitive.
Orders(C(_, _), a, b, c) ==
  /\ C(a, a) = Eq
  /\ C(a, b) = -C(b, a)
  /\ C(a, b) <= Eq /\ C(b, c) <= Eq => C(a, c) <= Eq

\* A set can be sorted by value, tuples standing for their keys, also when
\* keys are missing, nested or of unknown types.
EulerOrders == Orders(CompareEuler, x, y, z)

\* So can a list by position (CompareLinear), although positions wrap around.
LinearOrders == Orders(CompareLinear, x, y, z)

\* So can a multiplexed container by author (CompareMultix).
MultixOrders == Orders(CompareMultix, x, y, z)

\* Last write wins, unless an empty tuple, another tuple and something else
\* share an ID: then the empty one loses to what the other one beats.
Tuples == {a \in {x, y, z} : a.lit = "P"}
EmptyAmongTuples ==
  /\ \E a, b \in Tuples : IsEmptyTuple(a) /\ ~IsEmptyTuple(b)
  /\ \E a \in {x, y, z} : a.lit # "P"
LWWOrders == EmptyAmongTuples \/ Orders(CompareLWW, x, y, z)
=============================================================================
