----------------------------- MODULE MCBuilder -----------------------------
(* Bytes of four values: a record with up to three bytes after its length   *)
(* is short                                                                 *)
EXTENDS Builder

CONSTANTS b1, b2

SmallStamps == {<<>>, <<<<"val", 1>>>>}
SmallValues == {<<<<"val", 2>>>>}
SameBuilders == Permutations(Builders)
=============================================================================
