----------------------------- MODULE Merkle7574 -----------------------------
(***************************************************************************)
(* Sha256Merkle7574 of merkle7574.go: the line of perfect-tree roots of an *)
(* append-only hash tree.  A hash is what it commits to, SHA-256 being     *)
(* taken for collision-free and never Sha256Zero: a leaf, or the tree of   *)
(* two hashes, given by its height and its leaves from left to right.      *)
(***************************************************************************)
EXTENDS Integers, Sequences, FiniteSetsExt

CONSTANTS
  Slots,      \* length of the line: 64
  Leaves,     \* the hashes to append
  MaxAppends  \* bound: calls of Append

ASSUME MerkleAssumption == Slots \in Nat \ {0} /\ MaxAppends \in Nat

VARIABLES
  line,      \* the line, 0-based
  appended,  \* history: the leaves appended, in order
  phase      \* "ready" or "panic"

merkleVars == <<line, appended, phase>>

Sha256Zero == [height |-> -1, leaves |-> <<>>]
Leaf(next) == [height |-> 0, leaves |-> <<next>>]
\* mistake: the new hash goes to the left
Merkle2Swapped(a, b) == [height |-> Max({a.height, b.height}) + 1,
                         leaves |-> b.leaves \o a.leaves]
Merkle2(a, b) == [height |-> Max({a.height, b.height}) + 1,
                  leaves |-> a.leaves \o b.leaves]

MerkleInit ==
  /\ line = [k \in 0..(Slots - 1) |-> Sha256Zero]
  /\ appended = <<>>
  /\ phase = "ready"

\* where the loop stops: the first empty slot, or len(line)
FirstEmpty == Min({k \in 0..(Slots - 1) : line[k] = Sha256Zero} \cup {Slots})

\* p after k iterations
Carried(next) ==
  LET p[k \in 0..Slots] == IF k = 0 THEN Leaf(next) ELSE Merkle2(line[k - 1], p[k - 1])
  IN  p[FirstEmpty]

ClearedLine == [k \in 0..(Slots - 1) |-> IF k < FirstEmpty THEN Sha256Zero ELSE line[k]]

AppendHash(next) ==
  /\ phase = "ready"
  /\ Len(appended) < MaxAppends
  /\ FirstEmpty < Slots
  /\ line' = [ClearedLine EXCEPT ![FirstEmpty] = Carried(next)]
  /\ appended' = Append(appended, next)
  /\ UNCHANGED phase

\* the loop evaluates line[i] before i < len(line): out of range, with the
\* line already cleared
AppendPanics ==
  /\ phase = "ready"
  /\ Len(appended) < MaxAppends
  /\ FirstEmpty = Slots
  /\ line' = ClearedLine
  /\ phase' = "panic"
  /\ UNCHANGED appended

MerkleNext == (\E next \in Leaves : AppendHash(next)) \/ AppendPanics

MerkleSpec == MerkleInit /\ [][MerkleNext]_merkleVars
-----------------------------------------------------------------------------
(* Properties *)

\* the leaves of a perfect tree of height k
TreeSize[k \in 0..Slots] == IF k = 0 THEN 1 ELSE 2 * TreeSize[k - 1]

\* bit k of the count of leaves, and the perfect tree of the leaves it stands for
Bit(k, n) == (n \div TreeSize[k]) % 2
TreeOf(k, leaves) ==
  LET lo == (Len(leaves) \div TreeSize[k + 1]) * TreeSize[k + 1]
  IN  [height |-> k, leaves |-> SubSeq(leaves, lo + 1, lo + TreeSize[k])]

\* Between calls slot k holds the perfect tree over the 2^k leaves that bit k
\* of the count of leaves stands for: every leaf is under exactly one root,
\* and in the order of the calls of Append.  Only a line with a root in every
\* slot makes Append fail.
Commits ==
  /\ phase = "panic" => Len(appended) = TreeSize[Slots] - 1
  /\ phase = "ready" =>
       \A k \in 0..(Slots - 1) :
         line[k] = IF Bit(k, Len(appended)) = 0 THEN Sha256Zero ELSE TreeOf(k, appended)
=============================================================================
