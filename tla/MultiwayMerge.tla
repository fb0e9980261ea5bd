--------------------------- MODULE MultiwayMerge ---------------------------
(***************************************************************************)
(* What HeapMerge of itheap.go promises, with no heap in sight: the inputs *)
(* are read in step, every round takes the least record at the head of an  *)
(* input together with every record equal to it, and an unreadable record  *)
(* stops the merge as soon as an input comes to it.                        *)
(***************************************************************************)
EXTENDS Integers, Sequences

CONSTANTS Inputs, Bad, Broken

VARIABLES
  rest,     \* rest[s]: what is left to merge of input s
  out,      \* the rounds so far
  status    \* "merging", "merged" or "failed"

vars == <<rest, out, status>>

Init ==
  /\ rest \in Inputs
  /\ out = <<>>
  /\ status = "merging"

Live == {s \in DOMAIN rest : rest[s] # <<>>}
Unreadable == {s \in Live : Head(rest[s]) = Bad}

\* the inputs whose head is the least
Front == {s \in Live : \A t \in Live : Head(rest[s]) <= Head(rest[t])}
Least == Head(rest[CHOOSE s \in Front : TRUE])
Clash == Least \in Broken /\ \E s, t \in Front : s # t

MergeNext ==
  /\ status = "merging"
  /\ Unreadable = {}
  /\ Live # {}
  /\ ~Clash
  /\ out' = Append(out, [key |-> Least, from |-> Front])
  /\ rest' = [s \in DOMAIN rest |->
                IF s \in Front THEN Tail(rest[s]) ELSE rest[s]]
  /\ UNCHANGED status

Fail ==
  /\ status = "merging"
  /\ Unreadable = {} => Live # {} /\ Clash
  /\ status' = "failed"
  /\ UNCHANGED <<rest, out>>

Finish ==
  /\ status = "merging"
  /\ Live = {}
  /\ status' = "merged"
  /\ UNCHANGED <<rest, out>>

Next == MergeNext \/ Fail \/ Finish

Spec == Init /\ [][Next]_vars
=============================================================================
