------------------------------- MODULE MCJdr -------------------------------
(* Small texts and documents for JdrText *)
EXTENDS JdrText

\* every text of up to six tokens, with elements numbered by their place
Alphabet ==
  {First(0, 0), Opening("P", 0), Closing("P"), Closing("E"), Opening("E", 0), Comma, Colon, Semicolon}
Numbered(t) == [k \in DOMAIN t |-> IF t[k].tok = "first" THEN First(0, k) ELSE t[k]]
MCTexts == {Numbered(t) : t \in BoundedSeq(Alphabet, 6)}

\* documents of up to two elements, stamped or not, nested three deep
Scalars == {[lit |-> "I", id |-> id, val |-> 1] : id \in {0, 1}}
Containers(elements) ==
  {[lit |-> lit, id |-> id, val |-> v] :
     lit \in {"P", "L"}, id \in {0, 1}, v \in BoundedSeq(elements, 2)}
Nested == Scalars \cup {EmptyTuple} \cup
          Containers({[lit |-> "I", id |-> 0, val |-> 1], EmptyTuple})
MCDocs == {<<d>> : d \in Containers(Nested)} \cup BoundedSeq(Nested, 2)

\* (@1 1, 1)
StampedPair ==
  LET one == [lit |-> "I", id |-> 0, val |-> 1]
  IN  {<<[lit |-> "P", id |-> 1, val |-> <<one, one>>]>>}
=============================================================================
