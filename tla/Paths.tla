------------------------------- MODULE Paths -------------------------------
(***************************************************************************)
(* What readers get of the documents replicas hold: Pick and Delve look an *)
(* element up, Flatten leaves out what is deleted, ObjectReader lists the  *)
(* pairs of a set.  A path is a sequence of elements, one for each level;  *)
(* all errors are Failure.                                                 *)
(***************************************************************************)
EXTENDS Replication

\* the record an iterator has before it reads: no bytes
NoRecord == <<>>

RECURSIVE scan(_, _)
\* an element, or what the rest of the path leads to in it
Descend(a, rest) == IF rest = <<>> THEN <<a>> ELSE scan(a, rest)

\* by index, which nothing keeps from being negative
delveP(rdx, path) ==
  LET n == path[1].val
  IN  IF path[1].lit # "I" \/ rdx = <<>> \/ n >= Len(rdx) THEN Failure
      ELSE IF n >= 0 THEN Descend(rdx[n + 1], Tail(path))
      ELSE IF Len(path) = 1 THEN NoRecord ELSE Failure

\* where a search stops: at the first element that is not Less than the key
StopsAt(lit, rdx, key, k) ==
  /\ CompareIn(lit, rdx[k], key) >= Eq
  /\ \A j \in 1..(k - 1) : CompareIn(lit, rdx[j], key) < Eq

\* mistake: whatever it stops at is taken
DelveAny(lit, rdx, path) ==
  IF \E k \in DOMAIN rdx : StopsAt(lit, rdx, path[1], k)
  THEN Descend(rdx[CHOOSE k \in DOMAIN rdx : StopsAt(lit, rdx, path[1], k)], Tail(path))
  ELSE Failure
delve(lit, rdx, path) ==
  IF \E k \in DOMAIN rdx :
       StopsAt(lit, rdx, path[1], k) /\ CompareIn(lit, rdx[k], path[1]) = Eq
  THEN Descend(rdx[CHOOSE k \in DOMAIN rdx : StopsAt(lit, rdx, path[1], k)], Tail(path))
  ELSE Failure

scan(a, path) ==
  CASE a.lit = "P" -> delveP(a.val, path)
    [] a.lit \in {"L", "E", "X"} -> delve(a.lit, a.val, path)
    [] OTHER -> Failure

\* of a whole document
Delve(rdx, path) == IF path = <<>> THEN rdx ELSE delveP(rdx, path)

\* Pick, of the first element of rdx; a key of another type is index 0
Pick(key, rdx) ==
  IF key = <<>> \/ rdx = <<>> THEN Failure
  ELSE LET n == IF key[1].lit = "I" THEN key[1].val ELSE 0
           val == rdx[1].val
       IN  CASE rdx[1].lit = "P" ->
                  IF val = <<>> \/ n >= Len(val) THEN Failure
                  ELSE IF n < 0 THEN NoRecord ELSE <<val[n + 1]>>
             [] rdx[1].lit \in {"L", "E", "X"} -> delve(rdx[1].lit, val, <<key[1]>>)
             [] OTHER -> Failure
-----------------------------------------------------------------------------
(* Flatten *)

\* the value of no bytes
Nought(lit) ==
  CASE lit = "F" -> <<0, 0>> [] lit = "R" -> ZeroID [] lit \in {"I", "S", "T"} -> 0
    [] OTHER -> <<>>

\* a deleted element of a tuple
Gap == [lit |-> "P", id |-> ZeroID, val |-> <<>>]

RECURSIVE flatten(_, _)
\* One element in a container of type lit ("" at the top).  In a multiplexed
\* container a value of FIRST type is read as if it were contents, which
\* fails unless its bytes happen to be records, and CloseTLV clears the error:
\* the value is lost.
FlattenOne(a, lit) ==
  IF ~IsLive(a.id) THEN IF lit = "P" THEN <<Gap>> ELSE <<>>
  ELSE <<[lit |-> a.lit,
          id |-> IF lit = "X" THEN [a.id EXCEPT !.seq = 0] ELSE ZeroID,
          val |-> IF a.lit \notin FIRST THEN flatten(a.val, a.lit)
                  ELSE IF lit = "X" THEN Nought(a.lit) ELSE a.val]>>
\* mistake: no gaps, so what follows moves up
FlattenDrops(rdx, lit) ==
  LET live == SelectSeq(rdx, LAMBDA a : IsLive(a.id))
  IN  [k \in DOMAIN live |-> FlattenOne(live[k], lit)[1]]
\* what follows the last live element is trimmed
flatten(rdx, lit) ==
  LET last == Max({0} \cup {k \in DOMAIN rdx : IsLive(rdx[k].id)})
  IN  FlattenSeq([k \in 1..last |-> FlattenOne(rdx[k], lit)])

Flatten(rdx) == flatten(rdx, "")
-----------------------------------------------------------------------------
(* ObjectReader *)

IsPair(a) == a.lit = "P" /\ a.val # <<>> /\ a.val[1].lit = "T"

\* NewObjectReader and Read until it is false: the keys, and the Value that
\* stands at the second element, if there is one
ObjectReads(a) ==
  LET pairs == SelectSeq(a.val, IsPair)
      Value(p) == IF Len(p.val) < 2 THEN Absent ELSE p.val[2]
  IN  IF a.lit # "E" THEN Failure
      ELSE [k \in DOMAIN pairs |-> [key |-> pairs[k].val[1], value |-> Value(pairs[k])]]
-----------------------------------------------------------------------------
(* Properties *)

Index(n) == [lit |-> "I", id |-> ZeroID, val |-> n]
\* the step to element k of contents of type lit: an index, or a like element
StepTo(lit, rdx, k) == IF lit \in {"", "P"} THEN Index(k - 1) ELSE rdx[k]

\* all elements of a document, with their paths and what is on the way
RECURSIVE Spots(_, _)
Spots(rdx, lit) ==
  UNION {LET step == StepTo(lit, rdx, k)
             here == [path |-> <<step>>, way |-> <<lit>>, el |-> rdx[k], live |-> IsLive(rdx[k].id)]
             Below(s) == [path |-> <<step>> \o s.path, way |-> <<lit>> \o s.way,
                          el |-> s.el, live |-> here.live /\ s.live]
         IN  {here} \cup IF IsPLEX(rdx[k].lit)
                         THEN {Below(s) : s \in Spots(rdx[k].val, rdx[k].lit)} ELSE {}
         : k \in DOMAIN rdx}

\* the elements a path names, whatever their order
RECURSIVE Named(_, _, _)
Named(rdx, lit, path) ==
  LET Match(k) == IF lit \in {"", "P"} THEN path[1] = Index(k - 1)
                  ELSE CompareIn(lit, rdx[k], path[1]) = Eq
      hits == {rdx[k] : k \in {j \in DOMAIN rdx : Match(j)}}
  IN  IF Len(path) = 1 THEN hits
      ELSE UNION {Named(a.val, a.lit, Tail(path)) : a \in {b \in hits : IsPLEX(b.lit)}}

\* ObjectReader lists the pairs of a set by growing keys, each once, and gives
\* the value that Delve finds under the key.
PairsListed(r) ==
  \A s \in Spots(doc[r], "") : s.el.lit = "E" =>
    LET reads == ObjectReads(s.el)
        keys == {k \in DOMAIN reads : reads[k].value # Absent}
    IN  /\ \A k \in keys :
             Delve(doc[r], s.path \o <<reads[k].key, Index(1)>>) = <<reads[k].value>>
        /\ \A k \in 2..Len(reads) : reads[k - 1].key.val < reads[k].key.val
        /\ \A t \in Spots(s.el.val, "E") :
             Len(t.path) = 1 /\ KeyOf(t.el).lit = "T" /\ t.el.lit = "P" =>
               \E k \in DOMAIN reads : reads[k].key = KeyOf(t.el)

\* Whatever was merged in which order, every replica's documents can be
\* searched: for the path of any element of any replica, Delve finds the one
\* element the path names here, or nothing where there is none, and Pick
\* agrees with it within a container; ObjectReader gives what Delve finds.
Found ==
  \A r \in Replicas :
    /\ PairsListed(r)
    /\ \A q \in Replicas : \A s \in Spots(doc[q], "") :
         LET named == Named(doc[r], "", s.path)
         IN  IF named = {} THEN HasFailed(Delve(doc[r], s.path))
             ELSE named = Range(Delve(doc[r], s.path)) /\ Cardinality(named) = 1
    /\ \A s \in Spots(doc[r], "") :
         Len(s.path) > 1 =>
           Pick(<<Last(s.path)>>, Delve(doc[r], Front(s.path))) = <<s.el>>

\* the elements a reader should still find in a flattened document (items of a
\* list lose their positions)
Kept(r) == {s \in Spots(doc[r], "") : s.live /\ "L" \notin Range(s.way)}

\* A flattened document has every live element of live containers where the
\* document has it, by index, key or author, and else only gaps; flattening
\* it again changes nothing.  A value of FIRST type keeps its bytes, unless it
\* stands in a multiplexed container: what becomes of those is the question of
\* ValuesKept.
Flattened ==
  \A r \in Replicas :
    LET flat == Flatten(doc[r])
        Same(a, s) == /\ a.lit = s.el.lit
                      /\ a.lit \in FIRST /\ Last(s.way) # "X" => a.val = s.el.val
    IN  /\ Flatten(flat) = flat
        /\ \A s \in Kept(r) : /\ Len(Delve(flat, s.path)) = 1
                             /\ Same(Delve(flat, s.path)[1], s)
        /\ \A s \in Spots(flat, "") : "L" \notin Range(s.way) =>
             s.el = Gap \/ \E t \in Spots(doc[r], "") :
                             t.live /\ t.el = Delve(doc[r], s.path)[1]

\* README.md:330-332: stripping removes tombstones, timestamps and parts of a
\* document that have no effect.  So every value that is found in a document
\* is found in the flattened one, with the bytes it has.
ValuesKept ==
  \A r \in Replicas : \A s \in Kept(r) : s.el.lit \in FIRST =>
    LET found == Delve(Flatten(doc[r]), s.path)
    IN  Len(found) = 1 /\ found[1].val = s.el.val
============================================================================
