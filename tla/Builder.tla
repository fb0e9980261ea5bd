------------------------------ MODULE Builder ------------------------------
(***************************************************************************)
(* The Builder of builder.go: a stack of byte slices, one per container    *)
(* that is open.  Builders that were cloned from each other share backing  *)
(* arrays, so slices are modelled as Go has them: an array, a length and a *)
(* capacity; append writes in place while the capacity lasts.              *)
(*                                                                         *)
(* A stamp is the bytes that ZipID makes of it.                            *)
(***************************************************************************)
EXTENDS TlvBytes, SequencesExt, FiniteSetsExt

CONSTANTS
  Builders,   \* the variables a caller holds builders in
  Letters,    \* the record types
  Stamps,     \* zipped IDs; <<>> is that of ID{0, 0}
  Values,     \* values of FIRST elements, as bytes
  CaseBit,    \* the bit of a letter that tells a short record: 2^5
  MaxID,      \* bytes that Outo has room for a stamp in: 16
  Slack,      \* the capacity that append and slices.Clone may get in excess
  MaxLen,     \* bound: bytes in all builders, by Builder.Len(), up to which
              \* elements and marks are added and calls stray
  MaxDepth    \* bound: levels of a builder

ASSUME BuilderAssumption ==
  /\ IsFiniteSet(Builders)
  /\ Slack \in Nat /\ MaxLen \in Nat /\ MaxDepth \in Nat \ {0}
  /\ Stamps \cup Values \subseteq Seq({"val"} \X (0..(Base - 1)))
  /\ <<>> \in Stamps
  /\ CaseBit \in Nat \ {0} /\ MaxID \in 0..(Base - 1)
  /\ \A id \in Stamps : Len(id) <= MaxID       \* ZipID makes no more

VARIABLES
  mem,       \* mem[a]: the backing array a, as long as its capacity
  levels,    \* levels[b]: the slices of builder b
  given,     \* history: given[b]: what went into each level, closed records as
             \* WriteTLKV encodes them, and how the level was opened
  strayed    \* history: the builders that a container was opened or closed
             \* in through a copy of the slice header

vars == <<mem, levels, given, strayed>>

\* each level of each builder may have an array of its own
Arrays == 1..(Cardinality(Builders) * MaxDepth + 1)
Nil == [arr |-> 0, len |-> 0, cap |-> 0]

BytesOf(m, s) == IF s.arr = 0 THEN <<>> ELSE SubSeq(m[s.arr], 1, s.len)
Contents(b) == [k \in DOMAIN levels[b] |-> BytesOf(mem, levels[b][k])]

\* Builder.Len
BuilderLen(b) == FoldLeft(LAMBDA n, s : n + s.len, 0, levels[b])
Room == MapThenSumSet(BuilderLen, Builders) <= MaxLen

Referenced(ls) == UNION {{s.arr : s \in Range(ls[b])} : b \in Builders}
Unused == CHOOSE a \in Arrays \ Referenced(levels) : TRUE

\* A slice with its memory, as the calls below hand it on.
Cell(m, s) == [mem |-> m, s |-> s]
NewArray(m, bytes, slack) ==
  LET a == Unused
  IN  Cell([m EXCEPT ![a] = bytes \o Zeroes(slack)],
           [arr |-> a, len |-> Len(bytes), cap |-> Len(bytes) + slack])

\* append(s, bytes...)
AppendTo(x, bytes, slack) ==
  LET n == x.s.len + Len(bytes)
      Put(k) == IF k \in (x.s.len + 1)..n THEN bytes[k - x.s.len] ELSE x.mem[x.s.arr][k]
  IN  IF n > x.s.cap THEN NewArray(x.mem, BytesOf(x.mem, x.s) \o bytes, slack)
      ELSE IF bytes = <<>> THEN x
      ELSE Cell([x.mem EXCEPT ![x.s.arr] = [k \in DOMAIN @ |-> Put(k)]],
                [x.s EXCEPT !.len = n])

\* mistake: no copy is made
SameArray(m, s, slack) == Cell(m, s)
\* slices.Clone(s)
SlicesClone(m, s, slack) ==
  IF s.arr = 0 THEN Cell(m, s) ELSE NewArray(m, BytesOf(m, s), slack)

\* mistake: the clone may append in place
WithCapacity(s) == s
\* s[:len(s):len(s)]
Capped(s) == [s EXCEPT !.cap = s.len]

\* levels changes to ls and memory to m; arrays that nothing points to are gone
Becomes(ls, m) ==
  /\ levels' = ls
  /\ LET used == Referenced(ls)
     IN  mem' = [a \in Arrays |-> IF a \in used THEN m[a] ELSE <<>>]

Init ==
  /\ mem = [a \in Arrays |-> <<>>]
  /\ levels = [b \in Builders |-> <<Nil>>]
  /\ given = [b \in Builders |-> <<[lit |-> "none", id |-> <<>>, bytes |-> <<>>]>>]
  /\ strayed = {}
-----------------------------------------------------------------------------
(* Elements *)

LastOf(b) == Cell(mem, Last(levels[b]))
WithLast(ls, b, s) == [ls EXCEPT ![b][Len(ls[b])] = s]

\* bytes are appended to the last level of b
Grow(b, bytes) ==
  \E slack \in {0, Slack} :
    LET x == AppendTo(LastOf(b), bytes, slack)
    IN  /\ Room
        /\ Becomes(WithLast(levels, b, x.s), x.mem)

\* what level k of b was given; more goes into the last one
Give(b, bytes) == [given EXCEPT ![b][Len(given[b])].bytes = @ \o bytes]

\* mistake: a record of the greatest short length gets the long header
HeadOfOffByOne(lit, n) ==
  IF n < Base - 1 THEN <<Lit(lit, TRUE), Num(n)>> ELSE <<Lit(lit, FALSE)>> \o PutUint32(n)
\* the header of a FIRST record or of a container that is closed
HeadOf(lit, n) ==
  IF n <= Base - 1 THEN <<Lit(lit, TRUE), Num(n)>> ELSE <<Lit(lit, FALSE)>> \o PutUint32(n)
FIRSTBytes(lit, id, val) ==
  HeadOf(lit, Len(val) + Len(id) + 1) \o <<Num(Len(id))>> \o id \o val

\* FIRST0 (F0, I0, R0, S0, T0, String, Term) with an empty stamp, FIRST (F, I,
\* R, S, T), and Element, which goes through WriteRDX
FIRST(b, lit, id, val) ==
  /\ Grow(b, FIRSTBytes(lit, id, val))
  /\ given' = Give(b, WriteTLKV(lit, id, val))
  /\ UNCHANGED strayed

\* Stream: the records another builder has finished
Stream(b, c) ==
  /\ Len(levels[c]) = 1
  /\ c # b
  /\ levels[c][1].len > 0
  /\ Grow(b, BytesOf(mem, levels[c][1]))
  /\ given' = Give(b, given[c][1].bytes)
  /\ strayed' = IF c \in strayed THEN strayed \cup {b} ELSE strayed
-----------------------------------------------------------------------------
(* Containers *)

\* the letter, the stamp and its length wait for Outo
Mark(lit, id) == <<Lit(lit, FALSE)>> \o id \o <<Num(Len(id))>>

\* Into0 (IntoP0, L0, E0, X0) with an empty stamp, Into (P, L, E, X)
Into(b, lit, id) ==
  \E slack \in {0, Slack} :
    LET x == AppendTo(LastOf(b), Mark(lit, id), slack)
    IN  /\ Len(levels[b]) < MaxDepth
        /\ Room
        /\ Becomes([WithLast(levels, b, x.s) EXCEPT ![b] = Append(@, Nil)], x.mem)
        /\ given' = [given EXCEPT ![b] = Append(@, [lit |-> lit, id |-> id, bytes |-> <<>>])]
        /\ UNCHANGED strayed

\* What Outo takes for the mark: the last byte of the level under the last one
\* is the length of a stamp.  Into has put it there, but calls that strayed may
\* have left something else.
Under(b) == levels[b][Len(levels[b]) - 1]
IDLen(b) == Last(BytesOf(mem, Under(b)))[2]
Inner(b) == BytesOf(mem, Last(levels[b]))
WrappedHead(b) == HeadOf("none", Len(Inner(b)) + 1 + IDLen(b))

\* Otherwise Outo panics, at an index or slice expression, and that is the end
\* of the program: letters are greater than 16, too.
HasMark(b) ==
  /\ Len(levels[b]) > 1
  /\ Under(b).len > 0
  /\ Last(BytesOf(mem, Under(b)))[1] # "lit"
  /\ IDLen(b) <= MaxID
  /\ Under(b).len > IDLen(b)
  /\ WrappedHead(b)[1][3] => Under(b).len > IDLen(b) + 1

\* the byte |= CaseBit
Lower(y) ==
  IF y[1] = "lit" THEN Lit(y[2], TRUE)
  ELSE IF (y[2] \div CaseBit) % 2 = 1 THEN y ELSE <<y[1], y[2] + CaseBit>>

\* The level under the last one, once that is wrapped up in it: the slice is
\* cloned, the mark read back and cut off, the letter put in lower case if the
\* record is short, and the rest of the header, the stamp and the contents
\* appended.
Wrapped(b, slack) ==
  LET x == SlicesClone(mem, Under(b), slack)
      id == SubSeq(x.mem[x.s.arr], x.s.len - IDLen(b), x.s.len - 1)
      at == x.s.len - IDLen(b) - 1
      cut == Cell(IF WrappedHead(b)[1][3] THEN [x.mem EXCEPT ![x.s.arr][at] = Lower(@)] ELSE x.mem,
                  [x.s EXCEPT !.len = at])
  IN  AppendTo(cut, Tail(WrappedHead(b)) \o <<Num(IDLen(b))>> \o id \o Inner(b), slack)

\* Outo (OutoP, OutoL, OutoE, OutoX); its argument is not looked at
Outo(b) ==
  /\ HasMark(b)
  /\ \E slack \in {0, Slack} :
       LET x == Wrapped(b, slack)
       IN  Becomes(WithLast([levels EXCEPT ![b] = Front(@)], b, x.s), x.mem)
  /\ LET top == Last(given[b])
         under == given[b][Len(given[b]) - 1]
         closed == [under EXCEPT !.bytes = @ \o WriteTLKV(top.lit, top.id, top.bytes)]
     IN  given' = WithLast([given EXCEPT ![b] = Front(@)], b, closed)
  /\ UNCHANGED strayed

(* F0, I0, R0, S0, T0, String and Term have value receivers and return a   *)
(* pointer to their copy of the slice header.  A container that is opened  *)
(* or closed through it, as in b.I0(1).Into0(lit), is so in the copy: b    *)
(* shares the slices but keeps its number of levels.                       *)

StrayInto(b, lit) ==
  /\ Grow(b, <<Lit(lit, FALSE), Num(0)>>)
  /\ strayed' = strayed \cup {b}
  /\ UNCHANGED given

StrayOuto(b) ==
  /\ HasMark(b)
  /\ Room
  /\ \E slack \in {0, Slack} :
       LET x == Wrapped(b, slack)
       IN  Becomes([levels EXCEPT ![b][Len(levels[b]) - 1] = x.s], x.mem)
  /\ strayed' = strayed \cup {b}
  /\ UNCHANGED given
-----------------------------------------------------------------------------
(* Builders *)

\* b takes c's place in the histories as well
Follows(b, c) ==
  /\ given' = [given EXCEPT ![b] = given[c]]
  /\ strayed' = IF c \in strayed THEN strayed \cup {b} ELSE strayed \ {b}

NewBuilder(b) ==
  /\ Becomes([levels EXCEPT ![b] = <<Nil>>], mem)
  /\ given' = [given EXCEPT ![b] = <<[lit |-> "none", id |-> <<>>, bytes |-> <<>>]>>]
  /\ strayed' = strayed \ {b}

\* b := c.Clone()
Clone(b, c) ==
  /\ Becomes([levels EXCEPT ![b] = [k \in DOMAIN levels[c] |-> Capped(levels[c][k])]], mem)
  /\ Follows(b, c)

\* b := c.Copy()
Copy(b, c) ==
  \E slack \in {0, Slack} :
    LET spare == Arrays \ Referenced([levels EXCEPT ![b] = <<>>])
        Free(k) == CHOOSE a \in spare : Cardinality(1..a \cap spare) = k
        copies == [k \in DOMAIN levels[c] |->
                     IF levels[c][k].arr = 0 THEN Nil
                     ELSE [arr |-> Free(k), len |-> levels[c][k].len,
                           cap |-> levels[c][k].len + slack]]
        Copied(a, k) == copies[k].arr = a
    IN  /\ Becomes([levels EXCEPT ![b] = copies],
                   [a \in Arrays |->
                      IF \E k \in DOMAIN copies : Copied(a, k)
                      THEN BytesOf(mem, levels[c][CHOOSE k \in DOMAIN copies : Copied(a, k)])
                           \o Zeroes(slack)
                      ELSE mem[a]])
        /\ Follows(b, c)

Next ==
  \E b \in Builders :
    \/ \E lit \in Letters, id \in Stamps :
         \/ \E val \in Values : FIRST(b, lit, id, val)
         \/ Into(b, lit, id)
    \/ \E lit \in Letters : StrayInto(b, lit)
    \/ Outo(b) \/ StrayOuto(b) \/ NewBuilder(b)
    \/ \E c \in Builders \ {b} : Clone(b, c) \/ Copy(b, c) \/ Stream(b, c)

Spec == Init /\ [][Next]_vars
-----------------------------------------------------------------------------
(* Properties *)

Slices == {p \in Builders \X (1..MaxDepth) : p[2] \in DOMAIN levels[p[1]]}
SliceAt(p) == levels[p[1]][p[2]]

\* Slices stay within their arrays, and of the slices that share an array at
\* most one can append in place, behind all that the others see.
OneOwner ==
  /\ \A p \in Slices : SliceAt(p).len <= SliceAt(p).cap
  /\ \A p \in Slices : SliceAt(p).arr # 0 => SliceAt(p).cap <= Len(mem[SliceAt(p).arr])
  /\ \A p, r \in Slices :
       p # r /\ SliceAt(p).arr = SliceAt(r).arr /\ SliceAt(p).cap > SliceAt(p).len =>
         SliceAt(r).cap = SliceAt(r).len /\ SliceAt(r).len <= SliceAt(p).len

\* No call changes two of the builders that NewBuilder, Clone and Copy made,
\* however these came to share arrays, neither a call that strays nor any call
\* on a builder that calls strayed from before.
Isolated ==
  [][\A b, c \in Builders :
       b # c => Contents(b)' = Contents(b) \/ Contents(c)' = Contents(c)]_vars

\* What a builder holds is, level by level, what it was given: closed records
\* as WriteTLKV would have written them, and the mark of the level above; so
\* Outo does not panic.
Built ==
  \A b \in Builders \ strayed :
    /\ Contents(b) =
         [k \in DOMAIN given[b] |->
            given[b][k].bytes \o
            (IF k = Len(given[b]) THEN <<>>
             ELSE Mark(given[b][k + 1].lit, given[b][k + 1].id))]
    /\ Len(levels[b]) > 1 => HasMark(b)
=============================================================================
