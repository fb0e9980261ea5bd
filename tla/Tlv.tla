-------------------------------- MODULE Tlv --------------------------------
(***************************************************************************)
(* The TLV writer and readers of tlv.go and Iter.Read of itheap.go.        *)
(*                                                                         *)
(* A record is written either at once (WriteTLKV) or by opening it,        *)
(* appending its contents, which may be records, and closing it: CloseTLV  *)
(* then knows the length and moves the contents if the header that was     *)
(* reserved turns out too long or too short.                               *)
(*                                                                         *)
(* Bytes and the records written at once are in TlvBytes.                  *)
(***************************************************************************)
EXTENDS TlvBytes, SequencesExt

CONSTANTS
  Letters,   \* the record types
  Keys,      \* keys of records, as bytes
  Values,    \* values of records written at once, as bytes
  Payload,   \* contents appended to an open record, as bytes
  MaxData,   \* bound: bytes written
  MaxDepth,  \* bound: records open
  MaxItems   \* bound: items on a level

ASSUME TlvAssumption ==
  /\ MaxData \in Nat /\ MaxDepth \in Nat /\ MaxItems \in Nat
  /\ \A b \in Keys \cup Values \cup Payload : b \in Seq(Range(b))

VARIABLES
  data,     \* the buffer
  stack,    \* Marks: [start, lit] of every open record
  level,    \* history: what each level was given, item by item, closed records
            \* as WriteTLV encodes them; level[1] is the top, level[k + 1] is
            \* that of stack[k]
  status    \* "ok" or "ErrBadNesting"

vars == <<data, stack, level, status>>

-----------------------------------------------------------------------------
(* The writer *)

Init ==
  /\ data = <<>>
  /\ stack = <<>>
  /\ level = <<<<>>>>
  /\ status = "ok"

Top == Last(stack)
Items == Last(level)
Room(n) == status = "ok" /\ Len(data) + n <= MaxData
Given(item) == [level EXCEPT ![Len(level)] = Append(@, item)]

\* OpenTLV, OpenShortTLV: mark the place and reserve a header
Open(lit, header) ==
  /\ Room(Len(header))
  /\ Len(stack) < MaxDepth
  /\ Len(Items) < MaxItems
  /\ stack # <<>> => Items # <<>>
  /\ stack' = Append(stack, [start |-> Len(data), lit |-> lit])
  /\ data' = data \o header
  /\ level' = Append(level, <<>>)
  /\ UNCHANGED status
OpenTLV(lit) == Open(lit, <<Lit(lit, FALSE)>> \o Zeroes(4))
OpenShortTLV(lit) == Open(lit, <<Lit(lit, TRUE), Num(0)>>)

\* append(data, ...)
Put(item) ==
  /\ Room(Len(item))
  /\ Len(Items) < MaxItems
  /\ data' = data \o item
  /\ level' = Given(item)
  /\ UNCHANGED <<stack, status>>

\* a record is opened, its key goes first, then its contents
PutKey(key) == stack # <<>> /\ Items = <<>> /\ Put(<<Num(Len(key))>> \o key)
PutValue(v) == stack # <<>> /\ Items # <<>> /\ Put(v)
PutRecord(lit, key, val) == (stack # <<>> => Items # <<>>) /\ Put(WriteTLKV(lit, key, val))

\* retroOpenTuple of jdr.go: the last m items turn out to be in a tuple
Copy(d, to, from) ==
  [k \in DOMAIN d |-> IF k \in (to + 1)..(to + Len(from)) THEN from[k - to] ELSE d[k]]
RetroOpenTuple(m) ==
  LET moved == SubSeq(Items, Len(Items) - m + 1, Len(Items))
      pos == Len(data) - Len(FlattenSeq(moved))
      wider == Copy(data \o Zeroes(3), pos + 3, SubSeq(data, pos + 1, Len(data)))
  IN  /\ Room(3)
      /\ Len(stack) < MaxDepth
      /\ m <= (IF stack = <<>> THEN Len(Items) ELSE Len(Items) - 1)
      /\ data' = Copy(wider, pos, <<Lit("P", TRUE), Num(0), Num(0)>>)
      /\ stack' = Append(stack, [start |-> pos, lit |-> "P"])
      /\ level' = Append([level EXCEPT ![Len(level)] = SubSeq(@, 1, Len(@) - m)],
                         <<<<Num(0)>>>> \o moved)
      /\ UNCHANGED status

\* the top record is of type lit, and its header is still there
Nested(lit) ==
  /\ stack # <<>>
  /\ Top.lit = lit
  /\ Top.start + 2 <= Len(data)
  /\ data[Top.start + 1][2] = lit

\* the record at s (0-based, d[s + 1] being its letter) with n bytes of contents
\* behind a header reserved as short or long: the contents are moved by three
\* if the other kind is due
Shrunk(d, s) == SubSeq(Copy(d, s + 2, SubSeq(d, s + 6, Len(d))), 1, Len(d) - 3)
Grown(d, s) == Copy(d \o Zeroes(3), s + 5, SubSeq(d, s + 3, Len(d)))
\* mistake: off by one
IsShortOffByOne(n) == n <= Base
IsShort(n) == n < Base
Moved(d, s, n) ==
  IF IsShort(n) = d[s + 1][3] THEN d ELSE IF IsShort(n) THEN Shrunk(d, s) ELSE Grown(d, s)
Header(lit, n) ==
  IF IsShort(n) THEN <<Lit(lit, TRUE), Num(n % Base)>> ELSE <<Lit(lit, FALSE)>> \o PutUint32(n)

\* every caller has appended a key before it closes
CloseTLV(lit) ==
  /\ Room(3)
  /\ Nested(lit)
  /\ Items # <<>>
  /\ LET s == Top.start
         n == Len(data) - s - (IF data[s + 1][3] THEN 2 ELSE 5)
     IN  data' = Copy(Moved(data, s, n), s, Header(lit, n))
  /\ stack' = Front(stack)
  /\ level' = [Front(level) EXCEPT ![Len(stack)] = Append(@, WriteTLV(lit, FlattenSeq(Items)))]
  /\ UNCHANGED status

\* the record is taken back
CancelTLV(lit) ==
  /\ Room(0)
  /\ stack # <<>>
  /\ Top.lit = lit
  /\ data' = SubSeq(data, 1, Top.start)
  /\ stack' = Front(stack)
  /\ level' = Front(level)
  /\ UNCHANGED status

\* nil, ErrBadNesting; CloseTLV takes the mark off all the same, CancelTLV
\* does not
BadNesting(lit) ==
  /\ Room(0)
  /\ \/ ~Nested(lit) /\ stack # <<>> /\ stack' = Front(stack)       \* CloseTLV
     \/ (stack # <<>> => Top.lit # lit) /\ stack' = stack           \* CancelTLV
  /\ status' = "ErrBadNesting"
  /\ data' = <<>>
  /\ UNCHANGED level

Done == status # "ok" /\ UNCHANGED vars

Next ==
  \/ \E lit \in Letters :
       \/ OpenTLV(lit) \/ OpenShortTLV(lit)
       \/ CloseTLV(lit) \/ CancelTLV(lit) \/ BadNesting(lit)
       \/ \E key \in Keys, val \in Values : PutRecord(lit, key, val)
  \/ \E key \in Keys : PutKey(key)
  \/ \E v \in Payload : PutValue(v)
  \/ \E m \in 1..2 : RetroOpenTuple(m)
  \/ Done

Spec == Init /\ [][Next]_vars
-----------------------------------------------------------------------------
(* The readers *)

Unread(err) == [lit |-> "", key |-> <<>>, val |-> <<>>, rest |-> <<>>, err |-> err]
MaxRecLen == ByteWeight[4] \div 2 - 1

\* ReadTLV, then ReadTLKV.  A length up to five bytes beyond the data passes
\* the check and the slice expression panics; so does that of a key of 255
\* bytes, 1 + value[0] being a byte.
ReadTLKV(d) ==
  LET short == d[1][3]
      hdr == IF short THEN 2 ELSE 5
      n == IF short THEN d[2][2] ELSE Uint32(SubSeq(d, 2, 5))
      value == SubSeq(d, hdr + 1, hdr + n)
      k == IF value = <<>> THEN 0 ELSE value[1][2]
  IN  CASE d = <<>> -> Unread("nil")
        [] d # <<>> /\ Len(d) < hdr -> Unread("ErrIncomplete")
        [] Len(d) >= hdr /\ n > MaxRecLen -> Unread("ErrBadRecord")
        [] /\ Len(d) >= hdr /\ n <= MaxRecLen
           /\ n > Len(d) + (IF short THEN -2 ELSE 5) -> Unread("ErrIncomplete")
        [] /\ ~short /\ Len(d) >= hdr /\ n <= MaxRecLen
           /\ n \in (Len(d) - 4)..(Len(d) + 5) -> Unread("panic")
        [] /\ Len(d) >= hdr + n
           /\ value # <<>> /\ Len(value) < k + 1 -> Unread("ErrBadRecord")
        [] Len(d) >= hdr + n /\ Len(value) >= k + 1 /\ k + 1 = Base -> Unread("panic")
        [] OTHER ->
             [lit |-> d[1][2], err |-> "nil", rest |-> SubSeq(d, hdr + n + 1, Len(d)),
              key |-> SubSeq(value, 2, k + 1), val |-> SubSeq(value, k + 2, n)]

\* Iter.Read and Iter.Parsed: the header includes the length of the key;
\* errndx 1 is IterIncomplete, 2 is IterBad.  Read returns true and ID() panics
\* if hdrlen + idlen, a byte, wraps; so does Value() if the length of the key
\* is all there is, as vallen is -1 then.
IterBad == "ErrBadRecord"
IterIncomplete == "ErrIncomplete"
IterRead(d) ==
  LET short == d[1][3]
      hdr == IF short THEN 3 ELSE 6
      n == IF short THEN d[2][2] ELSE Uint32(SubSeq(d, 2, 5))
      k == d[hdr][2]
  IN  CASE d = <<>> -> Unread("nil")
        [] d # <<>> /\ Len(d) < hdr -> Unread(IterIncomplete)
        [] Len(d) >= hdr /\ ~short /\ n >= ByteWeight[4] \div 4 -> Unread(IterBad)
        [] Len(d) >= hdr /\ (short \/ n < ByteWeight[4] \div 4) /\ Len(d) < hdr + n - 1 ->
             Unread(IterIncomplete)
        [] Len(d) >= hdr /\ Len(d) >= hdr + n - 1 /\ k > n -> Unread(IterBad)
        [] /\ Len(d) >= hdr /\ (short \/ n < ByteWeight[4] \div 4) /\ Len(d) >= hdr + n - 1
           /\ k <= n /\ (k = n \/ hdr + k >= Base) -> Unread("panic")
        [] OTHER ->
             [lit |-> d[1][2], err |-> "nil", rest |-> SubSeq(d, hdr + n, Len(d)),
              key |-> SubSeq(d, hdr + 1, hdr + k), val |-> SubSeq(d, hdr + k + 1, hdr + n - 1)]
-----------------------------------------------------------------------------
(* Properties *)

\* Level k's part of the buffer.
From(k) ==
  IF k = 1 THEN 1
  ELSE LET s == stack[k - 1].start + 1 IN s + (IF data[s][3] THEN 2 ELSE 5)
To(k) == IF k <= Len(stack) THEN stack[k].start ELSE Len(data)

\* However headers shrink, grow or are inserted, the buffer holds what each
\* open record was given, byte by byte, and a record closed is the one that
\* WriteTLV would have written at once.
Framed ==
  status = "ok" =>
    \A k \in DOMAIN level : SubSeq(data, From(k), To(k)) = FlattenSeq(level[k])

\* Both readers take the buffer apart into the records that went in, to the
\* byte: what they return encodes to the same record.
RecordsRead ==
  status = "ok" /\ stack = <<>> =>
    \A j \in DOMAIN Items :
      LET from(k) == SubSeq(data, Len(FlattenSeq(SubSeq(Items, 1, k - 1))) + 1, Len(data))
          r == ReadTLKV(from(j))
      IN  /\ r.err = "nil"
          /\ r.rest = from(j + 1)
          /\ WriteTLKV(r.lit, r.key, r.val) = Items[j]
          /\ IterRead(from(j)) = r

\* Read answers ErrIncomplete to any part of the last record.
Cut(Read(_)) ==
  status = "ok" /\ stack = <<>> /\ Items # <<>> =>
    \A n \in 1..(Len(Last(Items)) - 1) :
      Read(SubSeq(Last(Items), 1, n)).err = "ErrIncomplete"
\* Iter.Read that is given part of a record says so.
IterWaits == Cut(IterRead)

\* ReadTLKV, and ReadTLV under it, that is given part of a record says so.
ReadTLKVWaits == Cut(ReadTLKV)
=============================================================================
