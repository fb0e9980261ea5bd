------------------------------- MODULE Words -------------------------------
(***************************************************************************)
(* The 64-bit words of IDs and values: the byte strings they are zipped to *)
(* (zipint.go), their RON64 text (id.go, ron.go), and the revisions in     *)
(* their low bits.                                                         *)
(*                                                                         *)
(* A word has eight bytes of ByteBits bits.  A text is a sequence of RON64 *)
(* digits, 0..RonBase-1, and Dash.  An int64 is the word with its bits, a  *)
(* float64 is its bits.                                                    *)
(***************************************************************************)
EXTENDS RdxOrder, SequencesExt

CONSTANTS
  ByteBits,   \* bits of a byte: 8
  Decimals,   \* the RON64 digits that are decimal digits too: 0..9
  Exponents   \* the RON64 digits "E" and "e": 14 and 41

ASSUME WordsAssumption ==
  /\ ByteBits \in Nat \ {0}
  /\ Decimals \subseteq 0..(RonBase - 1) /\ 0 \in Decimals
  /\ Exponents \subseteq 1..(RonBase - 1) /\ Exponents \cap Decimals = {}

\* powers of two, and what a byte counts for that k others follow
TwoTo[k \in 0..(8 * ByteBits)] == IF k = 0 THEN 1 ELSE 2 * TwoTo[k - 1]
ByteBase == TwoTo[ByteBits]
ByteWeight[k \in 0..8] == IF k = 0 THEN 1 ELSE ByteBase * ByteWeight[k - 1]
WordMod == ByteWeight[8]

\* a word has one digit more than a position
ASSUME WordSize == RonWeight[RonDigits] < WordMod /\ WordMod <= RonWeight[RonDigits + 1]

VARIABLES u, v

\* the words are counted through, each on its own
NextWord ==
  \/ u' = (u + 1) % WordMod /\ v' = v
  \/ v' = (v + 1) % WordMod /\ u' = u
-----------------------------------------------------------------------------
(* Zipping *)

\* binary.LittleEndian: the low n bytes of w, and the number n bytes make
PutUint(n, w) == [k \in 1..n |-> (w \div ByteWeight[k - 1]) % ByteBase]
Uint(bytes) ==
  LET word[k \in 0..Len(bytes)] ==
        IF k = 0 THEN 0
        ELSE (ByteBase * word[k - 1] + bytes[Len(bytes) - k + 1]) % WordMod
  IN  word[Len(bytes)]

\* mistake: the byte's limit is taken for its greatest value
ByteLenOver(n) ==
  CASE n = 0 -> 0 [] n \in 1..ByteBase -> 1 [] n \in (ByteBase + 1)..(ByteWeight[2] - 1) -> 2
    [] n \in ByteWeight[2]..(ByteWeight[4] - 1) -> 4 [] OTHER -> 8
byteLen(n) ==
  CASE n = 0 -> 0 [] n \in 1..(ByteBase - 1) -> 1 [] n \in ByteBase..(ByteWeight[2] - 1) -> 2
    [] n \in ByteWeight[2]..(ByteWeight[4] - 1) -> 4 [] OTHER -> 8

\* the bytes given to big, to nothing, and to lil: by the lengths they need
ZipLayout(b, l) ==
  CASE b = 0 /\ l = 0 -> <<0, 0, 0>>
    [] b = 1 /\ l = 0 -> <<1, 0, 0>>
    [] b <= 1 /\ l = 1 -> <<1, 0, 1>>
    [] b \in {2, 4, 8} /\ l <= 1 -> <<b, 0, 1>>
    [] b <= 2 /\ l = 2 -> <<2, 0, 2>>
    [] b \in {4, 8} /\ l = 2 -> <<b, 0, 2>>
    [] b <= 4 /\ l = 4 -> <<4, 0, 4>>
    [] b = 8 /\ l = 4 -> <<8, 0, 4>>
    [] b <= 2 /\ l = 8 -> <<2, 1, 8>>
    [] b = 4 /\ l = 8 -> <<4, 1, 8>>
    [] b = 8 /\ l = 8 -> <<8, 0, 8>>
ZipUint64Pair(big, lil) ==
  LET f == ZipLayout(byteLen(big), byteLen(lil))
  IN  PutUint(f[1], big) \o [k \in 1..f[2] |-> 0] \o PutUint(f[3], lil)

\* where a reader looks for them: by the length of the string
UnzipLayout(len) ==
  CASE len = 1 -> <<1, 0, 0>> [] len = 2 -> <<1, 0, 1>>
    [] len = 3 -> <<2, 0, 1>> [] len = 4 -> <<2, 0, 2>>
    [] len = 5 -> <<4, 0, 1>> [] len = 6 -> <<4, 0, 2>> [] len = 8 -> <<4, 0, 4>>
    [] len = 9 -> <<8, 0, 1>> [] len = 10 -> <<8, 0, 2>> [] len = 12 -> <<8, 0, 4>>
    [] len = 11 -> <<2, 1, 8>> [] len = 13 -> <<4, 1, 8>> [] len = 16 -> <<8, 0, 8>>
    [] OTHER -> <<0, 0, 0>>
UnzipUint64Pair(zip) ==
  LET f == UnzipLayout(Len(zip))
  IN  <<Uint(SubSeq(zip, 1, f[1])), Uint(SubSeq(zip, f[1] + f[2] + 1, f[1] + f[2] + f[3]))>>

ZipID(id) == ZipUint64Pair(id.seq, id.src)
UnzipID(zip) == LET p == UnzipUint64Pair(zip) IN [src |-> p[2], seq |-> p[1]]
\* Iter.IsLive, of a record with this ID
IterIsLive(zip) == zip = <<>> \/ zip[1] % 2 = 0

\* as many bytes as there are, up to the last one that is not zero
ZipUint64(w) == PutUint(CHOOSE n \in 0..8 : /\ w < ByteWeight[n]
                                            /\ \A m \in 0..(n - 1) : w >= ByteWeight[m], w)
UnzipUint64(zip) == Uint(zip)

Complement(w) == WordMod - 1 - w
IsNegative(i) == i >= WordMod \div 2
\* mistake: the sign is not folded in
ZigZagShift(i) == (2 * i) % WordMod
ZigZagInt64(i) ==
  IF IsNegative(i) THEN Complement((2 * i) % WordMod) ELSE (2 * i) % WordMod
ZagZigUint64(w) == IF w % 2 = 1 THEN Complement(w \div 2) ELSE w \div 2
ZipInt64(i) == ZipUint64(ZigZagInt64(i))
UnzipInt64(zip) == ZagZigUint64(UnzipUint64(zip))

\* bits.Reverse64
Reverse64(w) ==
  LET word[k \in 0..(8 * ByteBits)] ==
        IF k = 0 THEN 0 ELSE 2 * word[k - 1] + ((w \div TwoTo[k - 1]) % 2)
  IN  word[8 * ByteBits]
ZipFloat64(f) == ZipUint64(Reverse64(f))
UnzipFloat64(zip) == Reverse64(UnzipUint64(zip))
-----------------------------------------------------------------------------
(* RON64 text *)

Dash == RonBase
Digits == 0..(RonBase - 1)
BadIDSyntax == [src |-> 0, seq |-> -1]

RON64String(w) ==
  LET n == CHOOSE n \in 1..(RonDigits + 1) :
             w < RonWeight[n] /\ (n = 1 \/ w >= RonWeight[n - 1])
  IN  [k \in 1..n |-> (w \div RonWeight[n - k]) % RonBase]

\* the leading digits, one more than fit a position at most, and the rest
LeadingDigits(txt) ==
  CHOOSE n \in 0..(RonDigits + 1) :
    /\ n <= Len(txt) /\ \A k \in 1..n : txt[k] \in Digits
    /\ n = RonDigits + 1 \/ n = Len(txt) \/ txt[n + 1] \notin Digits
ParseRON64(txt) ==
  LET n == LeadingDigits(txt)
      word[k \in 0..n] == IF k = 0 THEN 0 ELSE (RonBase * word[k - 1] + txt[k]) % WordMod
  IN  [val |-> word[n], rest |-> SubSeq(txt, n + 1, Len(txt))]

RonString(id) ==
  IF id.src = 0 THEN RON64String(id.seq)
  ELSE RON64String(id.src) \o <<Dash>> \o RON64String(id.seq)

\* mistake: nothing in front of an author that ends like a mantissa
FormalStringPlain(id) == RON64String(id.src) \o <<Dash>> \o RON64String(id.seq)
\* ID.FormalString: no author is taken for a mantissa
FormalString(id) ==
  LET src == RON64String(id.src)
      zeroes == IF id.src \in Exponents THEN <<0, 0>>
                ELSE IF Last(src) \in Exponents THEN <<0>> ELSE <<>>
  IN  zeroes \o src \o <<Dash>> \o RON64String(id.seq)

Mask60bit == RonWeight[RonDigits] - 1
NewID(txt) ==
  LET src == ParseRON64(txt)
      seq == ParseRON64(Tail(src.rest))
  IN  IF src.val > Mask60bit THEN BadIDSyntax
      ELSE IF src.rest = <<>> THEN [src |-> 0, seq |-> src.val]
      ELSE IF \/ Head(src.rest) # Dash \/ Len(src.rest) > RonDigits + 1
              \/ seq.rest # <<>> \/ seq.val > Mask60bit
      THEN BadIDSyntax
      ELSE [src |-> src.val, seq |-> seq.val]

ParseID(txt) ==
  LET src == ParseRON64(txt)
  IN  IF src.rest # <<>> /\ Head(src.rest) = Dash
      THEN [src |-> src.val, seq |-> ParseRON64(Tail(src.rest)).val]
      ELSE [src |-> 0, seq |-> src.val]

\* JDRFloat among the texts of IDs: digits, an exponent sign, more digits
LexedAsFloat(txt) ==
  \E k \in 2..(Len(txt) - 2) :
    /\ txt[k] \in Exponents /\ txt[k + 1] = Dash
    /\ \A j \in 1..Len(txt) : j \notin {k, k + 1} => txt[j] \in Decimals
    /\ txt[1] = 0 => k = 2
\* JDRRef: two words of digits and a dash, if that is no JDRFloat
LexedAsRef(txt) ==
  /\ \E k \in 2..(Len(txt) - 1) :
       txt[k] = Dash /\ \A j \in 1..Len(txt) : j # k => txt[j] \in Digits
  /\ ~LexedAsFloat(txt)

\* Ron60.Uint64, Ron60.String, ParseRon60
Ron60Uint64(r) ==
  IF r \in {0, RonTop} THEN 0
  ELSE r \div RonWeight[CHOOSE k \in 0..(RonDigits - 1) :
                         r % RonWeight[k] = 0 /\ r % RonWeight[k + 1] # 0]
Ron60String(r) == RON64String(Ron60Uint64(r))
ParseRon60(txt) == NewRon60(ParseRON64(txt).val)

\* Revert64: the digits of a position, last one first
Revert64(w) ==
  LET word[k \in 0..RonDigits] ==
        IF k = 0 THEN 0 ELSE RonBase * word[k - 1] + ((w \div RonWeight[k - 1]) % RonBase)
  IN  word[RonDigits]
-----------------------------------------------------------------------------
\* Every pair of words comes back from its zip, though 25 combinations of
\* widths share the lengths, the string never gets shorter as a word grows
\* (zipint.go:31), and the byte Iter.IsLive looks at without unzipping has
\* the revision of the ID.
PairZips ==
  LET zip == ZipUint64Pair(u, v)
      id == [src |-> v, seq |-> u]
  IN  /\ UnzipUint64Pair(zip) = <<u, v>>
      /\ u + 1 < WordMod => Len(zip) <= Len(ZipUint64Pair(u + 1, v))
      /\ v + 1 < WordMod => Len(zip) <= Len(ZipUint64Pair(u, v + 1))
      /\ UnzipID(ZipID(id)) = id
      /\ IterIsLive(ZipID(id)) = IsLive(id)

\* Unsigned, signed and floating numbers come back from their zips, the ones
\* at both ends of the range too; no shorter string is the same number, and
\* numbers closer to zero, of either sign, are not longer.
NumbersZip ==
  LET zips == ZipUint64(u)
      Shortest == \A n \in 0..(Len(zips) - 1) : UnzipUint64(SubSeq(zips, 1, n)) # u
  IN  /\ UnzipUint64(zips) = u /\ Shortest
      /\ UnzipInt64(ZipInt64(u)) = u
      /\ UnzipFloat64(ZipFloat64(u)) = u
      /\ ~IsNegative(u + 1) =>
           /\ Len(ZipInt64(u)) <= Len(ZipInt64(Complement(u)))
           /\ Len(ZipInt64(Complement(u))) <= Len(ZipInt64(u + 1))

\* The texts of an ID are read as that ID, or refused when it exceeds 60
\* bits; a formal text is never lexed as a number; a position survives its
\* text, and reverting twice.
TextParses ==
  LET id == [src |-> u, seq |-> v]
      fits == u <= Mask60bit /\ v <= Mask60bit
      expected == IF fits THEN id ELSE BadIDSyntax
      position == NewRon60(u)
  IN  /\ NewID(RonString(id)) = expected
      /\ NewID(FormalString(id)) = expected
      /\ LexedAsRef(FormalString(id))
      /\ ParseID(RonString(id)) = id
      /\ ParseRon60(Ron60String(position)) = position
      /\ u <= Mask60bit => Revert64(Revert64(u)) = u

\* Removing and recovering an ID flips its liveness, makes it win over what
\* it was, and leaves it the same element, all until the revisions run out:
\* one bump later it is another element.
TogglesKeepStem ==
  LET id == [src |-> v, seq |-> u]
      Keeps(new, last) == (Base(new) = Base(id)) <=> (Rev(id) <= last)
  IN  /\ ~IsLive(Removed(id)) /\ RevCompare(id, Removed(id)) = Less
      /\ IsLive(Recovered(id)) /\ RevCompare(id, Recovered(id)) = Less
      /\ Keeps(Removed(id), RevMod - 2)
      /\ Keeps(Recovered(id), RevMod - 3)
=============================================================================
