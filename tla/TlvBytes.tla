----------------------------- MODULE TlvBytes -----------------------------
(***************************************************************************)
(* Records as tlv.go writes them.  A byte is <<"lit", letter, short>> at   *)
(* the head of a record, a number <<"num", n>> in a length, or             *)
(* <<"val", v>> in contents.                                               *)
(***************************************************************************)
EXTENDS Integers, Sequences

CONSTANT Base      \* values of a byte: 2^8

ASSUME TlvBytesAssumption == Base \in Nat \ {0, 1, 2}

\* what a byte of a number counts for that k lesser ones go with
ByteWeight[k \in 0..4] == IF k = 0 THEN 1 ELSE Base * ByteWeight[k - 1]

Lit(l, short) == <<"lit", l, short>>
Num(n) == <<"num", n>>
Zeroes(n) == [k \in 1..n |-> Num(0)]

\* binary.LittleEndian.PutUint32 and Uint32; mistake: the big end first
PutUint32Big(n) == [k \in 1..4 |-> Num((n \div ByteWeight[4 - k]) % Base)]
PutUint32(n) == [k \in 1..4 |-> Num((n \div ByteWeight[k - 1]) % Base)]
Uint32(s) == s[1][2] + Base * (s[2][2] + Base * (s[3][2] + Base * s[4][2]))

\* WriteTLV, without the data in front
WriteTLV(lit, value) ==
  (IF Len(value) > Base - 1 THEN <<Lit(lit, FALSE)>> \o PutUint32(Len(value))
   ELSE <<Lit(lit, TRUE), Num(Len(value))>>) \o value

\* WriteTLKV: the key, at most 0xff bytes of it, after its length
WriteTLKV(lit, key, value) ==
  LET k == IF Len(key) > Base - 1 THEN SubSeq(key, 1, Base - 1) ELSE key
  IN  WriteTLV(lit, <<Num(Len(k))>> \o k \o value)
=============================================================================
