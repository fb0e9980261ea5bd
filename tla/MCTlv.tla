------------------------------- MODULE MCTlv -------------------------------
(* Small records for Tlv, with bytes of eight values *)
EXTENDS Tlv

MCKeys == {<<>>, <<<<"val", 1>>>>}
MCValues == {<<>>, [k \in 1..7 |-> <<"val", k>>]}
MCPayload == {<<<<"val", 1>>>>, [k \in 1..5 |-> <<"val", 2>>]}
=============================================================================
