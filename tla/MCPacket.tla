------------------------------ MODULE MCPacket ------------------------------
(***************************************************************************)
(* Model checking Packet with four byte values: 0, 1 (no start byte, but a *)
(* length), 2 and 3 (start bytes, lengths, and 3 the stop byte), so that   *)
(* every byte of a frame can be taken for a header.  The checksum is a weak*)
(* one, and matches noise often.                                           *)
(***************************************************************************)
EXTENDS Packet

RECURSIVE SumOf(_)
SumOf(s) == IF s = <<>> THEN 0 ELSE Head(s) + SumOf(Tail(s))
WeakCrc(d) == <<SumOf(d) % 4, Len(d) % 2>>

SomePayloads == {<<3>>, <<2, 1, 0>>}
=============================================================================
