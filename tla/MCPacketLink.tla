---------------------------- MODULE MCPacketLink ----------------------------
(* A two-byte header in base 3 can announce up to 8 bytes; a buffer holds 6.   *)
(* One payload does not fit a buffer, the others are two sizes that do; the   *)
(* bytes of the second read as the header of an oversized frame.              *)
EXTENDS PacketLink

MCPayloads == {<<1>>, <<2, 2>>, <<0, 1, 0, 0, 2>>}
=============================================================================
