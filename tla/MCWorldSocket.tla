--------------------------- MODULE MCWorldSocket ---------------------------
(* One connection; packets of one byte and one that is larger than the     *)
(* send buffer.                                                            *)
EXTENDS WorldSocket

MCPacketSizes == {1, 3}
=============================================================================
