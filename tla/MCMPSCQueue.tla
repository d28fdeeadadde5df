---------------------------- MODULE MCMPSCQueue ----------------------------
(* Two producers and three addresses for packets, reused for ever.         *)
EXTENDS MPSCQueue
CONSTANTS p1, p2, m1, m2, m3

MCProducers == {p1, p2}
MCPackets == {m1, m2, m3}
=============================================================================
