----------------------------- MODULE PacketFifo -----------------------------
(***************************************************************************)
(* What MPSCQueue promises its users: a first-in first-out queue.  Enqueue *)
(* takes effect at once and for any thread; Dequeue hands out the packet   *)
(* that has been in the queue longest.                                     *)
(***************************************************************************)
EXTENDS Sequences

CONSTANTS Packets, NoPacket

VARIABLES contents, result

vars == <<contents, result>>

Init == contents = <<>> /\ result = NoPacket

Enqueue(v) ==
    /\ \A i \in DOMAIN contents : contents[i] # v
    /\ contents' = Append(contents, v)
    /\ UNCHANGED result

Dequeue ==
    /\ contents # <<>>
    /\ result' = Head(contents)
    /\ contents' = Tail(contents)

\* The consumer is done with the packet it got.
Release ==
    /\ result' = NoPacket
    /\ UNCHANGED contents

Next == (\E v \in Packets : Enqueue(v)) \/ Dequeue \/ Release

Spec == Init /\ [][Next]_vars

=============================================================================
