--------------------------- MODULE LockFreeQueueMC ---------------------------
(* A small instance of LockFreeQueue for TLC. *)
EXTENDS LockFreeQueue

CONSTANTS p, q, i1, i2, i3, i4

TwoProducers == {p, q}
FourItems    == {i1, i2, i3, i4}
ThreeNodes   == 1 .. 3
=============================================================================
