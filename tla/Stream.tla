------------------------------- MODULE Stream -------------------------------
(***************************************************************************)
(* What both directions of a TCP connection promise: the receiver sees a   *)
(* prefix of what the sender sent, which never shrinks or changes.  The    *)
(* elements are requests in one direction and bytes in the other.          *)
(***************************************************************************)
EXTENDS Sequences, SequencesExt

VARIABLES sent, received

Init == sent = <<>> /\ received = <<>>

Send == IsPrefix(sent, sent') /\ UNCHANGED received

Receive == /\ IsPrefix(received, received')
           /\ IsPrefix(received', sent)
           /\ UNCHANGED sent

Next == Send \/ Receive

Spec == Init /\ [][Next]_<<sent, received>>
=============================================================================
