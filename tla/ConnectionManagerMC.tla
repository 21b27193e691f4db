------------------------- MODULE ConnectionManagerMC -------------------------
(* Small instances of ConnectionManager for TLC. *)
EXTENDS ConnectionManager

AllFaults  == {"accept", "read", "write", "hangup"}
AcceptErrors == {"accept"}
=============================================================================
