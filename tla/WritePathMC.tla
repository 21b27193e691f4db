---------------------------- MODULE WritePathMC -----------------------------
(* Small instances of WritePath for TLC. *)
EXTENDS WritePath

ShortOrFull  == {1, 3, 4}
=============================================================================
