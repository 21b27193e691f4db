----------------------------- MODULE ReadPathMC -----------------------------
(* Small instances of ReadPath for TLC. *)
EXTENDS ReadPath

Small == {[rpc |-> 1, body |-> 0], [rpc |-> 1, body |-> 2]}
Mixed == {[rpc |-> 1, body |-> 0], [rpc |-> 2, body |-> 1], [rpc |-> 1, body |-> 4]}

InHeader == {1}
Anywhere == 1 .. 4
=============================================================================
