------------------------------ MODULE RpcCallMC ------------------------------
(* Small instances of RpcCall for TLC. *)
EXTENDS RpcCall

\* The second piece of an answer of two begins with a zero byte, an answer of one has none.
Second == {{2}}
=============================================================================
