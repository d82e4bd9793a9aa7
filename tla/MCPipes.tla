------------------------------- MODULE MCPipes ------------------------------
(* Instances of Pipes for TLC. *)
EXTENDS Pipes
=============================================================================
