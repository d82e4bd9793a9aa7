----------------------------- MODULE MCPmsgFile -----------------------------
(* Instances of PmsgFile for TLC. *)
EXTENDS PmsgFile

CONSTANTS c1, c2

(* No file, and one longer than a queue. *)
MCSizes == {NoFile, 2}
=============================================================================
