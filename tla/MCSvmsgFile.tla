---------------------------- MODULE MCSvmsgFile -----------------------------
(* Instances of SvmsgFile for TLC. *)
EXTENDS SvmsgFile

CONSTANTS c1, c2

(* No file, an empty one, one longer than a queue, and one with a chunk     *)
(* whose type cannot be sent.                                               *)
MCFiles == {NoFile, <<>>, <<1, 1>>, <<1, -1, 1>>}
=============================================================================
