---------------------------- MODULE MCDictServer ----------------------------
(* Instances of DictServer for TLC. *)
EXTENDS DictServer, TLC

CONSTANTS c1, c2

(* A word that is there and one that is not; and the empty line. *)
MCWords == (c1 :> <<"a", NotFound>>) @@ (c2 :> <<Empty>>)
=============================================================================
