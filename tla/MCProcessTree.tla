--------------------------- MODULE MCProcessTree ----------------------------
(* Instances of ProcessTree for TLC. *)
EXTENDS ProcessTree

CONSTANTS superuser, alice

(* alice's name is a long one. *)
MCUserOf == [p \in Pids |-> IF p \in {2, 4} THEN alice ELSE superuser]

(* Each option of pstree, and the combinations that change its tree most.   *)
MCOptions ==
    {Default,
     [Default EXCEPT !.kind = "u"],
     [Default EXCEPT !.kind = "u", !.arg = alice],
     [Default EXCEPT !.kind = "U"],
     [Default EXCEPT !.kind = "U", !.H = TRUE, !.level = 3],
     [Default EXCEPT !.kind = "p", !.arg = 4],
     [Default EXCEPT !.kind = "s", !.H = TRUE],
     [Default EXCEPT !.r = TRUE, !.level = 2],
     [Default EXCEPT !.start = <<NoPid, 4, 3>>]}

MCSettings == {<<{}, FALSE>>, <<{1}, FALSE>>, <<{2}, FALSE>>, <<{}, TRUE>>}
=============================================================================
