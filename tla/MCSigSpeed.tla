----------------------------- MODULE MCSigSpeed -----------------------------
(* The instance of SigSpeed for TLC: both builds, some rounds. *)
EXTENDS SigSpeed
=============================================================================
