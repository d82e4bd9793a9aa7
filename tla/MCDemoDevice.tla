---------------------------- MODULE MCDemoDevice ----------------------------
(* Instances of DemoDevice for TLC: the processes are model values. *)
EXTENDS DemoDevice

CONSTANTS p1, p2
=============================================================================
