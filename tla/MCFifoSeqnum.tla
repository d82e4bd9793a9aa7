---------------------------- MODULE MCFifoSeqnum ----------------------------
(* Instances of FifoSeqnum for TLC: the clients are model values. *)
EXTENDS FifoSeqnum

CONSTANTS c1, c2, c3
=============================================================================
