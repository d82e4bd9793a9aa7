----------------------------- MODULE MCSvshmXfr -----------------------------
(* Instances of SvshmXfr for TLC. *)
EXTENDS SvshmXfr, TLC

CONSTANTS r1, r2

ReaderSymmetry == Permutations({r1, r2})
=========================
