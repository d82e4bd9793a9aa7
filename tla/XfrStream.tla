----------------------------- MODULE XfrStream -----------------------------
(***************************************************************************)
(* What the shared-memory transfer of hw9/54-1 promises its user           *)
(* ("these two programs can be used to transfer a stream of data"):        *)
(* each run of the writer takes the blocks of its standard input to the    *)
(* readers' standard output, every block once, in order, and nothing more  *)
(* once the writer has reported success.  Semaphores, shared memory and    *)
(* the processes are not mentioned.                                        *)
(***************************************************************************)
EXTENDS Naturals, Sequences

CONSTANTS MaxBlocks, MaxSessions, Wrap

VARIABLES
    session,    \* number of the writer run
    input,      \* number of blocks on that writer's standard input
    out,        \* blocks copied to standard output since the writer started
    closed      \* the writer has finished and removed the IPC objects

vars == <<session, input, out, closed>>

Init ==
    /\ session = 0
    /\ input = 0
    /\ out = <<>>
    /\ closed = FALSE

(* A writer is started (again) on a fresh input. *)
Begin ==
    /\ session < MaxSessions
    /\ session' = session + 1
    /\ input' \in 0..MaxBlocks
    /\ out' = <<>>
    /\ closed' = FALSE

(* The next block of the input, and no other, reaches standard output. *)
Deliver ==
    /\ ~closed
    /\ Len(out) < input
    /\ out' = Append(out, <<session, Len(out) + 1>>)
    /\ UNCHANGED <<session, input, closed>>

(* The writer may report success only when everything was delivered. Inputs *)
(* of Wrap or more full blocks are exempt: there its byte counter has       *)
(* overflowed.                                                              *)
Close ==
    /\ ~closed
    /\ input < Wrap => Len(out) = input
    /\ closed' = TRUE
    /\ UNCHANGED <<session, input, out>>

Next == Begin \/ Deliver \/ Close

Spec == Init /\ [][Next]_vars
=============================================================================
