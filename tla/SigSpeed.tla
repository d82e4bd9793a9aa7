------------------------------ MODULE SigSpeed ------------------------------
(***************************************************************************)
(* hw7/22-3: parent and child send SIGUSR1 to each other in turn, NumSigs  *)
(* times, with the signal blocked except inside sigsuspend().  In the      *)
(* "hook" build sigsuspend() is replaced by sigwaitinfo().  Modelled: both *)
(* builds, the signal mask, the pending signal (one at most, as SIGUSR1 is *)
(* not queued), the failing fork(), and SIGSTOP followed by SIGCONT, after *)
(* which Linux restarts sigsuspend() but lets sigwaitinfo() return EINTR.  *)
(* Stopping a process otherwise only delays it, as scheduling does.        *)
(***************************************************************************)
EXTENDS Naturals

CONSTANTS
    NumSigs,        \* signals that each side sends
    Builds,         \* the builds considered: TRUE is the hook build
    MaxStops        \* bound: waits that are interrupted by a stop

ASSUME SigSpeedAssumption ==
    /\ NumSigs \in Nat \ {0}
    /\ Builds \subseteq BOOLEAN
    /\ MaxStops \in Nat

VARIABLES
    hook,       \* the build that runs
    pc,         \* where each process is
    scnt,       \* the loop counter of each process
    masked,     \* SIGUSR1 is blocked in the process
    pending,    \* SIGUSR1 is pending for the process
    stops       \* waits that were interrupted by a stop

sigvars == <<hook, pc, scnt, masked, pending, stops>>

Proc == {"child", "parent"}
Other(p) == IF p = "child" THEN "parent" ELSE "child"
Over == {"exit", "failed"}

SigInit ==
    /\ hook \in Builds
    /\ pc = [p \in Proc |-> IF p = "parent" THEN "sigprocmask" ELSE "none"]
    /\ scnt = [p \in Proc |-> 0]
    /\ masked = [p \in Proc |-> FALSE]
    /\ pending = [p \in Proc |-> FALSE]
    /\ stops = 0

(* The parent blocks the signal before it forks. *)
Sigprocmask ==
    /\ pc["parent"] = "sigprocmask"
    /\ masked' = [masked EXCEPT !["parent"] = TRUE]
    /\ pc' = [pc EXCEPT !["parent"] = "fork"]
    /\ UNCHANGED <<hook, scnt, pending, stops>>

(* Mutant: the child unblocks the signal. *)
Mut_Fork ==
    /\ pc["parent"] = "fork"
    /\ pc' = [p \in Proc |-> IF p = "parent" THEN "call" ELSE "kill"]
    /\ masked' = [masked EXCEPT !["child"] = FALSE]
    /\ UNCHANGED <<hook, scnt, pending, stops>>

(* The child inherits mask and handler, and has nothing pending. *)
Fork ==
    /\ pc["parent"] = "fork"
    /\ pc' = [p \in Proc |-> IF p = "parent" THEN "call" ELSE "kill"]
    /\ masked' = [masked EXCEPT !["child"] = masked["parent"]]
    /\ UNCHANGED <<hook, scnt, pending, stops>>

ForkFails ==
    /\ pc["parent"] = "fork"
    /\ pc' = [pc EXCEPT !["parent"] = "failed"]
    /\ UNCHANGED <<hook, scnt, masked, pending, stops>>

(* The end of p's loop body. *)
EndRound(p, first) ==
    /\ scnt' = [scnt EXCEPT ![p] = @ + 1]
    /\ pc' = [pc EXCEPT ![p] = IF scnt[p] + 1 < NumSigs THEN first ELSE "exit"]

(* kill(q, SIGUSR1): a signal that is neither blocked nor waited for runs    *)
(* the empty handler and is gone, one that is pending already is not queued  *)
(* again, and a zombie takes any.                                            *)
Deliver(q) ==
    pending' = [pending EXCEPT ![q] =
                    \/ @
                    \/ pc[q] \notin Over /\ (masked[q] \/ pc[q] = "sigsuspend")]

(* getppid() is init once the parent is gone: kill() fails, unless root runs *)
(* this, and then the signal is ignored.                                     *)
ChildKill ==
    /\ pc["child"] = "kill"
    /\ IF pc["parent"] \in Over
       THEN /\ \E to \in {"failed", "call"} : pc' = [pc EXCEPT !["child"] = to]
            /\ UNCHANGED pending
       ELSE Deliver("parent") /\ pc' = [pc EXCEPT !["child"] = "call"]
    /\ UNCHANGED <<hook, scnt, masked, stops>>

ParentKill ==
    /\ pc["parent"] = "kill"
    /\ Deliver("child")
    /\ EndRound("parent", "call")
    /\ UNCHANGED <<hook, masked, stops>>

(* The process gets into sigsuspend(), which lets the signal in. *)
Sigsuspend(p) ==
    /\ pc[p] = "call"
    /\ pc' = [pc EXCEPT ![p] = "sigsuspend"]
    /\ UNCHANGED <<hook, scnt, masked, pending, stops>>

(* What follows the wait, whatever ended it. *)
AfterWait(p) ==
    IF p = "child"
    THEN EndRound("child", "kill")
    ELSE pc' = [pc EXCEPT !["parent"] = "kill"] /\ UNCHANGED scnt

(* sigsuspend() or sigwaitinfo() takes the pending signal. *)
Wait(p) ==
    /\ pc[p] = "sigsuspend"
    /\ pending[p]
    /\ pending' = [pending EXCEPT ![p] = FALSE]
    /\ AfterWait(p)
    /\ UNCHANGED <<hook, masked, stops>>

(* Mutant: sigsuspend() too ends without a signal. *)
Mut_Stopped(p) ==
    /\ pc[p] = "sigsuspend"
    /\ ~pending[p]
    /\ AfterWait(p)
    /\ UNCHANGED <<hook, masked, pending, stops>>

(* Stopped and continued, sigwaitinfo() returns EINTR, which is not an       *)
(* error here: the process goes on as if the signal had come.                *)
Stopped(p) ==
    /\ hook
    /\ stops < MaxStops
    /\ pc[p] = "sigsuspend"
    /\ ~pending[p]
    /\ stops' = stops + 1
    /\ AfterWait(p)
    /\ UNCHANGED <<hook, masked, pending>>

Parent == Sigprocmask \/ Fork \/ ParentKill \/ Sigsuspend("parent") \/ Wait("parent")
Child == ChildKill \/ Sigsuspend("child") \/ Wait("child")

SigNext ==
    \/ Parent \/ Child \/ ForkFails
    \/ \E p \in Proc : Stopped(p)

SigSpec == SigInit /\ [][SigNext]_sigvars

(* Both processes are scheduled. *)
SigFairSpec == SigSpec /\ WF_sigvars(Parent) /\ WF_sigvars(Child)

(***************************************************************************)
(* Properties.                                                             *)
(***************************************************************************)
SigTypeOK ==
    /\ hook \in BOOLEAN
    /\ pc \in [Proc -> {"none", "sigprocmask", "fork", "kill", "call", "sigsuspend"} \cup Over]
    /\ scnt \in [Proc -> 0..NumSigs]
    /\ masked \in [Proc -> BOOLEAN]
    /\ pending \in [Proc -> BOOLEAN]
    /\ stops \in 0..MaxStops

(* Signals are not queued, yet none is lost: whoever is about to send one    *)
(* sends it to a living process that has none pending, and has it blocked.   *)
(* The first wait that a stop interrupts in the hook build ends this.        *)
NothingLost ==
    stops = 0 =>
        \A p \in Proc :
            pc[p] = "kill" => /\ ~pending[Other(p)]
                              /\ masked[Other(p)]
                              /\ pc[Other(p)] \notin Over

(* The two processes stay in step: the parent has completed the round of    *)
(* the child or is one ahead, and they end only after NumSigs rounds each.  *)
InStep ==
    stops = 0 =>
        /\ scnt["parent"] \in {scnt["child"], scnt["child"] + 1}
        /\ \A p \in Proc : pc[p] = "exit" => scnt[p] = NumSigs

(* Unless fork() fails or a wait is interrupted, both come to an end.       *)
BothEnd ==
    <>(\/ \A p \in Proc : pc[p] = "exit"
       \/ pc["parent"] = "failed"
       \/ stops > 0)
=============================================================================
