------------------------------- MODULE Shells -------------------------------
(***************************************************************************)
(* The shells: hw4/part2, with pipelines and redirection, and hw2, with    *)
(* single commands.  `prog' says which one a behaviour is of.              *)
(*                                                                         *)
(* A pipeline is forked from its right end: the shell forks the process of *)
(* the last command, that one forks the process on its left, and so on.    *)
(* The shell knows the last one alone.                                     *)
(*                                                                         *)
(* A process is known by the line it belongs to and the place of its       *)
(* command in it; so is the pipe to its right.  Of what is written only    *)
(* the number of items counts.  What the commands do is external:          *)
(*   source   writes Items items             filter   copies its input     *)
(*   quit     ends at once                   missing  is not to be found   *)
(*   tofile   is a source with > file        fromfile a filter with < file *)
(*   nofile   has < with a file that cannot be opened                      *)
(*   echo, exit   are commands of the shell itself, if they come first     *)
(* No command reads the terminal, which the shell reads.                   *)
(***************************************************************************)
EXTENDS Naturals, Sequences, FiniteSets

CONSTANTS
    Sessions,       \* sequences of lines that may be typed
    MaxCmds,        \* commands in a line, at most
    Items,          \* items that a source, or a file, has
    PipeCap,        \* items that fit into a pipe
    Faults,         \* the kinds of fault that may strike
    MaxFaults       \* bound: how many strike

FaultKinds == {"fork_error", "pipe_error", "stop"}
Programs   == {"source", "filter", "quit", "missing", "tofile", "fromfile", "nofile"}
Inbuilts   == {"echo", "exit"}

(* A line: its commands, none in one of bars alone, and whether there is an *)
(* `&' in the last one.                                                     *)
Line == [cmds : UNION {[1..n -> Programs \cup Inbuilts] : n \in 0..MaxCmds}, bg : BOOLEAN]

ASSUME ShellsAssumption ==
    /\ MaxCmds \in Nat /\ Items \in Nat /\ PipeCap \in Nat \ {0}
    /\ \A s \in Sessions : s \in Seq(Line)
    /\ \E s \in Sessions : \A t \in Sessions : Len(t) <= Len(s)
    /\ Faults \subseteq FaultKinds
    /\ MaxFaults \in Nat

VARIABLES
    prog,       \* "part2" or "hw2"
    typed,      \* the lines
    ln,         \* how many of them the shell has read
    spc,        \* where the shell is
    pid,        \* the process it has forked, or Error
    pc,         \* where each process is
    in, out,    \* its descriptors 0 and 1: the terminal, a file or a pipe
    ends,       \* the other pipe ends it has open
    data,       \* items in each pipe
    left,       \* items each process has still to write
    shown,      \* items of each line that the terminal has got
    hurt, nfaults

shvars == <<prog, typed, ln, spc, pid>>
iovars == <<in, out, ends>>
fvars  == <<hurt, nfaults>>
vars   == <<shvars, pc, iovars, data, left, shown, fvars>>

MaxLines == CHOOSE n \in {Len(s) : s \in Sessions} : \A s \in Sessions : Len(s) <= n
Procs    == (1..MaxLines) \X (1..MaxCmds)
Pipes    == Procs
Error    == <<0, 0>>    \* fork() has returned -1
Tty      == <<0, 1>>    \* no pipe: the terminal, and a file
File     == <<0, 2>>

Cmds(j) == typed[j].cmds
Cmd(p)  == Cmds(p[1])[p[2]]
Last(j) == <<j, Len(Cmds(j))>>

Init ==
    /\ prog \in {"part2", "hw2"}
    /\ typed \in Sessions
    /\ prog = "hw2" => \A j \in DOMAIN typed : Len(Cmds(j)) = 1 /\ Cmds(j)[1] \notin {"tofile", "fromfile", "nofile"}
    /\ ln = 0 /\ spc = "prompt" /\ pid = Error
    /\ pc = [p \in Procs |-> "none"]
    /\ in = [p \in Procs |-> Tty] /\ out = [p \in Procs |-> Tty]
    /\ ends = [p \in Procs |-> {}]
    /\ data = [q \in Pipes |-> 0]
    /\ left = [p \in Procs |-> 0]
    /\ shown = [j \in 1..MaxLines |-> 0]
    /\ hurt = {} /\ nfaults = 0

Fault(k) ==
    /\ k \in Faults
    /\ nfaults < MaxFaults
    /\ nfaults' = nfaults + 1
    /\ hurt' = hurt \cup {k}

ShellAt(from, to)  == spc = from /\ spc' = to
ProcAt(p, from, to) == pc[p] = from /\ pc' = [pc EXCEPT ![p] = to]

Alive(p)   == pc[p] \notin {"none", "zombie", "gone"}
Writers(q) == {p \in Procs : Alive(p) /\ (out[p] = q \/ <<q, "w">> \in ends[p])}
Readers(q) == {p \in Procs : Alive(p) /\ (in[p] = q \/ <<q, "r">> \in ends[p])}

(***************************************************************************)
(* The shell.                                                              *)
(***************************************************************************)
is_builtin(j) == Cmds(j)[1] \in Inbuilts

(* Is there an `&' among the arguments? *)
is_background(j) == typed[j].bg

bi_echo(j) == shown' = [shown EXCEPT ![j] = @ + 1] /\ UNCHANGED spc
bi_exit    == spc' = "down" /\ UNCHANGED shown

do_builtin(j) == IF Cmds(j)[1] = "echo" THEN bi_echo(j) ELSE bi_exit

(* Only the first command is looked up: the rest of a pipeline that begins  *)
(* with a command of the shell is not run.  Bars alone make strtok() return *)
(* NULL, which strdup() does not take.                                      *)
ReadLine ==
    /\ spc = "prompt"
    /\ ln < Len(typed)
    /\ ln' = ln + 1
    /\ IF Cmds(ln') = <<>> THEN spc' = "down" /\ UNCHANGED shown
       ELSE IF is_builtin(ln') THEN do_builtin(ln')
       ELSE spc' = "fork" /\ UNCHANGED shown
    /\ UNCHANGED <<prog, typed, pid, pc, iovars, data, left, fvars>>

(* The end of the input: hw4/part2 takes it for an empty line, for ever. *)
EndOfInput ==
    /\ ln = Len(typed)
    /\ ShellAt("prompt", IF prog = "part2" THEN "prompt for ever" ELSE "down")
    /\ UNCHANGED <<prog, typed, ln, pid, pc, iovars, data, left, shown, fvars>>

run_command ==
    /\ ShellAt("fork", IF is_background(ln) THEN "prompt" ELSE "wait")
    /\ pid' = Last(ln)
    /\ pc' = [pc EXCEPT ![pid'] = "loop"]
    /\ UNCHANGED <<prog, typed, ln, iovars, data, left, shown, fvars>>

(* hw4/part2 takes -1 for the pid of its child; hw2 ends. *)
ForkFails ==
    /\ Fault("fork_error")
    /\ ShellAt("fork", IF prog = "hw2" THEN "down" ELSE IF is_background(ln) THEN "prompt" ELSE "wait")
    /\ pid' = Error
    /\ UNCHANGED <<prog, typed, ln, pc, iovars, data, left, shown>>

(* Mutant: anything that waitpid() reports ends the loop. *)
Mut_Wait ==
    \E p \in Procs :
        /\ p = pid
        /\ pc[p] \in {"zombie", "stopped"}
        /\ pc' = IF pc[p] = "zombie" THEN [pc EXCEPT ![p] = "gone"] ELSE pc
        /\ ShellAt("wait", "prompt")
        /\ UNCHANGED <<prog, typed, ln, pid, iovars, data, left, shown, fvars>>

(* waitpid() also returns when the child stops or goes on, and is called    *)
(* again.  waitpid(-1) takes any child of the shell.                        *)
Wait ==
    \E p \in Procs :
        /\ ProcAt(p, "zombie", "gone")
        /\ IF pid = Error THEN p = Last(p[1]) ELSE p = pid
        /\ ShellAt("wait", "prompt")
        /\ UNCHANGED <<prog, typed, ln, pid, iovars, data, left, shown, fvars>>

(* There is no child: status is not set, and says that one has ended or not. *)
WaitFails ==
    /\ spc = "wait" /\ pid = Error
    /\ \A j \in 1..ln : pc[Last(j)] \in {"none", "gone"}
    /\ \E to \in {"prompt", "wait for ever"} : ShellAt("wait", to)
    /\ UNCHANGED <<prog, typed, ln, pid, pc, iovars, data, left, shown, fvars>>

(***************************************************************************)
(* A process p, until it is its command.                                   *)
(***************************************************************************)
Left(p) == <<p[1], p[2] - 1>>

(* The end of p; its children are nobody's any more. *)
Exit(p) == pc' = [pc EXCEPT ![p] = "zombie"]

MakePipe(p) ==
    /\ p[2] > 1
    /\ ProcAt(p, "loop", "pipe")
    /\ ends' = [ends EXCEPT ![p] = @ \cup {<<Left(p), "r">>, <<Left(p), "w">>}]
    /\ UNCHANGED <<shvars, in, out, data, left, shown, fvars>>

PipeFails(p) ==
    /\ p[2] > 1 /\ pc[p] = "loop"
    /\ Fault("pipe_error")
    /\ Exit(p)
    /\ UNCHANGED <<shvars, iovars, data, left, shown>>

(* The child goes on with the loop, one command to the left; its parent is  *)
(* to read from it.                                                         *)
ForkLeft(p) ==
    /\ pc[p] = "pipe"
    /\ pc' = [pc EXCEPT ![p] = "reader", ![Left(p)] = "writer"]
    /\ in' = [in EXCEPT ![Left(p)] = in[p]]
    /\ out' = [out EXCEPT ![Left(p)] = out[p]]
    /\ ends' = [ends EXCEPT ![Left(p)] = ends[p]]
    /\ UNCHANGED <<shvars, data, left, shown, fvars>>

ForkLeftFails(p) ==
    /\ pc[p] = "pipe"
    /\ Fault("fork_error")
    /\ Exit(p)
    /\ UNCHANGED <<shvars, iovars, data, left, shown>>

(* Mutant: the reader keeps its copy of the end that is written to. *)
Mut_BecomeReader(p) ==
    LET q == Left(p) IN
    /\ ProcAt(p, "reader", "exec")
    /\ in' = [in EXCEPT ![p] = q]
    /\ ends' = [ends EXCEPT ![p] = @ \ {<<q, "r">>}]
    /\ UNCHANGED <<shvars, out, data, left, shown, fvars>>

(* Mutant: the descriptor that dup2() has copied is kept. *)
Mut_ReaderKeeps(p) ==
    LET q == Left(p) IN
    /\ ProcAt(p, "reader", "exec")
    /\ in' = [in EXCEPT ![p] = q]
    /\ ends' = [ends EXCEPT ![p] = @ \ {<<q, "w">>}]
    /\ UNCHANGED <<shvars, out, data, left, shown, fvars>>

(* Mutant: dup2() is forgotten. *)
Mut_NoDup(p) ==
    LET q == Left(p) IN
    /\ ProcAt(p, "reader", "exec")
    /\ ends' = [ends EXCEPT ![p] = @ \ {<<q, "r">>, <<q, "w">>}]
    /\ UNCHANGED <<shvars, in, out, data, left, shown, fvars>>

(* close(fd[1]), dup2(fd[0], 0), close(fd[0]). *)
BecomeReader(p) ==
    LET q == Left(p) IN
    /\ ProcAt(p, "reader", "exec")
    /\ in' = [in EXCEPT ![p] = q]
    /\ ends' = [ends EXCEPT ![p] = @ \ {<<q, "r">>, <<q, "w">>}]
    /\ UNCHANGED <<shvars, out, data, left, shown, fvars>>

(* close(fd[0]), dup2(fd[1], 1), close(fd[1]). *)
BecomeWriter(p) ==
    /\ ProcAt(p, "writer", "loop")
    /\ out' = [out EXCEPT ![p] = p]
    /\ ends' = [ends EXCEPT ![p] = @ \ {<<p, "r">>, <<p, "w">>}]
    /\ UNCHANGED <<shvars, in, data, left, shown, fvars>>

LoopEnds(p) ==
    /\ p[2] = 1
    /\ ProcAt(p, "loop", "exec")
    /\ UNCHANGED <<shvars, iovars, data, left, shown, fvars>>

(* A file that does not open ends the process with SIGSEGV; a redirection   *)
(* comes after the pipe, and replaces its end.                              *)
redirect(p) ==
    /\ in'  = [in  EXCEPT ![p] = IF Cmd(p) = "fromfile" THEN File ELSE @]
    /\ out' = [out EXCEPT ![p] = IF Cmd(p) = "tofile" THEN File ELSE @]

(* If there is no such command, hw4/part2 says so, on descriptor 1. *)
Exec(p) ==
    /\ pc[p] = "exec"
    /\ redirect(p)
    /\ LET k == Cmd(p) IN
        /\ pc' = [pc EXCEPT ![p] = IF k = "nofile" \/ (k = "missing" /\ prog = "hw2")
                                   THEN "zombie" ELSE "run"]
        /\ left' = [left EXCEPT ![p] = IF k \in {"source", "tofile", "fromfile"} THEN Items
                                       ELSE IF k = "missing" THEN 1 ELSE 0]
    /\ UNCHANGED <<shvars, ends, data, shown, fvars>>

(***************************************************************************)
(* A process p as its command.                                             *)
(***************************************************************************)
Put(p) ==
    \/ out[p] = Tty  /\ shown' = [shown EXCEPT ![p[1]] = @ + 1] /\ UNCHANGED data
    \/ out[p] = File /\ UNCHANGED <<data, shown>>
    \/ /\ out[p] \in Pipes /\ Readers(out[p]) # {} /\ data[out[p]] < PipeCap
       /\ data' = [data EXCEPT ![out[p]] = @ + 1]
       /\ UNCHANGED shown

Write(p) ==
    /\ pc[p] = "run" /\ left[p] > 0
    /\ Put(p)
    /\ left' = [left EXCEPT ![p] = @ - 1]
    /\ UNCHANGED <<shvars, pc, iovars, fvars>>

Sigpipe(p) ==
    /\ pc[p] = "run" /\ left[p] > 0
    /\ out[p] \in Pipes /\ Readers(out[p]) = {}
    /\ Exit(p)
    /\ UNCHANGED <<shvars, iovars, data, left, shown, fvars>>

Reads(p) == Cmd(p) = "filter" /\ in[p] \in Pipes

Read(p) ==
    /\ pc[p] = "run" /\ left[p] = 0 /\ Reads(p)
    /\ data[in[p]] > 0
    /\ data' = [data EXCEPT ![in[p]] = @ - 1]
    /\ left' = [left EXCEPT ![p] = 1]
    /\ UNCHANGED <<shvars, pc, iovars, shown, fvars>>

(* All is written, and a filter has seen the end of its input. *)
Finish(p) ==
    /\ pc[p] = "run" /\ left[p] = 0
    /\ Reads(p) => data[in[p]] = 0 /\ Writers(in[p]) = {}
    /\ Exit(p)
    /\ UNCHANGED <<shvars, iovars, data, left, shown, fvars>>

Stop(p) ==
    /\ Fault("stop")
    /\ ProcAt(p, "run", "stopped")
    /\ UNCHANGED <<shvars, iovars, data, left, shown>>

Continue(p) ==
    /\ ProcAt(p, "stopped", "run")
    /\ UNCHANGED <<shvars, iovars, data, left, shown, fvars>>

(***************************************************************************)
(* The system.                                                             *)
(***************************************************************************)
Shell == ReadLine \/ EndOfInput \/ run_command \/ Wait \/ WaitFails

Process(p) ==
    \/ MakePipe(p) \/ ForkLeft(p) \/ BecomeReader(p) \/ BecomeWriter(p) \/ LoopEnds(p) \/ Exec(p)
    \/ Write(p) \/ Sigpipe(p) \/ Read(p) \/ Finish(p)

(* What processes do of themselves. *)
System == Shell \/ \E p \in Procs : Process(p)

Next ==
    \/ System
    \/ ForkFails
    \/ \E p \in Procs : PipeFails(p) \/ ForkLeftFails(p) \/ Stop(p) \/ Continue(p)

Spec == Init /\ [][Next]_vars

(* Something that can run does run, and people go on typing; nobody has to  *)
(* wake a process that was stopped.  All that runs ends or waits, so this   *)
(* is enough for each process.                                              *)
FairSpec == Spec /\ WF_vars(System)

(***************************************************************************)
(* Properties.                                                             *)
(***************************************************************************)
Stdio == {Tty, File} \cup Pipes

(* Types; a pipe holds what fits into it, and only a process that sets up a *)
(* pipeline has ends of pipes at other descriptors than 0 and 1.            *)
TypeOK ==
    /\ prog \in {"part2", "hw2"} /\ typed \in Sessions /\ ln \in 0..Len(typed)
    /\ spc \in {"prompt", "fork", "wait", "down", "prompt for ever", "wait for ever"}
    /\ pid \in Procs \cup {Error}
    /\ pc \in [Procs -> {"none", "loop", "pipe", "reader", "writer", "exec", "run", "stopped",
                         "zombie", "gone"}]
    /\ in \in [Procs -> Stdio] /\ out \in [Procs -> Stdio]
    /\ ends \in [Procs -> SUBSET (Pipes \X {"r", "w"})]
    /\ \A p \in Procs : pc[p] \in {"exec", "run", "stopped"} => ends[p] = {}
    /\ data \in [Pipes -> 0..PipeCap]
    /\ left \in [Procs -> Nat] /\ shown \in [1..MaxLines -> Nat]
    /\ hurt \subseteq Faults /\ nfaults \in 0..MaxFaults

(* A pipe has its two neighbours and nobody else, once the right one is its *)
(* command, but for the one that was just forked further left and has yet   *)
(* to put its own pipe in the place of the one it inherited: no process     *)
(* keeps an end that is not its own.  So a reader gets the end of its       *)
(* input, and a writer SIGPIPE, as soon as the other one ends.              *)
Forked(p) == IF pc[p] = "writer" THEN {p} ELSE {}
Plumbing ==
    \A p \in Procs : pc[p] \in {"run", "stopped"} /\ p[2] > 1 =>
        LET q == Left(p) IN
        /\ Readers(q) \subseteq {p} \cup Forked(q)
        /\ Writers(q) \subseteq {q} \cup (IF q[2] > 1 THEN Forked(Left(q)) ELSE {})

(* The prompt comes back when the last command has ended, neither sooner,   *)
(* though waitpid() returns when it stops, nor with the command unreaped.   *)
PromptAfterCommand ==
    spc = "prompt" =>
        \A j \in 1..ln : ~typed[j].bg /\ Cmds(j) # <<>> => ~Alive(Last(j)) /\ pc[Last(j)] # "zombie"

(* A pipeline that only copies, and what it has to show. *)
Copies(j) ==
    /\ Cmds(j) # <<>> /\ Cmds(j)[1] \in {"source", "missing"}
    /\ \A i \in 2..Len(Cmds(j)) : Cmds(j)[i] = "filter"
Total(j) ==
    IF Cmds(j)[1] = "source" THEN Items ELSE IF prog = "part2" THEN 1 ELSE 0

(* The whole of a pipeline gets to the terminal before the shell goes on,   *)
(* although it waits for the last command alone.                            *)
Delivered ==
    \A j \in 1..ln :
        Copies(j) /\ pc[Last(j)] \in {"zombie", "gone"} /\ hurt \subseteq {"stop"}
            => shown[j] = Total(j)

(* All commands come to an end, those the shell does not wait for, too, and *)
(* whatever happens to their neighbours; and then the shell goes on.        *)
(* Not if fork() fails in the shell itself, or a command stays stopped.     *)
PipelinesEnd ==
    /\ \A p \in Procs : Alive(p) ~> (~Alive(p) \/ "stop" \in hurt)
    /\ spc = "wait" /\ pid # Error ~> (spc # "wait" \/ "stop" \in hurt)
=============================================================================
