---------------------------- MODULE ShellsProofs ----------------------------
(***************************************************************************)
(* TLAPS proofs about Shells, for any lines, commands, pipes and faults:   *)
(* what is left open in a pipeline, when the prompt comes back, and that   *)
(* what a pipeline copies has then arrived.                                *)
(***************************************************************************)
EXTENDS Shells, TLAPS

PcSet    == {"none", "loop", "pipe", "reader", "writer", "exec", "run", "stopped", "zombie", "gone"}
Unforked == {"none", "loop", "pipe", "writer"}  \* nothing is on its left
Running  == {"run", "stopped"}
Dead     == {"zombie", "gone"}

(* The types, but for the descriptors, of which DescInv says more.           *)
Types ==
    /\ prog \in {"part2", "hw2"} /\ typed \in Sessions /\ ln \in 0..Len(typed)
    /\ spc \in {"prompt", "fork", "wait", "down", "prompt for ever", "wait for ever"}
    /\ pid \in Procs \cup {Error}
    /\ pc \in [Procs -> PcSet]
    /\ in \in [Procs -> Stdio] /\ out \in [Procs -> Stdio]
    /\ ends \in [Procs -> SUBSET (Pipes \X {"r", "w"})]
    /\ data \in [Pipes -> 0..PipeCap]
    /\ left \in [Procs -> Nat] /\ shown \in [1..MaxLines -> Nat]
    /\ hurt \subseteq Faults /\ nfaults \in 0..MaxFaults

(* A pipeline grows from the right, within the line that was read.           *)
TreeInv ==
    \A p \in Procs :
        /\ pc[p] # "none" => /\ p[1] \in 1..ln /\ p[2] <= Len(Cmds(p[1]))
                             /\ spc = "fork" => p[1] < ln
        /\ pc[p] \in Unforked /\ p[2] > 1 /\ p[2] <= Len(Cmds(p[1])) => pc[Left(p)] = "none"
        /\ pc[p] \in {"pipe", "reader"} => p[2] > 1
        /\ pc[p] = "writer" => p[2] < Len(Cmds(p[1]))

(* The descriptors of a process, wherever it is.                             *)
Right(p) == <<p[1], p[2] + 1>>
Both(q)  == {<<q, "r">>, <<q, "w">>}
Std(p)   == IF p = Last(p[1]) THEN Tty ELSE p
Src(p)   == IF p[2] > 1 THEN Left(p) ELSE Tty
Desc(p) ==
    /\ pc[p] = "none"             => in[p] = Tty /\ out[p] = Tty /\ ends[p] = {}
    /\ pc[p] = "loop"             => in[p] = Tty /\ out[p] = Std(p) /\ ends[p] = {}
    /\ pc[p] \in {"pipe", "reader"} => in[p] = Tty /\ out[p] = Std(p) /\ ends[p] = Both(Left(p))
    /\ pc[p] = "writer"           => in[p] = Tty /\ out[p] = Std(Right(p)) /\ ends[p] = Both(p)
    /\ pc[p] = "exec"             => in[p] = Src(p) /\ out[p] = Std(p) /\ ends[p] = {}
    /\ pc[p] \in Running =>
        /\ in[p] = IF Cmd(p) = "fromfile" THEN File ELSE Src(p)
        /\ out[p] = IF Cmd(p) = "tofile" THEN File ELSE Std(p)
        /\ ends[p] = {}
DescInv == \A p \in Procs : Desc(p)

(* The last command of a line that is waited for is reaped, or is the one    *)
(* the shell waits for.                                                      *)
WaitInv ==
    \A j \in 1..ln : ~typed[j].bg /\ Cmds(j) # <<>> =>
        pc[Last(j)] \in {"none", "gone"} \/ (j = ln /\ spc = "wait" /\ pid = Last(j))

(* There is a line to run, and it has a command.                             *)
LineInv == spc \in {"fork", "wait"} => ln \in 1..Len(typed) /\ Cmds(ln) # <<>>

(* If nothing but stop signals happens, every process forks the one on its   *)
(* left.                                                                     *)
ForkInv ==
    hurt \subseteq {"stop"} =>
        \A p \in Procs : pc[p] \notin Unforked /\ p[2] > 1 => pc[Left(p)] # "none"

(* And in a pipeline that copies, nothing is lost: w[p] is what p has        *)
(* written, the right one has read it or it is in the pipe, and who has      *)
(* ended has written it all.                                                 *)
InCopy(p) == p[1] \in 1..Len(typed) /\ Copies(p[1]) /\ p[2] <= Len(Cmds(p[1]))
Books(w, p) ==
    /\ p = Last(p[1]) => w[p] = shown[p[1]]
    /\ p[2] > 1 => w[Left(p)] = data[Left(p)] + left[p] + w[p]
    /\ pc[p] \notin Running \cup Dead => left[p] = 0 /\ w[p] = 0
    /\ pc[p] \in Running /\ p[2] = 1 => w[p] + left[p] = Total(p[1])
    /\ pc[p] \in Dead => w[p] = Total(p[1]) /\ (p[2] > 1 => pc[Left(p)] \in Dead)
BooksInv ==
    hurt \subseteq {"stop"} =>
        \E w \in [Procs -> Nat] : \A p \in Procs : InCopy(p) => Books(w, p)

IInv == Types /\ TreeInv /\ DescInv /\ WaitInv /\ LineInv /\ ForkInv /\ BooksInv

(***************************************************************************)
(* Places in pipelines.                                                    *)
(***************************************************************************)
LEMMA LinesIs ==
    ASSUME typed \in Sessions
    PROVE  /\ MaxLines \in Nat /\ MaxCmds \in Nat
           /\ typed \in Seq(Line) /\ Len(typed) \in Nat /\ Len(typed) <= MaxLines
           /\ \A j \in 1..Len(typed) :
                /\ j \in 1..MaxLines /\ typed[j] \in Line /\ typed[j].bg \in BOOLEAN
                /\ Len(Cmds(j)) \in 0..MaxCmds
                /\ Cmds(j) \in [1..Len(Cmds(j)) -> Programs \cup Inbuilts]
                /\ (Cmds(j) = <<>>) <=> (Len(Cmds(j)) = 0)
<1>1. \A s \in Sessions : s \in Seq(Line) /\ Len(s) \in Nat
  BY ShellsAssumption
<1>2. \E n \in {Len(s) : s \in Sessions} : \A s \in Sessions : Len(s) <= n
  BY ShellsAssumption
<1>3. MaxLines \in Nat /\ \A s \in Sessions : Len(s) <= MaxLines
  BY <1>1, <1>2 DEF MaxLines
<1>4. MaxCmds \in Nat
  BY ShellsAssumption
<1>5. ASSUME NEW j \in 1..Len(typed)
      PROVE  /\ j \in 1..MaxLines /\ typed[j] \in Line /\ typed[j].bg \in BOOLEAN
             /\ Len(Cmds(j)) \in 0..MaxCmds
             /\ Cmds(j) \in [1..Len(Cmds(j)) -> Programs \cup Inbuilts]
             /\ (Cmds(j) = <<>>) <=> (Len(Cmds(j)) = 0)
  <2>1. j \in 1..MaxLines /\ typed[j] \in Line
    BY <1>1, <1>3
  <2>2. Cmds(j) \in UNION {[1..n -> Programs \cup Inbuilts] : n \in 0..MaxCmds}
    BY <2>1 DEF Line, Cmds
  <2>3. PICK n \in 0..MaxCmds : Cmds(j) \in [1..n -> Programs \cup Inbuilts]
    BY <2>2
  <2>4. Cmds(j) \in Seq(Programs \cup Inbuilts) /\ Len(Cmds(j)) = n
    BY <1>4, <2>3
  <2>5. (Cmds(j) = <<>>) <=> (Len(Cmds(j)) = 0)
    BY <2>4
  <2> QED
    BY <2>1, <2>3, <2>4, <2>5 DEF Line
<1> QED
  BY <1>1, <1>3, <1>4, <1>5

LEMMA ProcIs ==
    ASSUME typed \in Sessions, NEW p \in Procs
    PROVE  /\ p = <<p[1], p[2]>> /\ p[1] \in Nat /\ p[2] \in Nat /\ p[1] >= 1 /\ p[2] >= 1
           /\ p[1] \in 1..MaxLines /\ p[2] \in 1..MaxCmds /\ p \notin {Tty, File, Error} /\ p \in Pipes
           /\ p[2] > 1 => Left(p) \in Procs
           /\ Left(p)[1] = p[1] /\ Left(p)[2] = p[2] - 1 /\ Left(p) # p
           /\ Right(p)[1] = p[1] /\ Right(p)[2] = p[2] + 1
           /\ Left(Right(p)) = p /\ Right(Left(p)) = p /\ Right(p) # p
<1>1. MaxLines \in Nat /\ MaxCmds \in Nat
  BY LinesIs
<1>2. /\ p = <<p[1], p[2]>> /\ p[1] \in 1..MaxLines /\ p[2] \in 1..MaxCmds
  BY DEF Procs
<1>3. p \notin {Tty, File, Error}
  BY <1>1, <1>2 DEF Tty, File, Error
<1> QED
  BY <1>1, <1>2, <1>3 DEF Procs, Pipes, Left, Right

(* Neighbours are each other's.                                              *)
LEMMA Neighbours ==
    ASSUME typed \in Sessions, NEW p \in Procs, NEW q \in Procs
    PROVE  /\ (Left(q) = p) <=> (q = Right(p))
           /\ p = q <=> (p[1] = q[1] /\ p[2] = q[2])
           /\ (Left(p) = Left(q)) => p = q
           /\ Left(p) \notin {Tty, File} /\ Right(p) \notin {Tty, File}
<1>1. /\ p = <<p[1], p[2]>> /\ q = <<q[1], q[2]>> /\ p[1] \in Nat /\ p[2] \in Nat
      /\ q[1] \in Nat /\ q[2] \in Nat /\ p[1] >= 1 /\ q[1] >= 1
  BY ProcIs
<1> QED
  BY <1>1 DEF Left, Right, Tty, File

LEMMA LastIs ==
    ASSUME typed \in Sessions, NEW j \in 1..Len(typed), Cmds(j) # <<>>
    PROVE  /\ Last(j) \in Procs /\ Last(j)[1] = j /\ Last(j)[2] = Len(Cmds(j))
<1>1. j \in 1..MaxLines /\ Len(Cmds(j)) \in 1..MaxCmds
  BY LinesIs
<1> QED
  BY <1>1 DEF Last, Procs

(* A command of a line, and whether it is the last one.                      *)
LEMMA PlaceIs ==
    ASSUME typed \in Sessions, NEW p \in Procs, p[1] \in 1..Len(typed), p[2] <= Len(Cmds(p[1]))
    PROVE  /\ Cmds(p[1]) # <<>> /\ Last(p[1]) \in Procs /\ Len(Cmds(p[1])) \in Nat
           /\ (p = Last(p[1])) <=> (p[2] = Len(Cmds(p[1])))
           /\ Std(p) = IF p[2] = Len(Cmds(p[1])) THEN Tty ELSE p
           /\ Last(p[1])[1] = p[1] /\ Last(p[1])[2] = Len(Cmds(p[1]))
<1>1. p[2] \in Nat /\ p[2] >= 1 /\ Len(Cmds(p[1])) \in Nat
  BY ProcIs, LinesIs
<1>2. Cmds(p[1]) # <<>>
  BY <1>1, LinesIs
<1>3. Last(p[1]) \in Procs /\ Last(p[1])[1] = p[1] /\ Last(p[1])[2] = Len(Cmds(p[1]))
  BY <1>2, LastIs
<1> QED
  BY <1>1, <1>2, <1>3, Neighbours DEF Std

(***************************************************************************)
(* Initially nobody has typed anything.                                    *)
(***************************************************************************)
LEMMA InitIInv == Init => IInv
<1> SUFFICES ASSUME Init PROVE IInv
  OBVIOUS
<1>0. typed \in Sessions /\ Len(typed) \in Nat
  BY LinesIs DEF Init
<1>1. /\ ln = 0 /\ spc = "prompt" /\ hurt = {}
      /\ \A p \in Procs : /\ pc[p] = "none" /\ in[p] = Tty /\ out[p] = Tty /\ ends[p] = {}
                          /\ left[p] = 0 /\ data[p] = 0 /\ (p[2] > 1 => Left(p) \in Procs)
      /\ \A j \in 1..MaxLines : shown[j] = 0
  BY <1>0, ProcIs DEF Init, Pipes
<1>2. Types
  BY <1>0, ShellsAssumption DEF Init, Types, Stdio, PcSet
<1>3. TreeInv /\ DescInv /\ WaitInv /\ LineInv /\ ForkInv
  BY <1>1 DEF TreeInv, DescInv, Desc, WaitInv, LineInv, ForkInv, Unforked, Running
<1>4. BooksInv
  <2> DEFINE z == [p \in Procs |-> 0]
  <2>1. z \in [Procs -> Nat]
    OBVIOUS
  <2>2. ASSUME NEW p \in Procs, InCopy(p) PROVE Books(z, p)
    <3>1. z[p] = 0 /\ (p[2] > 1 => z[Left(p)] = 0) /\ p[1] \in 1..MaxLines
      BY <1>0, ProcIs
    <3> HIDE DEF z
    <3> QED
      BY <1>1, <3>1 DEF Books, Running, Dead
  <2> HIDE DEF z
  <2> QED
    BY <2>1, <2>2 DEF BooksInv
<1> QED
  BY <1>2, <1>3, <1>4 DEF IInv

(***************************************************************************)
(* Each step keeps the types.                                              *)
(***************************************************************************)
LEMMA FaultTypes ==
    ASSUME Types, NEW k, Fault(k)
    PROVE  hurt' \subseteq Faults /\ nfaults' \in 0..MaxFaults
<1>1. hurt \subseteq Faults /\ nfaults \in 0..MaxFaults
  BY DEF Types
<1>2. MaxFaults \in Nat
  BY ShellsAssumption
<1> QED
  BY <1>1, <1>2 DEF Fault

LEMMA ShellTypes ==
    ASSUME Types, LineInv, Shell \/ ForkFails
    PROVE  Types'
<1> USE DEF Types, ShellAt, shvars, iovars, fvars
<1>0. Len(typed) \in Nat /\ Len(typed) <= MaxLines /\ MaxLines \in Nat
  BY LinesIs
<1>1. CASE ReadLine
  <2>1. ln' \in 0..Len(typed) /\ ln' \in 1..MaxLines
    BY <1>0, <1>1 DEF ReadLine
  <2>2. spc' \in {"prompt", "fork", "down"} /\ shown' \in [1..MaxLines -> Nat]
    BY <1>1, <2>1 DEF ReadLine, do_builtin, bi_echo, bi_exit
  <2> QED
    BY <1>1, <2>1, <2>2 DEF ReadLine
<1>2. CASE EndOfInput
  BY <1>2 DEF EndOfInput
<1>3. ASSUME run_command PROVE Types'
  <2>1. pc' = [pc EXCEPT ![Last(ln)] = "loop"]
    BY <1>3 DEF run_command
  <2>2. pc' \in [Procs -> PcSet]
    BY <2>1 DEF PcSet
  <2>3. pid' \in Procs \cup {Error}
    BY <1>3, LastIs DEF run_command, LineInv
  <2> QED
    BY <1>3, <2>2, <2>3 DEF run_command
<1>4. CASE ForkFails
  BY <1>4, FaultTypes DEF ForkFails
<1>5. CASE Wait
  BY <1>5 DEF Wait, ProcAt, PcSet
<1>6. CASE WaitFails
  BY <1>6 DEF WaitFails
<1> QED
  BY <1>1, <1>2, <1>3, <1>4, <1>5, <1>6 DEF Shell

LEMMA ProcessTypes ==
    ASSUME Types, TreeInv, DescInv, NEW p \in Procs,
           Process(p) \/ PipeFails(p) \/ ForkLeftFails(p) \/ Stop(p) \/ Continue(p)
    PROVE  Types'
<1> USE DEF shvars, iovars, fvars, ProcAt, Exit, PcSet
<1>0. /\ typed \in Sessions /\ pc \in [Procs -> PcSet] /\ in \in [Procs -> Stdio] /\ out \in [Procs -> Stdio]
      /\ ends \in [Procs -> SUBSET (Pipes \X {"r", "w"})]
      /\ data \in [Pipes -> 0..PipeCap] /\ left \in [Procs -> Nat] /\ shown \in [1..MaxLines -> Nat]
  BY DEF Types
<1>1. /\ p[1] \in 1..MaxLines /\ p \in Pipes /\ p \in Stdio /\ (p[2] > 1 => Left(p) \in Procs)
  BY <1>0, ProcIs DEF Stdio
<1>2. Left(p) \in Procs => Left(p) \in Pipes /\ Left(p) \in Stdio
  BY DEF Pipes, Stdio
<1>3. Items \in Nat /\ PipeCap \in Nat
  BY ShellsAssumption
<1>4. CASE MakePipe(p)
  <2>1. {<<Left(p), "r">>, <<Left(p), "w">>} \subseteq Pipes \X {"r", "w"}
    BY <1>1, <1>2, <1>4 DEF MakePipe
  <2> QED
    BY <1>4, <2>1 DEF MakePipe, Types
<1>5. CASE PipeFails(p) \/ ForkLeftFails(p) \/ Stop(p)
  <2>1. hurt' \subseteq Faults /\ nfaults' \in 0..MaxFaults
    BY <1>5, FaultTypes DEF PipeFails, ForkLeftFails, Stop
  <2> QED
    BY <1>5, <2>1 DEF PipeFails, ForkLeftFails, Stop, Types
<1>6. CASE ForkLeft(p)
  <2>1. pc' \in [Procs -> PcSet] /\ in' \in [Procs -> Stdio] /\ out' \in [Procs -> Stdio]
        /\ ends' \in [Procs -> SUBSET (Pipes \X {"r", "w"})]
    BY <1>0, <1>6 DEF ForkLeft
  <2> QED
    BY <1>6, <2>1 DEF ForkLeft, Types
<1>7. CASE BecomeReader(p) \/ BecomeWriter(p) \/ LoopEnds(p) \/ Continue(p) \/ Sigpipe(p) \/ Finish(p)
  <2>1. BecomeReader(p) => Left(p) \in Stdio
    BY <1>1, <1>2 DEF BecomeReader, TreeInv
  <2>2. pc' \in [Procs -> PcSet]
    BY <1>0, <1>1, <1>7 DEF BecomeReader, BecomeWriter, LoopEnds, Continue, Sigpipe, Finish
  <2>3. in' \in [Procs -> Stdio] /\ out' \in [Procs -> Stdio]
    BY SMTT(40), <1>0, <1>1, <1>7, <2>1 DEF BecomeReader, BecomeWriter, LoopEnds, Continue, Sigpipe, Finish
  <2>4. ends' \in [Procs -> SUBSET (Pipes \X {"r", "w"})]
    <3>1. CASE BecomeReader(p)
      BY <1>0, <3>1 DEF BecomeReader
    <3>2. CASE BecomeWriter(p)
      BY <1>0, <3>2 DEF BecomeWriter
    <3>3. CASE LoopEnds(p) \/ Continue(p)
      BY <1>0, <3>3 DEF LoopEnds, Continue
    <3>4. CASE Sigpipe(p) \/ Finish(p)
      BY <1>0, <3>4 DEF Sigpipe, Finish
    <3> QED
      BY <1>7, <3>1, <3>2, <3>3, <3>4
  <2> QED
    BY <1>7, <2>2, <2>3, <2>4 DEF BecomeReader, BecomeWriter, LoopEnds, Continue, Sigpipe, Finish, Types
<1>8. CASE Exec(p)
  <2>1. pc' \in [Procs -> PcSet] /\ in' \in [Procs -> Stdio] /\ out' \in [Procs -> Stdio]
        /\ left' \in [Procs -> Nat]
    BY <1>0, <1>3, <1>8 DEF Exec, redirect, Stdio
  <2> QED
    BY <1>8, <2>1 DEF Exec, Types
<1>9. CASE Write(p)
  <2>1. left' \in [Procs -> Nat]
    BY <1>0, <1>9 DEF Write
  <2>2. data' \in [Pipes -> 0..PipeCap] /\ shown' \in [1..MaxLines -> Nat]
    <3>1. CASE UNCHANGED data /\ UNCHANGED shown
      BY <1>0, <3>1
    <3>2. CASE shown' = [shown EXCEPT ![p[1]] = @ + 1] /\ UNCHANGED data
      BY <1>0, <1>1, <3>2
    <3>3. CASE data[out[p]] < PipeCap /\ out[p] \in Pipes /\ UNCHANGED shown
               /\ data' = [data EXCEPT ![out[p]] = @ + 1]
      BY <1>0, <1>3, <3>3
    <3> QED
      BY <1>9, <3>1, <3>2, <3>3 DEF Write, Put
  <2> QED
    BY <1>9, <2>1, <2>2 DEF Write, Types
<1>10. CASE Read(p)
  <2>1. data' \in [Pipes -> 0..PipeCap] /\ left' \in [Procs -> Nat]
    BY <1>0, <1>3, <1>10 DEF Read, Reads
  <2> QED
    BY <1>10, <2>1 DEF Read, Types
<1> QED
  BY <1>4, <1>5, <1>6, <1>7, <1>8, <1>9, <1>10 DEF Process

(***************************************************************************)
(* Each step keeps what is said of the tree of processes.                  *)
(***************************************************************************)
Fixed == UNCHANGED <<prog, typed>>

LEMMA NextFixed == [Next]_vars => Fixed
BY DEF Next, System, Shell, Process, ReadLine, EndOfInput, run_command, Wait, WaitFails, ForkFails,
       MakePipe, PipeFails, ForkLeft, ForkLeftFails, BecomeReader, BecomeWriter, LoopEnds, Exec,
       Write, Sigpipe, Read, Finish, Stop, Continue, vars, shvars, Fixed

ControlInv == TreeInv /\ WaitInv /\ LineInv /\ ForkInv

(* A process p moves alone, and not behind where it has forked.              *)
Moves(p) ==
    /\ UNCHANGED shvars
    /\ hurt' \subseteq {"stop"} => hurt \subseteq {"stop"}
    /\ \A x \in Procs \ {p} : pc'[x] = pc[x]
    /\ pc'[p] = pc[p] \/ (pc[p] \notin {"none", "zombie", "gone"} /\ pc'[p] \notin {"none", "writer"})
    /\ pc'[p] \in Unforked => pc[p] \in Unforked
    /\ pc'[p] \in {"pipe", "reader"} => p[2] > 1
    /\ pc'[p] \notin Unforked /\ p[2] > 1 => pc[p] \notin Unforked \/ ~(hurt' \subseteq {"stop"})

LEMMA MovesKeeps ==
    ASSUME Types, ControlInv, NEW p \in Procs, Moves(p)
    PROVE  ControlInv'
<1>0. /\ typed \in Sessions /\ typed' = typed /\ ln' = ln /\ spc' = spc /\ pid' = pid
      /\ ln \in 0..Len(typed) /\ Len(typed) \in Nat
  BY LinesIs DEF Types, Moves, shvars
<1>1. LineInv'
  BY <1>0 DEF ControlInv, LineInv, Cmds
<1>2. TreeInv'
  <2> SUFFICES ASSUME NEW x \in Procs
               PROVE  /\ pc'[x] # "none" => /\ x[1] \in 1..ln /\ x[2] <= Len(Cmds(x[1]))
                                            /\ spc = "fork" => x[1] < ln
                      /\ pc'[x] \in Unforked /\ x[2] > 1 /\ x[2] <= Len(Cmds(x[1])) => pc'[Left(x)] = "none"
                      /\ pc'[x] \in {"pipe", "reader"} => x[2] > 1
                      /\ pc'[x] = "writer" => x[2] < Len(Cmds(x[1]))
    BY <1>0 DEF TreeInv, Cmds
  <2>1. /\ pc[x] # "none" => /\ x[1] \in 1..ln /\ x[2] <= Len(Cmds(x[1]))
                             /\ spc = "fork" => x[1] < ln
        /\ pc[x] \in Unforked /\ x[2] > 1 /\ x[2] <= Len(Cmds(x[1])) => pc[Left(x)] = "none"
        /\ pc[x] \in {"pipe", "reader"} => x[2] > 1
        /\ pc[x] = "writer" => x[2] < Len(Cmds(x[1]))
    BY DEF ControlInv, TreeInv
  <2>2. x[2] > 1 => Left(x) \in Procs /\ Left(x) # x
    BY <1>0, ProcIs
  <2>3. CASE x = p
    BY <2>1, <2>2, <2>3 DEF Moves
  <2>4. CASE x # p
    <3>1. pc'[x] = pc[x] /\ (x[2] > 1 /\ pc[Left(x)] = "none" => pc'[Left(x)] = "none")
      BY <2>2, <2>4 DEF Moves
    <3> QED
      BY <2>1, <3>1
  <2> QED
    BY <2>3, <2>4
<1>3. WaitInv'
  <2> SUFFICES ASSUME NEW j \in 1..ln, ~typed[j].bg, Cmds(j) # <<>>
               PROVE  pc'[Last(j)] \in {"none", "gone"} \/ (j = ln /\ spc = "wait" /\ pid = Last(j))
    BY <1>0 DEF WaitInv, Cmds, Last
  <2>1. j \in 1..Len(typed)
    BY <1>0
  <2>2. Last(j) \in Procs
    BY <1>0, <2>1, LastIs
  <2>3. pc[Last(j)] \in {"none", "gone"} \/ (j = ln /\ spc = "wait" /\ pid = Last(j))
    BY DEF ControlInv, WaitInv
  <2> QED
    BY <2>2, <2>3 DEF Moves
<1>4. ForkInv'
  <2> SUFFICES ASSUME hurt' \subseteq {"stop"}, NEW x \in Procs, pc'[x] \notin Unforked, x[2] > 1
               PROVE  pc'[Left(x)] # "none"
    BY DEF ForkInv
  <2>1. Left(x) \in Procs /\ Left(x) # x
    BY <1>0, ProcIs
  <2>2. pc[x] \notin Unforked
    BY DEF Moves
  <2>3. pc[Left(x)] # "none"
    BY <2>2 DEF ControlInv, ForkInv, Moves
  <2> QED
    BY <2>1, <2>3 DEF Moves
<1> QED
  BY <1>1, <1>2, <1>3, <1>4 DEF ControlInv

LEMMA ProcessControl ==
    ASSUME Types, ControlInv, NEW p \in Procs,
           Process(p) \/ PipeFails(p) \/ ForkLeftFails(p) \/ Stop(p) \/ Continue(p), ~ForkLeft(p)
    PROVE  ControlInv'
<1>0. pc \in [Procs -> PcSet]
  BY DEF Types
<1> USE DEF ProcAt, Exit, Unforked, shvars
<1>1. CASE MakePipe(p)
  BY <1>0, <1>1, MovesKeeps DEF MakePipe, Moves, fvars
<1>2. CASE PipeFails(p) \/ ForkLeftFails(p)
  <2>1. ~(hurt' \subseteq {"stop"})
    BY <1>2 DEF PipeFails, ForkLeftFails, Fault
  <2> QED
    BY <1>0, <1>2, <2>1, MovesKeeps DEF PipeFails, ForkLeftFails, Moves
<1>3. CASE BecomeReader(p)
  <2>1. p[2] > 1
    BY <1>3 DEF BecomeReader, ControlInv, TreeInv
  <2> QED
    BY <1>0, <1>3, <2>1, MovesKeeps DEF BecomeReader, Moves, fvars
<1>4. CASE BecomeWriter(p)
  BY <1>0, <1>4, MovesKeeps DEF BecomeWriter, Moves, fvars
<1>5. CASE LoopEnds(p)
  BY <1>0, <1>5, MovesKeeps DEF LoopEnds, Moves, fvars
<1>6. CASE Exec(p)
  BY <1>0, <1>6, MovesKeeps DEF Exec, Moves, fvars
<1>7. CASE Write(p) \/ Read(p)
  BY <1>0, <1>7, MovesKeeps DEF Write, Read, Moves, fvars
<1>8. CASE Sigpipe(p) \/ Finish(p)
  BY <1>0, <1>8, MovesKeeps DEF Sigpipe, Finish, Moves, fvars
<1>9. CASE Stop(p) \/ Continue(p)
  BY <1>0, <1>9, MovesKeeps DEF Stop, Continue, Moves, fvars, Fault
<1> QED
  BY <1>1, <1>2, <1>3, <1>4, <1>5, <1>6, <1>7, <1>8, <1>9 DEF Process

LEMMA ForkControl ==
    ASSUME Types, ControlInv, NEW p \in Procs, ForkLeft(p)
    PROVE  ControlInv'
<1>0. /\ typed \in Sessions /\ UNCHANGED <<typed, ln, spc, pid, hurt>>
      /\ ln \in 0..Len(typed) /\ Len(typed) \in Nat /\ pc \in [Procs -> PcSet]
  BY LinesIs DEF Types, ForkLeft, shvars, fvars
<1>1. pc[p] = "pipe" /\ p[2] > 1 /\ p[1] \in 1..ln /\ p[2] <= Len(Cmds(p[1])) /\ (spc = "fork" => p[1] < ln)
      /\ pc[Left(p)] = "none"
  BY DEF ForkLeft, ControlInv, TreeInv, Unforked
<1>2. /\ Left(p) \in Procs /\ Left(p) # p /\ Left(p)[1] = p[1] /\ Left(p)[2] = p[2] - 1
      /\ p[2] \in Nat /\ Len(Cmds(p[1])) \in Nat
  BY <1>0, <1>1, ProcIs, LinesIs
<1>3. /\ pc'[p] = "reader" /\ pc'[Left(p)] = "writer"
      /\ \A x \in Procs : x # p /\ x # Left(p) => pc'[x] = pc[x]
  BY <1>0, <1>2 DEF ForkLeft
<1>4. LineInv'
  BY <1>0 DEF ControlInv, LineInv, Cmds
<1>5. TreeInv'
  <2> SUFFICES ASSUME NEW x \in Procs
               PROVE  /\ pc'[x] # "none" => /\ x[1] \in 1..ln /\ x[2] <= Len(Cmds(x[1]))
                                            /\ spc = "fork" => x[1] < ln
                      /\ pc'[x] \in Unforked /\ x[2] > 1 /\ x[2] <= Len(Cmds(x[1])) => pc'[Left(x)] = "none"
                      /\ pc'[x] \in {"pipe", "reader"} => x[2] > 1
                      /\ pc'[x] = "writer" => x[2] < Len(Cmds(x[1]))
    BY <1>0 DEF TreeInv, Cmds
  <2>1. /\ pc[x] # "none" => /\ x[1] \in 1..ln /\ x[2] <= Len(Cmds(x[1]))
                             /\ spc = "fork" => x[1] < ln
        /\ pc[x] \in Unforked /\ x[2] > 1 /\ x[2] <= Len(Cmds(x[1])) => pc[Left(x)] = "none"
        /\ pc[x] \in {"pipe", "reader"} => x[2] > 1
        /\ pc[x] = "writer" => x[2] < Len(Cmds(x[1]))
    BY DEF ControlInv, TreeInv
  <2>2. x[2] > 1 => Left(x) \in Procs /\ Left(x) # x /\ Left(x)[1] = x[1] /\ Left(x)[2] = x[2] - 1
    BY <1>0, ProcIs
  <2>3. CASE x = p
    BY <1>1, <1>3, <2>3 DEF Unforked
  <2>4. CASE x = Left(p)
    <3>1. x # p /\ (x[2] > 1 /\ x[2] <= Len(Cmds(x[1])) => pc[Left(x)] = "none" /\ Left(x) # p)
      BY <1>1, <1>2, <2>1, <2>2, <2>4 DEF Unforked
    <3> QED
      BY <1>1, <1>2, <1>3, <2>2, <2>4, <3>1 DEF Unforked
  <2>5. CASE x # p /\ x # Left(p)
    <3>1. x[2] > 1 => Left(x) # Left(p)
      BY <1>0, <2>5, Neighbours
    <3>2. pc[x] \in Unforked /\ x[2] > 1 /\ x[2] <= Len(Cmds(x[1])) => pc[Left(x)] = "none" /\ Left(x) # p
      BY <1>1, <2>1
    <3> QED
      BY <1>3, <2>1, <2>2, <2>5, <3>1, <3>2
  <2> QED
    BY <2>3, <2>4, <2>5
<1>6. WaitInv'
  <2> SUFFICES ASSUME NEW j \in 1..ln, ~typed[j].bg, Cmds(j) # <<>>
               PROVE  pc'[Last(j)] \in {"none", "gone"} \/ (j = ln /\ spc = "wait" /\ pid = Last(j))
    BY <1>0 DEF WaitInv, Cmds, Last
  <2>1. j \in 1..Len(typed)
    BY <1>0
  <2>2. Last(j) \in Procs /\ Last(j)[1] = j /\ Last(j)[2] = Len(Cmds(j))
    BY <1>0, <2>1, LastIs
  <2>3. pc[Last(j)] \in {"none", "gone"} \/ (j = ln /\ spc = "wait" /\ pid = Last(j))
    BY DEF ControlInv, WaitInv
  <2>4. Last(j) # Left(p)
    <3> SUFFICES ASSUME Last(j) = Left(p) PROVE FALSE
      OBVIOUS
    <3>1. j = p[1] /\ Len(Cmds(j)) = p[2] - 1
      BY <1>2, <2>2
    <3> QED
      BY <1>1, <1>2, <3>1
  <2> QED
    BY <1>1, <1>3, <2>2, <2>3, <2>4
<1>7. ForkInv'
  <2> SUFFICES ASSUME hurt \subseteq {"stop"}, NEW x \in Procs, pc'[x] \notin Unforked, x[2] > 1
               PROVE  pc'[Left(x)] # "none"
    BY <1>0 DEF ForkInv
  <2>1. Left(x) \in Procs
    BY <1>0, ProcIs
  <2>2. CASE x = p
    BY <1>3, <2>2
  <2>3. CASE x # p
    <3>1. pc'[x] = pc[x]
      BY <1>3, <2>3 DEF Unforked
    <3>2. pc[Left(x)] # "none"
      BY <3>1 DEF ControlInv, ForkInv
    <3> QED
      BY <1>3, <2>1, <3>2
  <2> QED
    BY <2>2, <2>3
<1> QED
  BY <1>4, <1>5, <1>6, <1>7 DEF ControlInv

(* The shell reads a line, forks, and waits.                                 *)
LEMMA ShellControl ==
    ASSUME Types, ControlInv, Shell \/ ForkFails
    PROVE  ControlInv'
<1>0. /\ typed \in Sessions /\ typed' = typed /\ ln \in 0..Len(typed) /\ Len(typed) \in Nat
      /\ pc \in [Procs -> PcSet]
      /\ \A j : Cmds(j)' = Cmds(j) /\ Last(j)' = Last(j)
  BY LinesIs, NextFixed DEF Types, Fixed, Next, System, Cmds, Last
<1>1. \A j \in 1..Len(typed) : Cmds(j) # <<>> =>
        Last(j) \in Procs /\ Last(j)[1] = j /\ Last(j)[2] = Len(Cmds(j))
  BY <1>0, LastIs
<1>2. hurt' \subseteq {"stop"} => hurt \subseteq {"stop"}
  BY DEF Shell, ForkFails, ReadLine, EndOfInput, run_command, Wait, WaitFails, Fault, fvars
<1>3. \A p \in Procs : /\ p[1] \in Nat /\ p[2] \in Nat /\ (p[2] > 1 => Left(p) \in Procs)
                       /\ Left(p)[1] = p[1] /\ Left(p) # p
  BY <1>0, ProcIs
<1>4. CASE ReadLine
  <2>1. /\ spc = "prompt" /\ ln' = ln + 1 /\ ln' \in 1..Len(typed) /\ pc' = pc /\ pid' = pid
        /\ spc' \in {"prompt", "fork", "down"} /\ (spc' = "fork" => Cmds(ln') # <<>>)
    BY <1>0, <1>4 DEF ReadLine, do_builtin, bi_echo, bi_exit
  <2>2. \A p \in Procs : pc[p] # "none" => p[1] \in 1..ln'  /\ p[1] < ln' /\ p[2] <= Len(Cmds(p[1]))
    BY <1>0, <2>1 DEF ControlInv, TreeInv
  <2>3. TreeInv'
    BY <1>0, <2>1, <2>2 DEF ControlInv, TreeInv
  <2>5. WaitInv'
    <3> SUFFICES ASSUME NEW j \in 1..ln', ~typed[j].bg, Cmds(j) # <<>>
                 PROVE  pc[Last(j)] \in {"none", "gone"}
      BY <1>0, <2>1 DEF WaitInv
    <3>1. CASE j \in 1..ln
      BY <2>1, <3>1 DEF ControlInv, WaitInv
    <3>2. CASE j = ln'
      BY <1>1, <2>1, <2>2, <3>2
    <3> QED
      BY <1>0, <2>1, <3>1, <3>2
  <2>6. LineInv' /\ ForkInv'
    BY <1>0, <1>2, <2>1 DEF ControlInv, LineInv, ForkInv
  <2> QED
    BY <2>3, <2>5, <2>6 DEF ControlInv
<1>5. CASE EndOfInput \/ WaitFails \/ ForkFails
  <2>1. /\ ln' = ln /\ pc' = pc /\ spc' # "fork" /\ (spc' = "wait" => spc = "fork")
        /\ (spc = "wait" => pid = Error)
    BY <1>5 DEF EndOfInput, WaitFails, ForkFails, ShellAt
  <2>2. TreeInv'
    BY <1>0, <2>1 DEF ControlInv, TreeInv, Cmds
  <2>3. WaitInv'
    <3> SUFFICES ASSUME NEW j \in 1..ln, ~typed[j].bg, Cmds(j) # <<>>
                 PROVE  pc[Last(j)] \in {"none", "gone"}
      BY <1>0, <2>1 DEF WaitInv, Cmds, Last
    <3>1. Last(j) # Error
      BY <1>0, <1>1, ProcIs
    <3> QED
      BY <2>1, <3>1 DEF ControlInv, WaitInv
  <2>4. LineInv' /\ ForkInv'
    BY <1>0, <1>2, <2>1 DEF ControlInv, LineInv, ForkInv, Cmds
  <2> QED
    BY <2>2, <2>3, <2>4 DEF ControlInv
<1>6. CASE run_command
  <2> DEFINE l == Last(ln)
  <2>1. /\ spc = "fork" /\ ln' = ln /\ pid' = l /\ ln \in 1..Len(typed) /\ Cmds(ln) # <<>>
        /\ spc' = IF typed[ln].bg THEN "prompt" ELSE "wait"
        /\ pc' = [pc EXCEPT ![l] = "loop"]
    BY <1>6 DEF run_command, ShellAt, is_background, ControlInv, LineInv
  <2>2. l \in Procs /\ l[1] = ln /\ l[2] = Len(Cmds(ln))
    BY <1>1, <2>1
  <2>3. \A p \in Procs : p[1] = ln => pc[p] = "none"
    BY <1>0, <1>3, <2>1 DEF ControlInv, TreeInv
  <2> HIDE DEF l
  <2>4. pc'[l] = "loop" /\ \A p \in Procs \ {l} : pc'[p] = pc[p]
    BY <1>0, <2>1, <2>2
  <2>5. TreeInv'
    <3> SUFFICES ASSUME NEW x \in Procs
                 PROVE  /\ pc'[x] # "none" => x[1] \in 1..ln /\ x[2] <= Len(Cmds(x[1]))
                        /\ pc'[x] \in Unforked /\ x[2] > 1 /\ x[2] <= Len(Cmds(x[1])) => pc'[Left(x)] = "none"
                        /\ pc'[x] \in {"pipe", "reader"} => x[2] > 1
                        /\ pc'[x] = "writer" => x[2] < Len(Cmds(x[1]))
      BY <1>0, <2>1 DEF TreeInv, Cmds
    <3>1. CASE x = l
      BY <1>3, <2>1, <2>2, <2>3, <2>4, <3>1
    <3>2. CASE x # l
      <4>1. pc'[x] = pc[x]
        BY <2>4, <3>2
      <4>2. ASSUME pc[x] \in Unforked, x[2] > 1, x[2] <= Len(Cmds(x[1])) PROVE pc'[Left(x)] = "none"
        <5>1. pc[Left(x)] = "none" /\ Left(x) \in Procs
          BY <1>3, <4>2 DEF ControlInv, TreeInv
        <5>2. CASE Left(x) = l
          <6>1. Right(l)[2] = l[2] + 1 /\ x = Right(l) /\ x[1] = ln
            BY <1>0, <1>3, <2>2, <5>2, ProcIs, Neighbours
          <6>2. l[2] \in Nat /\ x[2] > Len(Cmds(x[1]))
            BY <1>3, <2>2, <6>1
          <6> QED
            BY <4>2, <6>1, <6>2
        <5> QED
          BY <2>4, <5>1, <5>2
      <4> QED
        BY <4>1, <4>2 DEF ControlInv, TreeInv
    <3> QED
      BY <3>1, <3>2
  <2>6. WaitInv'
    <3> SUFFICES ASSUME NEW j \in 1..ln, ~typed[j].bg, Cmds(j) # <<>>
                 PROVE  pc'[Last(j)] \in {"none", "gone"} \/ (j = ln /\ spc' = "wait" /\ pid' = Last(j))
      BY <1>0, <2>1 DEF WaitInv, Cmds, Last
    <3>1. CASE j = ln
      BY <2>1, <3>1 DEF l
    <3>2. CASE j # ln
      <4>1. Last(j) \in Procs /\ Last(j) # l
        BY <1>0, <1>1, <2>2, <3>2
      <4> QED
        BY <2>1, <2>4, <3>2, <4>1 DEF ControlInv, WaitInv
    <3> QED
      BY <3>1, <3>2
  <2>7. LineInv'
    BY <1>0, <2>1 DEF LineInv, Cmds
  <2>8. ForkInv'
    <3> SUFFICES ASSUME hurt \subseteq {"stop"}, NEW x \in Procs, pc'[x] \notin Unforked, x[2] > 1
                 PROVE  pc'[Left(x)] # "none"
      BY <1>2 DEF ForkInv
    <3>1. pc[x] \notin Unforked
      BY <2>4 DEF Unforked
    <3>2. pc[Left(x)] # "none" /\ Left(x) \in Procs
      BY <1>3, <3>1 DEF ControlInv, ForkInv
    <3> QED
      BY <2>4, <3>2
  <2> QED
    BY <2>5, <2>6, <2>7, <2>8 DEF ControlInv
<1>7. CASE Wait
  <2>1. PICK p \in Procs : /\ ProcAt(p, "zombie", "gone") /\ (pid = Error \/ p = pid)
                           /\ ShellAt("wait", "prompt") /\ ln' = ln
    BY <1>7 DEF Wait
  <2>2. /\ pc[p] = "zombie" /\ pc'[p] = "gone" /\ spc = "wait" /\ spc' = "prompt"
        /\ \A x \in Procs \ {p} : pc'[x] = pc[x]
    BY <1>0, <2>1 DEF ProcAt, ShellAt
  <2>3. TreeInv'
    <3> SUFFICES ASSUME NEW x \in Procs
                 PROVE  /\ pc'[x] # "none" => x[1] \in 1..ln /\ x[2] <= Len(Cmds(x[1]))
                        /\ pc'[x] \in Unforked /\ x[2] > 1 /\ x[2] <= Len(Cmds(x[1])) => pc'[Left(x)] = "none"
                        /\ pc'[x] \in {"pipe", "reader"} => x[2] > 1
                        /\ pc'[x] = "writer" => x[2] < Len(Cmds(x[1]))
      BY <1>0, <2>1, <2>2 DEF TreeInv, Cmds
    <3>1. /\ pc[x] # "none" => x[1] \in 1..ln /\ x[2] <= Len(Cmds(x[1]))
          /\ pc[x] \in Unforked /\ x[2] > 1 /\ x[2] <= Len(Cmds(x[1])) => pc[Left(x)] = "none" /\ Left(x) \in Procs
          /\ pc[x] \in {"pipe", "reader"} => x[2] > 1
          /\ pc[x] = "writer" => x[2] < Len(Cmds(x[1]))
      BY <1>3 DEF ControlInv, TreeInv
    <3>2. CASE x = p
      BY <2>2, <3>1, <3>2 DEF Unforked
    <3>3. CASE x # p
      BY <2>2, <3>1, <3>3
    <3> QED
      BY <3>2, <3>3
  <2>4. WaitInv'
    <3> SUFFICES ASSUME NEW j \in 1..ln, ~typed[j].bg, Cmds(j) # <<>>
                 PROVE  pc'[Last(j)] \in {"none", "gone"}
      BY <1>0, <2>1 DEF WaitInv, Cmds, Last
    <3>1. Last(j) \in Procs /\ Last(j) # Error
      BY <1>0, <1>1, ProcIs
    <3>2. pc[Last(j)] \in {"none", "gone"} \/ pid = Last(j)
      BY DEF ControlInv, WaitInv
    <3> QED
      BY <2>1, <2>2, <3>1, <3>2
  <2>5. LineInv'
    BY <2>2 DEF LineInv
  <2>6. ForkInv'
    <3> SUFFICES ASSUME hurt \subseteq {"stop"}, NEW x \in Procs, pc'[x] \notin Unforked, x[2] > 1
                 PROVE  pc'[Left(x)] # "none"
      BY <1>2 DEF ForkInv
    <3>1. pc[x] \notin Unforked
      BY <2>2 DEF Unforked
    <3>2. pc[Left(x)] # "none" /\ Left(x) \in Procs
      BY <1>3, <3>1 DEF ControlInv, ForkInv
    <3> QED
      BY <2>2, <3>2
  <2> QED
    BY <2>3, <2>4, <2>5, <2>6 DEF ControlInv
<1> QED
  BY <1>4, <1>5, <1>6, <1>7 DEF Shell

(***************************************************************************)
(* Each step keeps what is said of the descriptors.                        *)
(***************************************************************************)
LEMMA DescKeeps ==
    ASSUME NEW x \in Procs, UNCHANGED <<typed, pc[x], in[x], out[x], ends[x]>>, Desc(x)
    PROVE  Desc(x)'
BY DEF Desc, Std, Src, Last, Cmds, Cmd

LEMMA DescStep == Types /\ ControlInv /\ DescInv /\ Next => DescInv'
<1> SUFFICES ASSUME Types, ControlInv, DescInv, Next PROVE DescInv'
  OBVIOUS
<1>0. /\ pc \in [Procs -> PcSet] /\ in \in [Procs -> Stdio] /\ out \in [Procs -> Stdio]
      /\ ends \in [Procs -> SUBSET (Pipes \X {"r", "w"})] /\ typed \in Sessions
      /\ ln \in 0..Len(typed) /\ Len(typed) \in Nat
  BY LinesIs DEF Types
<1>1. typed' = typed
  BY NextFixed DEF Fixed
<1>2. \A x \in Procs : Std(x)' = Std(x) /\ Src(x)' = Src(x) /\ Cmd(x)' = Cmd(x) /\ Std(Right(x))' = Std(Right(x))
  BY <1>1 DEF Std, Src, Cmd, Cmds, Last
<1>3. \A x \in Procs : /\ (x[2] > 1 => Left(x) \in Procs /\ Left(x) # x) /\ Right(Left(x)) = x
                       /\ Left(x) \in Procs => Left(x) # x
  BY <1>0, ProcIs
<1>4. ASSUME NEW p \in Procs, \A x \in Procs \ {p} : UNCHANGED <<pc[x], in[x], out[x], ends[x]>>, Desc(p)'
      PROVE  DescInv'
  BY <1>1, <1>4, DescKeeps DEF DescInv
<1>5. CASE UNCHANGED <<pc, in, out, ends>>
  BY <1>1, <1>5, DescKeeps DEF DescInv
<1>6. CASE run_command
  <2>1. ln \in 1..Len(typed) /\ spc = "fork" /\ Last(ln) \in Procs /\ Last(ln)[1] = ln
    BY <1>0, <1>6, LastIs DEF run_command, ShellAt, ControlInv, LineInv
  <2>2. PICK l \in Procs : l = Last(ln) /\ l[1] = ln
    BY <2>1
  <2>3. pc[l] = "none"
    BY <1>0, <2>1, <2>2 DEF ControlInv, TreeInv
  <2>4. Std(l) = Tty
    BY <2>2 DEF Std
  <2>5. pc' = [pc EXCEPT ![l] = "loop"] /\ UNCHANGED <<in, out, ends>>
    BY <1>6, <2>2 DEF run_command, iovars
  <2>6. in[l] = Tty /\ out[l] = Tty /\ ends[l] = {} /\ pc'[l] = "loop"
    BY <1>0, <2>3, <2>5 DEF DescInv, Desc
  <2>7. Desc(l)'
    BY <1>2, <2>4, <2>5, <2>6 DEF Desc, Running
  <2> QED
    BY <1>0, <1>4, <2>5, <2>7
<1>7. CASE Wait
  <2>1. PICK p \in Procs : pc' = [pc EXCEPT ![p] = "gone"] /\ UNCHANGED <<in, out, ends>>
    BY <1>7 DEF Wait, ProcAt, iovars
  <2>2. Desc(p)'
    BY <1>0, <2>1 DEF Desc, Running
  <2> QED
    BY <1>0, <1>4, <2>1, <2>2
<1>8. ASSUME NEW p \in Procs, ForkLeft(p) PROVE DescInv'
  <2> DEFINE q == Left(p)
  <2>1. pc[p] = "pipe" /\ p[2] > 1 /\ q \in Procs /\ q # p /\ Right(q) = p
    BY <1>3, <1>8 DEF ForkLeft, ControlInv, TreeInv
  <2>2. in[p] = Tty /\ out[p] = Std(p) /\ ends[p] = Both(q)
    BY <2>1 DEF DescInv, Desc
  <2> HIDE DEF q
  <2>3. /\ pc'[p] = "reader" /\ in'[p] = in[p] /\ out'[p] = out[p] /\ ends'[p] = ends[p]
        /\ pc'[q] = "writer" /\ in'[q] = in[p] /\ out'[q] = out[p] /\ ends'[q] = ends[p]
        /\ \A x \in Procs : x # p /\ x # q => UNCHANGED <<pc[x], in[x], out[x], ends[x]>>
    BY <1>0, <1>8, <2>1 DEF ForkLeft, q
  <2>4. Desc(p)'
    BY <1>2, <2>2, <2>3 DEF Desc, Running, q
  <2>5. Desc(q)'
    BY <1>2, <2>1, <2>2, <2>3 DEF Desc, Running
  <2> QED
    BY <1>1, <2>3, <2>4, <2>5, DescKeeps DEF DescInv
<1>9. ASSUME NEW p \in Procs, MakePipe(p) PROVE DescInv'
  <2>1. pc[p] = "loop" /\ pc' = [pc EXCEPT ![p] = "pipe"] /\ UNCHANGED <<in, out>>
        /\ ends' = [ends EXCEPT ![p] = ends[p] \cup Both(Left(p))]
    BY <1>9 DEF MakePipe, ProcAt, Both
  <2>2. in[p] = Tty /\ out[p] = Std(p) /\ ends[p] = {}
    BY <2>1 DEF DescInv, Desc
  <2>3. ends'[p] = Both(Left(p))
    BY <1>0, <2>1, <2>2
  <2>4. Desc(p)'
    BY <1>0, <1>2, <2>1, <2>2, <2>3 DEF Desc, Running
  <2> QED
    BY <1>0, <1>4, <2>1, <2>4
<1>10. ASSUME NEW p \in Procs, BecomeReader(p) PROVE DescInv'
  <2>1. pc[p] = "reader" /\ pc' = [pc EXCEPT ![p] = "exec"] /\ UNCHANGED out
        /\ in' = [in EXCEPT ![p] = Left(p)] /\ ends' = [ends EXCEPT ![p] = ends[p] \ Both(Left(p))]
    BY <1>10 DEF BecomeReader, ProcAt, Both
  <2>2. out[p] = Std(p) /\ ends[p] = Both(Left(p)) /\ p[2] > 1
    BY <2>1 DEF DescInv, Desc, ControlInv, TreeInv
  <2>3. ends'[p] = {} /\ Src(p) = Left(p)
    BY <1>0, <2>1, <2>2 DEF Src
  <2>4. Desc(p)'
    BY <1>0, <1>2, <2>1, <2>2, <2>3 DEF Desc, Running
  <2> QED
    BY <1>0, <1>4, <2>1, <2>4
<1>11. ASSUME NEW p \in Procs, BecomeWriter(p) PROVE DescInv'
  <2>1. pc[p] = "writer" /\ pc' = [pc EXCEPT ![p] = "loop"] /\ UNCHANGED in
        /\ out' = [out EXCEPT ![p] = p] /\ ends' = [ends EXCEPT ![p] = ends[p] \ Both(p)]
    BY <1>11 DEF BecomeWriter, ProcAt, Both
  <2>2. in[p] = Tty /\ ends[p] = Both(p) /\ p[2] < Len(Cmds(p[1]))
        /\ p[1] \in 1..ln
    BY <2>1 DEF DescInv, Desc, ControlInv, TreeInv
  <2>3. Std(p) = p
    <3>1. p[1] \in 1..Len(typed)
      BY <1>0, <2>2
    <3>2. p[2] \in Nat /\ Len(Cmds(p[1])) \in Nat
      BY <1>0, <3>1, ProcIs, LinesIs
    <3> QED
      BY <1>0, <2>2, <3>1, <3>2, PlaceIs
  <2>4. ends'[p] = {} /\ out'[p] = p
    BY <1>0, <2>1, <2>2
  <2>5. Desc(p)'
    BY <1>0, <1>2, <2>1, <2>2, <2>3, <2>4 DEF Desc, Running
  <2> QED
    BY <1>0, <1>4, <2>1, <2>5
<1>12. ASSUME NEW p \in Procs, LoopEnds(p) PROVE DescInv'
  <2>1. pc[p] = "loop" /\ pc' = [pc EXCEPT ![p] = "exec"] /\ UNCHANGED <<in, out, ends>> /\ p[2] = 1
    BY <1>12 DEF LoopEnds, ProcAt, iovars
  <2>2. Desc(p)'
    BY <1>0, <1>2, <2>1 DEF DescInv, Desc, Running, Src
  <2> QED
    BY <1>0, <1>4, <2>1, <2>2
<1>13. ASSUME NEW p \in Procs, Exec(p) PROVE DescInv'
  <2>1. pc[p] = "exec" /\ UNCHANGED ends /\ \A x \in Procs \ {p} : UNCHANGED <<pc[x], in[x], out[x]>>
    BY <1>0, <1>13 DEF Exec, redirect
  <2>2. /\ in'[p] = IF Cmd(p) = "fromfile" THEN File ELSE in[p]
        /\ out'[p] = IF Cmd(p) = "tofile" THEN File ELSE out[p]
        /\ pc'[p] \in {"zombie", "run"}
    BY <1>0, <1>13 DEF Exec, redirect
  <2>3. Desc(p)'
    BY <1>2, <2>1, <2>2 DEF DescInv, Desc, Running
  <2> QED
    BY <1>4, <2>1, <2>3
<1>14. ASSUME NEW p \in Procs,
              PipeFails(p) \/ ForkLeftFails(p) \/ Sigpipe(p) \/ Finish(p) \/ Stop(p) \/ Continue(p)
       PROVE  DescInv'
  <2>1. /\ UNCHANGED <<in, out, ends>> /\ pc' = [pc EXCEPT ![p] = pc'[p]]
        /\ pc'[p] = "zombie" \/ (pc[p] \in Running /\ pc'[p] \in Running)
    BY <1>0, <1>14 DEF PipeFails, ForkLeftFails, Sigpipe, Finish, Stop, Continue, Exit, ProcAt, iovars, Running
  <2>2. Desc(p)'
    BY <1>2, <2>1 DEF DescInv, Desc, Running
  <2> QED
    BY <1>0, <1>4, <2>1, <2>2
<1>15. (ReadLine \/ EndOfInput \/ WaitFails \/ ForkFails \/ \E p \in Procs : Write(p) \/ Read(p))
          => UNCHANGED <<pc, in, out, ends>>
  BY DEF ReadLine, EndOfInput, WaitFails, ForkFails, Write, Read, iovars
<1> QED
  BY <1>5, <1>6, <1>7, <1>8, <1>9, <1>10, <1>11, <1>12, <1>13, <1>14, <1>15
     DEF Next, System, Shell, Process

(***************************************************************************)
(* Each step keeps the books of what is copied.                            *)
(***************************************************************************)
LEMMA CopyIs ==
    ASSUME Types, NEW p \in Procs, InCopy(p)
    PROVE  /\ p[2] = 1 => Cmd(p) \in {"source", "missing"}
           /\ p[2] > 1 => Cmd(p) = "filter" /\ InCopy(Left(p)) /\ Left(p) \in Procs
           /\ Std(p) = IF p[2] = Len(Cmds(p[1])) THEN Tty ELSE p
           /\ (p = Last(p[1])) <=> (p[2] = Len(Cmds(p[1])))
           /\ p[2] < Len(Cmds(p[1])) => Right(p) \in Procs /\ InCopy(Right(p)) /\ Right(p)[2] > 1
           /\ p[2] # Len(Cmds(p[1])) => p[2] < Len(Cmds(p[1]))
<1>1. typed \in Sessions /\ p[1] \in 1..Len(typed) /\ Copies(p[1]) /\ p[2] <= Len(Cmds(p[1]))
  BY DEF Types, InCopy
<1>2. /\ p[1] \in Nat /\ p[2] \in Nat /\ p[2] >= 1 /\ p[1] \in 1..MaxLines
      /\ p[2] > 1 => Left(p) \in Procs
      /\ Left(p)[1] = p[1] /\ Left(p)[2] = p[2] - 1 /\ Right(p)[1] = p[1] /\ Right(p)[2] = p[2] + 1
  BY <1>1, ProcIs
<1>3. Len(Cmds(p[1])) \in 0..MaxCmds /\ MaxCmds \in Nat
  BY <1>1, LinesIs
<1>4. /\ Std(p) = IF p[2] = Len(Cmds(p[1])) THEN Tty ELSE p
      /\ (p = Last(p[1])) <=> (p[2] = Len(Cmds(p[1])))
  BY <1>1, PlaceIs
<1>5. /\ p[2] = 1 => Cmd(p) \in {"source", "missing"}
      /\ p[2] > 1 => Cmd(p) = "filter"
  BY <1>1, <1>2, <1>3 DEF Copies, Cmd
<1>6. p[2] > 1 => InCopy(Left(p))
  BY <1>1, <1>2, <1>3 DEF InCopy
<1>7. ASSUME p[2] < Len(Cmds(p[1])) PROVE Right(p) \in Procs /\ InCopy(Right(p)) /\ Right(p)[2] > 1
  <2>1. p[2] + 1 \in 1..MaxCmds /\ p[2] + 1 <= Len(Cmds(p[1])) /\ p[2] + 1 > 1
    BY <1>2, <1>3, <1>7
  <2> QED
    BY <1>1, <1>2, <2>1 DEF Right, Procs, InCopy
<1> QED
  BY <1>1, <1>2, <1>3, <1>4, <1>5, <1>6, <1>7

(* A step that does not touch the books of p.                                *)
Same(p) ==
    /\ left'[p] = left[p] /\ data'[p] = data[p]
    /\ pc'[p] \in Running <=> pc[p] \in Running
    /\ pc'[p] \in Dead <=> pc[p] \in Dead

LEMMA BooksFixed ==
    ASSUME Fixed
    PROVE  /\ \A p : /\ InCopy(p)' = InCopy(p) /\ Cmds(p[1])' = Cmds(p[1])
                     /\ Last(p[1])' = Last(p[1]) /\ Total(p[1])' = Total(p[1])
BY DEF Fixed, InCopy, Copies, Cmds, Last, Total

LEMMA BooksFrame ==
    ASSUME Types, BooksInv, Fixed, hurt' \subseteq {"stop"} => hurt \subseteq {"stop"},
           \A p \in Procs : InCopy(p) => Same(p) /\ (p = Last(p[1]) => shown'[p[1]] = shown[p[1]])
    PROVE  BooksInv'
<1> SUFFICES ASSUME hurt \subseteq {"stop"}
             PROVE  \E w \in [Procs -> Nat] : \A p \in Procs : InCopy(p)' => Books(w, p)'
  BY DEF BooksInv
<1>1. PICK w \in [Procs -> Nat] : \A p \in Procs : InCopy(p) => Books(w, p)
  BY DEF BooksInv
<1>2. ASSUME NEW p \in Procs, InCopy(p) PROVE Books(w, p)'
  <2>1. Same(p) /\ Books(w, p) /\ (p = Last(p[1]) => shown'[p[1]] = shown[p[1]])
    BY <1>1, <1>2
  <2>2. p[2] > 1 => Same(Left(p))
    BY <1>2, CopyIs
  <2>3. Last(p[1])' = Last(p[1]) /\ Total(p[1])' = Total(p[1])
    BY BooksFixed
  <2> QED
    BY <2>1, <2>2, <2>3 DEF Books, Same
<1> QED
  BY <1>1, <1>2, BooksFixed

(* Who is not in such a pipeline does not matter to it.                      *)
LEMMA OtherLine ==
    ASSUME Types, TreeInv, NEW p \in Procs, pc[p] # "none", ~InCopy(p), NEW q \in Procs, InCopy(q)
    PROVE  q[1] # p[1]
<1>1. p[1] \in 1..ln /\ p[2] <= Len(Cmds(p[1])) /\ ln \in 0..Len(typed) /\ Len(typed) \in Nat
  BY LinesIs DEF TreeInv, Types
<1> QED
  BY <1>1 DEF InCopy

LEMMA ShellBooks ==
    ASSUME Types, ControlInv, BooksInv, Shell \/ ForkFails
    PROVE  BooksInv'
<1>0. Fixed /\ typed \in Sessions /\ Len(typed) \in Nat /\ ln \in 0..Len(typed) /\ pc \in [Procs -> PcSet]
      /\ shown \in [1..MaxLines -> Nat] /\ MaxLines \in Nat /\ Len(typed) <= MaxLines
  BY NextFixed, LinesIs DEF Types, Next, System
<1>1. UNCHANGED <<data, left>> /\ (hurt' \subseteq {"stop"} => hurt \subseteq {"stop"})
  BY DEF Shell, ForkFails, ReadLine, EndOfInput, run_command, Wait, WaitFails, Fault, fvars
<1>2. ASSUME NEW p \in Procs PROVE (pc'[p] \in Running <=> pc[p] \in Running) /\ (pc'[p] \in Dead <=> pc[p] \in Dead)
  <2>1. CASE UNCHANGED pc
    BY <2>1
  <2>2. CASE Wait
    BY <1>0, <2>2 DEF Wait, ProcAt, Running, Dead
  <2>3. CASE run_command
    <3>1. Last(ln) \in Procs /\ Last(ln)[1] = ln /\ ln \in 1..Len(typed) /\ spc = "fork"
      BY <1>0, <2>3, LastIs DEF run_command, ShellAt, ControlInv, LineInv
    <3>2. pc[Last(ln)] = "none"
      BY <1>0, <3>1 DEF ControlInv, TreeInv
    <3>3. pc' = [pc EXCEPT ![Last(ln)] = "loop"]
      BY <2>3 DEF run_command
    <3> QED
      BY <1>0, <3>1, <3>2, <3>3 DEF Running, Dead
  <2> QED
    BY <2>1, <2>2, <2>3 DEF Shell, ForkFails, ReadLine, EndOfInput, WaitFails
<1>3. ASSUME NEW p \in Procs, InCopy(p) PROVE shown'[p[1]] = shown[p[1]]
  <2>1. CASE UNCHANGED shown
    BY <2>1
  <2>2. CASE ReadLine /\ ~UNCHANGED shown
    <3>1. Cmds(ln')[1] = "echo" /\ shown' = [shown EXCEPT ![ln'] = @ + 1]
      BY <1>0, <2>2 DEF ReadLine, do_builtin, bi_echo, bi_exit, Fixed, Cmds
    <3>2. p[1] # ln'
      BY <1>3, <3>1 DEF InCopy, Copies
    <3>3. p[1] \in 1..MaxLines
      BY <1>0, ProcIs
    <3> QED
      BY <1>0, <3>1, <3>2, <3>3
  <2> QED
    BY <2>1, <2>2 DEF Shell, ForkFails, EndOfInput, run_command, Wait, WaitFails
<1> QED
  BY <1>0, <1>1, <1>2, <1>3, BooksFrame DEF Same

(* So do processes that set up a pipeline, stop, or go on.                   *)
LEMMA SetupBooks ==
    ASSUME Types, ControlInv, BooksInv, NEW p \in Procs,
           \/ MakePipe(p) \/ PipeFails(p) \/ ForkLeft(p) \/ ForkLeftFails(p) \/ BecomeReader(p)
           \/ BecomeWriter(p) \/ LoopEnds(p) \/ Stop(p) \/ Continue(p)
    PROVE  BooksInv'
<1>0. Fixed /\ typed \in Sessions /\ pc \in [Procs -> PcSet]
  BY NextFixed DEF Types, Next, System, Process
<1>1. CASE PipeFails(p) \/ ForkLeftFails(p)
  <2>1. ~(hurt' \subseteq {"stop"})
    BY <1>1 DEF PipeFails, ForkLeftFails, Fault
  <2> QED
    BY <2>1 DEF BooksInv
<1>2. CASE ~(PipeFails(p) \/ ForkLeftFails(p))
  <2>1. UNCHANGED <<data, left, shown>> /\ (hurt' \subseteq {"stop"} => hurt \subseteq {"stop"})
    BY <1>2 DEF MakePipe, ForkLeft, BecomeReader, BecomeWriter, LoopEnds, Stop, Continue, Fault, fvars
  <2>2. ASSUME NEW q \in Procs
        PROVE  (pc'[q] \in Running <=> pc[q] \in Running) /\ (pc'[q] \in Dead <=> pc[q] \in Dead)
    <3>1. CASE ForkLeft(p)
      <4>1. pc[p] = "pipe" /\ p[2] > 1 /\ p[2] <= Len(Cmds(p[1])) /\ pc[Left(p)] = "none"
        BY <3>1 DEF ForkLeft, ControlInv, TreeInv, Unforked
      <4>2. Left(p) \in Procs
        BY <1>0, <4>1, ProcIs
      <4> QED
        BY <1>0, <3>1, <4>1, <4>2 DEF ForkLeft, Running, Dead
    <3>2. CASE MakePipe(p) \/ BecomeReader(p) \/ BecomeWriter(p) \/ LoopEnds(p) \/ Stop(p) \/ Continue(p)
      BY <1>0, <3>2 DEF MakePipe, BecomeReader, BecomeWriter, LoopEnds, Stop, Continue, ProcAt, Running, Dead
    <3> QED
      BY <1>2, <3>1, <3>2
  <2> QED
    BY <1>0, <2>1, <2>2, BooksFrame DEF Same
<1> QED
  BY <1>1, <1>2

(* A process of another line.                                                *)
LEMMA AlienBooks ==
    ASSUME Types, ControlInv, DescInv, BooksInv, NEW p \in Procs, ~InCopy(p),
           Exec(p) \/ Write(p) \/ Read(p) \/ Sigpipe(p) \/ Finish(p)
    PROVE  BooksInv'
<1>0. /\ Fixed /\ typed \in Sessions /\ pc \in [Procs -> PcSet] /\ left \in [Procs -> Nat]
      /\ data \in [Pipes -> 0..PipeCap] /\ shown \in [1..MaxLines -> Nat] /\ UNCHANGED hurt
  BY NextFixed DEF Types, Next, System, Process, Exec, Write, Read, Sigpipe, Finish, fvars
<1>1. pc[p] # "none" /\ (pc[p] \in Running \/ Exec(p)) /\ pc[p] \notin Dead
  BY DEF Exec, Write, Read, Sigpipe, Finish, Running, Dead
<1>2. ASSUME NEW q \in Procs, InCopy(q) PROVE Same(q) /\ shown'[q[1]] = shown[q[1]]
  <2>1. q[1] # p[1] /\ q # p
    BY <1>1, <1>2, OtherLine DEF ControlInv
  <2>2. pc'[q] = pc[q] /\ left'[q] = left[q]
    BY <1>0, <2>1 DEF Exec, Write, Read, Sigpipe, Finish, Exit
  <2>3. q[1] \in 1..MaxLines /\ q \in Pipes /\ Left(p)[1] = p[1]
    BY <1>0, ProcIs
  <2>4. shown'[q[1]] = shown[q[1]]
    BY <1>0, <2>1, <2>3 DEF Exec, Write, Put, Read, Sigpipe, Finish
  <2>5. data'[q] = data[q]
    <3>1. CASE UNCHANGED data
      BY <3>1
    <3>2. CASE Write(p) /\ ~UNCHANGED data
      <4>1. out[p] \in Pipes /\ data' = [data EXCEPT ![out[p]] = @ + 1]
        BY <3>2 DEF Write, Put
      <4>2. out[p] \in {Tty, File, p}
        BY <3>2 DEF Write, DescInv, Desc, Running, Std
      <4>3. out[p] = p
        BY <1>0, <4>1, <4>2, ProcIs DEF Pipes
      <4> QED
        BY <1>0, <2>1, <2>3, <4>1, <4>3
    <3>3. CASE Read(p)
      <4>1. in[p] \in Pipes /\ data' = [data EXCEPT ![in[p]] = @ - 1]
        BY <3>3 DEF Read, Reads
      <4>2. in[p] \in {Tty, File, Left(p)}
        BY <3>3 DEF Read, DescInv, Desc, Running, Src
      <4>3. in[p] = Left(p)
        BY <1>0, <4>1, <4>2, ProcIs DEF Pipes
      <4> QED
        BY <1>0, <2>1, <2>3, <4>1, <4>3
    <3> QED
      BY <3>1, <3>2, <3>3 DEF Exec, Sigpipe, Finish
  <2> QED
    BY <2>2, <2>4, <2>5 DEF Same
<1> QED
  BY <1>0, <1>2, BooksFrame

(* A process begins its command.                                             *)
LEMMA ExecBooks ==
    ASSUME Types, ControlInv, DescInv, BooksInv, NEW p \in Procs, InCopy(p), Exec(p)
    PROVE  BooksInv'
<1> SUFFICES ASSUME hurt \subseteq {"stop"}
             PROVE  \E w \in [Procs -> Nat] : \A q \in Procs : InCopy(q)' => Books(w, q)'
  BY DEF BooksInv, Exec, fvars
<1>0. /\ Fixed /\ pc \in [Procs -> PcSet] /\ left \in [Procs -> Nat] /\ prog \in {"part2", "hw2"}
      /\ UNCHANGED <<data, shown>> /\ pc[p] = "exec" /\ typed \in Sessions
  BY NextFixed DEF Types, Next, System, Process, Exec
<1>1. PICK w \in [Procs -> Nat] : \A q \in Procs : InCopy(q) => Books(w, q)
  BY DEF BooksInv
<1>2. left[p] = 0 /\ w[p] = 0 /\ Items \in Nat
  BY <1>0, <1>1, ShellsAssumption DEF Books, Running, Dead
<1>3. p[2] \in Nat /\ p[2] >= 1
  BY <1>0, ProcIs
<1>4. ASSUME NEW q \in Procs, InCopy(q), q # p PROVE Books(w, q)'
  <2>1. Books(w, q) /\ pc'[q] = pc[q] /\ left'[q] = left[q]
    BY <1>0, <1>1, <1>4 DEF Exec
  <2>2. q[2] > 1 /\ pc[Left(q)] \in Dead => pc'[Left(q)] \in Dead
    BY <1>0, <1>4, CopyIs DEF Exec, Dead
  <2>3. Last(q[1])' = Last(q[1]) /\ Total(q[1])' = Total(q[1])
    BY <1>0, BooksFixed
  <2> QED
    BY <1>0, <2>1, <2>2, <2>3 DEF Books
<1>5. Books(w, p)'
  <2>1. Books(w, p) /\ Last(p[1])' = Last(p[1]) /\ Total(p[1])' = Total(p[1]) /\ Cmd(p) = Cmds(p[1])[p[2]]
    BY <1>0, <1>1, BooksFixed DEF Cmd
  <2>2. CASE p[2] > 1
    <3>1. Cmd(p) = "filter"
      BY <2>2, CopyIs
    <3>2. pc'[p] = "run" /\ left'[p] = 0
      BY <1>0, <3>1 DEF Exec
    <3> QED
      BY <1>0, <1>2, <2>1, <2>2, <3>2 DEF Books, Running, Dead
  <2>3. CASE p[2] = 1 /\ Cmd(p) = "source"
    <3>1. pc'[p] = "run" /\ left'[p] = Items /\ Total(p[1]) = Items
      BY <1>0, <2>1, <2>3 DEF Exec, Total
    <3> QED
      BY <1>0, <1>2, <2>1, <2>3, <3>1 DEF Books, Running, Dead
  <2>4. CASE p[2] = 1 /\ Cmd(p) = "missing"
    <3>1. /\ pc'[p] = (IF prog = "hw2" THEN "zombie" ELSE "run") /\ left'[p] = 1
          /\ Total(p[1]) = IF prog = "part2" THEN 1 ELSE 0
      BY <1>0, <2>1, <2>4 DEF Exec, Total
    <3> QED
      BY <1>0, <1>2, <2>1, <2>4, <3>1 DEF Books, Running, Dead
  <2> QED
    BY <1>3, <2>2, <2>3, <2>4, CopyIs
<1> QED
  BY <1>0, <1>1, <1>4, <1>5, BooksFixed

(* It writes, to its own pipe, or to the terminal if it is the last.         *)
LEMMA WriteBooks ==
    ASSUME Types, ControlInv, DescInv, BooksInv, NEW p \in Procs, InCopy(p), Write(p)
    PROVE  BooksInv'
<1> SUFFICES ASSUME hurt \subseteq {"stop"}
             PROVE  \E w \in [Procs -> Nat] : \A q \in Procs : InCopy(q)' => Books(w, q)'
  BY DEF BooksInv, Write, fvars
<1>0. /\ Fixed /\ left \in [Procs -> Nat] /\ typed \in Sessions /\ UNCHANGED pc /\ pc[p] = "run"
      /\ data \in [Pipes -> 0..PipeCap] /\ shown \in [1..MaxLines -> Nat] /\ PipeCap \in Nat
  BY NextFixed, ShellsAssumption DEF Types, Next, System, Process, Write
<1>1. PICK w \in [Procs -> Nat] : \A q \in Procs : InCopy(q) => Books(w, q)
  BY DEF BooksInv
<1>2. left' = [left EXCEPT ![p] = @ - 1] /\ left[p] > 0
  BY DEF Write
<1>3. p[2] \in Nat /\ p[2] >= 1 /\ p \in Pipes /\ p[1] \in 1..MaxLines
  BY <1>0, ProcIs
<1>4. PICK v \in [Procs -> Nat] : v = [w EXCEPT ![p] = w[p] + 1]
  <2>1. [w EXCEPT ![p] = w[p] + 1] \in [Procs -> Nat]
    OBVIOUS
  <2> QED
    BY <2>1
<1>5. v[p] = w[p] + 1 /\ (\A q \in Procs \ {p} : v[q] = w[q]) /\ w[p] \in Nat
  BY <1>4
<1>6. IF p = Last(p[1]) THEN shown' = [shown EXCEPT ![p[1]] = @ + 1] /\ UNCHANGED data
                        ELSE data' = [data EXCEPT ![p] = @ + 1] /\ UNCHANGED shown
  <2>1. Cmd(p) # "tofile"
    BY <1>3, CopyIs
  <2>2. out[p] = IF p = Last(p[1]) THEN Tty ELSE p
    BY <1>0, <2>1 DEF DescInv, Desc, Running, Std
  <2>3. Tty # File /\ Tty \notin Pipes /\ p # Tty /\ p # File
    BY <1>0, ProcIs DEF Tty, File, Pipes
  <2> QED
    BY <2>2, <2>3 DEF Write, Put
<1>7. ASSUME NEW q \in Procs, InCopy(q) PROVE Books(v, q)'
  <2>1. Books(w, q) /\ Last(q[1])' = Last(q[1]) /\ Total(q[1])' = Total(q[1])
    BY <1>0, <1>1, <1>7, BooksFixed
  <2>2. q[1] \in 1..MaxLines /\ q \in Pipes /\ w[q] \in Nat /\ left[q] \in Nat /\ shown[q[1]] \in Nat
    BY <1>0, ProcIs
  <2>3. q[2] > 1 => /\ Left(q) \in Procs /\ Left(q) \in Pipes /\ Left(q) # q /\ w[Left(q)] \in Nat
                    /\ data[Left(q)] \in Nat
    BY <1>0, ProcIs
  <2>4. CASE q = p
    <3>1. p = Last(p[1]) => shown'[p[1]] = shown[p[1]] + 1
      BY <1>0, <1>3, <1>6
    <3>2. q[2] > 1 => data'[Left(q)] = data[Left(q)] /\ v[Left(q)] = w[Left(q)]
      BY <1>0, <1>5, <1>6, <2>3, <2>4
    <3>3. left'[p] = left[p] - 1
      BY <1>0, <1>2
    <3> QED
      BY <1>0, <1>2, <1>5, <2>1, <2>2, <2>3, <2>4, <3>1, <3>2, <3>3 DEF Books, Running, Dead
  <2>5. CASE q # p
    <3>1. left'[q] = left[q] /\ v[q] = w[q]
      BY <1>0, <1>2, <1>5, <2>5
    <3>2. q = Last(q[1]) => shown'[q[1]] = shown[q[1]]
      BY <1>0, <1>6, <2>2, <2>5
    <3>3. q[2] > 1 => v[Left(q)] = data'[Left(q)] + left[q] + w[q]
      <4>1. CASE q[2] > 1 /\ Left(q) = p
        <5>1. p # Last(p[1])
          <6>1. p[2] # Len(Cmds(p[1]))
            <7>1. q[1] = p[1] /\ p[2] = q[2] - 1 /\ q[2] \in Nat /\ Len(Cmds(q[1])) \in Nat
              BY <1>0, <1>7, <4>1, ProcIs, LinesIs DEF InCopy
            <7> QED
              BY <1>7, <7>1 DEF InCopy
          <6> QED
            BY <6>1, CopyIs
        <5>2. data'[p] = data[p] + 1
          BY <1>0, <1>3, <1>6, <5>1
        <5> QED
          BY <1>5, <2>1, <2>2, <2>3, <4>1, <5>2 DEF Books
      <4>2. CASE q[2] > 1 /\ Left(q) # p
        <5>1. data'[Left(q)] = data[Left(q)] /\ v[Left(q)] = w[Left(q)]
          BY <1>0, <1>5, <1>6, <2>3, <4>2
        <5> QED
          BY <2>1, <4>2, <5>1 DEF Books
      <4> QED
        BY <4>1, <4>2
    <3> QED
      BY <1>0, <2>1, <3>1, <3>2, <3>3 DEF Books
  <2> QED
    BY <2>4, <2>5
<1> QED
  BY <1>0, <1>7, BooksFixed

(* It reads, from the pipe of the one on its left.                           *)
LEMMA ReadBooks ==
    ASSUME Types, ControlInv, DescInv, BooksInv, NEW p \in Procs, InCopy(p), Read(p)
    PROVE  BooksInv'
<1> SUFFICES ASSUME hurt \subseteq {"stop"}
             PROVE  \E w \in [Procs -> Nat] : \A q \in Procs : InCopy(q)' => Books(w, q)'
  BY DEF BooksInv, Read, fvars
<1>0. /\ Fixed /\ left \in [Procs -> Nat] /\ typed \in Sessions /\ UNCHANGED <<pc, shown>> /\ pc[p] = "run"
      /\ data \in [Pipes -> 0..PipeCap] /\ PipeCap \in Nat
  BY NextFixed, ShellsAssumption DEF Types, Next, System, Process, Read
<1>1. PICK w \in [Procs -> Nat] : \A q \in Procs : InCopy(q) => Books(w, q)
  BY DEF BooksInv
<1>2. in[p] \in Pipes /\ Cmd(p) = "filter"
  BY DEF Read, Reads
<1>3. in[p] = Left(p) /\ p[2] > 1 /\ Left(p) \in Procs /\ Left(p) \in Pipes
  <2>1. in[p] = Src(p)
    BY <1>0, <1>2 DEF DescInv, Desc, Running
  <2>2. Tty \notin Pipes
    BY <1>0, ProcIs DEF Pipes
  <2> QED
    BY <1>0, <1>2, <2>1, <2>2, ProcIs DEF Src
<1>4. /\ data' = [data EXCEPT ![Left(p)] = @ - 1] /\ data[Left(p)] > 0
      /\ left' = [left EXCEPT ![p] = 1] /\ left[p] = 0
  BY <1>3 DEF Read
<1>5. ASSUME NEW q \in Procs, InCopy(q) PROVE Books(w, q)'
  <2>1. Books(w, q) /\ Last(q[1])' = Last(q[1]) /\ Total(q[1])' = Total(q[1])
    BY <1>0, <1>1, <1>5, BooksFixed
  <2>2. q[2] > 1 => Left(q) \in Procs /\ Left(q) \in Pipes
    BY <1>0, ProcIs
  <2>3. CASE q = p
    <3>1. data'[Left(p)] = data[Left(p)] - 1 /\ left'[p] = 1 /\ data[Left(p)] \in Nat /\ w[p] \in Nat
      BY <1>0, <1>3, <1>4
    <3>2. w[Left(p)] = data[Left(p)] + left[p] + w[p]
      BY <1>3, <2>1, <2>3 DEF Books
    <3>3. w[Left(p)] = data'[Left(p)] + left'[p] + w[p]
      BY <1>4, <3>1, <3>2
    <3> QED
      BY <1>0, <1>3, <2>1, <2>3, <3>3 DEF Books, Running, Dead
  <2>4. CASE q # p
    <3>1. left'[q] = left[q] /\ (q[2] > 1 => data'[Left(q)] = data[Left(q)])
      BY <1>0, <1>3, <1>4, <2>2, <2>4, Neighbours
    <3> QED
      BY <1>0, <2>1, <3>1 DEF Books
  <2> QED
    BY <2>3, <2>4
<1> QED
  BY <1>0, <1>1, <1>5, BooksFixed

(* It ends only when all is written, and there is no more to come.           *)
LEMMA FinishBooks ==
    ASSUME Types, ControlInv, DescInv, BooksInv, NEW p \in Procs, InCopy(p), Finish(p)
    PROVE  BooksInv'
<1> SUFFICES ASSUME hurt \subseteq {"stop"}
             PROVE  \E w \in [Procs -> Nat] : \A q \in Procs : InCopy(q)' => Books(w, q)'
  BY DEF BooksInv, Finish, fvars
<1>0. /\ Fixed /\ pc \in [Procs -> PcSet] /\ typed \in Sessions /\ UNCHANGED <<left, data, shown>>
      /\ pc[p] = "run" /\ left[p] = 0 /\ pc' = [pc EXCEPT ![p] = "zombie"]
      /\ Reads(p) => data[in[p]] = 0 /\ Writers(in[p]) = {}
  BY NextFixed DEF Types, Next, System, Process, Finish, Exit
<1>1. PICK w \in [Procs -> Nat] : \A q \in Procs : InCopy(q) => Books(w, q)
  BY DEF BooksInv
<1>2. p[2] \in Nat /\ p[2] >= 1 /\ w[p] \in Nat
  BY <1>0, ProcIs
<1>3. w[p] = Total(p[1]) /\ (p[2] > 1 => pc[Left(p)] \in Dead)
  <2>1. Books(w, p)
    BY <1>1
  <2>2. CASE p[2] = 1
    BY <1>0, <1>2, <2>1, <2>2 DEF Books, Running
  <2>3. CASE p[2] > 1
    <3> DEFINE q == Left(p)
    <3>1. /\ Cmd(p) = "filter" /\ q \in Procs /\ InCopy(q) /\ q \in Pipes /\ q[2] = p[2] - 1 /\ q[1] = p[1]
          /\ Right(q) = p
      BY <1>0, <2>3, CopyIs, ProcIs DEF Pipes
    <3> HIDE DEF q
    <3>2. in[p] = q
      BY <1>0, <2>3, <3>1 DEF DescInv, Desc, Running, Src, q
    <3>3. data[q] = 0 /\ Writers(q) = {}
      BY <1>0, <3>1, <3>2 DEF Reads
    <3>4. pc[q] # "none"
      BY <1>0, <2>3 DEF ControlInv, ForkInv, Unforked, q
    <3>5. pc[q] \in Dead
      <4> SUFFICES ASSUME pc[q] \notin Dead PROVE FALSE
        OBVIOUS
      <4>1. Std(q) = q
        <5>1. p[2] <= Len(Cmds(p[1])) /\ Len(Cmds(p[1])) \in Nat
          BY <1>0, LinesIs DEF InCopy
        <5>2. q[2] # Len(Cmds(q[1]))
          BY <1>2, <3>1, <5>1
        <5> QED
          BY <3>1, <5>2, CopyIs
      <4>2. Alive(q)
        BY <3>4 DEF Alive, Dead
      <4>3. Cmd(q) # "tofile"
        <5>1. q[2] \in Nat /\ q[2] >= 1
          BY <1>0, <3>1, ProcIs
        <5> QED
          BY <3>1, <5>1, CopyIs
      <4>4. out[q] = q \/ <<q, "w">> \in ends[q]
        BY <1>0, <3>1, <3>4, <4>1, <4>3 DEF DescInv, Desc, Running, Dead, PcSet, Both
      <4> QED
        BY <3>1, <3>3, <4>2, <4>4 DEF Writers
    <3>6. w[q] = Total(q[1])
      BY <1>1, <3>1, <3>5 DEF Books
    <3>7. w[q] = data[q] + left[p] + w[p]
      BY <2>1, <2>3 DEF Books, q
    <3> QED
      BY <1>0, <1>2, <3>1, <3>3, <3>5, <3>6, <3>7 DEF q
  <2> QED
    BY <1>2, <2>2, <2>3
<1>4. ASSUME NEW q \in Procs, InCopy(q) PROVE Books(w, q)'
  <2>1. Books(w, q) /\ Last(q[1])' = Last(q[1]) /\ Total(q[1])' = Total(q[1])
    BY <1>0, <1>1, <1>4, BooksFixed
  <2>2. q[2] > 1 => Left(q) \in Procs /\ (pc[Left(q)] \in Dead => pc'[Left(q)] \in Dead)
    BY <1>0, <1>4, CopyIs DEF Dead
  <2>3. CASE q = p
    BY <1>0, <1>3, <2>1, <2>2, <2>3 DEF Books, Running, Dead
  <2>4. CASE q # p
    <3>1. pc'[q] = pc[q]
      BY <1>0, <2>4
    <3> QED
      BY <1>0, <2>1, <2>2, <3>1 DEF Books
  <2> QED
    BY <2>3, <2>4
<1> QED
  BY <1>0, <1>1, <1>4, BooksFixed

(* SIGPIPE does not strike: the one on the right waits for the end.          *)
LEMMA SigpipeBooks ==
    ASSUME Types, ControlInv, DescInv, BooksInv, NEW p \in Procs, InCopy(p), Sigpipe(p)
    PROVE  BooksInv'
<1> SUFFICES ASSUME hurt \subseteq {"stop"} PROVE FALSE
  BY DEF BooksInv, Sigpipe, fvars
<1>0. /\ pc \in [Procs -> PcSet] /\ typed \in Sessions /\ pc[p] = "run"
      /\ out[p] \in Pipes /\ Readers(out[p]) = {}
  BY DEF Types, Sigpipe
<1>1. PICK w \in [Procs -> Nat] : \A q \in Procs : InCopy(q) => Books(w, q)
  BY DEF BooksInv
<1>2. p \in Pipes /\ Tty \notin Pipes /\ File \notin Pipes
  BY <1>0, ProcIs DEF Pipes
<1>3. out[p] = p /\ p[2] # Len(Cmds(p[1]))
  BY <1>0, <1>2, CopyIs DEF DescInv, Desc, Running
<1> DEFINE q == Right(p)
<1>4. q \in Procs /\ InCopy(q) /\ q[2] > 1 /\ Left(q) = p /\ q[2] <= Len(Cmds(q[1]))
  BY <1>0, <1>3, CopyIs, ProcIs DEF InCopy
<1>5. Cmd(q) = "filter"
  BY <1>4, CopyIs
<1> HIDE DEF q
<1>6. pc[q] \notin Unforked
  BY <1>0, <1>4 DEF ControlInv, TreeInv
<1>7. pc[q] \in Dead
  <2> SUFFICES ASSUME pc[q] \notin Dead PROVE FALSE
    OBVIOUS
  <2>1. in[q] = p \/ <<p, "r">> \in ends[q]
    BY <1>0, <1>4, <1>5, <1>6 DEF DescInv, Desc, Running, Dead, PcSet, Both, Src, Unforked
  <2>2. Alive(q)
    BY <1>6 DEF Alive, Dead, Unforked
  <2> QED
    BY <1>0, <1>3, <1>4, <2>1, <2>2 DEF Readers
<1>8. pc[p] \in Dead
  BY <1>1, <1>4, <1>7 DEF Books
<1> QED
  BY <1>0, <1>8 DEF Dead

(***************************************************************************)
(* The theorems.                                                           *)
(***************************************************************************)
LEMMA StutterStep == IInv /\ UNCHANGED vars => IInv'
<1> SUFFICES ASSUME IInv, UNCHANGED vars PROVE IInv'
  OBVIOUS
<1>1. UNCHANGED <<prog, typed, ln, spc, pid, pc, in, out, ends, data, left, shown, hurt, nfaults>>
  BY DEF vars, shvars, iovars, fvars
<1>2. Types' /\ TreeInv' /\ WaitInv' /\ LineInv' /\ ForkInv'
  BY <1>1 DEF IInv, Types, TreeInv, WaitInv, LineInv, ForkInv, Cmds, Last
<1>3. DescInv'
  BY <1>1, DescKeeps DEF IInv, DescInv
<1>4. BooksInv'
  BY <1>1, BooksFrame DEF IInv, Fixed, Same
<1> QED
  BY <1>2, <1>3, <1>4 DEF IInv

LEMMA NextStep == IInv /\ Next => IInv'
<1> SUFFICES ASSUME IInv, Next PROVE IInv'
  OBVIOUS
<1>1. Types /\ ControlInv /\ TreeInv /\ LineInv /\ DescInv /\ BooksInv
  BY DEF IInv, ControlInv
<1>2. DescInv'
  BY <1>1, DescStep
<1>3. Types' /\ ControlInv' /\ BooksInv'
  <2>1. CASE Shell \/ ForkFails
    BY <1>1, <2>1, ShellTypes, ShellControl, ShellBooks
  <2>2. ASSUME NEW p \in Procs,
               Process(p) \/ PipeFails(p) \/ ForkLeftFails(p) \/ Stop(p) \/ Continue(p)
        PROVE  Types' /\ ControlInv' /\ BooksInv'
    <3>1. Types'
      BY <1>1, <2>2, ProcessTypes
    <3>2. ControlInv'
      BY <1>1, <2>2, ProcessControl, ForkControl
    <3>3. BooksInv'
      <4>1. CASE Exec(p) \/ Write(p) \/ Read(p) \/ Sigpipe(p) \/ Finish(p)
        BY <1>1, <4>1, AlienBooks, ExecBooks, WriteBooks, ReadBooks, SigpipeBooks, FinishBooks
      <4>2. CASE ~(Exec(p) \/ Write(p) \/ Read(p) \/ Sigpipe(p) \/ Finish(p))
        BY <1>1, <2>2, <4>2, SetupBooks DEF Process
      <4> QED
        BY <4>1, <4>2
    <3> QED
      BY <3>1, <3>2, <3>3
  <2> QED
    BY <2>1, <2>2 DEF Next, System
<1> QED
  BY <1>2, <1>3 DEF IInv, ControlInv

LEMMA Invariance == Spec => []IInv
<1>1. Init => IInv
  BY InitIInv
<1>2. IInv /\ [Next]_vars => IInv'
  BY StutterStep, NextStep
<1> QED
  BY <1>1, <1>2, PTL DEF Spec

(* Every variable keeps its type; a pipe holds what fits into it, and only a *)
(* process that sets up a pipeline has other descriptors than 0 and 1.       *)
THEOREM TypeCorrect == Spec => []TypeOK
<1>1. IInv => TypeOK
  <2>1. IInv => \A p \in Procs : pc[p] \in {"exec", "run", "stopped"} => ends[p] = {}
    BY DEF IInv, DescInv, Desc, Running
  <2> QED
    BY <2>1 DEF IInv, Types, TypeOK, PcSet
<1> QED
  BY <1>1, Invariance, PTL

(* A pipe has its two neighbours and nobody else: no process of hw4/part2    *)
(* keeps an end that is not its own once it is its command.                  *)
THEOREM NoEndIsKept == Spec => []Plumbing
<1>1. IInv => Plumbing
  <2> SUFFICES ASSUME IInv, NEW p \in Procs, pc[p] \in Running, p[2] > 1
               PROVE  /\ Readers(Left(p)) \subseteq {p} \cup Forked(Left(p))
                      /\ Writers(Left(p)) \subseteq
                            {Left(p)} \cup (IF Left(p)[2] > 1 THEN Forked(Left(Left(p))) ELSE {})
    BY DEF Plumbing, Running
  <2> DEFINE q == Left(p)
  <2>1. typed \in Sessions /\ pc \in [Procs -> PcSet]
    BY DEF IInv, Types
  <2>2. q \in Procs /\ Right(q) = p
    BY <2>1, ProcIs
  <2> HIDE DEF q
  <2>3. \A x \in Procs : /\ Left(x) = q => x = p
                         /\ Right(x) = q => x = Left(q) /\ q[2] > 1
                         /\ q # Tty /\ q # File
    <3> SUFFICES ASSUME NEW x \in Procs
                 PROVE  /\ Left(x) = q => x = p
                        /\ Right(x) = q => x = Left(q) /\ q[2] > 1
                        /\ q # Tty /\ q # File
      OBVIOUS
    <3>1. Left(x) = q => x = p
      BY <2>1, <2>2, Neighbours
    <3>2. x[2] \in Nat /\ x[2] >= 1 /\ Right(x)[2] = x[2] + 1 /\ Left(Right(x)) = x
      BY <2>1, ProcIs
    <3>3. q # Tty /\ q # File
      BY <2>1, <2>2, ProcIs
    <3> QED
      BY <3>1, <3>2, <3>3
  <2>4. \A x \in Procs : Alive(x) => Desc(x) /\ pc[x] \in {"loop", "pipe", "reader", "writer", "exec"} \cup Running
    BY <2>1 DEF IInv, DescInv, Alive, PcSet, Running
  <2>5. Tty # File /\ \A x : <<x, "r">> # <<x, "w">> /\ \A y : (<<x, "r">> = <<y, "r">> => x = y) /\ (<<x, "w">> = <<y, "w">> => x = y)
    BY DEF Tty, File
  <2>6. ASSUME NEW x \in Readers(q) PROVE x \in {p} \cup Forked(q)
    <3>1. x \in Procs /\ Alive(x) /\ (in[x] = q \/ <<q, "r">> \in ends[x])
      BY DEF Readers
    <3>2. CASE pc[x] \in {"pipe", "reader"}
      <4>1. Left(x) = q
        BY <2>3, <2>4, <3>1, <3>2 DEF Desc, Both
      <4> QED
        BY <2>3, <3>1, <3>2, <4>1 DEF Running
    <3>3. CASE pc[x] = "writer"
      <4>1. x = q
        BY <2>3, <2>4, <3>1, <3>3 DEF Desc, Both
      <4> QED
        BY <3>3, <4>1 DEF Forked
    <3>4. CASE pc[x] \in {"loop", "exec"} \cup Running
      <4>1. Left(x) = q
        BY <2>3, <2>4, <3>1, <3>4 DEF Desc, Running, Src
      <4> QED
        BY <2>3, <3>1, <4>1
    <3> QED
      BY <2>4, <3>1, <3>2, <3>3, <3>4
  <2>7. ASSUME NEW x \in Writers(q) PROVE x \in {q} \cup (IF q[2] > 1 THEN Forked(Left(q)) ELSE {})
    <3>1. x \in Procs /\ Alive(x) /\ (out[x] = q \/ <<q, "w">> \in ends[x])
      BY DEF Writers
    <3>2. CASE pc[x] \in {"pipe", "reader"}
      <4>1. x = q \/ Left(x) = q
        BY <2>3, <2>4, <3>1, <3>2 DEF Desc, Both, Std
      <4> QED
        BY <2>3, <3>1, <3>2, <4>1 DEF Running
    <3>3. CASE pc[x] = "writer"
      <4>1. x = q \/ Right(x) = q
        BY <2>3, <2>4, <3>1, <3>3 DEF Desc, Both, Std
      <4> QED
        BY <2>3, <3>1, <3>3, <4>1 DEF Forked
    <3>4. CASE pc[x] \in {"loop", "exec"} \cup Running
      BY <2>3, <2>4, <3>1, <3>4 DEF Desc, Running, Std
    <3> QED
      BY <2>4, <3>1, <3>2, <3>3, <3>4
  <2> QED
    BY <2>6, <2>7 DEF q
<1> QED
  BY <1>1, Invariance, PTL

(* The prompt comes back when the last command of a line has ended and was   *)
(* reaped, and no sooner.                                                    *)
THEOREM PromptWaits == Spec => []PromptAfterCommand
<1>1. IInv => PromptAfterCommand
  BY DEF IInv, WaitInv, PromptAfterCommand, Alive
<1> QED
  BY <1>1, Invariance, PTL

(* The whole of a pipeline that copies gets to the terminal before the last  *)
(* of its commands ends, which is all that the shell waits for.              *)
THEOREM AllDelivered == Spec => []Delivered
<1>1. IInv => Delivered
  <2> SUFFICES ASSUME IInv, NEW j \in 1..ln, Copies(j), pc[Last(j)] \in Dead, hurt \subseteq {"stop"}
               PROVE  shown[j] = Total(j)
    BY DEF Delivered, Dead
  <2>0. typed \in Sessions /\ ln \in 0..Len(typed)
    BY DEF IInv, Types
  <2>1. typed \in Sessions /\ j \in 1..Len(typed) /\ Len(typed) \in Nat
    BY <2>0, LinesIs
  <2>2. Last(j) \in Procs /\ Last(j)[1] = j /\ Last(j)[2] = Len(Cmds(j)) /\ Len(Cmds(j)) \in Nat
    BY <2>1, LastIs, LinesIs DEF Copies
  <2>3. InCopy(Last(j))
    BY <2>1, <2>2 DEF InCopy
  <2>4. PICK w \in [Procs -> Nat] : Books(w, Last(j))
    BY <2>2, <2>3 DEF IInv, BooksInv
  <2> QED
    BY <2>2, <2>4 DEF Books
<1> QED
  BY <1>1, Invariance, PTL
=============================================================================
