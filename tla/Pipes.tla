------------------------------- MODULE Pipes --------------------------------
(***************************************************************************)
(* hw5: two programs that talk with children over pipes.                   *)
(*                                                                         *)
(* part 1, "toupper": a child answers each block of the parent's input in  *)
(* capitals.  Pipe 1 goes to the child, pipe 2 back.                       *)
(*                                                                         *)
(* part 2, "popen": my_popen() and my_pclose(), and a program that has     *)
(* several streams open at a time, writes, reads and closes them in any    *)
(* order; driver.c is such a program.  Stream s, its pipe and its child    *)
(* have one number.  The commands are external: one that reads to the end  *)
(* or writes Items items, by the mode of its stream, and one that ends at  *)
(* once.                                                                   *)
(*                                                                         *)
(* An item stands for a byte.  The n-th one is n, in capitals -n, and 0 if *)
(* it is none at all.  Process 0 is the program itself.                    *)
(***************************************************************************)
EXTENDS Integers, Sequences, FiniteSets

CONSTANTS
    MaxStreams,     \* bound: calls of my_popen()
    Items,          \* bound: items of the input, and of what a command gets or gives
    BlockSizes,     \* sizes a page may have, which is the BUF_SIZE of part 1
    PipeBuf,        \* PIPE_BUF: a write() of so many items is not torn
    PipeCap,        \* items that a pipe holds
    StdioBuf,       \* items that a stream buffers
    Faults,         \* the kinds of fault that may strike
    MaxFaults       \* bound: how many strike

FaultKinds == {"fork_error", "read_error", "kill_child", "eintr"}

ASSUME PipesAssumption ==
    /\ MaxStreams \in Nat \ {0, 1} /\ Items \in Nat
    /\ BlockSizes \subseteq Nat \ {0}
    /\ PipeBuf \in Nat \ {0} /\ PipeCap \in Nat /\ PipeBuf <= PipeCap
    /\ StdioBuf \in 1..PipeBuf
    /\ Faults \subseteq FaultKinds /\ MaxFaults \in Nat

VARIABLES
    prog,       \* "toupper" or "popen"
    page,       \* the size of a page
    pc,         \* where each process is
    rd, wr,     \* who has the two ends of each pipe open
    data,       \* what is in each pipe
    got,        \* items read: part 1, of the input; part 2, by each command
    buf,        \* part 1: what each side has still to write of its block
    len,        \* part 1: the size of that block
    out,        \* items printed: part 1, by the parent; part 2, of each stream
    mode,       \* part 2: the mode of each stream and its command
    pid,        \* the map from streams to children
    put,        \* items written to each stream
    fbuf,       \* what is in the buffer of each stream
    buf2,       \* the page that fread() fills, and how much of it is filled
    copy,       \* what a child has in its copies of the streams it is to drop
    cur,        \* the stream that is opened or closed, and the pid waited for
    status,     \* whose status my_pclose() has returned
    copied,     \* streams that a child was started by while their buffers held something
    hurt, nfaults

tvars == <<buf, len>>
pvars == <<mode, pid, put, fbuf, buf2, copy, cur, status, copied>>
evars == <<rd, wr>>
fvars == <<hurt, nfaults>>
vars  == <<prog, page, pc, evars, data, got, out, tvars, pvars, fvars>>

Streams  == 1..MaxStreams
Procs    == 0..MaxStreams
Error    == -1
NoStream == 0
Closed   == <<Error>>        \* no copy of a stream

Init ==
    /\ prog \in {"toupper", "popen"}
    /\ page \in BlockSizes
    /\ pc = [p \in Procs |-> IF p > 0 THEN "none" ELSE IF prog = "toupper" THEN "fork" ELSE "user"]
    /\ rd = [q \in Streams |-> {}] /\ wr = [q \in Streams |-> {}]
    /\ data = [q \in Streams |-> <<>>]
    /\ got = [p \in Procs |-> <<>>] /\ out = [p \in Procs |-> <<>>]
    /\ buf = [p \in Procs |-> <<>>] /\ len = [p \in Procs |-> 0]
    /\ mode = [s \in Streams |-> <<"none", "none">>]
    /\ pid = [s \in Streams |-> NoStream]
    /\ put = [s \in Streams |-> 0]
    /\ fbuf = [s \in Streams |-> <<>>]
    /\ buf2 = [s \in Streams |-> <<[k \in 1..page |-> 0], 0>>]
    /\ copy = [s \in Streams |-> [q \in Streams |-> Closed]]
    /\ cur = <<NoStream, NoStream>>
    /\ status = [s \in Streams |-> NoStream] /\ copied = {}
    /\ hurt = {} /\ nfaults = 0

Fault(k) ==
    /\ k \in Faults
    /\ nfaults < MaxFaults
    /\ nfaults' = nfaults + 1
    /\ hurt' = hurt \cup {k}

Goto(p, from, to) == pc[p] = from /\ pc' = [pc EXCEPT ![p] = to]

(* p closes the given ends; at its end, all it has. *)
Close(p, reads, writes) ==
    /\ rd' = [q \in Streams |-> IF q \in reads THEN rd[q] \ {p} ELSE rd[q]]
    /\ wr' = [q \in Streams |-> IF q \in writes THEN wr[q] \ {p} ELSE wr[q]]

End(p) == pc' = [pc EXCEPT ![p] = "zombie"] /\ Close(p, Streams, Streams)

(* The first k items of s, and the rest. *)
Take(s, k) == SubSeq(s, 1, k)
Rest(s, k) == SubSeq(s, k + 1, Len(s))

Room(q) == PipeCap - Len(data[q])

(***************************************************************************)
(* Part 1.                                                                 *)
(***************************************************************************)
main ==
    /\ pc[0] = "fork"
    /\ pc' = [pc EXCEPT ![0] = "close", ![1] = "close"]
    /\ rd' = [rd EXCEPT ![1] = {0, 1}, ![2] = {0, 1}]
    /\ wr' = [wr EXCEPT ![1] = {0, 1}, ![2] = {0, 1}]
    /\ UNCHANGED <<prog, page, data, got, out, tvars, pvars, fvars>>

(* -1 is not 0: the parent goes on, alone. *)
MainForkFails ==
    /\ Fault("fork_error")
    /\ Goto(0, "fork", "close")
    /\ rd' = [rd EXCEPT ![1] = {0}, ![2] = {0}]
    /\ wr' = [wr EXCEPT ![1] = {0}, ![2] = {0}]
    /\ UNCHANGED <<prog, page, data, got, out, tvars, pvars>>

(* Mutant: the child keeps the end that its parent writes to. *)
Mut_CloseEnds(p) ==
    /\ prog = "toupper"
    /\ Goto(p, "close", "read")
    /\ IF p = 0 THEN Close(p, {1}, {2}) ELSE Close(p, {2}, {})
    /\ UNCHANGED <<prog, page, data, got, out, tvars, pvars, fvars>>

(* Either side closes the ends that are the other's. *)
CloseEnds(p) ==
    /\ prog = "toupper"
    /\ Goto(p, "close", "read")
    /\ IF p = 0 THEN Close(p, {1}, {2}) ELSE Close(p, {2}, {1})
    /\ UNCHANGED <<prog, page, data, got, out, tvars, pvars, fvars>>

(* A block of the input, of any size that fits; none at its end. *)
ReadInput ==
    /\ prog = "toupper"
    /\ IF Len(got[0]) = Items
       THEN pc[0] = "read" /\ End(0) /\ UNCHANGED <<got, tvars>>
       ELSE \E k \in 1..page :
            /\ Len(got[0]) + k <= Items
            /\ Goto(0, "read", "write")
            /\ got' = [got EXCEPT ![0] = @ \o [i \in 1..k |-> Len(got[0]) + i]]
            /\ buf' = [buf EXCEPT ![0] = [i \in 1..k |-> Len(got[0]) + i]]
            /\ len' = [len EXCEPT ![0] = k]
            /\ UNCHANGED evars
    /\ UNCHANGED <<prog, page, data, out, pvars, fvars>>

(* A length of -1 is written, too, which write() refuses. *)
ReadInputFails ==
    /\ prog = "toupper" /\ pc[0] = "read"
    /\ Fault("read_error")
    /\ End(0)
    /\ UNCHANGED <<prog, page, data, got, out, tvars, pvars>>

(* Mutant: a block is written in pieces, whatever its size. *)
Mut_Write(p, q, to) ==
    /\ prog = "toupper" /\ pc[p] = "write"
    /\ IF rd[q] = {}
       THEN End(p) /\ UNCHANGED <<data, buf>>
       ELSE \E k \in 1..Len(buf[p]) :
            /\ k <= Room(q)
            /\ data' = [data EXCEPT ![q] = @ \o Take(buf[p], k)]
            /\ buf' = [buf EXCEPT ![p] = Rest(@, k)]
            /\ Goto(p, "write", IF k = Len(buf[p]) THEN to ELSE "write")
            /\ UNCHANGED evars
    /\ UNCHANGED <<prog, page, got, out, len, pvars, fvars>>

(* write(): as a whole, or, for more than PIPE_BUF, in pieces that a reader *)
(* may take one by one.  Without a reader, SIGPIPE.                         *)
Write(p, q, to) ==
    /\ prog = "toupper" /\ pc[p] = "write"
    /\ IF rd[q] = {}
       THEN End(p) /\ UNCHANGED <<data, buf>>
       ELSE \E k \in 1..Len(buf[p]) :
            /\ k <= Room(q)
            /\ len[p] <= PipeBuf => k = len[p]
            /\ data' = [data EXCEPT ![q] = @ \o Take(buf[p], k)]
            /\ buf' = [buf EXCEPT ![p] = Rest(@, k)]
            /\ Goto(p, "write", IF k = Len(buf[p]) THEN to ELSE "write")
            /\ UNCHANGED evars
    /\ UNCHANGED <<prog, page, got, out, len, pvars, fvars>>

(* One read() for an answer, which is printed; an end of file is not told   *)
(* from an answer of no length.                                             *)
ReadAnswer ==
    LET k == IF Len(data[2]) < page THEN Len(data[2]) ELSE page IN
    /\ Goto(0, "answer", "read")
    /\ k > 0 \/ wr[2] = {}
    /\ data' = [data EXCEPT ![2] = Rest(@, k)]
    /\ out' = [out EXCEPT ![0] = @ \o Take(data[2], k)]
    /\ UNCHANGED <<prog, page, evars, got, tvars, pvars, fvars>>

(* The child reads what has come of a block, and turns it into capitals.    *)
child ==
    LET k == IF Len(data[1]) < page THEN Len(data[1]) ELSE page IN
    /\ prog = "toupper" /\ pc[1] = "read"
    /\ IF k > 0
       THEN /\ Goto(1, "read", "write")
            /\ data' = [data EXCEPT ![1] = Rest(@, k)]
            /\ buf' = [buf EXCEPT ![1] = [i \in 1..k |-> -data[1][i]]]
            /\ len' = [len EXCEPT ![1] = k]
            /\ UNCHANGED evars
       ELSE wr[1] = {} /\ End(1) /\ UNCHANGED <<data, tvars>>
    /\ UNCHANGED <<prog, page, got, out, pvars, fvars>>

ChildKilled ==
    /\ prog = "toupper" /\ pc[1] \notin {"none", "zombie"}
    /\ Fault("kill_child")
    /\ End(1)
    /\ UNCHANGED <<prog, page, data, got, out, tvars, pvars>>

(***************************************************************************)
(* Part 2: the program and its library.                                    *)
(***************************************************************************)
IsOpen(s)  == pid[s] # NoStream
Unused     == {s \in Streams : mode[s][1] = "none"}
UserCalls  == prog = "popen" /\ pc[0] = "user"

(* pipe() and fork(): the child has copies of all ends and buffers.         *)
my_popen(m) ==
    /\ UserCalls
    /\ \E s \in Unused :
        /\ \A q \in Unused : s <= q
        /\ pc' = [pc EXCEPT ![0] = "insert", ![s] = "drop"]
        /\ mode' = [mode EXCEPT ![s] = m]
        /\ cur' = <<s, s>>
        /\ rd' = [q \in Streams |-> IF q = s THEN {0, s} ELSE IF 0 \in rd[q] THEN rd[q] \cup {s} ELSE rd[q]]
        /\ wr' = [q \in Streams |-> IF q = s THEN {0, s} ELSE IF 0 \in wr[q] THEN wr[q] \cup {s} ELSE wr[q]]
        /\ copy' = [copy EXCEPT ![s] = [q \in Streams |-> IF IsOpen(q) THEN fbuf[q] ELSE Closed]]
    /\ copied' = copied \cup {q \in Streams : IsOpen(q) /\ fbuf[q] # <<>>}
    /\ UNCHANGED <<prog, page, data, got, out, tvars, pid, put, fbuf, buf2, status, fvars>>

(* A stream without a child, under the pid -1. *)
PopenForkFails(m) ==
    /\ UserCalls
    /\ Fault("fork_error")
    /\ \E s \in Unused :
        /\ \A q \in Unused : s <= q
        /\ pc' = [pc EXCEPT ![0] = "insert"]
        /\ mode' = [mode EXCEPT ![s] = m]
        /\ cur' = <<s, Error>>
        /\ rd' = [rd EXCEPT ![s] = {0}] /\ wr' = [wr EXCEPT ![s] = {0}]
    /\ UNCHANGED <<prog, page, data, got, out, tvars, pid, put, fbuf, buf2, copy, status, copied>>

(* The parent closes the child's end, and notes the pid. *)
insert ==
    LET s == cur[1]  ends(m) == IF mode[s][1] = m THEN {s} ELSE {} IN
    /\ Goto(0, "insert", "user")
    /\ Close(0, ends("w"), ends("r"))
    /\ pid' = [pid EXCEPT ![s] = cur[2]]
    /\ cur' = <<NoStream, NoStream>>
    /\ UNCHANGED <<prog, page, data, got, out, tvars, mode, put, fbuf, buf2, copy, status, copied, fvars>>

(* A buffer is written as a whole; without a reader, SIGPIPE. *)
Broken(q, items) == items # <<>> /\ rd[q] = {}
Flush(q, items)  == Len(items) <= Room(q) /\ data' = [data EXCEPT ![q] = @ \o items]

(* Mutant: the streams are forgotten, but not closed. *)
Mut_drop(s) ==
    /\ pc[s] = "drop"
    /\ \E q \in Streams :
        /\ copy[s][q] # Closed
        /\ copy' = [copy EXCEPT ![s][q] = Closed]
    /\ UNCHANGED <<prog, page, pc, evars, data, got, out, tvars, mode, pid, put, fbuf, buf2, cur, status, copied, fvars>>

(* The child closes its copies of the earlier streams, with fclose(), which *)
(* writes what is in a copy's buffer.                                       *)
drop(s) ==
    /\ pc[s] = "drop"
    /\ \E q \in Streams :
        /\ copy[s][q] # Closed
        /\ IF Broken(q, copy[s][q])
           THEN End(s) /\ UNCHANGED <<data, copy>>
           ELSE /\ Flush(q, copy[s][q])
                /\ copy' = [copy EXCEPT ![s][q] = Closed]
                /\ Close(s, {q}, {q})
                /\ UNCHANGED pc
    /\ UNCHANGED <<prog, page, got, out, tvars, mode, pid, put, fbuf, buf2, cur, status, copied, fvars>>

(* Its end becomes descriptor 0 or 1, and the command is run. *)
execl(s) ==
    /\ \A q \in Streams : copy[s][q] = Closed
    /\ Goto(s, "drop", "run")
    /\ IF mode[s][1] = "w" THEN Close(s, {}, {s}) ELSE Close(s, {s}, {})
    /\ UNCHANGED <<prog, page, data, got, out, tvars, pvars, fvars>>

(* A command reads all of its input, or writes all of its output.           *)
Command(s) ==
    /\ pc[s] = "run"
    /\ CASE mode[s] = <<"w", "all">> /\ data[s] # <<>> ->
             /\ got' = [got EXCEPT ![s] = @ \o data[s]]
             /\ data' = [data EXCEPT ![s] = <<>>]
             /\ UNCHANGED <<pc, evars, put>>
          [] mode[s] = <<"r", "all">> /\ put[s] < Items /\ rd[s] # {} ->
             /\ Flush(s, <<put[s] + 1>>)
             /\ put' = [put EXCEPT ![s] = @ + 1]
             /\ UNCHANGED <<pc, evars, got>>
          [] OTHER ->
             /\ mode[s] = <<"w", "all">> => wr[s] = {}
             /\ End(s)
             /\ UNCHANGED <<data, got, put>>
    /\ UNCHANGED <<prog, page, out, tvars, mode, pid, fbuf, buf2, copy, cur, status, copied, fvars>>

(* fwrite() of one item; a full buffer is written first. *)
Fwrite(s) ==
    /\ UserCalls /\ IsOpen(s) /\ mode[s][1] = "w" /\ put[s] < Items
    /\ IF Len(fbuf[s]) < StdioBuf
       THEN /\ fbuf' = [fbuf EXCEPT ![s] = Append(@, put[s] + 1)]
            /\ UNCHANGED <<pc, evars, data>>
       ELSE IF Broken(s, fbuf[s])
       THEN End(0) /\ UNCHANGED <<data, fbuf>>
       ELSE /\ Flush(s, fbuf[s])
            /\ fbuf' = [fbuf EXCEPT ![s] = <<put[s] + 1>>]
            /\ UNCHANGED <<pc, evars>>
    /\ put' = [put EXCEPT ![s] = @ + 1]
    /\ UNCHANGED <<prog, page, got, out, tvars, mode, pid, buf2, copy, cur, status, copied, fvars>>

(* fread() of a page, which driver.c prints as a whole, once it is full or  *)
(* the stream has ended: with what an earlier one has left in it.           *)
Fread(s) ==
    LET n    == buf2[s][2]
        k    == IF Len(data[s]) < page - n THEN Len(data[s]) ELSE page - n
        read == [i \in 1..page |-> IF i \in (n + 1)..(n + k) THEN data[s][i - n] ELSE buf2[s][1][i]]
    IN  /\ UserCalls /\ IsOpen(s) /\ mode[s][1] = "r"
        /\ k > 0 \/ (n > 0 /\ wr[s] = {})
        /\ data' = [data EXCEPT ![s] = Rest(@, k)]
        /\ IF n + k = page \/ k = 0
           THEN /\ out' = [out EXCEPT ![s] = @ \o read]
                /\ buf2' = [buf2 EXCEPT ![s] = <<read, 0>>]
           ELSE /\ buf2' = [buf2 EXCEPT ![s] = <<read, n + k>>]
                /\ UNCHANGED out
        /\ UNCHANGED <<prog, page, pc, evars, got, tvars, mode, pid, put, fbuf, copy, cur, status, copied, fvars>>

(* Mutant: the descriptor is closed, and the stream's buffer lost. *)
Mut_my_pclose(s) ==
    /\ UserCalls /\ IsOpen(s)
    /\ Goto(0, "user", "wait")
    /\ Close(0, {s}, {s})
    /\ pid' = [pid EXCEPT ![s] = NoStream]
    /\ cur' = <<s, pid[s]>>
    /\ fbuf' = [fbuf EXCEPT ![s] = <<>>]
    /\ UNCHANGED <<prog, page, data, got, out, tvars, mode, put, buf2, copy, status, copied, fvars>>

(* The pid is looked up, the stream closed and forgotten. *)
my_pclose(s) ==
    /\ UserCalls /\ IsOpen(s)
    /\ IF Broken(s, fbuf[s])
       THEN End(0) /\ UNCHANGED <<data, pid, cur>>
       ELSE /\ Flush(s, fbuf[s])
            /\ Goto(0, "user", "wait")
            /\ Close(0, {s}, {s})
            /\ pid' = [pid EXCEPT ![s] = NoStream]
            /\ cur' = <<s, pid[s]>>
    /\ fbuf' = [fbuf EXCEPT ![s] = <<>>]
    /\ UNCHANGED <<prog, page, got, out, tvars, mode, put, buf2, copy, status, copied, fvars>>

(* The children that waitpid(child) is about. *)
Awaited(child_) == {s \in Streams : pc[s] \notin {"none", "gone"} /\ child_ \in {s, Error}}

(* Mutant: it waits for any child. *)
Mut_waitpid ==
    \E s \in Awaited(Error) :
        /\ pc[0] = "wait" /\ pc[s] = "zombie"
        /\ pc' = [pc EXCEPT ![0] = "user", ![s] = "gone"]
        /\ status' = [status EXCEPT ![cur[1]] = s]
        /\ cur' = <<NoStream, NoStream>>
        /\ UNCHANGED <<prog, page, evars, data, got, out, tvars, mode, pid, put, fbuf, buf2, copy, copied, fvars>>

waitpid ==
    \E s \in Awaited(cur[2]) :
        /\ pc[0] = "wait" /\ pc[s] = "zombie"
        /\ pc' = [pc EXCEPT ![0] = "user", ![s] = "gone"]
        /\ status' = [status EXCEPT ![cur[1]] = s]
        /\ cur' = <<NoStream, NoStream>>
        /\ UNCHANGED <<prog, page, evars, data, got, out, tvars, mode, pid, put, fbuf, buf2, copy, copied, fvars>>

(* ECHILD: my_pclose() returns 0. *)
WaitFails ==
    /\ Awaited(cur[2]) = {}
    /\ Goto(0, "wait", "user")
    /\ cur' = <<NoStream, NoStream>>
    /\ UNCHANGED <<prog, page, evars, data, got, out, tvars, mode, pid, put, fbuf, buf2, copy, status, copied, fvars>>

(* EINTR: the pid to wait for is now what waitpid() has returned, -1. *)
WaitInterrupted ==
    /\ pc[0] = "wait" /\ \A s \in Awaited(cur[2]) : pc[s] # "zombie"
    /\ Fault("eintr")
    /\ cur' = <<cur[1], Error>>
    /\ UNCHANGED <<prog, page, pc, evars, data, got, out, tvars, mode, pid, put, fbuf, buf2, copy, status, copied>>

UserEnds ==
    /\ UserCalls
    /\ \A s \in Streams : ~IsOpen(s)
    /\ End(0)
    /\ UNCHANGED <<prog, page, data, got, out, tvars, pvars, fvars>>

(***************************************************************************)
(* The system.                                                             *)
(***************************************************************************)
Modes == {"r", "w"} \X {"all", "quit"}

Parent == main \/ CloseEnds(0) \/ ReadInput \/ Write(0, 1, "answer") \/ ReadAnswer
Child  == CloseEnds(1) \/ child \/ Write(1, 2, "read")

User ==
    \/ \E m \in Modes : my_popen(m)
    \/ insert \/ waitpid \/ WaitFails \/ UserEnds
    \/ \E s \in Streams : Fwrite(s) \/ Fread(s) \/ my_pclose(s)

(* What the processes do of themselves. *)
System ==
    \/ Parent \/ Child \/ User
    \/ \E s \in Streams : drop(s) \/ execl(s) \/ Command(s)

Next ==
    \/ System
    \/ MainForkFails \/ ReadInputFails \/ ChildKilled \/ WaitInterrupted
    \/ \E m \in Modes : PopenForkFails(m)

Spec == Init /\ [][Next]_vars

(* Something that can run does run, and the program of part 2 goes on to    *)
(* close its streams.  All that runs ends or waits, so this is enough for   *)
(* each process.                                                            *)
FairSpec == Spec /\ WF_vars(System)

(***************************************************************************)
(* Properties.                                                             *)
(***************************************************************************)
Alive(p) == pc[p] \notin {"none", "zombie", "gone"}

(* Types; a pipe holds what fits into it. *)
Types ==
    /\ prog \in {"toupper", "popen"} /\ page \in BlockSizes
    /\ pc \in [Procs -> {"none", "fork", "close", "read", "write", "answer", "user", "insert",
                          "drop", "run", "wait", "zombie", "gone"}]
    /\ rd \in [Streams -> SUBSET Procs] /\ wr \in [Streams -> SUBSET Procs]
    /\ data \in [Streams -> Seq(Int)] /\ \A q \in Streams : Room(q) >= 0
    /\ got \in [Procs -> Seq(Int)] /\ out \in [Procs -> Seq(Int)]
    /\ buf \in [Procs -> Seq(Int)] /\ len \in [Procs -> 0..page]
    /\ mode \in [Streams -> Modes \cup {<<"none", "none">>}]
    /\ pid \in [Streams -> {NoStream, Error} \cup Streams]
    /\ put \in [Streams -> 0..Items]
    /\ fbuf \in [Streams -> Seq(1..Items)] /\ \A s \in Streams : Len(fbuf[s]) <= StdioBuf
    /\ buf2 \in [Streams -> [1..page -> Int] \X (0..page)]
    /\ copy \in [Streams -> [Streams -> Seq(Int)]]
    /\ cur \in (Streams \cup {NoStream}) \X ({NoStream, Error} \cup Streams)
    /\ status \in [Streams -> Streams \cup {NoStream}] /\ copied \subseteq Streams
    /\ hurt \subseteq Faults /\ nfaults \in 0..MaxFaults

(* Types, and only processes that run have ends of a pipe, and a command of *)
(* part 2 none but its own: drop() leaves nothing.                          *)
TypeOK ==
    /\ Types
    /\ \A q \in Streams : \A p \in rd[q] \cup wr[q] : Alive(p) /\ (pc[p] = "run" => p = q)

(* Part 1 prints the input in capitals and in order; and it reads a block   *)
(* only when the answer to the one before is printed, if no write() is torn *)
(* (a page of PIPE_BUF or less) and there is a child that is not killed.    *)
BlockByBlock ==
    prog = "toupper" =>
        /\ \A i \in 1..Len(out[0]) : out[0][i] = -i
        /\ page <= PipeBuf /\ hurt \cap {"kill_child", "fork_error"} = {} /\ pc[0] \in {"read", "zombie"}
            => Len(out[0]) = Len(got[0])

(* Part 2: a command gets what is written to its stream, once and in order, *)
(* and all of it by the time its stream is closed; and what a command       *)
(* writes is printed in order, whatever follows it in the last page.        *)
(* This takes that no other command is started while a buffer is not empty: *)
(* its child would write the buffer, too, and might not survive that.       *)
StreamsCarry ==
    \A s \in Streams :
        /\ mode[s][1] = "w" /\ s \notin copied => got[s] = [i \in 1..Len(got[s]) |-> i]
        /\ mode[s] = <<"w", "all">> /\ pc[s] \in {"zombie", "gone"} /\ ~IsOpen(s) /\ copied = {}
            => Len(got[s]) = put[s]
        /\ mode[s][1] = "r" => \A i \in 1..Len(out[s]) : i <= put[s] => out[s][i] = i

(* my_pclose() returns when its own command has ended, and with its status, *)
(* however many others run or have ended: if fork() has not failed and      *)
(* waitpid() was not interrupted, after which it takes any child.           *)
PcloseWaits ==
    pc[0] = "user" /\ hurt = {} =>
        \A s \in Streams :
            mode[s][1] # "none" /\ ~IsOpen(s) => pc[s] = "gone" /\ status[s] = s

(* Every process of both programs comes to an end, also where one is killed *)
(* or several streams are open when one is closed.  But if fork() fails in  *)
(* my_popen(), my_pclose() may wait for the command of another open stream. *)
EveryoneEnds ==
    \A p \in Procs : Alive(p) ~> (~Alive(p) \/ (prog = "popen" /\ "fork_error" \in hurt))
=============================================================================
