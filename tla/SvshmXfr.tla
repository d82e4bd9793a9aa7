------------------------------ MODULE SvshmXfr ------------------------------
(***************************************************************************)
(* hw9/54-1: svshm_xfr_writer and svshm_xfr_reader move a stream of blocks *)
(* through one shared-memory segment, taking turns with the two            *)
(* semaphores of a System V set.  Modelled: one writer, restarted up to    *)
(* MaxSessions times, any number of readers, each restarted at will, the   *)
(* semaphore set and the segment name that outlive a process, SIGINT       *)
(* handlers on both sides and the error exits of read() and write().       *)
(*                                                                         *)
(* A semaphore set and a segment are named by the session that created     *)
(* them, 0 meaning "none".  A block is <<session, position in the input>>. *)
(***************************************************************************)
EXTENDS Naturals, Integers, Sequences

CONSTANTS
    Readers,        \* reader processes
    MaxBlocks,      \* bound: blocks on the standard input of one writer run
    MaxSessions,    \* bound: runs of the writer program
    Faults,         \* the kinds of fault that may strike
    MaxFaults,      \* bound: how many faults strike
    Wrap            \* full blocks after which the int `bytes` is 0 again

FaultKinds == {"writer_sigint", "reader_sigint", "read_error", "write_error"}

ASSUME XfrAssumption ==
    /\ MaxBlocks \in Nat
    /\ MaxSessions \in Nat
    /\ MaxFaults \in Nat
    /\ Wrap \in Nat \ {0}
    /\ Faults \subseteq FaultKinds

VARIABLES
    wpc,        \* where the writer is
    session,    \* number of the writer run
    input,      \* number of blocks on its standard input
    sent,       \* blocks it has read from there
    got,        \* what its last read() returned, before it is stored
    xfrs,       \* its transfer counter
    bytes,      \* its byte counter, in full blocks
    semset,     \* the semaphore set of SEM_KEY
    sem,        \* values of its two semaphores
    shm,        \* the segment SHM_KEY names, which is the one the writer maps
    mem,        \* contents of the segments: cnt and buf
    rpc,        \* where each reader is
    rsem,       \* the set each reader's semid stands for
    rseg,       \* the segment each reader has mapped
    out,        \* blocks copied to standard output since the writer started
    hurt,       \* kinds of fault that have struck
    nfaults     \* how many

wvars == <<wpc, session, input, sent, got, xfrs, bytes>>
rvars == <<rpc, rsem, rseg, out>>
fvars == <<hurt, nfaults>>
vars  == <<wvars, semset, sem, shm, mem, rvars, fvars>>

Sems   == {"WRITE_SEM", "READ_SEM"}
Blocks == (0..MaxSessions) \X (0..MaxBlocks)
NoBlock == <<0, 0>>

Init ==
    /\ wpc = "idle" /\ session = 0 /\ input = 0 /\ sent = 0
    /\ got = 0 /\ xfrs = 0 /\ bytes = 0
    /\ semset = 0 /\ sem = [s \in Sems |-> 0]
    /\ shm = 0 /\ mem = [g \in 1..MaxSessions |-> [cnt |-> 0, buf |-> NoBlock]]
    /\ rpc = [r \in Readers |-> "idle"]
    /\ rsem = [r \in Readers |-> 0]
    /\ rseg = [r \in Readers |-> 0]
    /\ out = <<>>
    /\ hurt = {} /\ nfaults = 0

(* A fault of kind k strikes now. *)
Fault(k) ==
    /\ k \in Faults
    /\ nfaults < MaxFaults
    /\ nfaults' = nfaults + 1
    /\ hurt' = hurt \cup {k}

(***************************************************************************)
(* binary_sems.c, on the set in use.                                       *)
(***************************************************************************)
initSemAvailable(s) == sem' = [sem EXCEPT ![s] = 1]

(* Mutant: the semaphore is set to "available" instead of "in use". *)
Mut_initSemInUse(s) == sem' = [sem EXCEPT ![s] = 1]

initSemInUse(s) == sem' = [sem EXCEPT ![s] = 0]

(* reserveSem retries after EINTR, so it just waits. *)
reserveSem(s) ==
    /\ sem[s] > 0
    /\ sem' = [sem EXCEPT ![s] = @ - 1]

(* Nothing keeps a "binary" semaphore below 2. *)
releaseSem(s) == sem' = [sem EXCEPT ![s] = @ + 1]

(***************************************************************************)
(* The writer.                                                             *)
(***************************************************************************)
Over == {"idle", "exited", "interrupted", "failed"}

(* The shell starts a writer on some input. *)
WStart ==
    /\ wpc \in Over
    /\ session < MaxSessions
    /\ session' = session + 1
    /\ input' \in 0..MaxBlocks
    /\ sent' = 0 /\ got' = 0 /\ xfrs' = 0 /\ bytes' = 0
    /\ out' = <<>>
    /\ wpc' = "semget"
    /\ UNCHANGED <<semset, sem, shm, mem, rpc, rsem, rseg, fvars>>

(* IPC_CREAT without IPC_EXCL: a set left by an earlier run is used again. *)
WSemget ==
    /\ wpc = "semget"
    /\ IF semset = 0
       THEN semset' = session /\ sem' = [s \in Sems |-> 0]
       ELSE UNCHANGED <<semset, sem>>
    /\ wpc' = "init_write"
    /\ UNCHANGED <<session, input, sent, got, xfrs, bytes, shm, mem, rvars, fvars>>

WInitWrite ==
    /\ wpc = "init_write"
    /\ initSemAvailable("WRITE_SEM")
    /\ wpc' = "init_read"
    /\ UNCHANGED <<session, input, sent, got, xfrs, bytes, semset, shm, mem, rvars, fvars>>

WInitRead ==
    /\ wpc = "init_read"
    /\ initSemInUse("READ_SEM")
    /\ wpc' = "shm_open"
    /\ UNCHANGED <<session, input, sent, got, xfrs, bytes, semset, shm, mem, rvars, fvars>>

(* O_CREAT: a segment whose name was never unlinked is used again, with its *)
(* contents; a new one is zero-filled by ftruncate.                         *)
WShmOpen ==
    /\ wpc = "shm_open"
    /\ IF shm = 0
       THEN /\ shm' = session
            /\ mem' = [mem EXCEPT ![session] = [cnt |-> 0, buf |-> NoBlock]]
       ELSE UNCHANGED <<shm, mem>>
    /\ wpc' = "reserve"
    /\ UNCHANGED <<session, input, sent, got, xfrs, bytes, semset, sem, rvars, fvars>>

WReserve ==
    /\ wpc = "reserve"
    /\ reserveSem("WRITE_SEM")
    /\ wpc' = "read"
    /\ UNCHANGED <<session, input, sent, got, xfrs, bytes, semset, shm, mem, rvars, fvars>>

(* read() fills buf, or returns 0 at end of file and leaves it. *)
WRead ==
    /\ wpc = "read"
    /\ IF sent < input
       THEN /\ mem' = [mem EXCEPT ![shm].buf = <<session, sent + 1>>]
            /\ sent' = sent + 1
            /\ got' = 1
       ELSE got' = 0 /\ UNCHANGED <<mem, sent>>
    /\ wpc' = "store"
    /\ UNCHANGED <<session, input, xfrs, bytes, semset, sem, shm, rvars, fvars>>

(* read() fails: -1 is stored in cnt and EE exits; set and name stay. *)
WReadFails ==
    /\ wpc = "read"
    /\ Fault("read_error")
    /\ mem' = [mem EXCEPT ![shm].cnt = -1]
    /\ wpc' = "failed"
    /\ UNCHANGED <<session, input, sent, got, xfrs, bytes, semset, sem, shm, rvars>>

WStore ==
    /\ wpc = "store"
    /\ mem' = [mem EXCEPT ![shm].cnt = got]
    /\ wpc' = "release"
    /\ UNCHANGED <<session, input, sent, got, xfrs, bytes, semset, sem, shm, rvars, fvars>>

WRelease ==
    /\ wpc = "release"
    /\ releaseSem("READ_SEM")
    /\ wpc' = "test"
    /\ UNCHANGED <<session, input, sent, got, xfrs, bytes, semset, shm, mem, rvars, fvars>>

(* Mutant: the loop is entered again after its reserveSem. *)
Mut_WTestKeepsTurn ==
    /\ wpc = "test"
    /\ xfrs' = xfrs + mem[shm].cnt
    /\ wpc' = IF mem[shm].cnt # 0 THEN "read" ELSE "final"
    /\ UNCHANGED <<session, input, sent, got, bytes, semset, sem, shm, mem, rvars, fvars>>

(* The loop condition looks at cnt again although the turn is given away,   *)
(* and its last operand is the updated byte counter, which ends the loop    *)
(* when it wraps to 0.                                                      *)
WTest ==
    /\ wpc = "test"
    /\ IF mem[shm].cnt # 0
       THEN /\ xfrs' = xfrs + 1
            /\ bytes' = (bytes + 1) % Wrap
            /\ wpc' = IF bytes' # 0 THEN "reserve" ELSE "final"
       ELSE wpc' = "final" /\ UNCHANGED <<xfrs, bytes>>
    /\ UNCHANGED <<session, input, sent, got, semset, sem, shm, mem, rvars, fvars>>

(* One more turn before the IPC objects are deleted. *)
WFinal ==
    /\ wpc = "final"
    /\ reserveSem("WRITE_SEM")
    /\ wpc' = "rmid"
    /\ UNCHANGED <<session, input, sent, got, xfrs, bytes, semset, shm, mem, rvars, fvars>>

(* Mutant: the semaphore set is never removed. *)
Mut_WRmid ==
    /\ wpc = "rmid"
    /\ wpc' = "unlink"
    /\ UNCHANGED <<session, input, sent, got, xfrs, bytes, semset, sem, shm, mem, rvars, fvars>>

WRmid ==
    /\ wpc = "rmid"
    /\ semset' = 0
    /\ wpc' = "unlink"
    /\ UNCHANGED <<session, input, sent, got, xfrs, bytes, sem, shm, mem, rvars, fvars>>

WUnlink ==
    /\ wpc = "unlink"
    /\ shm' = 0
    /\ wpc' = "exited"
    /\ UNCHANGED <<session, input, sent, got, xfrs, bytes, semset, sem, mem, rvars, fvars>>

(* __clean_shmid: the handler releases WRITE_SEM whatever the writer was    *)
(* doing; once the set is gone that fails and EE exits at once.             *)
WSigint ==
    /\ wpc \notin Over \cup {"semget", "cleanup"}
    /\ Fault("writer_sigint")
    /\ IF semset # 0
       THEN releaseSem("WRITE_SEM") /\ wpc' = "cleanup"
       ELSE wpc' = "failed" /\ UNCHANGED sem
    /\ UNCHANGED <<session, input, sent, got, xfrs, bytes, semset, shm, mem, rvars>>

(* ... then unlinks the segment and exits; the set is not removed. *)
WCleanup ==
    /\ wpc = "cleanup"
    /\ shm' = 0
    /\ wpc' = "interrupted"
    /\ UNCHANGED <<session, input, sent, got, xfrs, bytes, semset, sem, mem, rvars, fvars>>

(***************************************************************************)
(* A reader r.                                                             *)
(***************************************************************************)
RGoto(r, pc) == rpc' = [rpc EXCEPT ![r] = pc]

(* The shell starts a reader. *)
RStart(r) ==
    /\ rpc[r] \in Over
    /\ RGoto(r, "semget")
    /\ UNCHANGED <<wvars, semset, sem, shm, mem, rsem, rseg, out, fvars>>

RSemget(r) ==
    /\ rpc[r] = "semget"
    /\ rsem' = [rsem EXCEPT ![r] = semset]
    /\ RGoto(r, IF semset = 0 THEN "failed" ELSE "shm_open")
    /\ UNCHANGED <<wvars, semset, sem, shm, mem, rseg, out, fvars>>

RShmOpen(r) ==
    /\ rpc[r] = "shm_open"
    /\ rseg' = [rseg EXCEPT ![r] = shm]
    /\ RGoto(r, IF shm = 0 THEN "failed" ELSE "reserve")
    /\ UNCHANGED <<wvars, semset, sem, shm, mem, rsem, out, fvars>>

RReserve(r) ==
    /\ rpc[r] = "reserve"
    /\ rsem[r] = semset
    /\ reserveSem("READ_SEM")
    /\ RGoto(r, "check")
    /\ UNCHANGED <<wvars, semset, shm, mem, rsem, rseg, out, fvars>>

(* semop on a set that is gone: EIDRM or EINVAL, and EE exits. *)
RRemoved(r) ==
    /\ rpc[r] \in {"reserve", "release", "final"}
    /\ rsem[r] # semset
    /\ RGoto(r, "failed")
    /\ UNCHANGED <<wvars, semset, sem, shm, mem, rsem, rseg, out, fvars>>

RCheck(r) ==
    /\ rpc[r] = "check"
    /\ RGoto(r, IF mem[rseg[r]].cnt = 0 THEN "final" ELSE "write")
    /\ UNCHANGED <<wvars, semset, sem, shm, mem, rsem, rseg, out, fvars>>

(* write(shmp->buf, shmp->cnt) reads both fields now.  A count of 0 or -1   *)
(* writes nothing and still equals write()'s result.                        *)
RWrite(r) ==
    /\ rpc[r] = "write"
    /\ out' = IF mem[rseg[r]].cnt > 0 THEN Append(out, mem[rseg[r]].buf) ELSE out
    /\ RGoto(r, "release")
    /\ UNCHANGED <<wvars, semset, sem, shm, mem, rsem, rseg, fvars>>

(* Mutant: a failed write() is not fatal. *)
Mut_RWriteFails(r) ==
    /\ rpc[r] = "write"
    /\ Fault("write_error")
    /\ RGoto(r, "release")
    /\ UNCHANGED <<wvars, semset, sem, shm, mem, rsem, rseg, out>>

(* A failed write() is fatal; the turn is not given back. *)
RWriteFails(r) ==
    /\ rpc[r] = "write"
    /\ Fault("write_error")
    /\ RGoto(r, "failed")
    /\ UNCHANGED <<wvars, semset, sem, shm, mem, rsem, rseg, out>>

RRelease(r) ==
    /\ rpc[r] = "release"
    /\ rsem[r] = semset
    /\ releaseSem("WRITE_SEM")
    /\ RGoto(r, "reserve")
    /\ UNCHANGED <<wvars, semset, shm, mem, rsem, rseg, out, fvars>>

(* "Give writer one more turn, so it can clean up". *)
RFinal(r) ==
    /\ rpc[r] = "final"
    /\ rsem[r] = semset
    /\ releaseSem("WRITE_SEM")
    /\ RGoto(r, "unmap")
    /\ UNCHANGED <<wvars, semset, shm, mem, rsem, rseg, out, fvars>>

RExit(r) ==
    /\ rpc[r] = "unmap"
    /\ RGoto(r, "exited")
    /\ UNCHANGED <<wvars, semset, sem, shm, mem, rsem, rseg, out, fvars>>

(* __clean_shmid of the reader: WRITE_SEM is released whether or not this   *)
(* reader has the turn.                                                     *)
RSigint(r) ==
    /\ rpc[r] \notin Over \cup {"semget"}
    /\ Fault("reader_sigint")
    /\ IF rsem[r] = semset
       THEN releaseSem("WRITE_SEM") /\ RGoto(r, "interrupted")
       ELSE RGoto(r, "failed") /\ UNCHANGED sem
    /\ UNCHANGED <<wvars, semset, shm, mem, rsem, rseg, out>>

(***************************************************************************)
(* The system.                                                             *)
(***************************************************************************)
Writer ==
    \/ WSemget \/ WInitWrite \/ WInitRead \/ WShmOpen
    \/ WReserve \/ WRead \/ WStore \/ WRelease \/ WTest
    \/ WFinal \/ WRmid \/ WUnlink \/ WCleanup

Reader(r) ==
    \/ RSemget(r) \/ RShmOpen(r) \/ RReserve(r) \/ RRemoved(r) \/ RCheck(r)
    \/ RWrite(r) \/ RRelease(r) \/ RFinal(r) \/ RExit(r)

Next ==
    \/ WStart \/ Writer \/ WReadFails \/ WSigint
    \/ \E r \in Readers : RStart(r) \/ Reader(r) \/ RWriteFails(r) \/ RSigint(r)

Spec == Init /\ [][Next]_vars

(* A running process keeps running; nobody has to start one, or break it. *)
FairSpec == Spec /\ WF_vars(Writer) /\ \A r \in Readers : WF_vars(Reader(r))

(***************************************************************************)
(* Properties.                                                             *)
(***************************************************************************)
WriterPcs == Over \cup
    {"semget", "init_write", "init_read", "shm_open", "reserve", "read", "store",
     "release", "test", "final", "rmid", "unlink", "cleanup"}
ReaderPcs == Over \cup
    {"semget", "shm_open", "reserve", "check", "write", "release", "final", "unmap"}

TypeOK ==
    /\ wpc \in WriterPcs
    /\ session \in 0..MaxSessions
    /\ input \in 0..MaxBlocks
    /\ sent \in 0..input
    /\ got \in {0, 1}
    /\ xfrs \in Nat
    /\ bytes \in 0..(Wrap - 1)
    /\ semset \in 0..session
    /\ sem \in [Sems -> Nat]
    /\ shm \in 0..session
    /\ mem \in [1..MaxSessions -> [cnt : {-1, 0, 1}, buf : Blocks]]
    /\ rpc \in [Readers -> ReaderPcs]
    /\ rsem \in [Readers -> 0..session]
    /\ rseg \in [Readers -> 0..session]
    /\ out \in Seq(Blocks)
    /\ hurt \subseteq Faults
    /\ nfaults \in 0..MaxFaults

(* No SIGINT handler has run.  Failing read() and write() calls are not     *)
(* excluded by this.                                                        *)
Orderly == hurt \cap {"writer_sigint", "reader_sigint"} = {}

WriterHasTurn == wpc \in {"read", "store", "release", "rmid"}
ReaderHasTurn(r) == rpc[r] \in {"check", "write", "release", "final"}

(* The header comment's "exclusive, alternating access to the shared        *)
(* memory": the process between its reserveSem and its releaseSem is alone. *)
ExclusiveAccess ==
    \A r \in Readers : ReaderHasTurn(r) =>
        /\ ~WriterHasTurn
        /\ \A q \in Readers \ {r} : ~ReaderHasTurn(q)

(* It holds until a SIGINT handler runs, with any number of readers, over   *)
(* restarts of the writer, and when read() or write() calls fail.           *)
TurnsExclude == Orderly => ExclusiveAccess

(* Whatever the readers have written since the writer was started is the    *)
(* beginning of that writer's input: no block lost, repeated, reordered,    *)
(* torn or left over from an earlier run.                                   *)
DeliveredInOrder ==
    Orderly => \A i \in 1..Len(out) : out[i] = <<session, i>>

(* The writer removes the semaphore set only when "we then know reader has  *)
(* finished": a reader that has the turn can always give it back.           *)
NoTurnOnRemovedSet ==
    Orderly => \A r \in Readers : ReaderHasTurn(r) => rsem[r] = semset

(* When the writer gets to its clean-up, all its input was delivered and    *)
(* its report ("Sent ... xfrs") is true, unless its byte counter wrapped.   *)
CleanUpIsComplete ==
    Orderly /\ wpc \in {"rmid", "unlink", "exited"} /\ input < Wrap
        => Len(out) = input /\ xfrs = input

(* The transfer behaves as the stream of XfrStream. *)
Stream == INSTANCE XfrStream WITH
    closed <- wpc \in {"rmid", "unlink", "exited"}

ImplementsStream == Stream!Spec

(* A reader that is attached and waits comes to an end, unless some fault   *)
(* strikes: it sees end of file, or loses its set to another reader's.      *)
ReadersEnd ==
    \A r \in Readers :
        rpc[r] = "reserve" ~> (rpc[r] \in Over \/ hurt # {})

(* A writer that is served by some reader gets to remove the IPC objects.   *)
ServedWriterEnds ==
    (\E r \in Readers : rpc[r] = "reserve" /\ rsem[r] = semset)
        ~> (wpc \in Over \/ hurt # {})

(* Both sides of the transfer end. *)
TransferEnds == ReadersEnd /\ ServedWriterEnds
=============================================================================
