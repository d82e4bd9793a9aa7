------------------------- MODULE SharedMemoryProofs --------------------------
(***************************************************************************)
(* TLAPS proofs about the two programs that use shared memory: SvshmXfr,   *)
(* which takes turns, and Broadcast, which does not synchronise at all.    *)
(* Every theorem is about the behaviours of one of them.                   *)
(***************************************************************************)
EXTENDS SvshmXfr, Broadcast, WellFoundedInduction, TLAPS

-----------------------------------------------------------------------------
(* SvshmXfr, for any set of readers and any bounds.                        *)

(***************************************************************************)
(* The inductive invariant.  Every part but the type is about executions   *)
(* in which no SIGINT handler has run.                                     *)
(***************************************************************************)

(* Writer locations at which no reader can have, or get, the turn. *)
NoReaderTurn ==
    {"idle", "semget", "init_write", "init_read", "shm_open", "read", "store",
     "release", "rmid", "unlink", "exited", "failed"}

(* Writer locations at which the turn is in a semaphore or at a reader. *)
Shared == {"test", "reserve", "final"}

Attached(r) == rpc[r] \in {"reserve", "check", "write", "release", "final"}

(* Which IPC objects exist, as seen from the writer's location. *)
ObjectsInv ==
    /\ wpc \notin {"cleanup", "interrupted"}
    /\ wpc \in {"init_write", "init_read", "shm_open", "rmid", "read", "store",
                "release", "failed"} \cup Shared => semset # 0
    /\ wpc \in {"read", "store", "release", "rmid", "unlink"} \cup Shared => shm # 0
    /\ wpc \in {"idle", "unlink", "exited"} => semset = 0
    /\ wpc \in {"idle", "exited"} => shm = 0
    /\ wpc = "semget" => session # 0
    /\ wpc = "semget" /\ semset = 0 => shm = 0 /\ \A r \in Readers : rsem[r] # session
    /\ wpc = "shm_open" => session # 0

(* A reader in its loop has a segment mapped, signals or not. *)
MappedInv == \A r \in Readers : Attached(r) => rseg[r] # 0

(* An attached reader whose set still exists has mapped the segment that    *)
(* the writer uses.                                                         *)
AttachInv ==
    \A r \in Readers :
        /\ rpc[r] \in {"shm_open"} \/ Attached(r) => rsem[r] # 0
        /\ Attached(r) /\ rsem[r] = semset => rseg[r] = shm

(* There is at most one turn: in WRITE_SEM, in READ_SEM, at the writer or   *)
(* at one reader, whose set exists.                                         *)
TurnInv ==
    /\ wpc \in NoReaderTurn =>
        /\ sem["READ_SEM"] = 0
        /\ \A r \in Readers : ~ReaderHasTurn(r)
    /\ wpc \in {"init_read", "shm_open"} => sem["WRITE_SEM"] = 1
    /\ wpc \in {"read", "store", "release"} => sem["WRITE_SEM"] = 0
    /\ wpc \in Shared =>
        /\ sem["WRITE_SEM"] + sem["READ_SEM"] <= 1
        /\ \A r \in Readers : ReaderHasTurn(r) =>
            /\ sem["WRITE_SEM"] = 0
            /\ sem["READ_SEM"] = 0
            /\ \A q \in Readers \ {r} : ~ReaderHasTurn(q)
    /\ \A r \in Readers : ReaderHasTurn(r) => rsem[r] = semset

(* What has been delivered, by the place of the turn. *)
Full == mem[shm].cnt = 1 /\ mem[shm].buf = <<session, sent>> /\ Len(out) = sent - 1
Eof  == mem[shm].cnt = 0 /\ Len(out) = sent

DataInv ==
    /\ wpc \in {"semget", "init_write", "init_read", "shm_open"} => Len(out) = 0 /\ sent = 0
    /\ wpc = "read" => Len(out) = sent
    /\ wpc \in {"store", "release"} =>
        \/ got = 1 /\ mem[shm].buf = <<session, sent>> /\ Len(out) = sent - 1
        \/ got = 0 /\ Len(out) = sent
    /\ wpc \in {"release", "test"} => mem[shm].cnt = got
    /\ wpc \in Shared =>
        /\ sem["WRITE_SEM"] = 1 => Len(out) = sent
        /\ sem["READ_SEM"] = 1 => Full \/ Eof
        /\ \A r \in Readers :
            /\ rpc[r] = "check" => Full \/ Eof
            /\ rpc[r] = "write" => Full
            /\ rpc[r] \in {"release", "final"} => Len(out) = sent
    /\ wpc \in {"rmid", "unlink", "exited"} => Len(out) = sent

(* The writer's counters, and why it leaves its loop. *)
CountInv ==
    /\ wpc \in {"semget", "init_write", "init_read", "shm_open"}
        => xfrs = 0 /\ bytes = 0 /\ sent = 0
    /\ wpc \in {"reserve", "read", "final", "rmid", "unlink", "exited"} => xfrs = sent
    /\ wpc \in {"store", "release", "test"} => xfrs = sent - got
    /\ wpc \in {"store", "release", "test"} /\ got = 0 => sent = input
    /\ wpc \notin Over /\ input < Wrap => bytes = xfrs
    /\ wpc \in {"final", "rmid", "unlink", "exited"} /\ input < Wrap => sent = input

OrderInv == \A k \in 1..Len(out) : out[k] = <<session, k>>


SafeInv == ObjectsInv /\ AttachInv /\ TurnInv /\ DataInv /\ CountInv /\ OrderInv

IInv ==
    /\ TypeOK
    /\ MappedInv
    /\ Orderly => SafeInv

(***************************************************************************)
(* Types of what the operations assign.                                    *)
(***************************************************************************)
LEMMA SemType ==
    ASSUME sem \in [Sems -> Nat], NEW s \in Sems
    PROVE  /\ initSemAvailable(s) => sem' \in [Sems -> Nat]
           /\ initSemInUse(s) => sem' \in [Sems -> Nat]
           /\ reserveSem(s) => sem' \in [Sems -> Nat]
           /\ releaseSem(s) => sem' \in [Sems -> Nat]
<1>1. initSemAvailable(s) => sem' \in [Sems -> Nat]
  BY DEF initSemAvailable
<1>2. initSemInUse(s) => sem' \in [Sems -> Nat]
  BY DEF initSemInUse
<1>3. reserveSem(s) => sem' \in [Sems -> Nat]
  BY DEF reserveSem
<1>4. releaseSem(s) => sem' \in [Sems -> Nat]
  BY DEF releaseSem
<1> QED
  BY <1>1, <1>2, <1>3, <1>4

Segments == [1..MaxSessions -> [cnt : {-1, 0, 1}, buf : Blocks]]

(* A segment stays one when its counter or its block is stored.              *)
LEMMA MemType ==
    ASSUME mem \in Segments, NEW g, NEW c \in {-1, 0, 1}, NEW b \in Blocks
    PROVE  /\ [mem EXCEPT ![g] = [cnt |-> c, buf |-> b]] \in Segments
           /\ [mem EXCEPT ![g].cnt = c] \in Segments
           /\ [mem EXCEPT ![g].buf = b] \in Segments
BY DEF Segments

(* A number below the wrap has not overflowed.                               *)
LEMMA ModSmall == \A a, w \in Nat : a < w => a % w = a
BY SMT

(* The empty block and the next block of the input are blocks.               *)
LEMMA BlockType ==
    ASSUME TypeOK
    PROVE  /\ NoBlock \in Blocks
           /\ sent < input => <<session, sent + 1>> \in Blocks
BY XfrAssumption DEF TypeOK, Blocks, NoBlock

(* The invariant holds at first.                                             *)
LEMMA InitInv == Init => IInv
BY XfrAssumption DEF Init, IInv, TypeOK, MappedInv, SafeInv, ObjectsInv, AttachInv,
   TurnInv, DataInv, CountInv, OrderInv, Orderly, Attached, ReaderHasTurn, NoReaderTurn,
   Shared, Over, WriterPcs, ReaderPcs, Sems, Blocks, NoBlock

(* Every step keeps the types, and readers in their loop keep their mapping. *)
LEMMA TypeStep == TypeOK /\ MappedInv /\ [Next]_vars => TypeOK' /\ MappedInv'
<1> SUFFICES ASSUME TypeOK, MappedInv, [Next]_vars PROVE TypeOK' /\ MappedInv'
  OBVIOUS
<1> USE XfrAssumption DEF TypeOK, MappedInv, Attached, vars, wvars, rvars, fvars, Sems,
        Over, WriterPcs, ReaderPcs, FaultKinds
<1>1. CASE WStart
  BY <1>1 DEF WStart
<1>2. CASE WSemget
  <2>1. CASE semset = 0
    BY <1>2, <2>1 DEF WSemget
  <2>2. CASE semset # 0
    BY <1>2, <2>2 DEF WSemget
  <2> QED
    BY <2>1, <2>2
<1>3. CASE WInitWrite
  BY <1>3, SemType DEF WInitWrite
<1>4. CASE WInitRead
  BY <1>4, SemType DEF WInitRead
<1>5. CASE WShmOpen
  <2>1. CASE shm = 0
    <3>1. mem' \in Segments
      <4>1. mem \in Segments /\ NoBlock \in Blocks
        BY BlockType DEF Segments
      <4>2. [mem EXCEPT ![session] = [cnt |-> 0, buf |-> NoBlock]] \in Segments
        BY <4>1, MemType
      <4> QED
        BY <1>5, <2>1, <4>2 DEF WShmOpen
    <3> QED
      BY <1>5, <2>1, <3>1 DEF WShmOpen, Segments
  <2>2. CASE shm # 0
    BY <1>5, <2>2 DEF WShmOpen
  <2> QED
    BY <2>1, <2>2
<1>6. CASE WReserve
  BY <1>6, SemType DEF WReserve
<1>7. CASE WRead
  <2>1. CASE sent < input
    <3>1. mem' \in Segments
      <4>1. mem \in Segments /\ <<session, sent + 1>> \in Blocks
        BY <2>1, BlockType DEF Segments
      <4>2. [mem EXCEPT ![shm].buf = <<session, sent + 1>>] \in Segments
        BY <4>1, MemType
      <4> QED
        BY <1>7, <2>1, <4>2 DEF WRead
    <3> QED
      <4>1. sent' \in 0..input'
        BY <1>7, <2>1, SMTT(30) DEF WRead
      <4>2. got' \in {0, 1}
        BY <1>7, <2>1 DEF WRead
      <4> QED
        BY <1>7, <2>1, <3>1, <4>1, <4>2 DEF WRead, Segments
  <2>2. CASE ~(sent < input)
    BY <1>7, <2>2 DEF WRead
  <2> QED
    BY <2>1, <2>2
<1>8. CASE WReadFails
  <2>1. mem' \in Segments
    BY <1>8, MemType, BlockType DEF WReadFails, Segments
  <2>2. hurt' \subseteq Faults /\ nfaults' \in 0..MaxFaults
    BY <1>8, SMTT(30) DEF WReadFails, Fault
  <2> QED
    BY <1>8, <2>1, <2>2 DEF WReadFails, Segments
<1>9. CASE WStore
  <2>1. mem' \in Segments
    BY <1>9, MemType, BlockType DEF WStore, Segments
  <2> QED
    BY <1>9, <2>1 DEF WStore, Segments
<1>10. CASE WRelease
  BY <1>10, SemType DEF WRelease
<1>11. CASE WTest
  <2>1. CASE mem[shm].cnt # 0
    <3>1. (bytes + 1) % Wrap \in 0..(Wrap - 1)
      OBVIOUS
    <3>2. wpc' \in WriterPcs
      BY <1>11, <2>1 DEF WTest
    <3> QED
      BY <1>11, <2>1, <3>1, <3>2 DEF WTest
  <2>2. CASE ~(mem[shm].cnt # 0)
    BY <1>11, <2>2 DEF WTest
  <2> QED
    BY <2>1, <2>2
<1>12. CASE WFinal
  BY <1>12, SemType DEF WFinal
<1>13. CASE WRmid
  BY <1>13 DEF WRmid
<1>14. CASE WUnlink
  BY <1>14 DEF WUnlink
<1>15. CASE WSigint
  <2>1. hurt' \subseteq Faults /\ nfaults' \in 0..MaxFaults
    BY <1>15 DEF WSigint, Fault
  <2>2. CASE semset # 0
    BY <1>15, <2>1, <2>2, SemType DEF WSigint
  <2>3. CASE ~(semset # 0)
    BY <1>15, <2>1, <2>3 DEF WSigint
  <2> QED
    BY <2>2, <2>3
<1>16. CASE WCleanup
  BY <1>16 DEF WCleanup
<1>17. ASSUME NEW r \in Readers, RStart(r) PROVE TypeOK' /\ MappedInv'
  BY <1>17 DEF RStart, RGoto
<1>18. ASSUME NEW r \in Readers, RSemget(r) PROVE TypeOK' /\ MappedInv'
  BY <1>18 DEF RSemget, RGoto
<1>19. ASSUME NEW r \in Readers, RShmOpen(r) PROVE TypeOK' /\ MappedInv'
  BY <1>19 DEF RShmOpen, RGoto
<1>20. ASSUME NEW r \in Readers, RReserve(r) PROVE TypeOK' /\ MappedInv'
  BY <1>20, SemType DEF RReserve, RGoto
<1>21. ASSUME NEW r \in Readers, RRemoved(r) PROVE TypeOK' /\ MappedInv'
  BY <1>21 DEF RRemoved, RGoto
<1>22. ASSUME NEW r \in Readers, RCheck(r) PROVE TypeOK' /\ MappedInv'
  BY <1>22 DEF RCheck, RGoto
<1>23. ASSUME NEW r \in Readers, RWrite(r) PROVE TypeOK' /\ MappedInv'
  <2>1. rseg[r] \in 1..MaxSessions
    BY <1>23 DEF RWrite
  <2>2. mem[rseg[r]].buf \in Blocks
    BY <2>1
  <2>3. out' \in Seq(Blocks)
    BY <1>23, <2>2 DEF RWrite
  <2> QED
    BY <1>23, <2>3 DEF RWrite, RGoto
<1>24. ASSUME NEW r \in Readers, RWriteFails(r) PROVE TypeOK' /\ MappedInv'
  BY <1>24 DEF RWriteFails, Fault, RGoto
<1>25. ASSUME NEW r \in Readers, RRelease(r) PROVE TypeOK' /\ MappedInv'
  BY <1>25, SemType DEF RRelease, RGoto
<1>26. ASSUME NEW r \in Readers, RFinal(r) PROVE TypeOK' /\ MappedInv'
  BY <1>26, SemType DEF RFinal, RGoto
<1>27. ASSUME NEW r \in Readers, RExit(r) PROVE TypeOK' /\ MappedInv'
  BY <1>27 DEF RExit, RGoto
<1>28. ASSUME NEW r \in Readers, RSigint(r) PROVE TypeOK' /\ MappedInv'
  <2>1. hurt' \subseteq Faults /\ nfaults' \in 0..MaxFaults
    BY <1>28 DEF RSigint, Fault
  <2>2. rpc' \in [Readers -> ReaderPcs] /\ \A q \in Readers : Attached(q)' => Attached(q)
    <3>1. PICK pc \in {"interrupted", "failed"} : RGoto(r, pc)
      BY <1>28 DEF RSigint
    <3>2. rpc \in [Readers -> ReaderPcs]
      OBVIOUS
    <3> QED
      BY <3>1, <3>2 DEF RGoto
  <2>3. sem' \in [Sems -> Nat]
    BY <1>28, SemType DEF RSigint
  <2>4. UNCHANGED <<wvars, semset, shm, mem, rsem, rseg, out>>
    BY <1>28 DEF RSigint
  <2> QED
    BY <2>1, <2>2, <2>3, <2>4
<1>29. CASE UNCHANGED vars
  BY <1>29
<1> QED
  BY <1>1, <1>2, <1>3, <1>4, <1>5, <1>6, <1>7, <1>8, <1>9, <1>10, <1>11,
     <1>12, <1>13, <1>14, <1>15, <1>16, <1>17, <1>18, <1>19, <1>20, <1>21,
     <1>22, <1>23, <1>24, <1>25, <1>26, <1>27, <1>28, <1>29
  DEF Next, Writer, Reader

(* The steps of an execution without signals. *)
OrderlyStep ==
    \/ WStart \/ WSemget \/ WInitWrite \/ WInitRead \/ WShmOpen \/ WReserve \/ WRead
    \/ WReadFails \/ WStore \/ WRelease \/ WTest \/ WFinal \/ WRmid \/ WUnlink
    \/ \E r \in Readers :
        \/ RStart(r) \/ RSemget(r) \/ RShmOpen(r) \/ RReserve(r) \/ RRemoved(r) \/ RCheck(r)
        \/ RWrite(r) \/ RWriteFails(r) \/ RRelease(r) \/ RFinal(r) \/ RExit(r)
    \/ UNCHANGED vars

(* Every step keeps the objects that exist.                                  *)
LEMMA ObjectsStep ==
    ASSUME TypeOK, ObjectsInv, OrderlyStep
    PROVE  ObjectsInv'
<1> USE XfrAssumption DEF TypeOK, ObjectsInv, Attached, ReaderHasTurn, NoReaderTurn, Shared, vars,
        wvars, rvars, fvars, Over, WriterPcs, ReaderPcs, Sems
<1>1. CASE WStart
  BY <1>1 DEF WStart
<1>2. CASE WSemget
  BY <1>2 DEF WSemget
<1>3. CASE WInitWrite
  BY <1>3 DEF WInitWrite, initSemAvailable
<1>4. CASE WInitRead
  BY <1>4 DEF WInitRead, initSemInUse
<1>5. CASE WShmOpen
  BY <1>5 DEF WShmOpen
<1>6. CASE WReserve
  BY <1>6 DEF WReserve, reserveSem
<1>7. CASE WRead
  BY <1>7 DEF WRead
<1>8. CASE WReadFails
  BY <1>8 DEF WReadFails, Fault
<1>9. CASE WStore
  BY <1>9 DEF WStore
<1>10. CASE WRelease
  BY <1>10 DEF WRelease, releaseSem
<1>11. CASE WTest
  BY <1>11 DEF WTest
<1>12. CASE WFinal
  BY <1>12 DEF WFinal, reserveSem
<1>13. CASE WRmid
  BY <1>13 DEF WRmid
<1>14. CASE WUnlink
  BY <1>14 DEF WUnlink
<1>15. ASSUME NEW r \in Readers, RStart(r) PROVE ObjectsInv'
  BY <1>15 DEF RStart, RGoto
<1>16. ASSUME NEW r \in Readers, RSemget(r) PROVE ObjectsInv'
  BY <1>16 DEF RSemget, RGoto
<1>17. ASSUME NEW r \in Readers, RShmOpen(r) PROVE ObjectsInv'
  BY <1>17 DEF RShmOpen, RGoto
<1>18. ASSUME NEW r \in Readers, RReserve(r) PROVE ObjectsInv'
  BY <1>18 DEF RReserve, reserveSem, RGoto
<1>19. ASSUME NEW r \in Readers, RRemoved(r) PROVE ObjectsInv'
  BY <1>19 DEF RRemoved, RGoto
<1>20. ASSUME NEW r \in Readers, RCheck(r) PROVE ObjectsInv'
  BY <1>20 DEF RCheck, RGoto
<1>21. ASSUME NEW r \in Readers, RWrite(r) PROVE ObjectsInv'
  BY <1>21 DEF RWrite, RGoto
<1>22. ASSUME NEW r \in Readers, RWriteFails(r) PROVE ObjectsInv'
  BY <1>22 DEF RWriteFails, RGoto, Fault
<1>23. ASSUME NEW r \in Readers, RRelease(r) PROVE ObjectsInv'
  BY <1>23 DEF RRelease, releaseSem, RGoto
<1>24. ASSUME NEW r \in Readers, RFinal(r) PROVE ObjectsInv'
  BY <1>24 DEF RFinal, releaseSem, RGoto
<1>25. ASSUME NEW r \in Readers, RExit(r) PROVE ObjectsInv'
  BY <1>25 DEF RExit, RGoto
<1>26. CASE UNCHANGED vars
  BY <1>26
<1> QED
  BY <1>1, <1>2, <1>3, <1>4, <1>5, <1>6, <1>7, <1>8, <1>9, <1>10, <1>11, <1>12,
     <1>13, <1>14, <1>15, <1>16, <1>17, <1>18, <1>19, <1>20, <1>21, <1>22,
     <1>23, <1>24, <1>25, <1>26
  DEF OrderlyStep

(* Every step keeps readers on their segments.                               *)
LEMMA AttachStep ==
    ASSUME TypeOK, MappedInv, ObjectsInv, AttachInv, OrderlyStep
    PROVE  AttachInv'
<1> USE XfrAssumption DEF TypeOK, MappedInv, ObjectsInv, AttachInv, Attached, ReaderHasTurn,
        NoReaderTurn, Shared, vars, wvars, rvars, fvars, Over, WriterPcs,
        ReaderPcs, Sems
<1>1. CASE WStart
  BY <1>1 DEF WStart
<1>2. CASE WSemget
  BY <1>2 DEF WSemget
<1>3. CASE WInitWrite
  BY <1>3 DEF WInitWrite, initSemAvailable
<1>4. CASE WInitRead
  BY <1>4 DEF WInitRead, initSemInUse
<1>5. CASE WShmOpen
  BY <1>5 DEF WShmOpen
<1>6. CASE WReserve
  BY <1>6 DEF WReserve, reserveSem
<1>7. CASE WRead
  BY <1>7 DEF WRead
<1>8. CASE WReadFails
  BY <1>8 DEF WReadFails, Fault
<1>9. CASE WStore
  BY <1>9 DEF WStore
<1>10. CASE WRelease
  BY <1>10 DEF WRelease, releaseSem
<1>11. CASE WTest
  BY <1>11 DEF WTest
<1>12. CASE WFinal
  BY <1>12 DEF WFinal, reserveSem
<1>13. CASE WRmid
  BY <1>13 DEF WRmid
<1>14. CASE WUnlink
  BY <1>14 DEF WUnlink
<1>15. ASSUME NEW r \in Readers, RStart(r) PROVE AttachInv'
  BY <1>15 DEF RStart, RGoto
<1>16. ASSUME NEW r \in Readers, RSemget(r) PROVE AttachInv'
  BY <1>16 DEF RSemget, RGoto
<1>17. ASSUME NEW r \in Readers, RShmOpen(r) PROVE AttachInv'
  BY <1>17 DEF RShmOpen, RGoto
<1>18. ASSUME NEW r \in Readers, RReserve(r) PROVE AttachInv'
  BY <1>18 DEF RReserve, reserveSem, RGoto
<1>19. ASSUME NEW r \in Readers, RRemoved(r) PROVE AttachInv'
  BY <1>19 DEF RRemoved, RGoto
<1>20. ASSUME NEW r \in Readers, RCheck(r) PROVE AttachInv'
  BY <1>20 DEF RCheck, RGoto
<1>21. ASSUME NEW r \in Readers, RWrite(r) PROVE AttachInv'
  BY <1>21 DEF RWrite, RGoto
<1>22. ASSUME NEW r \in Readers, RWriteFails(r) PROVE AttachInv'
  BY <1>22 DEF RWriteFails, RGoto, Fault
<1>23. ASSUME NEW r \in Readers, RRelease(r) PROVE AttachInv'
  BY <1>23 DEF RRelease, releaseSem, RGoto
<1>24. ASSUME NEW r \in Readers, RFinal(r) PROVE AttachInv'
  BY <1>24 DEF RFinal, releaseSem, RGoto
<1>25. ASSUME NEW r \in Readers, RExit(r) PROVE AttachInv'
  BY <1>25 DEF RExit, RGoto
<1>26. CASE UNCHANGED vars
  BY <1>26
<1> QED
  BY <1>1, <1>2, <1>3, <1>4, <1>5, <1>6, <1>7, <1>8, <1>9, <1>10, <1>11, <1>12,
     <1>13, <1>14, <1>15, <1>16, <1>17, <1>18, <1>19, <1>20, <1>21, <1>22,
     <1>23, <1>24, <1>25, <1>26
  DEF OrderlyStep

(* A step that moves no turn: who has it now, had it before.                *)
LEMMA TurnFrame ==
    ASSUME TypeOK, TurnInv, UNCHANGED <<wpc, sem, semset>>,
           \A q \in Readers : ReaderHasTurn(q)' => ReaderHasTurn(q) /\ rsem'[q] = rsem[q]
    PROVE  TurnInv'
BY DEF TurnInv

(* Every step keeps the one turn.                                            *)
LEMMA TurnStep ==
    ASSUME TypeOK, ObjectsInv, AttachInv, TurnInv, OrderlyStep
    PROVE  TurnInv'
<1> USE XfrAssumption DEF TypeOK, ObjectsInv, AttachInv, TurnInv, Attached, ReaderHasTurn,
        NoReaderTurn, Shared, vars, wvars, rvars, fvars, Over, WriterPcs,
        ReaderPcs, Sems
<1>1. CASE WStart
  BY <1>1 DEF WStart
<1>2. CASE WSemget
  BY <1>2 DEF WSemget
<1>3. CASE WInitWrite
  BY <1>3 DEF WInitWrite, initSemAvailable
<1>4. CASE WInitRead
  BY <1>4 DEF WInitRead, initSemInUse
<1>5. CASE WShmOpen
  BY <1>5 DEF WShmOpen
<1>6. CASE WReserve
  BY <1>6 DEF WReserve, reserveSem
<1>7. CASE WRead
  BY <1>7 DEF WRead
<1>8. CASE WReadFails
  BY <1>8 DEF WReadFails, Fault
<1>9. CASE WStore
  BY <1>9 DEF WStore
<1>10. CASE WRelease
  BY <1>10 DEF WRelease, releaseSem
<1>11. CASE WTest
  BY <1>11 DEF WTest
<1>12. CASE WFinal
  BY <1>12 DEF WFinal, reserveSem
<1>13. CASE WRmid
  BY <1>13 DEF WRmid
<1>14. CASE WUnlink
  BY <1>14 DEF WUnlink
<1>15. ASSUME NEW r \in Readers, RStart(r) PROVE TurnInv'
  BY <1>15 DEF RStart, RGoto
<1>16. ASSUME NEW r \in Readers, RSemget(r) PROVE TurnInv'
  BY <1>16 DEF RSemget, RGoto
<1>17. ASSUME NEW r \in Readers, RShmOpen(r) PROVE TurnInv'
  BY <1>17 DEF RShmOpen, RGoto
<1>18. ASSUME NEW r \in Readers, RReserve(r) PROVE TurnInv'
  BY <1>18 DEF RReserve, reserveSem, RGoto
<1>19. ASSUME NEW r \in Readers, RRemoved(r) PROVE TurnInv'
  BY <1>19 DEF RRemoved, RGoto
<1>20. ASSUME NEW r \in Readers, RCheck(r) PROVE TurnInv'
  <2>1. \A q \in Readers : ReaderHasTurn(q)' => ReaderHasTurn(q) /\ rsem'[q] = rsem[q]
    BY <1>20 DEF RCheck, RGoto
  <2>2. UNCHANGED <<wpc, sem, semset>>
    BY <1>20 DEF RCheck
  <2> QED
    BY <2>1, <2>2, TurnFrame
<1>21. ASSUME NEW r \in Readers, RWrite(r) PROVE TurnInv'
  <2>1. \A q \in Readers : ReaderHasTurn(q)' => ReaderHasTurn(q) /\ rsem'[q] = rsem[q]
    BY <1>21 DEF RWrite, RGoto
  <2>2. UNCHANGED <<wpc, sem, semset>>
    BY <1>21 DEF RWrite
  <2> QED
    BY <2>1, <2>2, TurnFrame
<1>22. ASSUME NEW r \in Readers, RWriteFails(r) PROVE TurnInv'
  BY <1>22 DEF RWriteFails, RGoto, Fault
<1>23. ASSUME NEW r \in Readers, RRelease(r) PROVE TurnInv'
  <2>1. wpc \in Shared
    BY <1>23 DEF RRelease
  <2>2. sem'["WRITE_SEM"] = 1 /\ sem'["READ_SEM"] = 0
    BY <1>23, <2>1 DEF RRelease, releaseSem
  <2>3. \A q \in Readers : ~ReaderHasTurn(q)'
    BY <1>23, <2>1 DEF RRelease, RGoto
  <2>4. wpc' = wpc
    BY <1>23 DEF RRelease
  <2>5. sem'["WRITE_SEM"] + sem'["READ_SEM"] <= 1
    BY <2>2
  <2> QED
    BY <2>1, <2>2, <2>3, <2>4, <2>5
<1>24. ASSUME NEW r \in Readers, RFinal(r) PROVE TurnInv'
  <2>1. wpc \in Shared
    BY <1>24 DEF RFinal
  <2>2. sem'["WRITE_SEM"] = 1 /\ sem'["READ_SEM"] = 0
    BY <1>24, <2>1 DEF RFinal, releaseSem
  <2>3. \A q \in Readers : ~ReaderHasTurn(q)'
    BY <1>24, <2>1 DEF RFinal, RGoto
  <2>4. wpc' = wpc
    BY <1>24 DEF RFinal
  <2>5. sem'["WRITE_SEM"] + sem'["READ_SEM"] <= 1
    BY <2>2
  <2> QED
    BY <2>1, <2>2, <2>3, <2>4, <2>5
<1>25. ASSUME NEW r \in Readers, RExit(r) PROVE TurnInv'
  BY <1>25 DEF RExit, RGoto
<1>26. CASE UNCHANGED vars
  BY <1>26
<1> QED
  BY <1>1, <1>2, <1>3, <1>4, <1>5, <1>6, <1>7, <1>8, <1>9, <1>10, <1>11, <1>12,
     <1>13, <1>14, <1>15, <1>16, <1>17, <1>18, <1>19, <1>20, <1>21, <1>22,
     <1>23, <1>24, <1>25, <1>26
  DEF OrderlyStep

(* A step of a reader that has no turn afterwards, and touches no data.     *)
LEMMA DataFrame ==
    ASSUME DataInv, UNCHANGED <<wvars, sem, shm, mem, out>>,
           \A q \in Readers : rpc'[q] = rpc[q] \/ ~ReaderHasTurn(q)'
    PROVE  DataInv'
BY DEF DataInv, Full, Eof, wvars, ReaderHasTurn

(* Every step keeps what is in the segment.                                  *)
LEMMA DataStep ==
    ASSUME TypeOK, MappedInv, ObjectsInv, AttachInv, TurnInv, DataInv, CountInv, OrderlyStep
    PROVE  DataInv'
<1> USE XfrAssumption DEF TypeOK, MappedInv, ObjectsInv, AttachInv, TurnInv, DataInv, CountInv,
        Full, Eof, Attached, ReaderHasTurn, NoReaderTurn, Shared, vars, wvars,
        rvars, fvars, Over, WriterPcs, ReaderPcs, Sems
<1>1. CASE WStart
  BY <1>1 DEF WStart
<1>2. CASE WSemget
  BY <1>2 DEF WSemget
<1>3. CASE WInitWrite
  BY <1>3 DEF WInitWrite, initSemAvailable
<1>4. CASE WInitRead
  BY <1>4 DEF WInitRead, initSemInUse
<1>5. CASE WShmOpen
  BY <1>5 DEF WShmOpen
<1>6. CASE WReserve
  BY <1>6 DEF WReserve, reserveSem
<1>7. CASE WRead
  BY <1>7, SMTT(30) DEF WRead
<1>8. CASE WReadFails
  BY <1>8 DEF WReadFails, Fault
<1>9. CASE WStore
  BY <1>9, SMTT(30) DEF WStore
<1>10. CASE WRelease
  BY <1>10 DEF WRelease, releaseSem
<1>11. CASE WTest
  BY <1>11 DEF WTest
<1>12. CASE WFinal
  BY <1>12 DEF WFinal, reserveSem
<1>13. CASE WRmid
  BY <1>13 DEF WRmid
<1>14. CASE WUnlink
  BY <1>14 DEF WUnlink
<1>15. ASSUME NEW r \in Readers, RStart(r) PROVE DataInv'
  <2>1. \A q \in Readers : rpc'[q] = rpc[q] \/ ~ReaderHasTurn(q)'
    BY <1>15 DEF RStart, RGoto
  <2>2. UNCHANGED <<wvars, sem, shm, mem, out>>
    BY <1>15 DEF RStart
  <2> QED
    BY <2>1, <2>2, DataFrame
<1>16. ASSUME NEW r \in Readers, RSemget(r) PROVE DataInv'
  <2>1. \A q \in Readers : rpc'[q] = rpc[q] \/ ~ReaderHasTurn(q)'
    BY <1>16 DEF RSemget, RGoto
  <2>2. UNCHANGED <<wvars, sem, shm, mem, out>>
    BY <1>16 DEF RSemget
  <2> QED
    BY <2>1, <2>2, DataFrame
<1>17. ASSUME NEW r \in Readers, RShmOpen(r) PROVE DataInv'
  <2>1. \A q \in Readers : rpc'[q] = rpc[q] \/ ~ReaderHasTurn(q)'
    BY <1>17 DEF RShmOpen, RGoto
  <2>2. UNCHANGED <<wvars, sem, shm, mem, out>>
    BY <1>17 DEF RShmOpen
  <2> QED
    BY <2>1, <2>2, DataFrame
<1>18. ASSUME NEW r \in Readers, RReserve(r) PROVE DataInv'
  BY <1>18 DEF RReserve, reserveSem, RGoto
<1>19. ASSUME NEW r \in Readers, RRemoved(r) PROVE DataInv'
  <2>1. \A q \in Readers : rpc'[q] = rpc[q] \/ ~ReaderHasTurn(q)'
    BY <1>19 DEF RRemoved, RGoto
  <2>2. UNCHANGED <<wvars, sem, shm, mem, out>>
    BY <1>19 DEF RRemoved
  <2> QED
    BY <2>1, <2>2, DataFrame
<1>20. ASSUME NEW r \in Readers, RCheck(r) PROVE DataInv'
  BY <1>20, SMTT(30) DEF RCheck, RGoto
<1>21. ASSUME NEW r \in Readers, RWrite(r) PROVE DataInv'
  BY <1>21, SMTT(30) DEF RWrite, RGoto
<1>22. ASSUME NEW r \in Readers, RWriteFails(r) PROVE DataInv'
  <2>1. \A q \in Readers : rpc'[q] = rpc[q] \/ ~ReaderHasTurn(q)'
    BY <1>22 DEF RWriteFails, RGoto
  <2>2. UNCHANGED <<wvars, sem, shm, mem, out>>
    BY <1>22 DEF RWriteFails
  <2> QED
    BY <2>1, <2>2, DataFrame
<1>23. ASSUME NEW r \in Readers, RRelease(r) PROVE DataInv'
  BY <1>23 DEF RRelease, releaseSem, RGoto
<1>24. ASSUME NEW r \in Readers, RFinal(r) PROVE DataInv'
  BY <1>24 DEF RFinal, releaseSem, RGoto
<1>25. ASSUME NEW r \in Readers, RExit(r) PROVE DataInv'
  <2>1. \A q \in Readers : rpc'[q] = rpc[q] \/ ~ReaderHasTurn(q)'
    BY <1>25 DEF RExit, RGoto
  <2>2. UNCHANGED <<wvars, sem, shm, mem, out>>
    BY <1>25 DEF RExit
  <2> QED
    BY <2>1, <2>2, DataFrame
<1>26. CASE UNCHANGED vars
  BY <1>26, SMTT(30)
<1> QED
  BY <1>1, <1>2, <1>3, <1>4, <1>5, <1>6, <1>7, <1>8, <1>9, <1>10, <1>11, <1>12,
     <1>13, <1>14, <1>15, <1>16, <1>17, <1>18, <1>19, <1>20, <1>21, <1>22,
     <1>23, <1>24, <1>25, <1>26
  DEF OrderlyStep

(* Every step keeps the counters.                                            *)
LEMMA CountStep ==
    ASSUME TypeOK, ObjectsInv, CountInv, DataInv, OrderlyStep
    PROVE  CountInv'
<1> USE XfrAssumption DEF TypeOK, ObjectsInv, CountInv, DataInv, Attached, ReaderHasTurn,
        NoReaderTurn, Shared, vars, wvars, rvars, fvars, Over, WriterPcs,
        ReaderPcs, Sems
<1>1. CASE WStart
  BY <1>1 DEF WStart
<1>2. CASE WSemget
  BY <1>2 DEF WSemget
<1>3. CASE WInitWrite
  BY <1>3 DEF WInitWrite, initSemAvailable
<1>4. CASE WInitRead
  BY <1>4 DEF WInitRead, initSemInUse
<1>5. CASE WShmOpen
  BY <1>5 DEF WShmOpen
<1>6. CASE WReserve
  BY <1>6 DEF WReserve, reserveSem
<1>7. CASE WRead
  BY <1>7, SMTT(30) DEF WRead
<1>8. CASE WReadFails
  BY <1>8 DEF WReadFails, Fault
<1>9. CASE WStore
  BY <1>9 DEF WStore
<1>10. CASE WRelease
  BY <1>10 DEF WRelease, releaseSem
<1>11. CASE WTest
  <2>1. mem[shm].cnt = got /\ xfrs = sent - got
    BY <1>11 DEF WTest
  <2>2. CASE got = 0
    BY <1>11, <2>1, <2>2 DEF WTest
  <2>3. CASE got = 1
    <3>1. /\ xfrs' = sent /\ bytes' = (bytes + 1) % Wrap
          /\ wpc' = IF bytes' # 0 THEN "reserve" ELSE "final"
          /\ UNCHANGED <<sent, input>>
      BY <1>11, <2>1, <2>3 DEF WTest
    <3>2. ASSUME input < Wrap PROVE bytes' = sent /\ sent # 0
      <4>1. bytes + 1 = sent /\ bytes + 1 < Wrap
        BY <1>11, <2>1, <2>3, <3>2 DEF WTest
      <4>2. (bytes + 1) % Wrap = bytes + 1
        <5>1. bytes + 1 \in Nat /\ Wrap \in Nat
          OBVIOUS
        <5> QED
          BY <4>1, <5>1, ModSmall, Zenon
      <4> QED
        BY <3>1, <4>1, <4>2
    <3> QED
      BY <3>1, <3>2
  <2> QED
    BY <2>2, <2>3
<1>12. CASE WFinal
  BY <1>12 DEF WFinal, reserveSem
<1>13. CASE WRmid
  BY <1>13 DEF WRmid
<1>14. CASE WUnlink
  BY <1>14 DEF WUnlink
<1>15. ASSUME NEW r \in Readers, RStart(r) PROVE CountInv'
  BY <1>15 DEF RStart, RGoto
<1>16. ASSUME NEW r \in Readers, RSemget(r) PROVE CountInv'
  BY <1>16 DEF RSemget, RGoto
<1>17. ASSUME NEW r \in Readers, RShmOpen(r) PROVE CountInv'
  BY <1>17 DEF RShmOpen, RGoto
<1>18. ASSUME NEW r \in Readers, RReserve(r) PROVE CountInv'
  BY <1>18 DEF RReserve, reserveSem, RGoto
<1>19. ASSUME NEW r \in Readers, RRemoved(r) PROVE CountInv'
  BY <1>19 DEF RRemoved, RGoto
<1>20. ASSUME NEW r \in Readers, RCheck(r) PROVE CountInv'
  BY <1>20 DEF RCheck, RGoto
<1>21. ASSUME NEW r \in Readers, RWrite(r) PROVE CountInv'
  BY <1>21 DEF RWrite, RGoto
<1>22. ASSUME NEW r \in Readers, RWriteFails(r) PROVE CountInv'
  BY <1>22 DEF RWriteFails, RGoto, Fault
<1>23. ASSUME NEW r \in Readers, RRelease(r) PROVE CountInv'
  BY <1>23 DEF RRelease, releaseSem, RGoto
<1>24. ASSUME NEW r \in Readers, RFinal(r) PROVE CountInv'
  BY <1>24 DEF RFinal, releaseSem, RGoto
<1>25. ASSUME NEW r \in Readers, RExit(r) PROVE CountInv'
  BY <1>25 DEF RExit, RGoto
<1>26. CASE UNCHANGED vars
  BY <1>26
<1> QED
  BY <1>1, <1>2, <1>3, <1>4, <1>5, <1>6, <1>7, <1>8, <1>9, <1>10, <1>11, <1>12,
     <1>13, <1>14, <1>15, <1>16, <1>17, <1>18, <1>19, <1>20, <1>21, <1>22,
     <1>23, <1>24, <1>25, <1>26
  DEF OrderlyStep

(* Every step keeps the output in order.                                     *)
LEMMA OrderStep ==
    ASSUME TypeOK, MappedInv, ObjectsInv, AttachInv, TurnInv, DataInv, OrderInv, OrderlyStep
    PROVE  OrderInv'
<1> USE XfrAssumption DEF TypeOK, MappedInv, ObjectsInv, AttachInv, TurnInv, DataInv, OrderInv,
        Full, Eof, Attached, ReaderHasTurn, NoReaderTurn, Shared, vars, wvars,
        rvars, fvars, Over, WriterPcs, ReaderPcs, Sems
<1>1. CASE WStart
  BY <1>1 DEF WStart
<1>2. CASE WSemget
  BY <1>2 DEF WSemget
<1>3. CASE WInitWrite
  BY <1>3 DEF WInitWrite, initSemAvailable
<1>4. CASE WInitRead
  BY <1>4 DEF WInitRead, initSemInUse
<1>5. CASE WShmOpen
  BY <1>5 DEF WShmOpen
<1>6. CASE WReserve
  BY <1>6 DEF WReserve, reserveSem
<1>7. CASE WRead
  BY <1>7 DEF WRead
<1>8. CASE WReadFails
  BY <1>8 DEF WReadFails, Fault
<1>9. CASE WStore
  BY <1>9 DEF WStore
<1>10. CASE WRelease
  BY <1>10 DEF WRelease, releaseSem
<1>11. CASE WTest
  BY <1>11 DEF WTest
<1>12. CASE WFinal
  BY <1>12 DEF WFinal, reserveSem
<1>13. CASE WRmid
  BY <1>13 DEF WRmid
<1>14. CASE WUnlink
  BY <1>14 DEF WUnlink
<1>15. ASSUME NEW r \in Readers, RStart(r) PROVE OrderInv'
  BY <1>15 DEF RStart, RGoto
<1>16. ASSUME NEW r \in Readers, RSemget(r) PROVE OrderInv'
  BY <1>16 DEF RSemget, RGoto
<1>17. ASSUME NEW r \in Readers, RShmOpen(r) PROVE OrderInv'
  BY <1>17 DEF RShmOpen, RGoto
<1>18. ASSUME NEW r \in Readers, RReserve(r) PROVE OrderInv'
  BY <1>18 DEF RReserve, reserveSem, RGoto
<1>19. ASSUME NEW r \in Readers, RRemoved(r) PROVE OrderInv'
  BY <1>19 DEF RRemoved, RGoto
<1>20. ASSUME NEW r \in Readers, RCheck(r) PROVE OrderInv'
  BY <1>20 DEF RCheck, RGoto
<1>21. ASSUME NEW r \in Readers, RWrite(r) PROVE OrderInv'
  <2>1. wpc \in Shared /\ rseg[r] = shm
    BY <1>21 DEF RWrite
  <2>2. Full
    BY <1>21, <2>1 DEF RWrite
  <2>3. out' = Append(out, <<session, Len(out) + 1>>)
    <3>1. mem[rseg[r]].cnt > 0 /\ mem[rseg[r]].buf = <<session, sent>>
      BY <2>1, <2>2
    <3>2. sent = Len(out) + 1
      BY <2>2
    <3> QED
      BY <1>21, <3>1, <3>2 DEF RWrite
  <2>4. session' = session
    BY <1>21 DEF RWrite
  <2> QED
    BY <2>3, <2>4
<1>22. ASSUME NEW r \in Readers, RWriteFails(r) PROVE OrderInv'
  BY <1>22 DEF RWriteFails, RGoto, Fault
<1>23. ASSUME NEW r \in Readers, RRelease(r) PROVE OrderInv'
  BY <1>23 DEF RRelease, releaseSem, RGoto
<1>24. ASSUME NEW r \in Readers, RFinal(r) PROVE OrderInv'
  BY <1>24 DEF RFinal, releaseSem, RGoto
<1>25. ASSUME NEW r \in Readers, RExit(r) PROVE OrderInv'
  BY <1>25 DEF RExit, RGoto
<1>26. CASE UNCHANGED vars
  BY <1>26
<1> QED
  BY <1>1, <1>2, <1>3, <1>4, <1>5, <1>6, <1>7, <1>8, <1>9, <1>10, <1>11, <1>12,
     <1>13, <1>14, <1>15, <1>16, <1>17, <1>18, <1>19, <1>20, <1>21, <1>22,
     <1>23, <1>24, <1>25, <1>26
  DEF OrderlyStep

(* Until a handler runs, every step is one of OrderlyStep. *)
LEMMA OrderlySteps ==
    ASSUME [Next]_vars, Orderly', Orderly => ObjectsInv
    PROVE  Orderly /\ OrderlyStep
<1>1. hurt \subseteq hurt'
  BY DEF Next, Writer, Reader, Fault, vars, wvars, rvars, fvars, WStart, WSemget, WInitWrite,
     WInitRead, WShmOpen, WReserve, WRead, WReadFails, WStore, WRelease, WTest, WFinal, WRmid,
     WUnlink, WSigint, WCleanup, RStart, RSemget, RShmOpen, RReserve, RRemoved, RCheck, RWrite,
     RWriteFails, RRelease, RFinal, RExit, RSigint
<1>2. Orderly
  BY <1>1 DEF Orderly
<1>3. ~WSigint
  BY DEF WSigint, Fault, Orderly
<1>4. ~WCleanup
  BY <1>2 DEF WCleanup, ObjectsInv
<1>5. \A r \in Readers : ~RSigint(r)
  BY DEF RSigint, Fault, Orderly
<1> QED
  BY <1>2, <1>3, <1>4, <1>5 DEF Next, Writer, Reader, OrderlyStep

(* Every step keeps the invariant.                                           *)
LEMMA InvStep == IInv /\ [Next]_vars => IInv'
<1> SUFFICES ASSUME IInv, [Next]_vars PROVE IInv'
  OBVIOUS
<1>1. TypeOK' /\ MappedInv'
  BY TypeStep DEF IInv
<1>2. ASSUME Orderly' PROVE SafeInv'
  <2>1. Orderly /\ OrderlyStep
    BY <1>2, OrderlySteps DEF IInv, SafeInv
  <2>2. TypeOK /\ MappedInv /\ SafeInv
    BY <2>1 DEF IInv
  <2> QED
    BY <2>1, <2>2, ObjectsStep, AttachStep, TurnStep, DataStep, CountStep, OrderStep
    DEF SafeInv
<1> QED
  BY <1>1, <1>2 DEF IInv

(***************************************************************************)
(* The theorems.                                                           *)
(***************************************************************************)

(* The inductive invariant holds of every state of the transfer. *)
THEOREM Invariance == Spec => []IInv
BY InitInv, InvStep, PTL DEF Spec

(* Every variable of the two programs and their IPC objects keeps its type; *)
(* in particular no semaphore becomes negative.                             *)
THEOREM TypeCorrect == Spec => []TypeOK
<1>1. IInv => TypeOK
  BY DEF IInv
<1> QED
  BY <1>1, Invariance, PTL

(* Writer and readers access the segment exclusively until SIGINT strikes. *)
THEOREM Exclusion == Spec => []TurnsExclude
<1>1. IInv => TurnsExclude
  BY DEF IInv, SafeInv, ObjectsInv, TurnInv, TurnsExclude, ExclusiveAccess, TypeOK,
     WriterHasTurn, NoReaderTurn, Shared, WriterPcs, Over
<1> QED
  BY <1>1, Invariance, PTL

(* What the readers write is a prefix of what the writer reads. *)
THEOREM InOrderDelivery == Spec => []DeliveredInOrder
<1>1. IInv => DeliveredInOrder
  BY DEF IInv, SafeInv, OrderInv, DeliveredInOrder
<1> QED
  BY <1>1, Invariance, PTL

(* The semaphore set is never removed under a reader that has the turn. *)
THEOREM SetOutlivesTurn == Spec => []NoTurnOnRemovedSet
<1>1. IInv => NoTurnOnRemovedSet
  BY DEF IInv, SafeInv, TurnInv, NoTurnOnRemovedSet
<1> QED
  BY <1>1, Invariance, PTL

(* A writer that cleans up has transferred all of its input. *)
THEOREM CompleteDelivery == Spec => []CleanUpIsComplete
<1>1. IInv => CleanUpIsComplete
  BY DEF IInv, SafeInv, DataInv, CountInv, CleanUpIsComplete
<1> QED
  BY <1>1, Invariance, PTL

(* Where no signal is ever sent, the two programs implement the stream of   *)
(* XfrStream, whatever read() and write() errors strike.                    *)
THEOREM StreamRefinement ==
    ASSUME Faults \cap {"writer_sigint", "reader_sigint"} = {}
    PROVE  Spec => ImplementsStream
<1>1. Init => Stream!Init
  BY DEF Init, Stream!Init
<1>2. IInv /\ [Next]_vars => [Stream!Next]_(Stream!vars)
  <2> SUFFICES ASSUME IInv, [Next]_vars PROVE [Stream!Next]_(Stream!vars)
    OBVIOUS
  <2>1. Orderly
    BY DEF IInv, TypeOK, Orderly
  <2>2. IInv' /\ Orderly'
    <3>1. IInv'
      BY InvStep
    <3>2. Orderly'
      BY <3>1 DEF IInv, TypeOK, Orderly
    <3> QED
      BY <3>1, <3>2
  <2>3. OrderlyStep
    BY <2>1, <2>2, OrderlySteps DEF IInv, SafeInv
  <2>4. SafeInv /\ TypeOK /\ TypeOK'
    BY <2>1, <2>2 DEF IInv
  <2>5. CASE WStart
    <3>1. Stream!Begin
      BY <2>5 DEF WStart, Stream!Begin
    <3> QED
      BY <3>1 DEF Stream!Next
  <2>6. ASSUME NEW r \in Readers, RWrite(r) PROVE Stream!Deliver
    <3>1. wpc \in Shared /\ rseg[r] = shm /\ Full
      BY <2>4, <2>6 DEF SafeInv, RWrite, ObjectsInv, AttachInv, TurnInv, DataInv, Attached,
         ReaderHasTurn, NoReaderTurn, TypeOK, WriterPcs, Over, Shared
    <3>2. Len(out) < input
      BY <2>4, <3>1 DEF Full, TypeOK
    <3>3. sent = Len(out) + 1 /\ mem[rseg[r]].cnt > 0
      BY <2>4, <3>1 DEF Full, TypeOK
    <3>4. out' = Append(out, <<session, Len(out) + 1>>)
      BY <2>6, <3>1, <3>3 DEF RWrite, Full
    <3> QED
      BY <2>6, <3>1, <3>2, <3>4 DEF RWrite, wvars, Stream!Deliver, Shared
  <2>7. CASE WFinal
    <3>1. sem["WRITE_SEM"] = 1
      BY <2>4, <2>7 DEF WFinal, reserveSem, SafeInv, TurnInv, Shared, TypeOK, Sems
    <3>2. Len(out) = sent /\ (input < Wrap => sent = input)
      BY <2>4, <2>7, <3>1 DEF WFinal, SafeInv, DataInv, CountInv, Shared, Over
    <3>3. Stream!Close
      BY <2>7, <3>2 DEF WFinal, rvars, Stream!Close
    <3> QED
      BY <3>3 DEF Stream!Next
  <2>8. CASE \/ WSemget \/ WInitWrite \/ WInitRead \/ WShmOpen \/ WReserve \/ WRead
             \/ WReadFails \/ WStore \/ WRelease \/ WTest \/ WRmid \/ WUnlink
    BY <2>8 DEF WSemget, WInitWrite, WInitRead, WShmOpen, WReserve, WRead, WReadFails, WStore,
       WRelease, WTest, WRmid, WUnlink, rvars, Stream!vars
  <2>9. ASSUME NEW r \in Readers,
               \/ RStart(r) \/ RSemget(r) \/ RShmOpen(r) \/ RReserve(r) \/ RRemoved(r)
               \/ RCheck(r) \/ RWriteFails(r) \/ RRelease(r) \/ RFinal(r) \/ RExit(r)
        PROVE  UNCHANGED Stream!vars
    BY <2>9 DEF RStart, RSemget, RShmOpen, RReserve, RRemoved, RCheck, RWriteFails, RRelease,
       RFinal, RExit, wvars, Stream!vars
  <2>10. CASE UNCHANGED vars
    BY <2>10 DEF vars, wvars, rvars, Stream!vars
  <2> QED
    BY <2>3, <2>5, <2>6, <2>7, <2>8, <2>9, <2>10 DEF OrderlyStep, Stream!Next
<1> QED
  BY <1>1, <1>2, Invariance, PTL DEF Spec, ImplementsStream, Stream!Spec

-----------------------------------------------------------------------------
(* Broadcast: what the unsynchronised scan of the ring can and cannot count.*)

(* The ring holds messages that were sent, zeroes, and the final -1 only    *)
(* once the producer is through.                                            *)
RingInv ==
    \A s \in 0..(MaxSlots - 1) :
        /\ slot[s] = -1 => ppc = "exited"
        /\ slot[s] < produced \/ slot[s] = 0

(* What a consumer has counted, it has counted in increasing order.         *)
ScanInv ==
    \A c \in WorkIds :
        /\ counter[c] <= prev[c] + 1
        /\ prev[c] < produced \/ prev[c] = 0

(* Who can exist, and be gone, when.                                        *)
FamilyInv ==
    /\ ppc = "exited" => produced = data_num
    /\ ppc = "unborn" => produced = 0
    /\ mpc = "fork" <=> ppc = "unborn"
    /\ mpc # "fork" => n = 0
    /\ \A c \in WorkIds : cpc[c] \in {"send", "exited"} => ppc = "exited"
    /\ mpc = "killed" => ppc = "exited"

RingIInv == RingTypeOK /\ RingInv /\ ScanInv /\ FamilyInv

(* The sum of g over the first k consumers, as Received is that of counter. *)
SumOf(g) ==
    CHOOSE f : f = [k \in 0..MaxConsumers |-> IF k = 0 THEN 0 ELSE f[k - 1] + g[k - 1]]

Lost == [c \in WorkIds |-> IF c \in collected THEN Missed(c) ELSE 0]

(* A report is pending or collected of consumers that have ended, and of    *)
(* none twice; the parent's sum is that of those it has collected.          *)
ReportInv ==
    /\ \A c \in WorkIds : cpc[c] # "unborn" => c < consumer_num
    /\ \A c \in collected : cpc[c] = "exited"
    /\ \A s \in AVA_SIG : pending[s] # None =>
        /\ cpc[pending[s]] = "exited" /\ pending[s] \notin collected
        /\ SigOf(pending[s]) = s
    /\ mpc \in {"fork", "mask"} => collected = {} /\ \A s \in AVA_SIG : pending[s] = None
    /\ failed_sum = SumOf(Lost)[consumer_num]

(* The invariant holds at first.                                             *)
LEMMA RingInitInv == RingInit => RingIInv
BY BroadcastAssumption DEF RingInit, RingIInv, RingTypeOK, RingInv, ScanInv, FamilyInv, Slots, WorkIds,
   AVA_SIG, None

(* A position modulo the ring's size is a slot.                              *)
LEMMA ModSlot ==
    ASSUME NEW k \in Nat, RingTypeOK
    PROVE  k % buffer_num \in 0..(MaxSlots - 1)
<1>1. buffer_num \in Nat /\ buffer_num > 0 /\ buffer_num <= MaxSlots
  BY BroadcastAssumption DEF RingTypeOK
<1>2. k % buffer_num \in 0..(buffer_num - 1)
  BY <1>1
<1> QED
  BY <1>1, <1>2, BroadcastAssumption

(* The scan position stays inside the ring. *)
LEMMA NextSlot ==
    ASSUME NEW b \in Nat \ {0}, NEW p \in 0..(b - 1)
    PROVE  (IF p = b - 1 THEN 0 ELSE p + 1) \in 0..(b - 1)
OBVIOUS

(* Every step keeps the types. *)
LEMMA RingTypeStep == RingTypeOK /\ [RingNext]_ringvars => RingTypeOK'
<1> SUFFICES ASSUME RingTypeOK, [RingNext]_ringvars PROVE RingTypeOK'
  OBVIOUS
<1> USE BroadcastAssumption DEF RingTypeOK, ringvars, argv, pvars, cvars, mvars, AVA_SIG, None, Slots
<1>1. CASE ForkConsumer
  <2>1. n - 1 \in WorkIds
    BY <1>1 DEF ForkConsumer, WorkIds
  <2>2. cpc' \in [WorkIds -> {"unborn", "failed", "run", "send", "exited"}]
    BY <1>1, <2>1 DEF ForkConsumer
  <2>3. failures' \in 0..ForkFailures
    BY <1>1, SMTT(30) DEF ForkConsumer
  <2> QED
    BY <1>1, <2>2, <2>3, SMTT(30) DEF ForkConsumer
<1>2. CASE ForkProducer
  <2>1. failures' \in 0..ForkFailures
    BY <1>2, SMTT(30) DEF ForkProducer
  <2>2. ppc' \in {"run", "failed"}
    BY <1>2 DEF ForkProducer
  <2> QED
    BY <1>2, <2>1, <2>2 DEF ForkProducer
<1>3. CASE BlockSignals
  BY <1>3 DEF BlockSignals
<1>4. ASSUME NEW s \in AVA_SIG, Collect(s) PROVE RingTypeOK'
  <2>1. pending[s] \in WorkIds
    BY <1>4 DEF Collect
  <2>2. Missed(pending[s]) \in Int
    BY <2>1 DEF Missed
  <2> QED
    <3>1. i' \in 0..consumer_num' /\ failed_sum' \in Int
      BY <1>4, <2>2 DEF Collect
    <3>2. collected' \subseteq WorkIds /\ pending' \in [AVA_SIG -> WorkIds \cup {None}]
      BY <1>4, <2>1 DEF Collect
    <3> QED
      BY <1>4, <3>1, <3>2 DEF Collect
<1>5. CASE Timeout
  BY <1>5 DEF Timeout
<1>6. CASE AllCollected
  BY <1>6 DEF AllCollected
<1>7. CASE PrintResult
  BY <1>7 DEF PrintResult
<1>8. CASE SendMessage
  <2>1. produced % buffer_num \in 0..(MaxSlots - 1)
    BY ModSlot, SMTT(30)
  <2> QED
    BY <1>8, <2>1, SMTT(30) DEF SendMessage, write_msg
<1>9. CASE SendFinal
  <2>1. data_num % buffer_num \in 0..(MaxSlots - 1)
    BY ModSlot, SMTT(30)
  <2> QED
    BY <1>9, <2>1, SMTT(30) DEF SendFinal, write_msg
<1>10. ASSUME NEW c \in WorkIds, Scan(c) PROVE RingTypeOK'
  <2>1. slot[pos[c]] \in -1..MaxMessages
    OBVIOUS
  <2>2. (IF pos[c] = buffer_num - 1 THEN 0 ELSE pos[c] + 1) \in Slots
    <3>1. pos[c] \in 0..(buffer_num - 1) /\ buffer_num \in Nat \ {0}
      OBVIOUS
    <3> QED
      BY <3>1, NextSlot
  <2>3. pos' \in [WorkIds -> Slots]
    BY <1>10, <2>2 DEF Scan, ScanWith
  <2>4. counter' \in [WorkIds -> Nat]
    BY <1>10, SMTT(30) DEF Scan, ScanWith
  <2>5. prev' \in [WorkIds -> -1..MaxMessages]
    BY <1>10, <2>1 DEF Scan, ScanWith
  <2>6. cpc' \in [WorkIds -> {"unborn", "failed", "run", "send", "exited"}]
    BY <1>10 DEF Scan, ScanWith
  <2> QED
    BY <1>10, <2>3, <2>4, <2>5, <2>6 DEF Scan, ScanWith
<1>11. ASSUME NEW c \in WorkIds, Report(c) PROVE RingTypeOK'
  <2>1. pending' \in [AVA_SIG -> WorkIds \cup {None}]
    BY <1>11 DEF Report, SigOf
  <2> QED
    BY <1>11, <2>1 DEF Report
<1>12. CASE UNCHANGED ringvars
  BY <1>12
<1> QED
  BY <1>1, <1>2, <1>3, <1>4, <1>5, <1>6, <1>7, <1>8, <1>9, <1>10, <1>11, <1>12
  DEF RingNext, Parent, Producer, Consumer

(* Every step keeps the rest of the invariant. *)
LEMMA ScanStep == RingIInv /\ [RingNext]_ringvars => RingInv' /\ ScanInv' /\ FamilyInv'
<1> SUFFICES ASSUME RingIInv, [RingNext]_ringvars PROVE RingInv' /\ ScanInv' /\ FamilyInv'
  OBVIOUS
<1> USE BroadcastAssumption DEF RingIInv, RingTypeOK, RingInv, ScanInv, FamilyInv, ringvars, argv, pvars,
        cvars, mvars, Slots
<1>1. CASE ForkConsumer
  BY <1>1 DEF ForkConsumer
<1>2. CASE ForkProducer
  BY <1>2 DEF ForkProducer
<1>3. CASE BlockSignals
  BY <1>3 DEF BlockSignals
<1>4. CASE \E s \in AVA_SIG : Collect(s)
  BY <1>4 DEF Collect
<1>5. CASE Timeout \/ AllCollected \/ PrintResult
  BY <1>5 DEF Timeout, AllCollected, PrintResult
<1>8. CASE SendMessage
  <2>1. produced % buffer_num \in 0..(MaxSlots - 1)
    BY ModSlot, SMTT(30)
  <2> QED
    BY <1>8, <2>1, SMTT(30) DEF SendMessage, write_msg
<1>9. CASE SendFinal
  <2>1. data_num % buffer_num \in 0..(MaxSlots - 1)
    BY ModSlot, SMTT(30)
  <2> QED
    BY <1>9, <2>1 DEF SendFinal, write_msg
<1>10. ASSUME NEW c \in WorkIds, Scan(c) PROVE RingInv' /\ ScanInv' /\ FamilyInv'
  <2> DEFINE cur == slot[pos[c]]
  <2>1. cur \in -1..MaxMessages /\ (cur = -1 => ppc = "exited") /\ (cur < produced \/ cur = 0)
    OBVIOUS
  <2>2. ScanInv'
    <3>1. ASSUME NEW q \in WorkIds \ {c}
          PROVE  counter'[q] = counter[q] /\ prev'[q] = prev[q]
      BY <1>10 DEF Scan, ScanWith
    <3>2. CASE cur > prev[c]
      <4>1. counter'[c] = counter[c] + 1 /\ prev'[c] = cur
        BY <1>10, <3>2 DEF Scan, ScanWith
      <4>2. counter[c] \in Nat /\ prev[c] \in -1..MaxMessages /\ produced' = produced
        BY <1>10 DEF Scan, ScanWith
      <4>3. counter'[c] <= prev'[c] + 1 /\ (prev'[c] < produced' \/ prev'[c] = 0)
        BY <2>1, <3>2, <4>1, <4>2
      <4> QED
        BY <3>1, <4>2, <4>3
    <3>3. CASE ~(cur > prev[c])
      BY <1>10, <3>3 DEF Scan, ScanWith
    <3> QED
      BY <3>2, <3>3
  <2>3. RingInv'
    BY <1>10 DEF Scan, ScanWith
  <2>4. FamilyInv'
    BY <1>10, <2>1 DEF Scan, ScanWith
  <2> QED
    BY <2>2, <2>3, <2>4
<1>11. ASSUME NEW c \in WorkIds, Report(c) PROVE RingInv' /\ ScanInv' /\ FamilyInv'
  <2>1. ppc = "exited"
    BY <1>11 DEF Report
  <2> QED
    BY <1>11, <2>1 DEF Report
<1>12. CASE UNCHANGED ringvars
  BY <1>12
<1> QED
  BY <1>1, <1>2, <1>3, <1>4, <1>5, <1>8, <1>9, <1>10, <1>11, <1>12
  DEF RingNext, Parent, Producer, Consumer

(***************************************************************************)
(* Sums over consumers.                                                    *)
(***************************************************************************)

(* Induction over a set of natural numbers: a number that is missing from   *)
(* it would be a least one.                                                 *)
LEMMA SetInduction ==
    ASSUME NEW A, 0 \in A, \A k \in Nat : k \in A => k + 1 \in A
    PROVE  \A k \in Nat : k \in A
<1> DEFINE R == OpToRel(<, Nat)
<1> DEFINE S == Nat \ A
<1>1. IsWellFoundedOn(R, Nat)
  BY NatLessThanWellFounded
<1>2. \A x, y \in Nat : x < y => <<x, y>> \in R
  BY DEF OpToRel
<1> HIDE DEF R
<1>3. SUFFICES ASSUME S # {} PROVE FALSE
  OBVIOUS
<1>4. S \subseteq Nat
  OBVIOUS
<1>5. PICK x \in S : \A y \in S : ~ (<<y, x>> \in R)
  BY <1>1, <1>3, <1>4, WFMin
<1>6. x \in Nat /\ x # 0 /\ x \notin A
  OBVIOUS
<1>7. x - 1 \in Nat /\ x - 1 < x /\ x = (x - 1) + 1
  BY <1>6
<1>8. x - 1 \in A
  BY <1>2, <1>5, <1>6, <1>7
<1> QED
  BY <1>6, <1>7, <1>8

(* The sums over the first consumers are what their definition says.        *)
LEMMA SumOfDef ==
    ASSUME NEW g \in [WorkIds -> Int]
    PROVE  /\ SumOf(g) \in [0..MaxConsumers -> Int]
           /\ SumOf(g)[0] = 0
           /\ \A k \in WorkIds : SumOf(g)[k + 1] = SumOf(g)[k] + g[k]
<1> USE BroadcastAssumption DEF WorkIds
<1> DEFINE Sums(f, m) == f \in [0..MaxConsumers -> Int] /\ f[0] = 0 /\ \A k \in 1..m : f[k] = f[k - 1] + g[k - 1]
           A == {m \in Nat : m <= MaxConsumers => \E f : Sums(f, m)}
<1>1. 0 \in A
  <2>1. Sums([k \in 0..MaxConsumers |-> 0], 0)
    OBVIOUS
  <2> QED
    BY <2>1
<1>2. ASSUME NEW m \in Nat, m \in A PROVE m + 1 \in A
  <2> SUFFICES ASSUME m + 1 <= MaxConsumers PROVE \E f : Sums(f, m + 1)
    OBVIOUS
  <2>1. PICK f : Sums(f, m)
    BY <1>2
  <2> DEFINE h == [f EXCEPT ![m + 1] = f[m] + g[m]]
  <2>2. f[m] + g[m] \in Int
    BY <2>1
  <2>3. h \in [0..MaxConsumers -> Int] /\ h[0] = 0
    BY <2>1, <2>2
  <2>4. ASSUME NEW k \in 1..(m + 1) PROVE h[k] = h[k - 1] + g[k - 1]
    <3>1. CASE k = m + 1
      <4>1. h[k] = f[m] + g[m]
        BY <2>1, <3>1
      <4>2. h[m] = f[m]
        BY <2>1
      <4> QED
        BY <3>1, <4>1, <4>2
    <3>2. CASE k \in 1..m
      <4>1. k - 1 # m + 1 /\ k # m + 1 /\ k \in 0..MaxConsumers /\ k - 1 \in 0..MaxConsumers
        BY <3>2
      <4>2. h[k] = f[k] /\ h[k - 1] = f[k - 1]
        BY <2>1, <4>1
      <4> QED
        BY <2>1, <3>2, <4>2
    <3> QED
      BY <3>1, <3>2
  <2> QED
    BY <2>3, <2>4
<1> HIDE DEF A
<1>3. MaxConsumers \in A
  BY <1>1, <1>2, SetInduction
<1>4. PICK f : Sums(f, MaxConsumers)
  BY <1>3 DEF A
<1>5. f = [k \in 0..MaxConsumers |-> IF k = 0 THEN 0 ELSE f[k - 1] + g[k - 1]]
  BY <1>4
<1>6. SumOf(g) = [k \in 0..MaxConsumers |-> IF k = 0 THEN 0 ELSE SumOf(g)[k - 1] + g[k - 1]]
  BY <1>5 DEF SumOf
<1> DEFINE G == SumOf(g)
<1> HIDE DEF G
<1>6a. G = [k \in 0..MaxConsumers |-> IF k = 0 THEN 0 ELSE G[k - 1] + g[k - 1]]
  BY <1>6 DEF G
<1>7. /\ G = [k \in 0..MaxConsumers |-> G[k]] /\ G[0] = 0
      /\ \A k \in WorkIds : G[k + 1] = G[k] + g[k]
  <2>1. ASSUME NEW k \in 0..MaxConsumers PROVE G[k] = IF k = 0 THEN 0 ELSE G[k - 1] + g[k - 1]
    BY <1>6a
  <2>2. ASSUME NEW k \in WorkIds PROVE G[k + 1] = G[k] + g[k]
    <3>1. k + 1 \in 0..MaxConsumers /\ k + 1 # 0 /\ (k + 1) - 1 = k
      OBVIOUS
    <3> QED
      BY <2>1, <3>1
  <2>3. G[0] = 0
    BY <2>1
  <2>4. G = [k \in 0..MaxConsumers |-> G[k]]
    BY <1>6a
  <2> QED
    BY <2>2, <2>3, <2>4
<1> DEFINE B == {m \in Nat : m <= MaxConsumers => G[m] \in Int}
<1>8. \A m \in Nat : m \in B => m + 1 \in B
  <2> SUFFICES ASSUME NEW m \in Nat, m + 1 <= MaxConsumers, G[m] \in Int PROVE G[m + 1] \in Int
    OBVIOUS
  <2>1. m \in WorkIds
    OBVIOUS
  <2>2. G[m + 1] = G[m] + g[m] /\ g[m] \in Int
    BY <1>7, <2>1
  <2> QED
    BY <2>2
<1>9. 0 \in B
  BY <1>7
<1> HIDE DEF B
<1>10. \A m \in Nat : m \in B
  BY <1>8, <1>9, SetInduction
<1>11. \A m \in 0..MaxConsumers : G[m] \in Int
  BY <1>10 DEF B
<1> QED
  BY <1>7, <1>11 DEF G

(* A sum grows by what one of its terms grows by. *)
LEMMA SumOfAdd ==
    ASSUME NEW g \in [WorkIds -> Int], NEW c \in WorkIds, NEW d \in Int,
           NEW h \in [WorkIds -> Int], \A w \in WorkIds : h[w] = IF w = c THEN g[c] + d ELSE g[w],
           NEW z \in 0..MaxConsumers, c < z
    PROVE  SumOf(h)[z] = SumOf(g)[z] + d
<1> USE BroadcastAssumption DEF WorkIds
<1>1. h \in [WorkIds -> Int] /\ h[c] = g[c] + d /\ \A w \in WorkIds \ {c} : h[w] = g[w]
  OBVIOUS
<1> DEFINE G == SumOf(g)  H == SumOf(h)
<1>2. /\ G \in [0..MaxConsumers -> Int] /\ G[0] = 0
      /\ \A k \in WorkIds : G[k + 1] = G[k] + g[k]
  BY SumOfDef
<1>3. /\ H \in [0..MaxConsumers -> Int] /\ H[0] = 0
      /\ \A k \in WorkIds : H[k + 1] = H[k] + h[k]
  BY <1>1, SumOfDef
<1> HIDE DEF G, H
<1> DEFINE A == {m \in Nat : m <= MaxConsumers => H[m] = IF c < m THEN G[m] + d ELSE G[m]}
<1>4. 0 \in A
  BY <1>2, <1>3
<1>5. ASSUME NEW m \in Nat, m \in A PROVE m + 1 \in A
  <2> SUFFICES ASSUME m + 1 <= MaxConsumers
               PROVE  H[m + 1] = IF c < m + 1 THEN G[m + 1] + d ELSE G[m + 1]
    OBVIOUS
  <2>0. m \in WorkIds /\ m \in 0..MaxConsumers
    OBVIOUS
  <2>1. /\ G[m + 1] = G[m] + g[m] /\ H[m + 1] = H[m] + h[m]
        /\ G[m] \in Int /\ g[m] \in Int
    BY <1>2, <1>3, <2>0
  <2>2. H[m] = IF c < m THEN G[m] + d ELSE G[m]
    BY <1>5
  <2>3. CASE m = c
    BY <1>1, <2>1, <2>2, <2>3
  <2>4. CASE m # c
    <3>1. h[m] = g[m] /\ (c < m + 1 <=> c < m)
      BY <1>1, <2>0, <2>4
    <3> QED
      BY <2>1, <2>2, <3>1
  <2> QED
    BY <2>3, <2>4
<1> HIDE DEF A
<1>6. \A m \in Nat : m \in A => m + 1 \in A
  BY <1>5
<1>7. \A m \in Nat : m \in A
  BY <1>4, <1>6, SetInduction
<1>8. z \in Nat /\ z <= MaxConsumers
  OBVIOUS
<1> QED
  BY <1>7, <1>8 DEF A, G, H

(* What is not lost was at most counted: the sums of both, against the      *)
(* number of all messages for all consumers.                                *)
LEMMA SumOfBound ==
    ASSUME NEW g \in [WorkIds -> Int], NEW h \in [WorkIds -> Int], NEW b \in Nat,
           \A c \in WorkIds : g[c] + h[c] <= b, NEW z \in 0..MaxConsumers
    PROVE  b * z - SumOf(g)[z] >= SumOf(h)[z]
<1> USE BroadcastAssumption DEF WorkIds
<1> DEFINE G == SumOf(g)  H == SumOf(h)
<1>2. /\ G \in [0..MaxConsumers -> Int] /\ G[0] = 0
      /\ \A k \in WorkIds : G[k + 1] = G[k] + g[k]
  BY SumOfDef
<1>3. /\ H \in [0..MaxConsumers -> Int] /\ H[0] = 0
      /\ \A k \in WorkIds : H[k + 1] = H[k] + h[k]
  BY SumOfDef
<1> HIDE DEF G, H
<1> DEFINE A == {m \in Nat : m <= MaxConsumers => b * m - G[m] >= H[m]}
<1>4. 0 \in A
  BY <1>2, <1>3
<1>5. ASSUME NEW m \in Nat, m \in A PROVE m + 1 \in A
  <2> SUFFICES ASSUME m + 1 <= MaxConsumers PROVE b * (m + 1) - G[m + 1] >= H[m + 1]
    OBVIOUS
  <2>0. m \in WorkIds /\ m \in 0..MaxConsumers
    OBVIOUS
  <2>1. /\ G[m + 1] = G[m] + g[m] /\ H[m + 1] = H[m] + h[m]
        /\ G[m] \in Int /\ H[m] \in Int /\ g[m] \in Int /\ h[m] \in Int
    BY <1>2, <1>3, <2>0
  <2>2. b * m - G[m] >= H[m] /\ g[m] + h[m] <= b
    BY <1>5, <2>0
  <2>3. b * (m + 1) = b * m + b /\ b * m \in Int
    OBVIOUS
  <2>4. \A p, u, v, x, y \in Int : p - u >= v /\ x + y <= b => (p + b) - (u + x) >= v + y
    OBVIOUS
  <2>5. (b * m + b) - (G[m] + g[m]) >= H[m] + h[m]
    BY <2>1, <2>2, <2>3, <2>4
  <2> QED
    BY <2>1, <2>3, <2>5
<1> HIDE DEF A
<1>6. \A m \in Nat : m \in A => m + 1 \in A
  BY <1>5
<1>7. \A m \in Nat : m \in A
  BY <1>4, <1>6, SetInduction
<1>8. z \in Nat /\ z <= MaxConsumers
  OBVIOUS
<1> QED
  BY <1>7, <1>8 DEF A, G, H

(* The sum of what was lost changes with a report that is collected alone.  *)
LEMMA LostType == ASSUME RingTypeOK PROVE Lost \in [WorkIds -> Int] /\ counter \in [WorkIds -> Int]
BY BroadcastAssumption DEF RingTypeOK, Lost, Missed

LEMMA InitReport == RingInit => ReportInv
<1> SUFFICES ASSUME RingInit PROVE ReportInv
  OBVIOUS
<1> USE BroadcastAssumption
<1>1. Lost = [c \in WorkIds |-> 0]
  BY DEF RingInit, Lost
<1>2. Lost \in [WorkIds -> Int]
  BY <1>1
<1> DEFINE G == SumOf(Lost)
<1>3. /\ G \in [0..MaxConsumers -> Int] /\ G[0] = 0
      /\ \A k \in WorkIds : G[k + 1] = G[k] + Lost[k]
  BY <1>2, SumOfDef
<1> HIDE DEF G
<1> DEFINE A == {m \in Nat : m <= MaxConsumers => G[m] = 0}
<1>4. 0 \in A
  BY <1>3
<1>5. \A m \in Nat : m \in A => m + 1 \in A
  <2> SUFFICES ASSUME NEW m \in Nat, m + 1 <= MaxConsumers, G[m] = 0 PROVE G[m + 1] = 0
    OBVIOUS
  <2>1. m \in WorkIds
    BY DEF WorkIds
  <2> QED
    BY <1>1, <1>3, <2>1
<1> HIDE DEF A
<1>6. \A m \in Nat : m \in A
  BY <1>4, <1>5, SetInduction
<1>7. consumer_num \in Nat /\ consumer_num <= MaxConsumers
  BY DEF RingInit
<1>8. failed_sum = G[consumer_num]
  BY <1>6, <1>7 DEF A, RingInit
<1> QED
  BY <1>8 DEF RingInit, ReportInv, G

(* Every step keeps what is known of the reports. *)
LEMMA ReportStep == RingIInv /\ ReportInv /\ [RingNext]_ringvars => ReportInv'
<1> SUFFICES ASSUME RingIInv, ReportInv, [RingNext]_ringvars PROVE ReportInv'
  OBVIOUS
<1> USE BroadcastAssumption DEF RingIInv
<1>0. ASSUME Lost' = Lost, UNCHANGED <<consumer_num, failed_sum>>
      PROVE  failed_sum' = SumOf(Lost')[consumer_num']
  BY <1>0 DEF ReportInv
<1>00. ASSUME UNCHANGED <<data_num, counter, collected>> PROVE Lost' = Lost
  BY <1>00 DEF Lost, Missed
<1> USE DEF RingTypeOK, ringvars, argv, pvars, cvars, mvars, AVA_SIG
<1>1. CASE ForkConsumer
  <2>1. Lost' = Lost
    BY <1>1, <1>00 DEF ForkConsumer
  <2>2. /\ mpc = "fork" /\ mpc' = "fork" /\ collected' = collected /\ pending' = pending
        /\ collected = {} /\ \A s \in AVA_SIG : pending[s] = None
    BY <1>1 DEF ForkConsumer, ReportInv
  <2>3. n \in 1..consumer_num /\ consumer_num' = consumer_num /\ failed_sum' = failed_sum
    BY <1>1 DEF ForkConsumer
  <2>4. \A c \in WorkIds : cpc'[c] # "unborn" => c < consumer_num
    BY <1>1, <2>3 DEF ForkConsumer, ReportInv, WorkIds
  <2> QED
    BY <1>0, <2>1, <2>2, <2>3, <2>4 DEF ReportInv
<1>2. CASE ForkProducer \/ BlockSignals \/ Timeout \/ AllCollected \/ PrintResult
  <2>1. UNCHANGED <<argv, counter, cpc, collected, failed_sum, pending>>
    BY <1>2 DEF ForkProducer, BlockSignals, Timeout, AllCollected, PrintResult
  <2>2. mpc' \in {"fork", "mask"} => mpc \in {"fork", "mask"}
    BY <1>2 DEF ForkProducer, BlockSignals, Timeout, AllCollected, PrintResult
  <2>3. failed_sum' = SumOf(Lost')[consumer_num']
    BY <2>1, <1>0, <1>00
  <2> QED
    BY <2>1, <2>2, <2>3 DEF ReportInv, SigOf
<1>3. ASSUME NEW s \in AVA_SIG, Collect(s) PROVE ReportInv'
  <2>0. pending[s] \in WorkIds /\ pending[s] # None
    BY <1>3 DEF Collect
  <2>1. PICK c \in WorkIds : /\ c = pending[s] /\ c # None /\ cpc[c] = "exited" /\ c \notin collected
                             /\ SigOf(c) = s /\ c < consumer_num
    BY <2>0 DEF ReportInv
  <2>2. /\ UNCHANGED <<argv, counter, cpc, mpc>> /\ mpc = "collect"
        /\ collected' = collected \cup {c} /\ failed_sum' = failed_sum + Missed(c)
        /\ pending' = [pending EXCEPT ![s] = None]
    BY <1>3, <2>1 DEF Collect
  <2>3. PICK d \in Int : d = Missed(c)
    BY SMTT(40), <2>1 DEF Missed
  <2>4. Lost' \in [WorkIds -> Int] /\ \A w \in WorkIds : Lost'[w] = IF w = c THEN Lost[c] + d ELSE Lost[w]
    <3>1. Lost \in [WorkIds -> Int] /\ Lost[c] = 0
      BY <2>1, LostType DEF Lost
    <3>2. Lost' = [w \in WorkIds |-> IF w \in collected' THEN data_num - counter[w] ELSE 0]
      BY <2>2 DEF Lost, Missed
    <3>3. Lost = [w \in WorkIds |-> IF w \in collected THEN data_num - counter[w] ELSE 0]
      BY DEF Lost, Missed
    <3>4. d = data_num - counter[c] /\ \A w \in WorkIds : w \in collected' <=> w = c \/ w \in collected
      BY <2>2, <2>3 DEF Missed
    <3>5. Lost' \in [WorkIds -> Int]
      BY <3>2
    <3> QED
      BY <3>1, <3>2, <3>3, <3>4, <3>5
  <2>5. consumer_num \in 0..MaxConsumers /\ Lost \in [WorkIds -> Int]
    BY LostType
  <2>6. SumOf(Lost')[consumer_num] = SumOf(Lost)[consumer_num] + d
    <3>1. consumer_num \in 0..MaxConsumers /\ Lost \in [WorkIds -> Int] /\ d \in Int /\ c < consumer_num
      BY <2>1, <2>3, <2>5
    <3> HIDE DEF RingTypeOK, RingIInv
    <3>2. \A g \in [WorkIds -> Int], z \in 0..MaxConsumers, h \in [WorkIds -> Int] : 
             c < z /\ (\A w \in WorkIds : h[w] = IF w = c THEN g[c] + d ELSE g[w])
                => SumOf(h)[z] = SumOf(g)[z] + d
      BY ONLY ZenonT(40), <3>1, SumOfAdd
    <3> QED
      BY ONLY <2>4, <3>1, <3>2
  <2>7. failed_sum' = SumOf(Lost')[consumer_num']
    BY <2>2, <2>3, <2>6 DEF ReportInv
  <2>8. \A t \in AVA_SIG : pending'[t] # None =>
            t # s /\ pending'[t] = pending[t] /\ pending[t] # None /\ pending[t] # c
    BY <2>1, <2>2 DEF ReportInv
  <2>9. \A t \in AVA_SIG : pending'[t] # None =>
            /\ cpc'[pending'[t]] = "exited" /\ pending'[t] \notin collected'
            /\ SigOf(pending'[t]) = t
    BY <2>2, <2>8 DEF ReportInv
  <2>10. \A w \in collected' : cpc'[w] = "exited"
    BY <2>1, <2>2 DEF ReportInv
  <2>11. \A w \in WorkIds : cpc'[w] # "unborn" => w < consumer_num'
    BY <2>2 DEF ReportInv
  <2> QED
    BY <2>2, <2>7, <2>9, <2>10, <2>11 DEF ReportInv, SigOf
<1>4. CASE SendMessage \/ SendFinal
  <2>1. UNCHANGED <<argv, counter, cpc, mpc, collected, failed_sum, pending>>
    BY <1>4 DEF SendMessage, SendFinal
  <2>2. failed_sum' = SumOf(Lost')[consumer_num']
    BY <2>1, <1>0, <1>00
  <2> QED
    BY <2>1, <2>2 DEF ReportInv, SigOf
<1>5. ASSUME NEW c \in WorkIds, Scan(c) PROVE ReportInv'
  <2>1. /\ UNCHANGED <<argv, mpc, collected, failed_sum, pending>> /\ cpc[c] = "run"
        /\ \A w \in WorkIds \ {c} : counter'[w] = counter[w] /\ cpc'[w] = cpc[w]
    BY <1>5 DEF Scan, ScanWith
  <2>2. c \notin collected /\ \A s \in AVA_SIG : pending[s] # c
    <3>1. c # None
      BY DEF WorkIds, None
    <3> QED
      BY <2>1, <3>1 DEF ReportInv
  <2>3. Lost' = Lost
    BY <2>1, <2>2 DEF Lost, Missed
  <2>4. failed_sum' = SumOf(Lost')[consumer_num']
    BY <2>1, <2>3, <1>0
  <2>5. \A w \in WorkIds : cpc'[w] # "unborn" => w < consumer_num'
    BY <2>1 DEF ReportInv
  <2>6. \A w \in WorkIds : w # c => cpc'[w] = cpc[w]
    BY <2>1
  <2> QED
    BY <2>1, <2>2, <2>4, <2>5, <2>6 DEF ReportInv, SigOf
<1>6. ASSUME NEW c \in WorkIds, Report(c) PROVE ReportInv'
  <2>1. /\ UNCHANGED <<argv, counter, collected, failed_sum>> /\ cpc[c] = "send"
        /\ cpc' = [cpc EXCEPT ![c] = "exited"]
        /\ mpc' \in {"fork", "mask"} => FALSE
        /\ \A t \in AVA_SIG : pending'[t] = pending[t] \/ (pending'[t] = c /\ SigOf(c) = t)
    BY <1>6 DEF Report
  <2>2. c \notin collected /\ c < consumer_num
    BY <2>1 DEF ReportInv
  <2>3. failed_sum' = SumOf(Lost')[consumer_num']
    BY <2>1, <1>0, <1>00
  <2>4. \A w \in WorkIds : cpc[w] = "exited" => cpc'[w] = "exited"
    BY <2>1
  <2> QED
    BY SMTT(40), <2>1, <2>2, <2>3, <2>4 DEF ReportInv, SigOf
<1>7. CASE UNCHANGED ringvars
  <2>1. failed_sum' = SumOf(Lost')[consumer_num']
    BY <1>7, <1>0, <1>00
  <2> QED
    BY <1>7, <2>1 DEF ReportInv, SigOf
<1> QED
  BY <1>1, <1>2, <1>3, <1>4, <1>5, <1>6, <1>7 DEF RingNext, Parent, Producer, Consumer

(***************************************************************************)
(* The theorems.                                                           *)
(***************************************************************************)

(* The inductive invariant holds of every state of the broadcast. *)
THEOREM RingInvariance == RingSpec => []RingIInv
<1>1. RingIInv /\ [RingNext]_ringvars => RingIInv'
  BY RingTypeStep, ScanStep DEF RingIInv
<1> QED
  BY RingInitInv, <1>1, PTL DEF RingSpec

(* Every variable of the family of processes keeps its type.                *)
THEOREM RingTypeCorrect == RingSpec => []RingTypeOK
<1>1. RingIInv => RingTypeOK
  BY DEF RingIInv
<1> QED
  BY <1>1, RingInvariance, PTL

(* A consumer counts no message twice and reports no negative loss. *)
THEOREM CountsOnce == RingSpec => []NothingCountedTwice
<1>1. RingIInv => NothingCountedTwice
  <2> SUFFICES ASSUME RingIInv, NEW c \in WorkIds
               PROVE  counter[c] <= prev[c] + 1 /\ (data_num > 0 => Missed(c) >= 0)
    BY DEF NothingCountedTwice
  <2>1. counter[c] \in Nat /\ prev[c] \in Int /\ produced \in 0..data_num /\ data_num \in Nat
    BY DEF RingIInv, RingTypeOK
  <2>2. counter[c] <= prev[c] + 1 /\ (prev[c] < produced \/ prev[c] = 0)
    BY DEF RingIInv, ScanInv
  <2> QED
    BY <2>1, <2>2 DEF Missed
<1> QED
  BY <1>1, RingInvariance, PTL

(* Whatever a consumer counts was sent, or is the zero of a fresh slot. *)
THEOREM CountsWhatWasSent == RingSpec => []NothingFromTheFuture
<1>1. RingIInv => NothingFromTheFuture
  BY DEF RingIInv, ScanInv, NothingFromTheFuture
<1> QED
  BY <1>1, RingInvariance, PTL

(* No consumer leaves its loop before the producer has sent everything. *)
THEOREM StaysToTheEnd == RingSpec => []NoEarlyLeave
<1>1. RingIInv => NoEarlyLeave
  BY DEF RingIInv, FamilyInv, NoEarlyLeave
<1> QED
  BY <1>1, RingInvariance, PTL

(* A report that kills the parent finds all its children forked. *)
THEOREM KilledLate == RingSpec => []KilledAfterFork
<1>1. RingIInv => KilledAfterFork
  BY DEF RingIInv, FamilyInv, KilledAfterFork
<1> QED
  BY <1>1, RingInvariance, PTL

(* Reports that are dropped, late or never sent make the printed loss        *)
(* smaller, and never the number of received messages too small: the parent *)
(* subtracts what is missing with consumers it has a report of, each once,   *)
(* and no consumer counts more messages than there are.                     *)
THEOREM LossNotOverstated == RingSpec => []NeverUnderstated
<1>1. RingSpec => []ReportInv
  <2>1. RingInit => ReportInv
    BY InitReport
  <2>2. RingIInv /\ ReportInv /\ [RingNext]_ringvars => ReportInv'
    BY ReportStep
  <2> QED
    BY <2>1, <2>2, RingInvariance, PTL DEF RingSpec
<1>2. RingIInv /\ ReportInv => NeverUnderstated
  <2> SUFFICES ASSUME RingIInv, ReportInv, data_num > 0
               PROVE  PrintedReceived >= Received[consumer_num]
    BY DEF NeverUnderstated
  <2>1. /\ data_num \in Nat /\ consumer_num \in 0..MaxConsumers /\ counter \in [WorkIds -> Nat]
        /\ prev \in [WorkIds -> Int] /\ produced \in 0..data_num
    BY BroadcastAssumption DEF RingIInv, RingTypeOK
  <2>2. \A c \in WorkIds : Lost[c] + counter[c] <= data_num
    <3> SUFFICES ASSUME NEW c \in WorkIds PROVE Lost[c] + counter[c] <= data_num
      OBVIOUS
    <3>1. counter[c] <= prev[c] + 1 /\ (prev[c] < produced \/ prev[c] = 0)
      BY DEF RingIInv, ScanInv
    <3>2. counter[c] \in Nat /\ prev[c] \in Int
      BY <2>1
    <3>3. counter[c] <= data_num
      BY <2>1, <3>1, <3>2
    <3> QED
      BY <2>1, <3>2, <3>3 DEF Lost, Missed
  <2>3. Lost \in [WorkIds -> Int] /\ counter \in [WorkIds -> Int]
    BY LostType DEF RingIInv
  <2>4. data_num * consumer_num - SumOf(Lost)[consumer_num] >= SumOf(counter)[consumer_num]
    BY <2>1, <2>2, <2>3, SumOfBound
  <2>5. Received = SumOf(counter)
    BY DEF Received, SumOf
  <2>6. PrintedReceived = data_num * consumer_num - SumOf(Lost)[consumer_num]
    BY DEF PrintedReceived, ReportInv
  <2> QED
    BY <2>4, <2>5, <2>6
<1> QED
  BY <1>1, <1>2, RingInvariance, PTL
=============================================================================
