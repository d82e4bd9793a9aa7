------------------------- MODULE SmallSystemsProofs --------------------------
(***************************************************************************)
(* TLAPS proofs about the three smallest systems: SigSpeed, FifoSeqnum and *)
(* DemoDevice.  They have nothing to do with each other; every theorem is  *)
(* about the behaviours of one of them.                                    *)
(***************************************************************************)
EXTENDS SigSpeed, FifoSeqnum, DemoDevice, FiniteSetTheorems, TLAPS

-----------------------------------------------------------------------------
(* SigSpeed: its signals are not lost, for every number of rounds.         *)

(* Before the fork nothing has happened. *)
NotForked == pc["parent"] \in {"sigprocmask", "fork", "failed"}

StartInv ==
    NotForked =>
        /\ pc["child"] = "none"
        /\ \A p \in Proc : scnt[p] = 0 /\ ~pending[p]

MaskInv ==
    /\ pc["parent"] # "sigprocmask" /\ pc["parent"] # "failed" => masked["parent"]
    /\ ~NotForked => masked["child"]

Waiting == {"call", "sigsuspend"}

(* Where the one signal is: with the child before its kill(), pending for    *)
(* the parent, with the parent before its kill(), or pending for the child.  *)
WithChild ==
    /\ pc["child"] \in {"kill", "exit"}
    /\ pc["child"] = "exit" => pc["parent"] = "exit"
    /\ pc["child"] = "kill" => pc["parent"] \in Waiting
    /\ scnt["parent"] = scnt["child"]
    /\ ~pending["parent"] /\ ~pending["child"]

ToParent ==
    /\ pc["child"] \in Waiting /\ pc["parent"] \in Waiting
    /\ scnt["parent"] = scnt["child"]
    /\ pending["parent"] /\ ~pending["child"]

WithParent ==
    /\ pc["child"] \in Waiting /\ pc["parent"] = "kill"
    /\ scnt["parent"] = scnt["child"]
    /\ ~pending["parent"] /\ ~pending["child"]

ToChild ==
    /\ pc["child"] \in Waiting /\ pc["parent"] \in Waiting \cup {"exit"}
    /\ scnt["parent"] = scnt["child"] + 1
    /\ ~pending["parent"] /\ pending["child"]

TokenInv == stops = 0 /\ ~NotForked => WithChild \/ ToParent \/ WithParent \/ ToChild

(* A process is in its loop exactly as long as it has rounds left. *)
RoundsInv ==
    \A p \in Proc :
        /\ pc[p] = "exit" => scnt[p] = NumSigs
        /\ pc[p] \in {"kill"} \cup Waiting => scnt[p] < NumSigs

SigIInv == SigTypeOK /\ StartInv /\ MaskInv /\ TokenInv /\ RoundsInv

(* The invariant holds at first.                                             *)
LEMMA SigInitIInv == SigInit => SigIInv
BY SigSpeedAssumption DEF SigInit, SigIInv, SigTypeOK, StartInv, NotForked, MaskInv, TokenInv,
    RoundsInv, Proc, Over, Waiting

(* Every step keeps the types.                                              *)
LEMMA SigTypeStep == ASSUME SigIInv, [SigNext]_sigvars PROVE SigTypeOK'
<1> USE SigSpeedAssumption DEF SigIInv, SigTypeOK, RoundsInv, Proc, Over, Waiting
<1>1. CASE UNCHANGED sigvars
  BY <1>1 DEF sigvars
<1>2. CASE Sigprocmask
  BY <1>2 DEF Sigprocmask
<1>3. CASE Fork
  BY <1>3 DEF Fork
<1>4. CASE ForkFails
  BY <1>4 DEF ForkFails
<1>5. CASE ChildKill
  BY ZenonT(40), <1>5 DEF ChildKill, Deliver
<1>6. CASE ParentKill
  BY <1>6 DEF ParentKill, Deliver, EndRound
<1>7. ASSUME NEW p \in Proc, Wait(p) PROVE SigTypeOK'
  BY <1>7 DEF Wait, AfterWait, EndRound
<1>8. ASSUME NEW p \in Proc, Stopped(p) PROVE SigTypeOK'
  BY <1>8 DEF Stopped, AfterWait, EndRound
<1>9. ASSUME NEW p \in Proc, Sigsuspend(p) PROVE SigTypeOK'
  BY <1>9 DEF Sigsuspend
<1> QED
  BY <1>1, <1>2, <1>3, <1>4, <1>5, <1>6, <1>7, <1>8, <1>9 DEF SigNext, Parent, Child

(* Every step keeps the rest of the invariant.                              *)
LEMMA SigIInvStep == ASSUME SigIInv, [SigNext]_sigvars PROVE SigIInv'
<1>0. SigTypeOK'
  BY SigTypeStep
<1> USE SigSpeedAssumption, <1>0
    DEF SigIInv, SigTypeOK, StartInv, NotForked, MaskInv, TokenInv, RoundsInv,
        WithChild, ToParent, WithParent, ToChild, Proc, Over, Waiting
<1>1. CASE UNCHANGED sigvars
  BY <1>1 DEF sigvars
<1>2. CASE Sigprocmask
  BY <1>2 DEF Sigprocmask
<1>3. CASE Fork
  BY <1>3 DEF Fork
<1>4. CASE ForkFails
  BY <1>4 DEF ForkFails
<1>5. CASE ChildKill
  BY <1>5 DEF ChildKill, Deliver
<1>6. CASE ParentKill
  BY <1>6 DEF ParentKill, Deliver, EndRound
<1>7. CASE Wait("child")
  BY <1>7 DEF Wait, AfterWait, EndRound
<1>8. CASE Wait("parent")
  BY <1>8 DEF Wait, AfterWait, EndRound
<1>9. CASE Stopped("child")
  BY <1>9 DEF Stopped, AfterWait, EndRound
<1>10. CASE Stopped("parent")
  BY <1>10 DEF Stopped, AfterWait, EndRound
<1>11. ASSUME NEW p \in Proc, Sigsuspend(p) PROVE SigIInv'
  BY <1>11 DEF Sigsuspend
<1> QED
  BY <1>1, <1>2, <1>3, <1>4, <1>5, <1>6, <1>7, <1>8, <1>9, <1>10, <1>11 DEF SigNext, Parent, Child

(* The one signal is where its sender or receiver expects it, until a stop  *)
(* interrupts a wait of the hook build.                                     *)
THEOREM SigInvariance == SigSpec => []SigIInv
BY SigInitIInv, SigIInvStep, PTL DEF SigSpec

(* All variables keep their types; no process runs a round too many.        *)
THEOREM SigTypeCorrect == SigSpec => []SigTypeOK
BY SigInvariance, PTL DEF SigIInv

(* No signal of either process is lost, for any number of rounds.           *)
THEOREM NoLoss == SigSpec => []NothingLost
<1>1. SigIInv => NothingLost
  BY SigSpeedAssumption DEF SigIInv, SigTypeOK, StartInv, NotForked, MaskInv, TokenInv, NothingLost,
     WithChild, ToParent, WithParent, ToChild, Proc, Over, Waiting, Other
<1> QED
  BY <1>1, SigInvariance, PTL

(* The rounds of the two processes differ by one at most, and both make     *)
(* them all.                                                                *)
THEOREM StayInStep == SigSpec => []InStep
<1>1. SigIInv => InStep
  BY SigSpeedAssumption DEF SigIInv, SigTypeOK, StartInv, NotForked, MaskInv, TokenInv, RoundsInv, InStep,
     WithChild, ToParent, WithParent, ToChild, Proc, Over, Waiting
<1> QED
  BY <1>1, SigInvariance, PTL

-----------------------------------------------------------------------------
(* FifoSeqnum: which numbers clients can get, whoever is killed meanwhile. *)

Answered(c) == answer[c] # Nothing

(* A client is answered at most once, after both sides have opened its FIFO. *)
OnceInv ==
    /\ ServerUp => life > 0
    /\ \A c \in Clients :
        /\ cpc[c] \in {"mkfifo", "open_server", "write", "open"} => ~Answered(c)
        /\ spc = "write" /\ serving = c => ~Answered(c)
        /\ got[c] # Nothing => got[c] = answer[c]

(* What is answered is below the counter, or is what the server has just     *)
(* written and is about to count.                                            *)
BelowInv ==
    \A c \in Clients : Answered(c) =>
        /\ answer[c][1] <= life
        /\ answer[c][1] = life /\ ServerUp =>
            IF spc = "update" /\ serving = c
            THEN answer[c][3] = given
            ELSE answer[c][3] + len[c] <= given

(* Ranges of one life are disjoint, counted without overflow.                *)
ApartInv ==
    \A c, d \in Clients :
        c # d /\ Answered(c) /\ Answered(d) /\ answer[c][1] = answer[d][1] =>
            \/ answer[c][3] + len[c] <= answer[d][3]
            \/ answer[d][3] + len[d] <= answer[c][3]

(* Before the first overflow the counter is what was given away.             *)
CounterInv ==
    /\ given < Modulus => seqNum = given
    /\ \A c \in Clients :
        Answered(c) /\ answer[c][3] < Modulus => answer[c][2] = answer[c][3]

(* A client has its FIFO from before its request to after its answer.        *)
LinkInv ==
    \A c \in Clients :
        cpc[c] \in {"open_server", "write", "open", "read", "exit"} => c \in linked

SeqnumIInv == SeqnumTypeOK /\ OnceInv /\ BelowInv /\ ApartInv /\ CounterInv /\ LinkInv

(* The invariant holds at first.                                             *)
LEMMA SeqnumInitInv == SeqnumInit => SeqnumIInv
BY FifoAssumption DEF SeqnumInit, SeqnumIInv, SeqnumTypeOK, OnceInv, BelowInv, ApartInv, CounterInv, LinkInv,
   Answered, Answers, Nothing, Gone, ServerUp

(* A remainder is in its range, and below the modulus nothing is taken off.  *)
LEMMA ModRange == ASSUME NEW k \in Nat PROVE k % Modulus \in 0..(Modulus - 1)
BY FifoAssumption

(* A number below the modulus has not overflowed.                            *)
LEMMA ModSmall == ASSUME NEW k \in Nat, k < Modulus PROVE k % Modulus = k
BY FifoAssumption

(* An answer is made of numbers.                                             *)
LEMMA AnswerParts ==
    ASSUME SeqnumTypeOK, NEW c \in Clients, Answered(c)
    PROVE  /\ answer[c][1] \in Nat /\ answer[c][2] \in Nat /\ answer[c][3] \in Nat
           /\ len[c] \in Nat /\ len[c] > 0
<1>1. len[c] \in Nat /\ len[c] > 0
  <2>1. len[c] \in Lengths
    BY DEF SeqnumTypeOK
  <2>2. \A x \in Lengths : x \in Nat /\ x > 0
    BY FifoAssumption
  <2> QED
    BY <2>1, <2>2
<1>2. answer[c] \in (1..MaxCrashes + 1) \X (0..Modulus - 1) \X Nat
  BY DEF SeqnumTypeOK, Answered, Answers
<1>3. answer[c][1] \in 1..MaxCrashes + 1 /\ answer[c][2] \in 0..Modulus - 1 /\ answer[c][3] \in Nat
  BY <1>2
<1> QED
  BY <1>1, <1>3, FifoAssumption

(* Every step keeps the types.                                               *)
LEMMA SeqnumTypeStep == ASSUME SeqnumTypeOK, OnceInv, [SeqnumNext]_seqnumvars PROVE SeqnumTypeOK'
<1> USE FifoAssumption DEF SeqnumTypeOK, Gone, seqnumvars, svars, cvars
<1>1. CASE ServerStart
  BY <1>1 DEF ServerStart
<1>2. CASE ServerKilled
  BY <1>2 DEF ServerKilled, FifoOf, ServerUp
<1>3. CASE ReadRequest
  BY <1>3 DEF ReadRequest
<1>4. CASE OpenFails
  BY <1>4 DEF OpenFails
<1>5. CASE OpenBlocks
  BY <1>5 DEF OpenBlocks
<1>6. ASSUME NEW c \in Clients, Connect(c) PROVE SeqnumTypeOK'
  BY <1>6 DEF Connect
<1>7. CASE WriteAnswer
  <2>1. <<life, seqNum, given>> \in Answers
    BY <1>7 DEF WriteAnswer, OnceInv, ServerUp, Answers
  <2> QED
    BY <1>7, <2>1 DEF WriteAnswer
<1>8. CASE Update
  <2>1. serving \in Clients /\ len[serving] \in Nat
    BY <1>8 DEF Update
  <2>2. seqNum + len[serving] \in Nat /\ given + len[serving] \in Nat
    BY <2>1
  <2>3. seqNum' \in 0..(Modulus - 1) /\ given' \in Nat
    BY <1>8, <2>2, ModRange DEF Update
  <2> QED
    BY <1>8, <2>3 DEF Update
<1>9. ASSUME NEW c \in Clients, MakeFifo(c) PROVE SeqnumTypeOK'
  BY <1>9 DEF MakeFifo
<1>10. ASSUME NEW c \in Clients, OpenServer(c) PROVE SeqnumTypeOK'
  BY <1>10 DEF OpenServer
<1>11. ASSUME NEW c \in Clients, SendRequest(c) PROVE SeqnumTypeOK'
  <2>1. fifo' \in Seq(Clients)
    <3>1. Append(fifo, c) \in Seq(Clients) /\ <<>> \in Seq(Clients)
      OBVIOUS
    <3>2. fifo' = Append(fifo, c) \/ fifo' = fifo \/ fifo' = <<>>
      BY <1>11 DEF SendRequest, FifoOf
    <3> QED
      BY <3>1, <3>2
  <2>2. cpc' \in [Clients -> {"mkfifo", "open_server", "write", "open", "read", "exit"} \cup Gone]
    BY <1>11 DEF SendRequest
  <2> QED
    BY <1>11, <2>1, <2>2 DEF SendRequest
<1>12. ASSUME NEW c \in Clients, ReadAnswer(c) PROVE SeqnumTypeOK'
  BY <1>12 DEF ReadAnswer
<1>13. ASSUME NEW c \in Clients, removeFifo(c) PROVE SeqnumTypeOK'
  BY <1>13 DEF removeFifo, FifoOf
<1>14. ASSUME NEW c \in Clients, ClientKilled(c) PROVE SeqnumTypeOK'
  BY <1>14 DEF ClientKilled, FifoOf, Gone
<1>15. CASE UNCHANGED seqnumvars
  BY <1>15
<1> QED
  BY <1>1, <1>2, <1>3, <1>4, <1>5, <1>6, <1>7, <1>8, <1>9, <1>10, <1>11, <1>12, <1>13, <1>14, <1>15 DEF SeqnumNext, Server, Client

(* Every step keeps the rest, one part at a time.                            *)
LEMMA OnceStep == ASSUME SeqnumIInv, [SeqnumNext]_seqnumvars PROVE OnceInv'
<1> USE FifoAssumption DEF SeqnumIInv, SeqnumTypeOK, OnceInv, Answered, Nothing, Gone, ServerUp, seqnumvars, svars, cvars
<1>1. CASE ServerStart
  BY <1>1 DEF ServerStart
<1>2. CASE ServerKilled
  BY <1>2 DEF ServerKilled, FifoOf, ServerUp
<1>3. CASE ReadRequest
  BY <1>3 DEF ReadRequest
<1>4. CASE OpenFails
  BY <1>4 DEF OpenFails
<1>5. CASE OpenBlocks
  BY <1>5 DEF OpenBlocks
<1>6. ASSUME NEW c \in Clients, Connect(c) PROVE OnceInv'
  BY <1>6 DEF Connect
<1>7. CASE WriteAnswer
  BY <1>7 DEF WriteAnswer
<1>8. CASE Update
  BY <1>8 DEF Update
<1>9. ASSUME NEW c \in Clients, MakeFifo(c) PROVE OnceInv'
  BY <1>9 DEF MakeFifo
<1>10. ASSUME NEW c \in Clients, OpenServer(c) PROVE OnceInv'
  BY <1>10 DEF OpenServer
<1>11. ASSUME NEW c \in Clients, SendRequest(c) PROVE OnceInv'
  BY <1>11 DEF SendRequest, FifoOf
<1>12. ASSUME NEW c \in Clients, ReadAnswer(c) PROVE OnceInv'
  BY <1>12 DEF ReadAnswer
<1>13. ASSUME NEW c \in Clients, removeFifo(c) PROVE OnceInv'
  BY <1>13 DEF removeFifo, FifoOf
<1>14. ASSUME NEW c \in Clients, ClientKilled(c) PROVE OnceInv'
  BY <1>14 DEF ClientKilled, FifoOf, Gone
<1>15. CASE UNCHANGED seqnumvars
  BY <1>15
<1> QED
  BY <1>1, <1>2, <1>3, <1>4, <1>5, <1>6, <1>7, <1>8, <1>9, <1>10, <1>11, <1>12, <1>13, <1>14, <1>15 DEF SeqnumNext, Server, Client

(* What is answered stays below the counter.                                 *)
LEMMA BelowStep == ASSUME SeqnumIInv, [SeqnumNext]_seqnumvars PROVE BelowInv'
<1> USE FifoAssumption DEF SeqnumIInv, SeqnumTypeOK, OnceInv, BelowInv, Answered, Nothing, ServerUp, seqnumvars, svars, cvars
<1>1. CASE ServerStart
  BY <1>1, AnswerParts DEF ServerStart
<1>2. CASE ServerKilled
  BY <1>2 DEF ServerKilled, FifoOf, ServerUp
<1>3. CASE ReadRequest
  BY <1>3 DEF ReadRequest
<1>4. CASE OpenFails
  BY <1>4 DEF OpenFails
<1>5. CASE OpenBlocks
  BY <1>5 DEF OpenBlocks
<1>6. ASSUME NEW c \in Clients, Connect(c) PROVE BelowInv'
  BY <1>6 DEF Connect
<1>7. CASE WriteAnswer
  BY <1>7 DEF WriteAnswer
<1>8. CASE Update
  <2>1. serving \in Clients /\ len[serving] \in Nat
    BY <1>8 DEF Update
  <2>2. answer' = answer /\ len' = len /\ life' = life /\ given' = given + len[serving] /\ spc' = "read"
    BY <1>8 DEF Update
  <2>3. ASSUME NEW c \in Clients, Answered(c)
        PROVE  answer[c][1] = life => answer[c][3] + len[c] <= given + len[serving]
    <3>1. answer[c][3] \in Nat /\ len[c] \in Nat
      BY <2>3, AnswerParts
    <3>2. answer[c][1] = life =>
            IF serving = c THEN answer[c][3] = given ELSE answer[c][3] + len[c] <= given
      BY <1>8, <2>3 DEF Update
    <3> QED
      BY <2>1, <3>1, <3>2
  <2> QED
    BY <2>2, <2>3
<1>9. ASSUME NEW c \in Clients, MakeFifo(c) PROVE BelowInv'
  BY <1>9 DEF MakeFifo
<1>10. ASSUME NEW c \in Clients, OpenServer(c) PROVE BelowInv'
  BY <1>10 DEF OpenServer
<1>11. ASSUME NEW c \in Clients, SendRequest(c) PROVE BelowInv'
  BY <1>11 DEF SendRequest, FifoOf
<1>12. ASSUME NEW c \in Clients, ReadAnswer(c) PROVE BelowInv'
  BY <1>12 DEF ReadAnswer
<1>13. ASSUME NEW c \in Clients, removeFifo(c) PROVE BelowInv'
  BY <1>13 DEF removeFifo, FifoOf
<1>14. ASSUME NEW c \in Clients, ClientKilled(c) PROVE BelowInv'
  BY <1>14 DEF ClientKilled, FifoOf, Gone
<1>15. CASE UNCHANGED seqnumvars
  BY <1>15
<1> QED
  BY <1>1, <1>2, <1>3, <1>4, <1>5, <1>6, <1>7, <1>8, <1>9, <1>10, <1>11, <1>12, <1>13, <1>14, <1>15 DEF SeqnumNext, Server, Client

(* Ranges stay apart.                                                        *)
LEMMA ApartStep == ASSUME SeqnumIInv, [SeqnumNext]_seqnumvars PROVE ApartInv'
<1> USE FifoAssumption DEF SeqnumIInv, SeqnumTypeOK, OnceInv, BelowInv, ApartInv, Answered, Nothing, ServerUp, seqnumvars, svars, cvars
<1>1. CASE ServerStart
  BY <1>1 DEF ServerStart
<1>2. CASE ServerKilled
  BY <1>2 DEF ServerKilled, FifoOf, ServerUp
<1>3. CASE ReadRequest
  BY <1>3 DEF ReadRequest
<1>4. CASE OpenFails
  BY <1>4 DEF OpenFails
<1>5. CASE OpenBlocks
  BY <1>5 DEF OpenBlocks
<1>6. ASSUME NEW c \in Clients, Connect(c) PROVE ApartInv'
  BY <1>6 DEF Connect
<1>7. CASE WriteAnswer
  BY <1>7 DEF WriteAnswer
<1>8. CASE Update
  BY <1>8 DEF Update
<1>9. ASSUME NEW c \in Clients, MakeFifo(c) PROVE ApartInv'
  BY <1>9 DEF MakeFifo
<1>10. ASSUME NEW c \in Clients, OpenServer(c) PROVE ApartInv'
  BY <1>10 DEF OpenServer
<1>11. ASSUME NEW c \in Clients, SendRequest(c) PROVE ApartInv'
  BY <1>11 DEF SendRequest, FifoOf
<1>12. ASSUME NEW c \in Clients, ReadAnswer(c) PROVE ApartInv'
  BY <1>12 DEF ReadAnswer
<1>13. ASSUME NEW c \in Clients, removeFifo(c) PROVE ApartInv'
  BY <1>13 DEF removeFifo, FifoOf
<1>14. ASSUME NEW c \in Clients, ClientKilled(c) PROVE ApartInv'
  BY <1>14 DEF ClientKilled, FifoOf, Gone
<1>15. CASE UNCHANGED seqnumvars
  BY <1>15
<1> QED
  BY <1>1, <1>2, <1>3, <1>4, <1>5, <1>6, <1>7, <1>8, <1>9, <1>10, <1>11, <1>12, <1>13, <1>14, <1>15 DEF SeqnumNext, Server, Client

(* The counter stays what was given away.                                    *)
LEMMA CounterStep == ASSUME SeqnumIInv, [SeqnumNext]_seqnumvars PROVE CounterInv'
<1> USE FifoAssumption DEF SeqnumIInv, SeqnumTypeOK, CounterInv, Answered, Nothing, seqnumvars, svars, cvars
<1>1. CASE ServerStart
  BY <1>1 DEF ServerStart
<1>2. CASE ServerKilled
  BY <1>2 DEF ServerKilled, FifoOf, ServerUp
<1>3. CASE ReadRequest
  BY <1>3 DEF ReadRequest
<1>4. CASE OpenFails
  BY <1>4 DEF OpenFails
<1>5. CASE OpenBlocks
  BY <1>5 DEF OpenBlocks
<1>6. ASSUME NEW c \in Clients, Connect(c) PROVE CounterInv'
  BY <1>6 DEF Connect
<1>7. CASE WriteAnswer
  BY <1>7 DEF WriteAnswer
<1>8. CASE Update
  <2>1. serving \in Clients /\ len[serving] \in Nat
    BY <1>8 DEF Update
  <2>2. ASSUME given' < Modulus PROVE seqNum' = given'
    <3>1. given + len[serving] < Modulus /\ seqNum = given
      BY <1>8, <2>1, <2>2 DEF Update
    <3>2. (given + len[serving]) % Modulus = given + len[serving]
      BY <2>1, <3>1, ModSmall
    <3> QED
      BY <1>8, <3>1, <3>2 DEF Update
  <2> QED
    BY <1>8, <2>2 DEF Update
<1>9. ASSUME NEW c \in Clients, MakeFifo(c) PROVE CounterInv'
  BY <1>9 DEF MakeFifo
<1>10. ASSUME NEW c \in Clients, OpenServer(c) PROVE CounterInv'
  BY <1>10 DEF OpenServer
<1>11. ASSUME NEW c \in Clients, SendRequest(c) PROVE CounterInv'
  BY <1>11 DEF SendRequest, FifoOf
<1>12. ASSUME NEW c \in Clients, ReadAnswer(c) PROVE CounterInv'
  BY <1>12 DEF ReadAnswer
<1>13. ASSUME NEW c \in Clients, removeFifo(c) PROVE CounterInv'
  BY <1>13 DEF removeFifo, FifoOf
<1>14. ASSUME NEW c \in Clients, ClientKilled(c) PROVE CounterInv'
  BY <1>14 DEF ClientKilled, FifoOf, Gone
<1>15. CASE UNCHANGED seqnumvars
  BY <1>15
<1> QED
  BY <1>1, <1>2, <1>3, <1>4, <1>5, <1>6, <1>7, <1>8, <1>9, <1>10, <1>11, <1>12, <1>13, <1>14, <1>15 DEF SeqnumNext, Server, Client

(* Clients keep their FIFOs while they need them.                            *)
LEMMA LinkStep == ASSUME SeqnumIInv, [SeqnumNext]_seqnumvars PROVE LinkInv'
<1> USE DEF SeqnumIInv, SeqnumTypeOK, LinkInv, Gone, seqnumvars, svars, cvars
<1>1. CASE ServerStart
  BY <1>1 DEF ServerStart
<1>2. CASE ServerKilled
  BY <1>2 DEF ServerKilled, FifoOf, ServerUp
<1>3. CASE ReadRequest
  BY <1>3 DEF ReadRequest
<1>4. CASE OpenFails
  BY <1>4 DEF OpenFails
<1>5. CASE OpenBlocks
  BY <1>5 DEF OpenBlocks
<1>6. ASSUME NEW c \in Clients, Connect(c) PROVE LinkInv'
  BY <1>6 DEF Connect
<1>7. CASE WriteAnswer
  BY <1>7 DEF WriteAnswer
<1>8. CASE Update
  BY <1>8 DEF Update
<1>9. ASSUME NEW c \in Clients, MakeFifo(c) PROVE LinkInv'
  BY <1>9 DEF MakeFifo
<1>10. ASSUME NEW c \in Clients, OpenServer(c) PROVE LinkInv'
  BY <1>10 DEF OpenServer
<1>11. ASSUME NEW c \in Clients, SendRequest(c) PROVE LinkInv'
  BY <1>11 DEF SendRequest, FifoOf
<1>12. ASSUME NEW c \in Clients, ReadAnswer(c) PROVE LinkInv'
  BY <1>12 DEF ReadAnswer
<1>13. ASSUME NEW c \in Clients, removeFifo(c) PROVE LinkInv'
  BY <1>13 DEF removeFifo, FifoOf
<1>14. ASSUME NEW c \in Clients, ClientKilled(c) PROVE LinkInv'
  BY <1>14 DEF ClientKilled, FifoOf, Gone
<1>15. CASE UNCHANGED seqnumvars
  BY <1>15
<1> QED
  BY <1>1, <1>2, <1>3, <1>4, <1>5, <1>6, <1>7, <1>8, <1>9, <1>10, <1>11, <1>12, <1>13, <1>14, <1>15 DEF SeqnumNext, Server, Client

(* The inductive invariant: requests, FIFOs, the counter and what was given. *)
THEOREM SeqnumInvariance == SeqnumSpec => []SeqnumIInv
<1>1. SeqnumIInv /\ [SeqnumNext]_seqnumvars => SeqnumIInv'
  BY SeqnumTypeStep, OnceStep, BelowStep, ApartStep, CounterStep, LinkStep DEF SeqnumIInv
<1> QED
  BY SeqnumInitInv, <1>1, PTL DEF SeqnumSpec

(* All variables keep their types; a server that serves has a client.        *)
THEOREM SeqnumTypeCorrect == SeqnumSpec => []SeqnumTypeOK
BY SeqnumInvariance, PTL DEF SeqnumIInv

(* A client that waits for its answer has a FIFO to get it through.          *)
THEOREM WaitersLinked == SeqnumSpec => []NotGivenUpOn
<1>1. SeqnumIInv => NotGivenUpOn
  BY DEF SeqnumIInv, LinkInv, NotGivenUpOn
<1> QED
  BY <1>1, SeqnumInvariance, PTL

(* Two clients of one life of the server get disjoint ranges of numbers,     *)
(* until the int overflows.                                                  *)
THEOREM UniqueRanges == SeqnumSpec => []RangesDisjoint
<1>1. ASSUME SeqnumIInv PROVE RangesDisjoint
  <2>1. SUFFICES ASSUME NEW c \in Clients, NEW d \in Clients, c # d,
                        got[c] # Nothing, got[d] # Nothing, got[c][1] = got[d][1],
                        got[c][3] + len[c] <= Modulus, got[d][3] + len[d] <= Modulus
                 PROVE  Allotted(c) \cap Allotted(d) = {}
    BY DEF RangesDisjoint
  <2>2. got[c] = answer[c] /\ got[d] = answer[d] /\ Answered(c) /\ Answered(d)
    BY <1>1, <2>1 DEF SeqnumIInv, OnceInv, Answered
  <2>3. /\ answer[c][3] \in Nat /\ len[c] \in Nat /\ len[c] > 0
        /\ answer[d][3] \in Nat /\ len[d] \in Nat /\ len[d] > 0
    BY <1>1, <2>2, AnswerParts DEF SeqnumIInv
  <2>4. answer[c][2] = answer[c][3] /\ answer[d][2] = answer[d][3]
    BY <1>1, <2>1, <2>2, <2>3, FifoAssumption DEF SeqnumIInv, CounterInv
  <2>5. \A e \in {c, d} : \A m \in Allotted(e) :
            answer[e][3] <= m /\ m < answer[e][3] + len[e]
    <3> SUFFICES ASSUME NEW e \in {c, d}, NEW k \in 0..(len[e] - 1)
                 PROVE  LET m == (got[e][2] + k) % Modulus
                        IN  answer[e][3] <= m /\ m < answer[e][3] + len[e]
      BY DEF Allotted
    <3>1. answer[e][3] + k \in Nat /\ answer[e][3] + k < Modulus
      BY <2>1, <2>2, <2>3, FifoAssumption
    <3>2. (got[e][2] + k) % Modulus = answer[e][3] + k
      BY <2>2, <2>4, <3>1, ModSmall
    <3> QED
      BY <2>3, <3>2
  <2>6. \/ answer[c][3] + len[c] <= answer[d][3]
        \/ answer[d][3] + len[d] <= answer[c][3]
    BY <1>1, <2>1, <2>2 DEF SeqnumIInv, ApartInv
  <2>7. \A m \in Allotted(c) \cap Allotted(d) : m \in Nat
    BY <2>3, <2>2, <2>4, ModRange, FifoAssumption DEF Allotted
  <2> QED
    BY <2>3, <2>5, <2>6, <2>7
<1> QED
  BY <1>1, SeqnumInvariance, PTL

-----------------------------------------------------------------------------
(* DemoDevice, for any set of processes and any bounds.                    *)

(* A module that was freed without harm has nobody in it, which is why a    *)
(* reload may start with fresh variables.                                   *)
LoadInv ==
    /\ module # "absent" => loads > 0
    /\ module = "absent" /\ ~oops => \A p \in Procs : at[p] \in {"idle", "lookup"}

(* The flag is up while some process has the device, and only one has.      *)
FlagInv ==
    ~oops => \A p \in Procs : HasDevice(p) =>
        /\ already_open = 1
        /\ \A q \in Procs : HasDevice(q) => q = p

(* The message in the buffer is that of the process that has the device.    *)
MsgInv ==
    \A p \in Procs :
        /\ ~oops /\ at[p] \in {"get", "open", "set"} => told[p] = <<loads, msg>>
        /\ ~oops /\ at[p] \in {"get", "open", "set"} => seen[p] \subseteq {msg}

(* Numbers told in this load are below the counter. *)
NumberInv ==
    /\ \A p \in Procs : told[p][1] <= loads
    /\ \A p \in Procs : told[p][1] = loads /\ loads > 0 => told[p][2] < counter
    /\ NumbersDiffer

(* The processes that the module's count is of: always a finite set, as only *)
(* one at a time gets in; and the count is exact while it decides anything. *)
Users == {p \in Procs : at[p] \in {"open", "set", "put"}}

UsersInv == IsFiniteSet(Users) /\ CountIsUsers

DevIInv == DevTypeOK /\ LoadInv /\ FlagInv /\ MsgInv /\ NumberInv /\ UsersInv

(* The invariant holds at first.                                             *)
LEMMA DevInitInv == DevInit => DevIInv
<1> SUFFICES ASSUME DevInit PROVE DevIInv
  OBVIOUS
<1>1. DevTypeOK
  <2>1. <<0, 0>> \in (0..MaxLoads) \X (0..MaxOpens)
    BY DemoAssumption
  <2>2. told \in [Procs -> (0..MaxLoads) \X (0..MaxOpens)]
    BY <2>1 DEF DevInit
  <2>3. seen \in [Procs -> SUBSET (0..MaxOpens)]
    BY DEF DevInit
  <2> QED
    <3>1. at \in [Procs -> Pcs] /\ offset \in [Procs -> 0..MsgLen]
      BY DemoAssumption DEF DevInit, Pcs
    <3>2. node \in BOOLEAN /\ oops \in BOOLEAN
      BY DEF DevInit
    <3>3. /\ module \in {"absent", "live", "going", "unregistered"} /\ refcnt \in Nat
          /\ loads \in 0..MaxLoads /\ already_open \in {0, 1}
          /\ counter \in 0..MaxOpens /\ msg \in 0..MaxOpens
      BY DemoAssumption DEF DevInit
    <3> QED
      BY <2>2, <2>3, <3>1, <3>2, <3>3 DEF DevTypeOK
<1>2. LoadInv /\ FlagInv /\ MsgInv
  BY DEF DevInit, LoadInv, FlagInv, MsgInv, HasDevice
<1>3. NumberInv
  BY DEF DevInit, NumberInv, NumbersDiffer
<1>4. UsersInv
  <2>1. Users = {} /\ module = "absent"
    BY DEF DevInit, Users
  <2> QED
    BY <2>1, FS_EmptySet DEF UsersInv, CountIsUsers
<1> QED
  BY <1>1, <1>2, <1>3, <1>4 DEF DevIInv

(* Every step keeps the types. *)
LEMMA DevTypeStep == DevTypeOK /\ [DevNext]_devvars => DevTypeOK'
<1> SUFFICES ASSUME DevTypeOK, [DevNext]_devvars PROVE DevTypeOK'
  OBVIOUS
<1> USE DemoAssumption DEF DevTypeOK, Pcs, InCode, devvars, mvars, fvars
<1>1. CASE demo_init
  BY <1>1 DEF demo_init
<1>2. CASE Rmmod
  BY <1>2 DEF Rmmod
<1>3. CASE DestroyNode
  BY <1>3 DEF DestroyNode
<1>4. CASE Unregister
  BY <1>4 DEF Unregister
<1>5. CASE FreeModule
  BY <1>5 DEF FreeModule
<1>6. ASSUME NEW p \in Procs, Lookup(p) PROVE DevTypeOK'
  BY <1>6 DEF Lookup, Goto
<1>7. ASSUME NEW p \in Procs, EnterOpen(p) PROVE DevTypeOK'
  BY <1>7 DEF EnterOpen, Goto
<1>8. ASSUME NEW p \in Procs, Cmpxchg(p) PROVE DevTypeOK'
  BY <1>8 DEF Cmpxchg, Goto
<1>9. ASSUME NEW p \in Procs, Sprintf(p) PROVE DevTypeOK'
  BY <1>9 DEF Sprintf, Goto
<1>10. ASSUME NEW p \in Procs, TryModuleGet(p) PROVE DevTypeOK'
  BY <1>10 DEF TryModuleGet, Goto
<1>11. ASSUME NEW p \in Procs, device_read(p) PROVE DevTypeOK'
  BY <1>11 DEF device_read, Goto
<1>12. ASSUME NEW p \in Procs, Close(p) PROVE DevTypeOK'
  BY <1>12 DEF Close, Goto
<1>13. ASSUME NEW p \in Procs, ReleaseFlag(p) PROVE DevTypeOK'
  BY <1>13 DEF ReleaseFlag, Goto
<1>14. ASSUME NEW p \in Procs, ModulePut(p) PROVE DevTypeOK'
  BY <1>14 DEF ModulePut, Goto
<1>15. ASSUME NEW p \in Procs, Leave(p) PROVE DevTypeOK'
  BY <1>15 DEF Leave, Goto
<1>16. CASE UNCHANGED devvars
  BY <1>16
<1> QED
  BY <1>1, <1>2, <1>3, <1>4, <1>5, <1>6, <1>7, <1>8, <1>9, <1>10, <1>11, <1>12,
     <1>13, <1>14, <1>15, <1>16
  DEF DevNext, Admin, Finish

(* A load finds no process inside the module. *)
LEMMA LoadStep ==
    ASSUME DevTypeOK, LoadInv, [DevNext]_devvars
    PROVE  LoadInv'
<1> USE DemoAssumption DEF DevTypeOK, LoadInv, HasDevice, Pcs, InCode, devvars, mvars, fvars
<1>1. CASE demo_init
  BY <1>1 DEF demo_init
<1>2. CASE Rmmod
  BY <1>2 DEF Rmmod
<1>3. CASE DestroyNode
  BY <1>3 DEF DestroyNode
<1>4. CASE Unregister
  BY <1>4 DEF Unregister
<1>5. CASE FreeModule
  BY <1>5 DEF FreeModule
<1>6. ASSUME NEW p \in Procs, Lookup(p) PROVE LoadInv'
  BY <1>6 DEF Lookup, Goto
<1>7. ASSUME NEW p \in Procs, EnterOpen(p) PROVE LoadInv'
  BY <1>7 DEF EnterOpen, Goto
<1>8. ASSUME NEW p \in Procs, Cmpxchg(p) PROVE LoadInv'
  BY <1>8 DEF Cmpxchg, Goto
<1>9. ASSUME NEW p \in Procs, Sprintf(p) PROVE LoadInv'
  BY <1>9 DEF Sprintf, Goto
<1>10. ASSUME NEW p \in Procs, TryModuleGet(p) PROVE LoadInv'
  BY <1>10 DEF TryModuleGet, Goto
<1>11. ASSUME NEW p \in Procs, device_read(p) PROVE LoadInv'
  BY <1>11 DEF device_read, Goto
<1>12. ASSUME NEW p \in Procs, Close(p) PROVE LoadInv'
  BY <1>12 DEF Close, Goto
<1>13. ASSUME NEW p \in Procs, ReleaseFlag(p) PROVE LoadInv'
  BY <1>13 DEF ReleaseFlag, Goto
<1>14. ASSUME NEW p \in Procs, ModulePut(p) PROVE LoadInv'
  BY <1>14 DEF ModulePut, Goto
<1>15. ASSUME NEW p \in Procs, Leave(p) PROVE LoadInv'
  BY <1>15 DEF Leave, Goto
<1>16. CASE UNCHANGED devvars
  BY <1>16
<1> QED
  BY <1>1, <1>2, <1>3, <1>4, <1>5, <1>6, <1>7, <1>8, <1>9, <1>10, <1>11, <1>12,
     <1>13, <1>14, <1>15, <1>16
  DEF DevNext, Admin, Finish

(* The flag guards the device. *)
LEMMA FlagStep ==
    ASSUME DevTypeOK, LoadInv, FlagInv, [DevNext]_devvars
    PROVE  FlagInv'
<1> USE DemoAssumption DEF DevTypeOK, LoadInv, FlagInv, HasDevice, Pcs, InCode, devvars, mvars, fvars
<1>1. CASE demo_init
  BY <1>1 DEF demo_init
<1>2. CASE Rmmod
  BY <1>2 DEF Rmmod
<1>3. CASE DestroyNode
  BY <1>3 DEF DestroyNode
<1>4. CASE Unregister
  BY <1>4 DEF Unregister
<1>5. CASE FreeModule
  BY <1>5 DEF FreeModule
<1>6. ASSUME NEW p \in Procs, Lookup(p) PROVE FlagInv'
  BY <1>6 DEF Lookup, Goto
<1>7. ASSUME NEW p \in Procs, EnterOpen(p) PROVE FlagInv'
  BY <1>7 DEF EnterOpen, Goto
<1>8. ASSUME NEW p \in Procs, Cmpxchg(p) PROVE FlagInv'
  BY <1>8 DEF Cmpxchg, Goto
<1>9. ASSUME NEW p \in Procs, Sprintf(p) PROVE FlagInv'
  BY <1>9 DEF Sprintf, Goto
<1>10. ASSUME NEW p \in Procs, TryModuleGet(p) PROVE FlagInv'
  BY <1>10 DEF TryModuleGet, Goto
<1>11. ASSUME NEW p \in Procs, device_read(p) PROVE FlagInv'
  BY <1>11 DEF device_read, Goto
<1>12. ASSUME NEW p \in Procs, Close(p) PROVE FlagInv'
  BY <1>12 DEF Close, Goto
<1>13. ASSUME NEW p \in Procs, ReleaseFlag(p) PROVE FlagInv'
  BY <1>13 DEF ReleaseFlag, Goto
<1>14. ASSUME NEW p \in Procs, ModulePut(p) PROVE FlagInv'
  BY <1>14 DEF ModulePut, Goto
<1>15. ASSUME NEW p \in Procs, Leave(p) PROVE FlagInv'
  BY <1>15 DEF Leave, Goto
<1>16. CASE UNCHANGED devvars
  BY <1>16
<1> QED
  BY <1>1, <1>2, <1>3, <1>4, <1>5, <1>6, <1>7, <1>8, <1>9, <1>10, <1>11, <1>12,
     <1>13, <1>14, <1>15, <1>16
  DEF DevNext, Admin, Finish

(* The buffer belongs to the process that has the device. *)
LEMMA MsgStep ==
    ASSUME DevTypeOK, LoadInv, FlagInv, MsgInv, [DevNext]_devvars
    PROVE  MsgInv'
<1> USE DemoAssumption DEF DevTypeOK, LoadInv, FlagInv, MsgInv, HasDevice, Pcs, InCode, devvars, mvars, fvars
<1>1. CASE demo_init
  BY <1>1 DEF demo_init
<1>2. CASE Rmmod
  BY <1>2 DEF Rmmod
<1>3. CASE DestroyNode
  BY <1>3 DEF DestroyNode
<1>4. CASE Unregister
  BY <1>4 DEF Unregister
<1>5. CASE FreeModule
  BY <1>5 DEF FreeModule
<1>6. ASSUME NEW p \in Procs, Lookup(p) PROVE MsgInv'
  BY <1>6 DEF Lookup, Goto
<1>7. ASSUME NEW p \in Procs, EnterOpen(p) PROVE MsgInv'
  BY <1>7 DEF EnterOpen, Goto
<1>8. ASSUME NEW p \in Procs, Cmpxchg(p) PROVE MsgInv'
  BY <1>8 DEF Cmpxchg, Goto
<1>9. ASSUME NEW p \in Procs, Sprintf(p) PROVE MsgInv'
  BY <1>9 DEF Sprintf, Goto
<1>10. ASSUME NEW p \in Procs, TryModuleGet(p) PROVE MsgInv'
  BY <1>10 DEF TryModuleGet, Goto
<1>11. ASSUME NEW p \in Procs, device_read(p) PROVE MsgInv'
  BY <1>11 DEF device_read, Goto
<1>12. ASSUME NEW p \in Procs, Close(p) PROVE MsgInv'
  BY <1>12 DEF Close, Goto
<1>13. ASSUME NEW p \in Procs, ReleaseFlag(p) PROVE MsgInv'
  BY <1>13 DEF ReleaseFlag, Goto
<1>14. ASSUME NEW p \in Procs, ModulePut(p) PROVE MsgInv'
  BY <1>14 DEF ModulePut, Goto
<1>15. ASSUME NEW p \in Procs, Leave(p) PROVE MsgInv'
  BY <1>15 DEF Leave, Goto
<1>16. CASE UNCHANGED devvars
  BY <1>16
<1> QED
  BY <1>1, <1>2, <1>3, <1>4, <1>5, <1>6, <1>7, <1>8, <1>9, <1>10, <1>11, <1>12,
     <1>13, <1>14, <1>15, <1>16
  DEF DevNext, Admin, Finish

(* Numbers are never told twice. *)
LEMMA NumberStep ==
    ASSUME DevTypeOK, LoadInv, NumberInv, [DevNext]_devvars
    PROVE  NumberInv'
<1> USE DemoAssumption DEF DevTypeOK, LoadInv, NumberInv, NumbersDiffer, HasDevice, Pcs, InCode, devvars, mvars, fvars
<1>1. CASE demo_init
  BY <1>1 DEF demo_init
<1>2. CASE Rmmod
  BY <1>2 DEF Rmmod
<1>3. CASE DestroyNode
  BY <1>3 DEF DestroyNode
<1>4. CASE Unregister
  BY <1>4 DEF Unregister
<1>5. CASE FreeModule
  BY <1>5 DEF FreeModule
<1>6. ASSUME NEW p \in Procs, Lookup(p) PROVE NumberInv'
  BY <1>6 DEF Lookup, Goto
<1>7. ASSUME NEW p \in Procs, EnterOpen(p) PROVE NumberInv'
  BY <1>7 DEF EnterOpen, Goto
<1>8. ASSUME NEW p \in Procs, Cmpxchg(p) PROVE NumberInv'
  BY <1>8 DEF Cmpxchg, Goto
<1>9. ASSUME NEW p \in Procs, Sprintf(p) PROVE NumberInv'
  BY <1>9 DEF Sprintf, Goto
<1>10. ASSUME NEW p \in Procs, TryModuleGet(p) PROVE NumberInv'
  BY <1>10 DEF TryModuleGet, Goto
<1>11. ASSUME NEW p \in Procs, device_read(p) PROVE NumberInv'
  BY <1>11 DEF device_read, Goto
<1>12. ASSUME NEW p \in Procs, Close(p) PROVE NumberInv'
  BY <1>12 DEF Close, Goto
<1>13. ASSUME NEW p \in Procs, ReleaseFlag(p) PROVE NumberInv'
  BY <1>13 DEF ReleaseFlag, Goto
<1>14. ASSUME NEW p \in Procs, ModulePut(p) PROVE NumberInv'
  BY <1>14 DEF ModulePut, Goto
<1>15. ASSUME NEW p \in Procs, Leave(p) PROVE NumberInv'
  BY <1>15 DEF Leave, Goto
<1>16. CASE UNCHANGED devvars
  BY <1>16
<1> QED
  BY <1>1, <1>2, <1>3, <1>4, <1>5, <1>6, <1>7, <1>8, <1>9, <1>10, <1>11, <1>12,
     <1>13, <1>14, <1>15, <1>16
  DEF DevNext, Admin, Finish

(* The count follows its users: it is raised for the one that comes in while *)
(* the module is live, lowered for the one that leaves, and fresh with a    *)
(* load, when there are none.                                               *)
LEMMA UsersStep ==
    ASSUME DevTypeOK, LoadInv, UsersInv, [DevNext]_devvars
    PROVE  UsersInv'
<1> USE DEF UsersInv
<1>0. CountIsUsers <=> (module = "live" /\ ~oops => refcnt = Cardinality(Users))
  BY DEF CountIsUsers, Users
<1>00. CountIsUsers' <=> ((module = "live" /\ ~oops)' => refcnt' = Cardinality(Users'))
  BY DEF CountIsUsers, Users
<1>1. ASSUME Users' = Users, refcnt' = refcnt,
             (module = "live" /\ ~oops)' => module = "live" /\ ~oops
      PROVE  UsersInv'
  BY <1>0, <1>00, <1>1
<1> USE DEF DevTypeOK, devvars, mvars, fvars
<1>2. CASE demo_init
  <2>1. module = "absent" /\ ~oops /\ refcnt' = 0 /\ at' = at
    BY <1>2 DEF demo_init
  <2>2. Users' = {}
    BY <2>1 DEF LoadInv, Users
  <2> QED
    BY <2>1, <2>2, <1>00, FS_EmptySet
<1>3. CASE Rmmod \/ DestroyNode \/ Unregister \/ FreeModule
  <2>1. at' = at /\ refcnt' = refcnt /\ module' # "live"
    BY <1>3 DEF Rmmod, DestroyNode, Unregister, FreeModule
  <2>2. Users' = Users
    BY <2>1 DEF Users
  <2> QED
    BY <1>1, <2>1, <2>2
<1>4. ASSUME NEW p \in Procs,
             Lookup(p) \/ EnterOpen(p) \/ Cmpxchg(p) \/ Sprintf(p) \/ device_read(p)
                \/ Close(p) \/ ReleaseFlag(p) \/ Leave(p)
      PROVE  UsersInv'
  <2>1. /\ refcnt' = refcnt /\ module' = module /\ oops' = oops
        /\ \A q \in Procs : at'[q] \in {"open", "set", "put"} <=> at[q] \in {"open", "set", "put"}
    <3>1. CASE Lookup(p) \/ EnterOpen(p) \/ Cmpxchg(p) \/ Sprintf(p)
      BY <3>1 DEF Lookup, EnterOpen, Cmpxchg, Sprintf, Goto
    <3>2. CASE device_read(p) \/ Close(p) \/ ReleaseFlag(p) \/ Leave(p)
      BY <3>2 DEF device_read, Close, ReleaseFlag, Leave, Goto
    <3> QED
      BY <1>4, <3>1, <3>2
  <2>2. Users' = Users
    BY <2>1 DEF Users
  <2> QED
    BY <1>1, <2>1, <2>2
<1>5. ASSUME NEW p \in Procs, TryModuleGet(p) PROVE UsersInv'
  <2>1. /\ module' = module /\ oops' = oops
        /\ module = "live" => refcnt' = refcnt + 1
    BY <1>5 DEF TryModuleGet
  <2>2. p \notin Users /\ Users' = Users \cup {p}
    BY <1>5 DEF TryModuleGet, Goto, Users
  <2>3. IsFiniteSet(Users') /\ Cardinality(Users') = Cardinality(Users) + 1
    BY <2>2, FS_AddElement
  <2> QED
    BY <1>0, <1>00, <2>1, <2>3
<1>6. ASSUME NEW p \in Procs, ModulePut(p) PROVE UsersInv'
  <2>1. /\ module' = module /\ oops' = oops
        /\ refcnt > 0 => refcnt' = refcnt - 1
    BY <1>6 DEF ModulePut
  <2>2. p \in Users /\ Users' = Users \ {p}
    BY <1>6 DEF ModulePut, Goto, Users
  <2>3. IsFiniteSet(Users') /\ Cardinality(Users') = Cardinality(Users) - 1
    BY <2>2, FS_RemoveElement
  <2>4. Cardinality(Users) \in Nat /\ Cardinality(Users') \in Nat
    BY <2>3, FS_CardinalityType
  <2>5. Cardinality(Users) > 0
    BY <2>3, <2>4
  <2> QED
    BY <1>0, <1>00, <2>1, <2>3, <2>5
<1>7. CASE UNCHANGED devvars
  <2>1. Users' = Users
    BY <1>7 DEF Users
  <2> QED
    BY <1>1, <1>7, <2>1
<1> QED
  BY <1>2, <1>3, <1>4, <1>5, <1>6, <1>7 DEF DevNext, Admin, Finish

(***************************************************************************)
(* The theorems.                                                           *)
(***************************************************************************)

(* The inductive invariant holds of every state of the driver. *)
THEOREM DevInvariance == DevSpec => []DevIInv
<1>1. DevIInv /\ [DevNext]_devvars => DevIInv'
  BY DevTypeStep, LoadStep, FlagStep, MsgStep, NumberStep, UsersStep DEF DevIInv
<1> QED
  BY DevInitInv, <1>1, PTL DEF DevSpec

(* Every variable of the driver and its users keeps its type. *)
THEOREM DevTypeCorrect == DevSpec => []DevTypeOK
<1>1. DevIInv => DevTypeOK
  BY DEF DevIInv
<1> QED
  BY <1>1, DevInvariance, PTL

(* At most one process has the device open, for any number of processes. *)
THEOREM OneHolder == DevSpec => []ExclusiveOpen
<1>1. DevIInv => ExclusiveOpen
  BY DEF DevIInv, FlagInv, ExclusiveOpen
<1> QED
  BY <1>1, DevInvariance, PTL

(* Reads of one open file never mix two messages. *)
THEOREM OneMessage == DevSpec => []OneMessagePerOpen
<1>1. DevIInv => OneMessagePerOpen
  BY DEF DevIInv, MsgInv, OneMessagePerOpen
<1> QED
  BY <1>1, DevInvariance, PTL

(* Two opens of one load never get the same number. *)
THEOREM FreshNumbers == DevSpec => []NumbersDiffer
<1>1. DevIInv => NumbersDiffer
  BY DEF DevIInv, NumberInv
<1> QED
  BY <1>1, DevInvariance, PTL

(* The reference count misses no process, for any number of them: a live     *)
(* module with a count of 0 has nobody between try_module_get and module_put, *)
(* and one without users can be removed.                                    *)
THEOREM ExactCount == DevSpec => []CountIsUsers
<1>1. DevIInv => CountIsUsers
  BY DEF DevIInv, UsersInv
<1> QED
  BY <1>1, DevInvariance, PTL
=============================================================================
