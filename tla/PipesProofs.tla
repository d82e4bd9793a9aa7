---------------------------- MODULE PipesProofs -----------------------------
(***************************************************************************)
(* TLAPS proofs about Pipes, for any number of streams, any sizes of       *)
(* pages, pipes and buffers, and any faults: the block by block dialogue   *)
(* of part 1, and what streams carry and pclose() waits for in part 2.     *)
(***************************************************************************)
EXTENDS Pipes, SequenceTheorems, TLAPS

(***************************************************************************)
(* The two parts share no actions.                                         *)
(***************************************************************************)
Part1 == Parent \/ Child \/ MainForkFails \/ ReadInputFails \/ ChildKilled

Part2 ==
    \/ User \/ WaitInterrupted
    \/ \E s \in Streams : drop(s) \/ execl(s) \/ Command(s)
    \/ \E m \in Modes : PopenForkFails(m)

(* Where processes are, and which stream is being opened or closed.         *)
PlaceInv ==
    /\ prog = "toupper" =>
        /\ pc[0] \in {"fork", "close", "read", "write", "answer", "zombie"}
        /\ pc[1] \in {"none", "close", "read", "write", "zombie"}
        /\ pc[0] = "fork" => pc[1] = "none"
        /\ \A s \in Streams \ {1} : pc[s] = "none"
        /\ \A s \in Streams : mode[s] = <<"none", "none">> /\ pid[s] = NoStream
    /\ prog = "popen" =>
        /\ pc[0] \in {"user", "insert", "wait", "zombie"}
        /\ \A s \in Streams : pc[s] \in {"none", "drop", "run", "zombie", "gone"}
        /\ pc[0] \in {"insert", "wait"} => cur[1] \in Streams
        /\ pc[0] \notin {"insert", "wait"} => cur = <<NoStream, NoStream>>

(***************************************************************************)
(* Sequences of items in order.                                            *)
(***************************************************************************)

(* The items of s are those that follow the n-th, in capitals or not.       *)
Runs(s, n, caps) == \A i \in 1..Len(s) : s[i] = IF caps THEN -(n + i) ELSE n + i

(* What a concatenation consists of.                                        *)
LEMMA Joined ==
    ASSUME NEW S, NEW s \in Seq(S), NEW t \in Seq(S)
    PROVE  /\ s \o t \in Seq(S) /\ Len(s \o t) = Len(s) + Len(t)
           /\ \A i \in 1..Len(s) : (s \o t)[i] = s[i]
           /\ \A i \in 1..Len(t) : (s \o t)[Len(s) + i] = t[i]
OBVIOUS

(* What the two parts of a sequence consist of.                             *)
LEMMA Cut ==
    ASSUME NEW S, NEW s \in Seq(S), NEW k \in 0..Len(s)
    PROVE  /\ Take(s, k) \in Seq(S) /\ Len(Take(s, k)) = k
           /\ \A i \in 1..k : Take(s, k)[i] = s[i]
           /\ Rest(s, k) \in Seq(S) /\ Len(Rest(s, k)) = Len(s) - k
           /\ \A i \in 1..(Len(s) - k) : Rest(s, k)[i] = s[k + i]
BY DEF Take, Rest

(* Runs of items that follow each other can be joined, and a run cut.       *)
LEMMA RunsJoined ==
    ASSUME NEW s \in Seq(Int), NEW t \in Seq(Int), NEW n \in Nat, NEW caps \in BOOLEAN,
           NEW m \in Nat, m = n + Len(s), Runs(s, n, caps), Runs(t, m, caps)
    PROVE  Runs(s \o t, n, caps)
<1>1. ASSUME NEW i \in 1..Len(s \o t)
      PROVE  (s \o t)[i] = IF caps THEN -(n + i) ELSE n + i
  <2>1. CASE i <= Len(s)
    BY <2>1, Joined DEF Runs
  <2>2. CASE i > Len(s)
    <3>1. Len(s) \in Nat /\ Len(t) \in Nat /\ i \in 1..(Len(s) + Len(t))
      BY Joined
    <3>2. PICK j \in 1..Len(t) : i = Len(s) + j
      <4>1. i - Len(s) \in 1..Len(t) /\ i = Len(s) + (i - Len(s))
        BY <2>2, <3>1
      <4> QED
        BY <4>1
    <3>3. (s \o t)[i] = t[j]
      BY <3>2, Joined
    <3>4. t[j] = IF caps THEN -(m + j) ELSE m + j
      BY DEF Runs
    <3> QED
      BY <3>1, <3>2, <3>3, <3>4
  <2> QED
    BY <2>1, <2>2, Joined
<1> QED
  BY <1>1 DEF Runs

(* A run that is cut is two runs.                                           *)
LEMMA RunsCut ==
    ASSUME NEW s \in Seq(Int), NEW n \in Nat, NEW caps \in BOOLEAN, NEW k \in 0..Len(s),
           NEW m \in Nat, m = n + k, Runs(s, n, caps)
    PROVE  Runs(Take(s, k), n, caps) /\ Runs(Rest(s, k), m, caps)
<1>1. Len(s) \in Nat
  OBVIOUS
<1>2. ASSUME NEW i \in 1..k
      PROVE  Take(s, k)[i] = IF caps THEN -(n + i) ELSE n + i
  <2>1. i \in 1..Len(s)
    BY <1>1
  <2> QED
    BY <2>1, Cut DEF Runs
<1>3. ASSUME NEW i \in 1..(Len(s) - k)
      PROVE  Rest(s, k)[i] = IF caps THEN -(m + i) ELSE m + i
  <2>1. k + i \in 1..Len(s)
    BY <1>1
  <2>2. Rest(s, k)[i] = s[k + i]
    BY Cut
  <2>3. s[k + i] = IF caps THEN -(n + (k + i)) ELSE n + (k + i)
    BY <2>1 DEF Runs
  <2> QED
    BY <2>2, <2>3
<1> QED
  BY ZenonT(40), <1>1, <1>2, <1>3, Cut DEF Runs

(* What is in which set.                                                    *)
LEMMA Sorts ==
    /\ 1 \in Streams /\ 2 \in Streams /\ 0 \in Procs /\ Streams \subseteq Procs
    /\ 0 \notin Streams /\ Error \notin Streams /\ Error # NoStream /\ NoStream \notin Streams
    /\ Streams \subseteq Nat
BY PipesAssumption DEF Streams, Procs, Error, NoStream

(* A step of one part leaves the variables of the other alone.              *)
LEMMA Parts ==
    ASSUME PlaceInv, [Next]_vars, prog \in {"toupper", "popen"}
    PROVE  /\ prog' = prog /\ page' = page
           /\ prog = "toupper" => UNCHANGED pvars /\ (Part1 \/ UNCHANGED vars)
           /\ prog = "popen" => UNCHANGED tvars /\ (Part2 \/ UNCHANGED vars)
<1> USE Sorts DEF PlaceInv, pvars, tvars, vars, evars, fvars, Part1, Part2, Parent, Child, User
<1>1. ASSUME Part1 PROVE prog = "toupper" /\ UNCHANGED <<prog, page, pvars>>
  <2>1. CASE main
    BY <2>1, <1>1 DEF main
  <2>2. CASE CloseEnds(0)
    BY <2>2, <1>1 DEF CloseEnds, Goto, Close
  <2>3. CASE CloseEnds(1)
    BY <2>3, <1>1 DEF CloseEnds, Goto, Close
  <2>4. CASE ReadInput
    BY <2>4, <1>1 DEF ReadInput, Goto, End, Close
  <2>5. CASE Write(0, 1, "answer")
    BY <2>5, <1>1 DEF Write, Goto, End, Close
  <2>6. CASE Write(1, 2, "read")
    BY <2>6, <1>1 DEF Write, Goto, End, Close
  <2>7. CASE ReadAnswer
    BY <2>7, <1>1 DEF ReadAnswer, Goto
  <2>8. CASE child
    BY <2>8, <1>1 DEF child, Goto, End, Close
  <2>9. CASE MainForkFails
    BY <2>9, <1>1 DEF MainForkFails, Goto, Fault
  <2>10. CASE ReadInputFails
    BY <2>10, <1>1 DEF ReadInputFails, End, Close, Fault
  <2>11. CASE ChildKilled
    BY <2>11, <1>1 DEF ChildKilled, End, Close, Fault
  <2> QED
    BY <1>1, <2>1, <2>2, <2>3, <2>4, <2>5, <2>6, <2>7, <2>8, <2>9, <2>10, <2>11
<1>2. ASSUME Part2 PROVE prog = "popen" /\ UNCHANGED <<prog, page, tvars>>
  <2>1. ASSUME NEW m \in Modes, my_popen(m) PROVE prog = "popen" /\ UNCHANGED <<prog, page, tvars>>
    BY <2>1, <1>2 DEF my_popen, UserCalls
  <2>2. CASE insert
    BY <2>2, <1>2 DEF insert, Goto, Close
  <2>3. CASE waitpid
    BY <2>3, <1>2 DEF waitpid
  <2>4. CASE WaitFails
    BY <2>4, <1>2 DEF WaitFails, Goto
  <2>5. CASE UserEnds
    BY <2>5, <1>2 DEF UserEnds, UserCalls, End, Close
  <2>6. ASSUME NEW s \in Streams, Fwrite(s) PROVE prog = "popen" /\ UNCHANGED <<prog, page, tvars>>
    BY <2>6, <1>2 DEF Fwrite, UserCalls, End, Close, Flush
  <2>7. ASSUME NEW s \in Streams, Fread(s) PROVE prog = "popen" /\ UNCHANGED <<prog, page, tvars>>
    BY <2>7, <1>2 DEF Fread, UserCalls
  <2>8. ASSUME NEW s \in Streams, my_pclose(s) PROVE prog = "popen" /\ UNCHANGED <<prog, page, tvars>>
    BY <2>8, <1>2 DEF my_pclose, UserCalls, Goto, End, Close, Flush
  <2>9. ASSUME NEW s \in Streams, drop(s) PROVE prog = "popen" /\ UNCHANGED <<prog, page, tvars>>
    BY <2>9, <1>2 DEF drop, End, Close, Flush
  <2>10. ASSUME NEW s \in Streams, execl(s) PROVE prog = "popen" /\ UNCHANGED <<prog, page, tvars>>
    BY <2>10, <1>2 DEF execl, Goto, Close
  <2>11. ASSUME NEW s \in Streams, Command(s) PROVE prog = "popen" /\ UNCHANGED <<prog, page, tvars>>
    BY <2>11, <1>2 DEF Command, End, Close, Flush
  <2>12. CASE WaitInterrupted
    BY <2>12, <1>2 DEF WaitInterrupted, Fault
  <2>13. ASSUME NEW m \in Modes, PopenForkFails(m) PROVE prog = "popen" /\ UNCHANGED <<prog, page, tvars>>
    BY <2>13, <1>2 DEF PopenForkFails, UserCalls, Fault
  <2> QED
    BY <1>2, <2>1, <2>2, <2>3, <2>4, <2>5, <2>6, <2>7, <2>8, <2>9, <2>10, <2>11, <2>12, <2>13
<1>3. Next => Part1 \/ Part2
  BY DEF Next, System
<1> QED
  BY <1>1, <1>2, <1>3

(***************************************************************************)
(* Types.                                                                  *)
(***************************************************************************)
Pcs ==
    {"none", "fork", "close", "read", "write", "answer", "user", "insert", "drop", "run", "wait",
     "zombie", "gone"}

(* The types of what decides what happens.                                  *)
ControlTypes ==
    /\ pc \in [Procs -> Pcs]
    /\ rd \in [Streams -> SUBSET Procs] /\ wr \in [Streams -> SUBSET Procs]
    /\ mode \in [Streams -> Modes \cup {<<"none", "none">>}]
    /\ pid \in [Streams -> {NoStream, Error} \cup Streams]
    /\ cur \in (Streams \cup {NoStream}) \X ({NoStream, Error} \cup Streams)
    /\ status \in [Streams -> Streams \cup {NoStream}] /\ copied \subseteq Streams
    /\ hurt \subseteq Faults /\ nfaults \in 0..MaxFaults

(* Closing ends, and ending, keeps the types of places and ends.            *)
LEMMA CloseTypes ==
    ASSUME ControlTypes, NEW p \in Procs, NEW r, NEW w
    PROVE  /\ Close(p, r, w) => /\ rd' \in [Streams -> SUBSET Procs]
                               /\ wr' \in [Streams -> SUBSET Procs]
           /\ End(p) => /\ pc' \in [Procs -> Pcs]
                        /\ rd' \in [Streams -> SUBSET Procs]
                        /\ wr' \in [Streams -> SUBSET Procs]
BY DEF ControlTypes, Close, End, Pcs

(* Each step keeps the types of what controls it.                           *)
LEMMA ControlTypesStep == ASSUME Types, PlaceInv, [Next]_vars PROVE ControlTypes'
<1>0. prog' = prog /\ page' = page /\ (Part1 \/ Part2 \/ UNCHANGED vars) /\ ControlTypes
  BY Parts DEF Types, ControlTypes, Pcs
<1>1. Faults \subseteq FaultKinds /\ MaxFaults \in Nat
  BY PipesAssumption
<1> USE <1>0, <1>1, Sorts DEF ControlTypes, Pcs, tvars, pvars, evars, fvars, Modes
<1> HIDE DEF Types
<1>2. CASE UNCHANGED vars
  BY <1>2 DEF vars
<1>3. CASE Part1
  <2>1. CASE main
    BY <2>1, CloseTypes DEF main
  <2>2. CASE CloseEnds(0)
    BY <2>2, CloseTypes DEF CloseEnds, Goto, Close
  <2>3. CASE CloseEnds(1)
    BY <2>3, CloseTypes DEF CloseEnds, Goto, Close
  <2>4. CASE ReadInput
    BY <2>4, CloseTypes DEF ReadInput, Goto, Close
  <2>5. CASE Write(0, 1, "answer")
    BY <2>5, CloseTypes DEF Write, Goto, Close
  <2>6. CASE Write(1, 2, "read")
    BY <2>6, CloseTypes DEF Write, Goto, Close
  <2>7. CASE ReadAnswer
    BY <2>7, CloseTypes DEF ReadAnswer, Goto
  <2>8. CASE child
    BY <2>8, CloseTypes DEF child, Goto, Close
  <2>9. CASE MainForkFails
    BY <2>9, CloseTypes DEF MainForkFails, Goto, Fault
  <2>10. CASE ReadInputFails
    BY <2>10, CloseTypes DEF ReadInputFails, Close, Fault
  <2>11. CASE ChildKilled
    BY <2>11, CloseTypes DEF ChildKilled, Close, Fault
  <2> QED
    BY <1>3, <2>1, <2>2, <2>3, <2>4, <2>5, <2>6, <2>7, <2>8, <2>9, <2>10, <2>11 DEF Part1,
       Parent, Child
<1>4. CASE Part2
  <2>1. ASSUME NEW m \in Modes, my_popen(m) PROVE ControlTypes'
    <3>1. PICK s \in Unused : my_popen(m)!2!(s)
      BY <2>1 DEF my_popen
    <3>2. s \in Streams /\ rd' \in [Streams -> SUBSET Procs] /\ wr' \in [Streams -> SUBSET Procs]
      BY <3>1 DEF Unused
    <3>3. pc' \in [Procs -> Pcs] /\ mode' \in [Streams -> Modes \cup {<<"none", "none">>}]
      BY <3>1, <3>2
    <3> QED
      BY <2>1, <3>1, <3>2, <3>3 DEF my_popen
  <2>2. CASE insert
    BY <2>2, CloseTypes DEF insert, Goto, Close
  <2>3. CASE waitpid
    <3>1. PICK s \in Streams : waitpid!(s)
      BY <2>3 DEF waitpid, Awaited
    <3>2. status' \in [Streams -> Streams \cup {NoStream}]
      BY <3>1
    <3> QED
      BY <2>3, <3>1, <3>2
  <2>4. CASE WaitFails
    BY <2>4, CloseTypes DEF WaitFails, Goto
  <2>5. CASE UserEnds
    BY <2>5, CloseTypes DEF UserEnds, UserCalls, Close
  <2>6. ASSUME NEW s \in Streams, Fwrite(s) PROVE ControlTypes'
    BY <2>6, CloseTypes DEF Fwrite, UserCalls, Close, Flush
  <2>7. ASSUME NEW s \in Streams, Fread(s) PROVE ControlTypes'
    BY <2>7, CloseTypes DEF Fread, UserCalls
  <2>8. ASSUME NEW s \in Streams, my_pclose(s) PROVE ControlTypes'
    <3>1. pid[s] \in {NoStream, Error} \cup Streams
      OBVIOUS
    <3>2. CASE Broken(s, fbuf[s])
      BY <2>8, <3>2, CloseTypes DEF my_pclose
    <3>3. CASE ~Broken(s, fbuf[s])
      <4>1. rd' \in [Streams -> SUBSET Procs] /\ wr' \in [Streams -> SUBSET Procs]
        BY <2>8, <3>3, CloseTypes DEF my_pclose
      <4>2. pc' \in [Procs -> Pcs] /\ pid' \in [Streams -> {NoStream, Error} \cup Streams]
        BY <2>8, <3>3 DEF my_pclose, Goto
      <4> QED
        BY <2>8, <3>1, <3>3, <4>1, <4>2 DEF my_pclose
    <3> QED
      BY <3>2, <3>3
  <2>9. ASSUME NEW s \in Streams, drop(s) PROVE ControlTypes'
    <3>1. pc' \in [Procs -> Pcs] /\ rd' \in [Streams -> SUBSET Procs] /\ wr' \in [Streams -> SUBSET Procs]
      BY <2>9, CloseTypes DEF drop
    <3> QED
      BY <2>9, <3>1 DEF drop
  <2>10. ASSUME NEW s \in Streams, execl(s) PROVE ControlTypes'
    <3>1. pc' \in [Procs -> Pcs]
      BY <2>10 DEF execl, Goto
    <3>2. CASE mode[s][1] = "w"
      <4>1. Close(s, {}, {s})
        BY <2>10, <3>2 DEF execl
      <4> QED
        BY <2>10, <3>1, <4>1, CloseTypes DEF execl
    <3>3. CASE mode[s][1] # "w"
      <4>1. Close(s, {s}, {})
        BY <2>10, <3>3 DEF execl
      <4> QED
        BY <2>10, <3>1, <4>1, CloseTypes DEF execl
    <3> QED
      BY <3>2, <3>3
  <2>11. ASSUME NEW s \in Streams, Command(s) PROVE ControlTypes'
    BY <2>11, CloseTypes DEF Command, Close, Flush
  <2>12. CASE WaitInterrupted
    BY <2>12, CloseTypes DEF WaitInterrupted, Fault
  <2>13. ASSUME NEW m \in Modes, PopenForkFails(m) PROVE ControlTypes'
    <3>1. PICK s \in Unused : PopenForkFails(m)!3!(s)
      BY <2>13 DEF PopenForkFails
    <3>2. s \in Streams /\ rd' \in [Streams -> SUBSET Procs] /\ wr' \in [Streams -> SUBSET Procs]
      BY <3>1 DEF Unused
    <3>3. pc' \in [Procs -> Pcs] /\ mode' \in [Streams -> Modes \cup {<<"none", "none">>}]
      BY <3>1, <3>2
    <3> QED
      BY <2>13, <3>1, <3>2, <3>3 DEF PopenForkFails, Fault
  <2> QED
    BY <1>4, <2>1, <2>2, <2>3, <2>4, <2>5, <2>6, <2>7, <2>8, <2>9, <2>10, <2>11, <2>12,
       <2>13 DEF Part2, User
<1> QED
  BY <1>0, <1>2, <1>3, <1>4

(* The types of what is carried.                                            *)
DataTypes ==
    /\ data \in [Streams -> Seq(Int)] /\ \A q \in Streams : Len(data[q]) <= PipeCap
    /\ got \in [Procs -> Seq(Int)] /\ out \in [Procs -> Seq(Int)]
    /\ buf \in [Procs -> Seq(Int)] /\ len \in [Procs -> 0..page]
    /\ put \in [Streams -> 0..Items]
    /\ fbuf \in [Streams -> Seq(1..Items)] /\ \A s \in Streams : Len(fbuf[s]) <= StdioBuf
    /\ buf2 \in [Streams -> [1..page -> Int] \X (0..page)]
    /\ copy \in [Streams -> [Streams -> Seq(Int)]]

(* Taking items from, and adding items to, a pipe.                          *)
LEMMA PipeTypes ==
    ASSUME data \in [Streams -> Seq(Int)], \A q \in Streams : Len(data[q]) <= PipeCap,
           PipeCap \in Nat, NEW q \in Streams
    PROVE  /\ \A k \in 0..Len(data[q]) : data' = [data EXCEPT ![q] = Rest(@, k)] =>
                /\ data' \in [Streams -> Seq(Int)]
                /\ \A r \in Streams : Len(data'[r]) <= PipeCap
           /\ \A t \in Seq(Int) : Len(t) <= Room(q) /\ data' = [data EXCEPT ![q] = @ \o t] =>
                /\ data' \in [Streams -> Seq(Int)]
                /\ \A r \in Streams : Len(data'[r]) <= PipeCap
<1>1. ASSUME NEW k \in 0..Len(data[q]), data' = [data EXCEPT ![q] = Rest(@, k)]
      PROVE  /\ data' \in [Streams -> Seq(Int)]
             /\ \A r \in Streams : Len(data'[r]) <= PipeCap
  <2>1. Rest(data[q], k) \in Seq(Int) /\ Len(Rest(data[q], k)) = Len(data[q]) - k
    BY Cut
  <2>2. Len(data[q]) \in Nat
    OBVIOUS
  <2> QED
    BY <1>1, <2>1, <2>2
<1>2. ASSUME NEW t \in Seq(Int), Len(t) <= Room(q), data' = [data EXCEPT ![q] = @ \o t]
      PROVE  /\ data' \in [Streams -> Seq(Int)]
             /\ \A r \in Streams : Len(data'[r]) <= PipeCap
  <2>1. data[q] \o t \in Seq(Int) /\ Len(data[q] \o t) = Len(data[q]) + Len(t)
    BY Joined
  <2>2. Len(data[q]) \in Nat /\ Len(t) \in Nat
    OBVIOUS
  <2> QED
    BY <1>2, <2>1, <2>2 DEF Room
<1> QED
  BY <1>1, <1>2

(* What fread() does: it takes k items into its page, which is printed when *)
(* it is full or at the end of the stream.                                  *)
LEMMA FreadOf ==
    ASSUME NEW s \in Streams, Fread(s), page \in Nat,
           data \in [Streams -> Seq(Int)], buf2 \in [Streams -> [1..page -> Int] \X (0..page)]
    PROVE  \E k \in 0..page, f \in [1..page -> Int] :
            /\ k <= Len(data[s]) /\ buf2[s][2] + k <= page
            /\ \A i \in 1..page :
                 f[i] = IF i \in (buf2[s][2] + 1)..(buf2[s][2] + k)
                        THEN data[s][i - buf2[s][2]] ELSE buf2[s][1][i]
            /\ k = 0 => wr[s] = {} /\ (data[s] = <<>> \/ buf2[s][2] = page)
            /\ k > 0 \/ buf2[s][2] > 0
            /\ data' = [data EXCEPT ![s] = Rest(@, k)]
            /\ \/ /\ buf2[s][2] + k = page \/ k = 0
                  /\ out' = [out EXCEPT ![s] = @ \o f]
                  /\ buf2' = [buf2 EXCEPT ![s] = <<f, 0>>]
               \/ /\ buf2[s][2] + k < page /\ k > 0
                  /\ buf2' = [buf2 EXCEPT ![s] = <<f, buf2[s][2] + k>>]
                  /\ out' = out
<1>1. PICK n \in 0..page : n = buf2[s][2]
  OBVIOUS
<1>2. PICK k \in 0..page : k = IF Len(data[s]) < page - n THEN Len(data[s]) ELSE page - n
  <2>1. Len(data[s]) \in Nat
    OBVIOUS
  <2> QED
    BY <1>1, <2>1
<1>3. Len(data[s]) \in Nat /\ k <= Len(data[s]) /\ n + k <= page
  BY SMTT(40), <1>1, <1>2
<1>4. PICK f \in [1..page -> Int] :
        f = [i \in 1..page |-> IF i \in (n + 1)..(n + k) THEN data[s][i - n] ELSE buf2[s][1][i]]
  <2>1. ASSUME NEW i \in 1..page
        PROVE  (IF i \in (n + 1)..(n + k) THEN data[s][i - n] ELSE buf2[s][1][i]) \in Int
    <3>1. i \in (n + 1)..(n + k) => i - n \in 1..Len(data[s])
      BY <1>3
    <3>2. data[s] \in Seq(Int) /\ buf2[s][1] \in [1..page -> Int]
      OBVIOUS
    <3> QED
      BY <3>1, <3>2
  <2> QED
    BY <2>1
<1>5. /\ k > 0 \/ (n > 0 /\ wr[s] = {})
      /\ data' = [data EXCEPT ![s] = Rest(@, k)]
      /\ IF n + k = page \/ k = 0
         THEN out' = [out EXCEPT ![s] = @ \o f] /\ buf2' = [buf2 EXCEPT ![s] = <<f, 0>>]
         ELSE buf2' = [buf2 EXCEPT ![s] = <<f, n + k>>] /\ out' = out
  BY <1>1, <1>2, <1>4 DEF Fread
<1>6. k = 0 => data[s] = <<>> \/ n = page
  BY <1>1, <1>2, <1>3
<1>7. n + k = page \/ n + k < page
  BY <1>1, <1>2, <1>3
<1>8. k = 0 \/ k > 0
  BY <1>2
<1>9. \A i \in 1..page :
        f[i] = IF i \in (n + 1)..(n + k) THEN data[s][i - n] ELSE buf2[s][1][i]
  BY <1>4
<1>10. \/ /\ n + k = page \/ k = 0
          /\ out' = [out EXCEPT ![s] = @ \o f]
          /\ buf2' = [buf2 EXCEPT ![s] = <<f, 0>>]
       \/ /\ n + k < page /\ k > 0
          /\ buf2' = [buf2 EXCEPT ![s] = <<f, n + k>>]
          /\ out' = out
  <2>1. CASE n + k = page \/ k = 0
    BY <1>5, <2>1
  <2>2. CASE ~(n + k = page \/ k = 0)
    BY <1>5, <1>7, <1>8, <2>2
  <2> QED
    BY <2>1, <2>2
<1>11. (k = 0 => wr[s] = {} /\ (data[s] = <<>> \/ n = page)) /\ (k > 0 \/ n > 0)
  <2>1. k = 0 => wr[s] = {} /\ n > 0
    BY <1>5
  <2> QED
    BY <1>6, <1>8, <2>1
<1> QED
  BY <1>1, <1>3, <1>5, <1>9, <1>10, <1>11

(* What a command does: it reads what there is, writes one item, or ends.   *)
LEMMA CommandDoes ==
    ASSUME NEW s \in Streams, Command(s)
    PROVE  \/ /\ mode[s] = <<"w", "all">> /\ data[s] # <<>>
              /\ got' = [got EXCEPT ![s] = @ \o data[s]]
              /\ data' = [data EXCEPT ![s] = <<>>]
              /\ UNCHANGED <<pc, evars, put>>
           \/ /\ mode[s] = <<"r", "all">> /\ put[s] < Items /\ rd[s] # {}
              /\ Flush(s, <<put[s] + 1>>)
              /\ put' = [put EXCEPT ![s] = @ + 1]
              /\ UNCHANGED <<pc, evars, got>>
           \/ /\ mode[s] = <<"w", "all">> => data[s] = <<>> /\ wr[s] = {}
              /\ End(s)
              /\ UNCHANGED <<data, got, put>>
BY DEF Command

(* Each step keeps the types of items and of where they are.                *)
LEMMA DataTypesStep == ASSUME Types, PlaceInv, [Next]_vars PROVE DataTypes'
<1>0. prog' = prog /\ page' = page /\ (Part1 \/ Part2 \/ UNCHANGED vars)
  BY Parts DEF Types
<1>1. data \in [Streams -> Seq(Int)] /\ \A q \in Streams : Len(data[q]) <= PipeCap
  <2>1. PipeCap \in Nat /\ \A q \in Streams : PipeCap - Len(data[q]) >= 0 /\ Len(data[q]) \in Nat
    BY PipesAssumption DEF Types, Room
  <2> QED
    BY <2>1 DEF Types
<1>2. got \in [Procs -> Seq(Int)] /\ out \in [Procs -> Seq(Int)] /\ buf \in [Procs -> Seq(Int)]
  BY DEF Types
<1>3. len \in [Procs -> 0..page] /\ put \in [Streams -> 0..Items]
  BY DEF Types
<1>4. fbuf \in [Streams -> Seq(1..Items)] /\ \A s \in Streams : Len(fbuf[s]) <= StdioBuf
  BY DEF Types
<1>5. buf2 \in [Streams -> [1..page -> Int] \X (0..page)] /\ copy \in [Streams -> [Streams -> Seq(Int)]]
  BY DEF Types
<1>6. /\ page \in Nat \ {0} /\ Items \in Nat /\ PipeCap \in Nat /\ StdioBuf \in Nat \ {0}
  BY PipesAssumption DEF Types
<1>7. DataTypes
  BY <1>1, <1>2, <1>3, <1>4, <1>5 DEF DataTypes
<1>8. \A s \in Streams : fbuf[s] \in Seq(Int)
  <2>1. Seq(1..Items) \subseteq Seq(Int)
    BY <1>6, SeqMonotonic
  <2> QED
    BY <1>4, <2>1
<1>9. CASE UNCHANGED vars
  BY <1>0, <1>7, <1>9 DEF DataTypes, vars, tvars, pvars, evars, fvars
<1>10. CASE Part1
  <2>1. CASE main
    BY <2>1, <1>0, <1>7
      DEF main, DataTypes, tvars, pvars, evars, fvars
  <2>2. CASE CloseEnds(0)
    BY <2>2, <1>0, <1>7
      DEF CloseEnds, DataTypes, tvars, pvars, evars, fvars
  <2>3. CASE CloseEnds(1)
    BY <2>3, <1>0, <1>7
      DEF CloseEnds, DataTypes, tvars, pvars, evars, fvars
  <2>4. CASE ReadInput
    <3>1. CASE Len(got[0]) = Items
      BY <2>4, <1>0, <1>7, <3>1
      DEF ReadInput, DataTypes, tvars, pvars, evars, fvars
    <3>2. CASE Len(got[0]) # Items
      <4>1. PICK k \in 1..page :
                /\ got' = [got EXCEPT ![0] = @ \o [i \in 1..k |-> Len(got[0]) + i]]
                /\ buf' = [buf EXCEPT ![0] = [i \in 1..k |-> Len(got[0]) + i]]
                /\ len' = [len EXCEPT ![0] = k]
        BY <2>4, <3>2 DEF ReadInput
      <4>2. PICK t \in Seq(Int) : t = [i \in 1..k |-> Len(got[0]) + i]
        <5>1. k \in Nat /\ Len(got[0]) \in Nat
          BY <1>2, <1>6, Sorts
        <5>2. \A i \in 1..k : Len(got[0]) + i \in Int
          BY <5>1
        <5>3. [i \in 1..k |-> Len(got[0]) + i] \in Seq(Int)
          BY <5>1, <5>2
        <5> QED
          BY <5>3
      <4>3. got[0] \o t \in Seq(Int)
        BY <1>2, Joined, Sorts
      <4>4. got' \in [Procs -> Seq(Int)] /\ buf' \in [Procs -> Seq(Int)]
        BY <1>2, <4>1, <4>2, <4>3
      <4>5. k \in 0..page
        BY <1>6
      <4>6. len' \in [Procs -> 0..page]
        BY <1>3, <4>1, <4>5
      <4> QED
        BY <2>4, <1>0, <1>7, <4>4, <4>6
        DEF ReadInput, DataTypes, tvars, pvars, evars, fvars
    <3> QED
      BY <3>1, <3>2
  <2>5. CASE Write(0, 1, "answer")
    <3>1. CASE rd[1] = {}
      BY <2>5, <1>0, <1>7, <3>1
      DEF Write, DataTypes, tvars, pvars, evars, fvars
    <3>2. CASE rd[1] # {}
      <4>1. PICK k \in 1..Len(buf[0]) :
                /\ k <= Room(1)
                /\ data' = [data EXCEPT ![1] = @ \o Take(buf[0], k)]
                /\ buf' = [buf EXCEPT ![0] = Rest(@, k)]
        BY <2>5, <3>2 DEF Write
      <4>2. buf[0] \in Seq(Int) /\ Len(buf[0]) \in Nat /\ k \in 0..Len(buf[0])
        BY <1>2, Sorts
      <4>3. /\ Take(buf[0], k) \in Seq(Int) /\ Len(Take(buf[0], k)) = k
            /\ Rest(buf[0], k) \in Seq(Int)
        BY <4>2, Cut
      <4>4. data' \in [Streams -> Seq(Int)] /\ \A r \in Streams : Len(data'[r]) <= PipeCap
        BY <1>1, <1>6, <4>1, <4>3, PipeTypes, Sorts
      <4>5. buf' \in [Procs -> Seq(Int)]
        BY <1>2, <4>1, <4>3
      <4> QED
        BY <2>5, <1>0, <1>7, <4>4, <4>5
        DEF Write, DataTypes, tvars, pvars, evars, fvars
    <3> QED
      BY <3>1, <3>2
  <2>6. CASE Write(1, 2, "read")
    <3>1. CASE rd[2] = {}
      BY <2>6, <1>0, <1>7, <3>1
      DEF Write, DataTypes, tvars, pvars, evars, fvars
    <3>2. CASE rd[2] # {}
      <4>1. PICK k \in 1..Len(buf[1]) :
                /\ k <= Room(2)
                /\ data' = [data EXCEPT ![2] = @ \o Take(buf[1], k)]
                /\ buf' = [buf EXCEPT ![1] = Rest(@, k)]
        BY <2>6, <3>2 DEF Write
      <4>2. buf[1] \in Seq(Int) /\ Len(buf[1]) \in Nat /\ k \in 0..Len(buf[1])
        BY <1>2, Sorts
      <4>3. /\ Take(buf[1], k) \in Seq(Int) /\ Len(Take(buf[1], k)) = k
            /\ Rest(buf[1], k) \in Seq(Int)
        BY <4>2, Cut
      <4>4. data' \in [Streams -> Seq(Int)] /\ \A r \in Streams : Len(data'[r]) <= PipeCap
        BY <1>1, <1>6, <4>1, <4>3, PipeTypes, Sorts
      <4>5. buf' \in [Procs -> Seq(Int)]
        BY <1>2, <4>1, <4>3
      <4> QED
        BY <2>6, <1>0, <1>7, <4>4, <4>5
        DEF Write, DataTypes, tvars, pvars, evars, fvars
    <3> QED
      BY <3>1, <3>2
  <2>7. CASE ReadAnswer
    <3>1. Len(data[2]) \in Nat
      BY <1>1, Sorts
    <3>2. PICK k \in 0..Len(data[2]) : k = IF Len(data[2]) < page THEN Len(data[2]) ELSE page
      BY <1>6, <3>1
    <3>3. /\ data' = [data EXCEPT ![2] = Rest(@, k)]
          /\ out' = [out EXCEPT ![0] = @ \o Take(data[2], k)]
      BY <2>7, <3>2 DEF ReadAnswer
    <3>4. data' \in [Streams -> Seq(Int)] /\ \A r \in Streams : Len(data'[r]) <= PipeCap
      BY <1>1, <1>6, <3>3, PipeTypes, Sorts
    <3>5. Take(data[2], k) \in Seq(Int)
      BY <1>1, Cut, Sorts
    <3>6. out[0] \o Take(data[2], k) \in Seq(Int)
      BY <1>2, <3>5, Joined, Sorts
    <3>7. out' \in [Procs -> Seq(Int)]
      BY <1>2, <3>3, <3>6
    <3> QED
      BY <2>7, <1>0, <1>7, <3>4, <3>7
      DEF ReadAnswer, DataTypes, tvars, pvars, evars, fvars
  <2>8. CASE child
    <3>1. CASE UNCHANGED <<data, tvars>>
      BY <2>8, <1>0, <1>7, <3>1
      DEF child, DataTypes, tvars, pvars, evars, fvars
    <3>2. CASE ~UNCHANGED <<data, tvars>>
      <4>1. Len(data[1]) \in Nat
        BY <1>1, Sorts
      <4>2. PICK k \in 0..page : k = IF Len(data[1]) < page THEN Len(data[1]) ELSE page
        BY <1>6, <4>1
      <4>3. k \in 0..Len(data[1])
        BY <1>6, <4>1, <4>2
      <4>4. /\ data' = [data EXCEPT ![1] = Rest(@, k)]
            /\ buf' = [buf EXCEPT ![1] = [i \in 1..k |-> -data[1][i]]]
            /\ len' = [len EXCEPT ![1] = k]
        BY <2>8, <3>2, <4>2 DEF child
      <4>5. data' \in [Streams -> Seq(Int)] /\ \A r \in Streams : Len(data'[r]) <= PipeCap
        BY <1>1, <1>6, <4>3, <4>4, PipeTypes, Sorts
      <4>6. [i \in 1..k |-> -data[1][i]] \in Seq(Int)
        <5>1. \A i \in 1..k : i \in 1..Len(data[1])
          BY <4>1, <4>3
        <5>2. \A i \in 1..k : -data[1][i] \in Int
          BY <1>1, <5>1, Sorts
        <5> QED
          BY <4>3, <5>2
      <4>7. buf' \in [Procs -> Seq(Int)] /\ len' \in [Procs -> 0..page]
        BY <1>2, <1>3, <4>4, <4>6
      <4> QED
        BY <2>8, <1>0, <1>7, <4>5, <4>7
        DEF child, DataTypes, tvars, pvars, evars, fvars
    <3> QED
      BY <3>1, <3>2
  <2>9. CASE MainForkFails
    BY <2>9, <1>0, <1>7
      DEF MainForkFails, DataTypes, tvars, pvars, evars, fvars
  <2>10. CASE ReadInputFails
    BY <2>10, <1>0, <1>7
      DEF ReadInputFails, DataTypes, tvars, pvars, evars, fvars
  <2>11. CASE ChildKilled
    BY <2>11, <1>0, <1>7
      DEF ChildKilled, DataTypes, tvars, pvars, evars, fvars
  <2> QED
    BY <1>10, <2>1, <2>2, <2>3, <2>4, <2>5, <2>6, <2>7, <2>8, <2>9, <2>10, <2>11 DEF Part1,
       Parent, Child
<1>11. CASE Part2
  <2>1. ASSUME NEW m \in Modes, my_popen(m) PROVE DataTypes'
    <3>1. PICK s \in Streams : copy' = [copy EXCEPT
                ![s] = [q \in Streams |-> IF IsOpen(q) THEN fbuf[q] ELSE Closed]]
      BY <2>1 DEF my_popen, Unused
    <3>2. Closed \in Seq(Int)
      BY DEF Closed, Error
    <3>3. [q \in Streams |-> IF IsOpen(q) THEN fbuf[q] ELSE Closed] \in [Streams -> Seq(Int)]
      BY <1>8, <3>2
    <3>4. copy' \in [Streams -> [Streams -> Seq(Int)]]
      BY <1>5, <3>1, <3>3
    <3> QED
      BY <2>1, <1>0, <1>7, <3>4
      DEF my_popen, DataTypes, tvars, pvars, evars, fvars
  <2>2. CASE insert
    BY <2>2, <1>0, <1>7
      DEF insert, DataTypes, tvars, pvars, evars, fvars
  <2>3. CASE waitpid
    BY <2>3, <1>0, <1>7
      DEF waitpid, DataTypes, tvars, pvars, evars, fvars
  <2>4. CASE WaitFails
    BY <2>4, <1>0, <1>7
      DEF WaitFails, DataTypes, tvars, pvars, evars, fvars
  <2>5. CASE UserEnds
    BY <2>5, <1>0, <1>7
      DEF UserEnds, DataTypes, tvars, pvars, evars, fvars
  <2>6. ASSUME NEW s \in Streams, Fwrite(s) PROVE DataTypes'
    <3>1. put[s] < Items /\ put' = [put EXCEPT ![s] = @ + 1]
      BY <2>6 DEF Fwrite
    <3>2. PICK i \in 1..Items : i = put[s] + 1
      <4>1. put[s] \in 0..Items
        BY <1>3
      <4> QED
        BY <1>6, <3>1, <4>1
    <3>3. put' \in [Streams -> 0..Items]
      BY <1>3, <1>6, <3>1, <3>2
    <3>4. Len(fbuf[s]) \in Nat
      BY <1>4
    <3>5. CASE Len(fbuf[s]) < StdioBuf
      <4>1. fbuf' = [fbuf EXCEPT ![s] = Append(@, i)] /\ data' = data
        BY <2>6, <3>2, <3>5 DEF Fwrite
      <4>2. Append(fbuf[s], i) \in Seq(1..Items) /\ Len(Append(fbuf[s], i)) = Len(fbuf[s]) + 1
        BY <1>4, AppendProperties
      <4>3. fbuf' \in [Streams -> Seq(1..Items)]
        BY <1>4, <4>1, <4>2
      <4>4. \A q \in Streams : Len(fbuf'[q]) <= StdioBuf
        BY <1>4, <1>6, <3>4, <3>5, <4>1, <4>2
      <4> QED
        BY <2>6, <1>0, <1>7, <3>3, <4>1, <4>3, <4>4
        DEF Fwrite, DataTypes, tvars, pvars, evars, fvars
    <3>6. CASE ~(Len(fbuf[s]) < StdioBuf) /\ Broken(s, fbuf[s])
      BY <2>6, <1>0, <1>7, <3>3, <3>6
      DEF Fwrite, DataTypes, tvars, pvars, evars, fvars
    <3>7. CASE ~(Len(fbuf[s]) < StdioBuf) /\ ~Broken(s, fbuf[s])
      <4>1. /\ Len(fbuf[s]) <= Room(s) /\ data' = [data EXCEPT ![s] = @ \o fbuf[s]]
            /\ fbuf' = [fbuf EXCEPT ![s] = <<i>>]
        BY <2>6, <3>2, <3>7 DEF Fwrite, Flush
      <4>2. data' \in [Streams -> Seq(Int)] /\ \A r \in Streams : Len(data'[r]) <= PipeCap
        BY <1>1, <1>6, <1>8, <4>1, PipeTypes
      <4>3. <<i>> \in Seq(1..Items) /\ Len(<<i>>) = 1
        OBVIOUS
      <4>4. fbuf' \in [Streams -> Seq(1..Items)]
        BY <1>4, <4>1, <4>3
      <4>5. \A q \in Streams : Len(fbuf'[q]) <= StdioBuf
        BY <1>4, <1>6, <4>1, <4>3
      <4> QED
        BY <2>6, <1>0, <1>7, <3>3, <4>2, <4>4, <4>5
        DEF Fwrite, DataTypes, tvars, pvars, evars, fvars
    <3> QED
      BY <3>5, <3>6, <3>7
  <2>7. ASSUME NEW s \in Streams, Fread(s) PROVE DataTypes'
    <3>1. PICK k \in 0..page, f \in [1..page -> Int] :
            /\ k <= Len(data[s]) /\ buf2[s][2] + k <= page
            /\ data' = [data EXCEPT ![s] = Rest(@, k)]
            /\ \/ /\ out' = [out EXCEPT ![s] = @ \o f]
                  /\ buf2' = [buf2 EXCEPT ![s] = <<f, 0>>]
               \/ /\ buf2' = [buf2 EXCEPT ![s] = <<f, buf2[s][2] + k>>]
                  /\ out' = out
      BY <2>7, <1>1, <1>5, <1>6, FreadOf
    <3>2. Len(data[s]) \in Nat /\ k \in 0..Len(data[s])
      BY <1>1, <1>6, <3>1
    <3>3. data' \in [Streams -> Seq(Int)] /\ \A r \in Streams : Len(data'[r]) <= PipeCap
      BY <1>1, <1>6, <3>1, <3>2, PipeTypes
    <3>4. buf2[s][2] + k \in 0..page /\ 0 \in 0..page
      BY <1>5, <1>6, <3>1
    <3>5. s \in Procs /\ out[s] \in Seq(Int) /\ f \in Seq(Int)
      BY SMTT(40), <1>2, <1>6, Sorts
    <3>6. out[s] \o f \in Seq(Int)
      BY <3>5, Joined
    <3>7. out' \in [Procs -> Seq(Int)]
      BY <1>2, <3>1, <3>5, <3>6
    <3>8. buf2' \in [Streams -> [1..page -> Int] \X (0..page)]
      <4>1. PICK c \in [1..page -> Int] \X (0..page) : buf2' = [buf2 EXCEPT ![s] = c]
        <5>1. <<f, 0>> \in [1..page -> Int] \X (0..page)
          BY <3>1, <3>4
        <5>2. <<f, buf2[s][2] + k>> \in [1..page -> Int] \X (0..page)
          BY <3>1, <3>4
        <5> QED
          BY <3>1, <5>1, <5>2
      <4> QED
        BY <1>5, <4>1
    <3> QED
      BY <2>7, <1>0, <1>7, <3>3, <3>7, <3>8
      DEF Fread, DataTypes, tvars, pvars, evars, fvars
  <2>8. ASSUME NEW s \in Streams, my_pclose(s) PROVE DataTypes'
    <3>1. <<>> \in Seq(1..Items) /\ Len(<<>>) = 0
      OBVIOUS
    <3>2. fbuf' = [fbuf EXCEPT ![s] = <<>>]
      BY <2>8 DEF my_pclose
    <3>3. fbuf' \in [Streams -> Seq(1..Items)]
      BY <1>4, <3>1, <3>2
    <3>4. \A q \in Streams : Len(fbuf'[q]) <= StdioBuf
      BY <1>4, <1>6, <3>1, <3>2
    <3>5. data' = data \/ (Len(fbuf[s]) <= Room(s) /\ data' = [data EXCEPT ![s] = @ \o fbuf[s]])
      BY <2>8 DEF my_pclose, Flush
    <3>6. data' \in [Streams -> Seq(Int)] /\ \A r \in Streams : Len(data'[r]) <= PipeCap
      BY <1>1, <1>6, <1>8, <3>5, PipeTypes
    <3> QED
      BY <2>8, <1>0, <1>7, <3>3, <3>4, <3>6
      DEF my_pclose, DataTypes, tvars, pvars, evars, fvars
  <2>9. ASSUME NEW s \in Streams, drop(s) PROVE DataTypes'
    <3>1. PICK q \in Streams : drop(s)!2!(q)
      BY <2>9 DEF drop
    <3>2. CASE Broken(q, copy[s][q])
      BY <2>9, <1>0, <1>7, <3>1, <3>2
      DEF drop, DataTypes, tvars, pvars, evars, fvars
    <3>3. CASE ~Broken(q, copy[s][q])
      <4>1. /\ Len(copy[s][q]) <= Room(q) /\ data' = [data EXCEPT ![q] = @ \o copy[s][q]]
            /\ copy' = [copy EXCEPT ![s][q] = Closed]
        BY <3>1, <3>3 DEF Flush
      <4>2. copy[s][q] \in Seq(Int)
        BY <1>5
      <4>3. data' \in [Streams -> Seq(Int)] /\ \A r \in Streams : Len(data'[r]) <= PipeCap
        BY <1>1, <1>6, <4>1, <4>2, PipeTypes
      <4>4. Closed \in Seq(Int)
        BY DEF Closed, Error
      <4>5. copy' \in [Streams -> [Streams -> Seq(Int)]]
        BY <1>5, <4>1, <4>4
      <4> QED
        BY <2>9, <1>0, <1>7, <4>3, <4>5
        DEF drop, DataTypes, tvars, pvars, evars, fvars
    <3> QED
      BY <3>2, <3>3
  <2>10. ASSUME NEW s \in Streams, execl(s) PROVE DataTypes'
    BY <2>10, <1>0, <1>7
      DEF execl, DataTypes, tvars, pvars, evars, fvars
  <2>11. ASSUME NEW s \in Streams, Command(s) PROVE DataTypes'
    <3>1. CASE /\ got' = [got EXCEPT ![s] = @ \o data[s]]
               /\ data' = [data EXCEPT ![s] = <<>>]
               /\ put' = put
      <4>1. s \in Procs /\ got[s] \o data[s] \in Seq(Int)
        BY <1>1, <1>2, Joined, Sorts
      <4>2. got' \in [Procs -> Seq(Int)]
        BY <1>2, <3>1, <4>1
      <4>3. <<>> \in Seq(Int) /\ Len(<<>>) = 0
        OBVIOUS
      <4>4. data' \in [Streams -> Seq(Int)] /\ \A q \in Streams : Len(data'[q]) <= PipeCap
        BY <1>1, <1>6, <3>1, <4>3
      <4> QED
        BY <2>11, <1>0, <1>7, <3>1, <4>2, <4>4
        DEF Command, DataTypes, tvars, pvars, evars, fvars
    <3>2. CASE /\ put[s] < Items /\ Flush(s, <<put[s] + 1>>)
               /\ put' = [put EXCEPT ![s] = @ + 1] /\ got' = got
      <4>1. put[s] \in 0..Items
        BY <1>3
      <4>2. PICK i \in 1..Items : i = put[s] + 1
        BY <1>6, <3>2, <4>1
      <4>3. put' \in [Streams -> 0..Items] /\ <<i>> \in Seq(Int)
        BY <1>3, <1>6, <3>2, <4>2
      <4>4. data' \in [Streams -> Seq(Int)] /\ \A q \in Streams : Len(data'[q]) <= PipeCap
        BY <1>1, <1>6, <3>2, <4>2, <4>3, PipeTypes DEF Flush
      <4> QED
        BY <2>11, <1>0, <1>7, <3>2, <4>3, <4>4
        DEF Command, DataTypes, tvars, pvars, evars, fvars
    <3>3. CASE UNCHANGED <<data, got, put>>
      BY <2>11, <1>0, <1>7, <3>3
      DEF Command, DataTypes, tvars, pvars, evars, fvars
    <3> QED
      BY <2>11, <3>1, <3>2, <3>3, CommandDoes
  <2>12. CASE WaitInterrupted
    BY <2>12, <1>0, <1>7
      DEF WaitInterrupted, DataTypes, tvars, pvars, evars, fvars
  <2>13. ASSUME NEW m \in Modes, PopenForkFails(m) PROVE DataTypes'
    BY <2>13, <1>0, <1>7
      DEF PopenForkFails, DataTypes, tvars, pvars, evars, fvars
  <2> QED
    BY <1>11, <2>1, <2>2, <2>3, <2>4, <2>5, <2>6, <2>7, <2>8, <2>9, <2>10, <2>11, <2>12,
       <2>13 DEF Part2, User
<1> QED
  BY <1>0, <1>9, <1>10, <1>11

(* Each step keeps the types.                                               *)
LEMMA TypesStep == ASSUME Types, PlaceInv, [Next]_vars PROVE Types'
<1>1. prog' = prog /\ page' = page
  BY Parts DEF Types
<1>2. \A q \in Streams : Len(data'[q]) <= PipeCap /\ Len(data'[q]) \in Nat
  BY DataTypesStep DEF DataTypes
<1>3. PipeCap \in Nat
  BY PipesAssumption
<1>4. (\A q \in Streams : Room(q) >= 0)'
  BY <1>2, <1>3 DEF Room
<1> QED
  BY <1>1, <1>4, ControlTypesStep, DataTypesStep DEF Types, ControlTypes, DataTypes, Pcs

(***************************************************************************)
(* The inductive invariant.                                                *)
(***************************************************************************)

(* A stream that has not been opened is blank, the one that is being opened *)
(* or closed is not open, and only a stream to write to that is open has    *)
(* anything in its buffer.                                                  *)
IsBlank(s) ==
    /\ pc[s] = "none" /\ pid[s] = NoStream /\ cur[1] # s
    /\ put[s] = 0 /\ buf2[s][2] = 0
    /\ data[s] = <<>> /\ got[s] = <<>> /\ out[s] = <<>>
    /\ rd[s] = {} /\ wr[s] = {}

StreamInv == prog = "popen" =>
    /\ \A s \in Streams : mode[s] = <<"none", "none">> => IsBlank(s)
    /\ pc[0] \in {"insert", "wait"} => pid[cur[1]] = NoStream /\ cur[2] # NoStream
    /\ \A s \in Streams : mode[s][1] # "w" \/ ~IsOpen(s) => fbuf[s] = <<>>

(* A child's copies of streams: only of others, and only of a stream that   *)
(* it was started with a full buffer of is there anything in one.           *)
CopyInv == prog = "popen" =>
    \A s \in Streams :
        /\ copy[s][s] = Closed
        /\ \A q \in Streams :
            /\ mode[q] = <<"none", "none">> => copy[s][q] = Closed
            /\ mode[q][1] = "r" \/ q \notin copied => copy[s][q] \in {<<>>, Closed}

(* Who has which ends: the program those of its open streams, and a child   *)
(* its own and those of the copies that it has not yet closed.              *)
OwnersLive(q) == \A p \in rd[q] \cup wr[q] : Alive(p)

EndsOf(q) ==
    /\ 0 \in rd[q] \cup wr[q] => IsOpen(q) \/ (pc[0] = "insert" /\ cur[1] = q)
    /\ \A s \in Streams : s # q /\ s \in rd[q] \cup wr[q] => copy[s][q] # Closed
    /\ \A s \in Streams : s # q /\ pc[s] = "run" => copy[s][q] = Closed
    /\ mode[q][1] = "w" /\ pc[0] # "zombie" /\ (IsOpen(q) \/ (pc[0] = "insert" /\ cur[1] = q))
        => 0 \in wr[q]
    /\ mode[q][1] = "r" /\ pc[q] \in {"drop", "run"} => q \in wr[q]

EndsInv ==
    /\ \A q \in Streams : OwnersLive(q)
    /\ prog = "popen" => \A q \in Streams : EndsOf(q)

(* If nothing has gone wrong, each stream is open, with its own command; is *)
(* being opened or closed, with its own command still to be waited for; or  *)
(* is closed, and its command has been waited for.                          *)
IsWaitedFor(s) ==
    \/ pid[s] = s /\ pc[s] \notin {"none", "gone"}
    \/ pid[s] = NoStream /\ cur = <<s, s>> /\ pc[s] \notin {"none", "gone"}
    \/ pid[s] = NoStream /\ cur[1] # s /\ pc[s] = "gone" /\ status[s] = s

WaitInv == prog = "popen" /\ hurt = {} =>
    \A s \in Streams : mode[s] # <<"none", "none">> => IsWaitedFor(s)

(* Part 2, a stream to write to: its items are, in order, with the command, *)
(* in the pipe and in the buffer.  Once the command has read to the end,    *)
(* nothing is in the pipe, and nothing can come.                            *)
IsWritten(s) ==
    /\ Runs(got[s], 0, FALSE)
    /\ Runs(data[s], Len(got[s]), FALSE)
    /\ Runs(fbuf[s], Len(got[s]) + Len(data[s]), FALSE)
    /\ ~(IsOpen(s) /\ pc[0] = "zombie") => Len(got[s]) + Len(data[s]) + Len(fbuf[s]) = put[s]

IsReadToEnd(s) == data[s] = <<>> /\ wr[s] = {}

WriteInv == prog = "popen" =>
    \A s \in Streams : mode[s][1] = "w" =>
        /\ s \notin copied => IsWritten(s)
        /\ mode[s][2] = "all" /\ copied = {} /\ pc[s] \in {"zombie", "gone"} => IsReadToEnd(s)

(* Part 2, a stream to read from: its items are, in order, printed, in the  *)
(* page and in the pipe; or the end has been reached and a last page been   *)
(* printed.                                                                 *)
IsPrinted(s) ==
    /\ buf2[s][2] < page
    /\ \A i \in 1..buf2[s][2] : buf2[s][1][i] = Len(out[s]) + i
    /\ Runs(data[s], Len(out[s]) + buf2[s][2], FALSE)
    /\ \A i \in 1..Len(out[s]) : i <= put[s] => out[s][i] = i
    /\ \/ Len(out[s]) + buf2[s][2] + Len(data[s]) = put[s]
       \/ put[s] <= Len(out[s]) /\ buf2[s][2] = 0 /\ data[s] = <<>> /\ wr[s] = {}

ReadInv == prog = "popen" =>
    \A s \in Streams : mode[s][1] = "r" => IsPrinted(s)

(* Part 1: what has been read is, in order, printed, in pipe 2, with the    *)
(* child, in pipe 1 and with the parent, in capitals from the child on.     *)
InOrder(a, b, c, d, e, n) ==
    /\ Runs(a, 0, TRUE)
    /\ Runs(b, Len(a), TRUE)
    /\ Runs(c, Len(a) + Len(b), TRUE)
    /\ Runs(d, Len(a) + Len(b) + Len(c), FALSE)
    /\ Runs(e, Len(a) + Len(b) + Len(c) + Len(d), FALSE)
    /\ n = Len(a) + Len(b) + Len(c) + Len(d) + Len(e)

OrderInv == prog = "toupper" =>
    /\ InOrder(out[0], data[2], buf[1], data[1], buf[0], Len(got[0]))
    /\ pc[0] \in {"fork", "close", "read", "answer"} => buf[0] = <<>>
    /\ pc[1] \in {"none", "close", "read"} => buf[1] = <<>>

(* Part 1, with blocks that are written as a whole and a child that lives   *)
(* as long as its parent: a block is at one place at a time.                *)
Whole == page <= PipeBuf /\ hurt \cap {"kill_child", "fork_error"} = {}

Linked ==
    /\ pc[1] \in {"close", "read", "write"}
    /\ 0 \in wr[1] /\ 0 \in rd[2] /\ 1 \in rd[1] /\ 1 \in wr[2]

OnePlace(b, c, d, e) ==
    /\ pc[0] # "write" => e = <<>>
    /\ pc[0] # "answer" => d = <<>> /\ c = <<>> /\ b = <<>>
    /\ \/ d = <<>> /\ c = <<>> /\ Len(b) <= page
       \/ d = <<>> /\ b = <<>>
       \/ c = <<>> /\ b = <<>> /\ Len(d) <= page

BlockInv == prog = "toupper" /\ Whole =>
    /\ pc[0] \in {"close", "read", "write", "answer"} => Linked
    /\ pc[0] = "write" => len[0] = Len(buf[0])
    /\ pc[1] = "write" => len[1] = Len(buf[1])
    /\ OnePlace(data[2], buf[1], data[1], buf[0])

(* The steps keep each process in its place.                                *)
LEMMA PlaceStep == ASSUME Types, PlaceInv, [Next]_vars PROVE PlaceInv'
<1>1. prog' = prog /\ ControlTypes /\ ControlTypes' /\ prog \in {"toupper", "popen"}
  BY Parts, ControlTypesStep DEF Types, ControlTypes, Pcs
<1>2. CASE UNCHANGED vars
  BY <1>2 DEF PlaceInv, vars, pvars
<1>3. CASE prog = "toupper" /\ Part1
  <2> USE <1>1, <1>3, Sorts DEF ControlTypes, Pcs
  <2>1. /\ pc[0] \in {"fork", "close", "read", "write", "answer", "zombie"}
        /\ pc[1] \in {"none", "close", "read", "write", "zombie"}
        /\ \A s \in Streams \ {1} : pc[s] = "none"
        /\ \A s \in Streams : mode[s] = <<"none", "none">> /\ pid[s] = NoStream
        /\ UNCHANGED <<mode, pid>>
    BY Parts DEF PlaceInv, pvars
  <2>2. CASE main
    BY <2>2, <2>1 DEF main, PlaceInv
  <2>3. CASE CloseEnds(0)
    BY <2>3, <2>1 DEF CloseEnds, Goto, PlaceInv
  <2>4. CASE CloseEnds(1)
    BY <2>4, <2>1 DEF CloseEnds, Goto, PlaceInv
  <2>5. CASE ReadInput
    BY <2>5, <2>1 DEF ReadInput, Goto, End, PlaceInv
  <2>6. CASE Write(0, 1, "answer")
    <3>1. /\ pc[0] = "write"
          /\ (pc' = pc \/ pc' = [pc EXCEPT ![0] = "zombie"] \/ pc' = [pc EXCEPT ![0] = "answer"])
      <4>1. CASE rd[1] = {}
        BY <2>6, <4>1 DEF Write, End
      <4>2. CASE rd[1] # {}
        <5>1. PICK k \in 1..Len(buf[0]) : Goto(0, "write", IF k = Len(buf[0]) THEN "answer" ELSE "write")
          BY <2>6, <4>2 DEF Write
        <5>2. CASE k = Len(buf[0])
          BY <5>1, <5>2 DEF Goto
        <5>3. CASE k # Len(buf[0])
          BY <5>1, <5>3 DEF Goto
        <5> QED
          BY <5>2, <5>3
      <4> QED
        BY <4>1, <4>2
    <3> QED
      BY <2>1, <3>1 DEF PlaceInv
  <2>7. CASE Write(1, 2, "read")
    <3>1. /\ pc[1] = "write"
          /\ (pc' = pc \/ pc' = [pc EXCEPT ![1] = "zombie"] \/ pc' = [pc EXCEPT ![1] = "read"])
      <4>1. CASE rd[2] = {}
        BY <2>7, <4>1 DEF Write, End
      <4>2. CASE rd[2] # {}
        <5>1. PICK k \in 1..Len(buf[1]) : Goto(1, "write", IF k = Len(buf[1]) THEN "read" ELSE "write")
          BY <2>7, <4>2 DEF Write
        <5>2. CASE k = Len(buf[1])
          BY <5>1, <5>2 DEF Goto
        <5>3. CASE k # Len(buf[1])
          BY <5>1, <5>3 DEF Goto
        <5> QED
          BY <5>2, <5>3
      <4> QED
        BY <4>1, <4>2
    <3> QED
      BY <2>1, <3>1 DEF PlaceInv
  <2>8. CASE ReadAnswer
    BY <2>8, <2>1 DEF ReadAnswer, Goto, PlaceInv
  <2>9. CASE child
    BY <2>9, <2>1 DEF child, Goto, End, PlaceInv
  <2>10. CASE MainForkFails
    BY <2>10, <2>1 DEF MainForkFails, Goto, Fault, PlaceInv
  <2>11. CASE ReadInputFails
    BY <2>11, <2>1 DEF ReadInputFails, End, Fault, PlaceInv
  <2>12. CASE ChildKilled
    BY <2>12, <2>1 DEF ChildKilled, End, Fault, PlaceInv
  <2> QED
    BY <2>2, <2>3, <2>4, <2>5, <2>6, <2>7, <2>8, <2>9, <2>10, <2>11, <2>12 DEF Part1, Parent,
       Child
<1>4. CASE prog = "popen" /\ Part2
  <2> USE <1>1, <1>4, Sorts DEF ControlTypes, Pcs
  <2>1. /\ pc[0] \in {"user", "insert", "wait", "zombie"}
        /\ \A s \in Streams : pc[s] \in {"none", "drop", "run", "zombie", "gone"}
        /\ pc[0] \in {"insert", "wait"} => cur[1] \in Streams
        /\ pc[0] \notin {"insert", "wait"} => cur = <<NoStream, NoStream>>
    BY DEF PlaceInv
  <2>2. ASSUME NEW m \in Modes, my_popen(m) PROVE PlaceInv'
    <3>1. PICK s \in Streams : /\ pc' = [pc EXCEPT ![0] = "insert", ![s] = "drop"]
                               /\ cur' = <<s, s>>
      BY <2>2 DEF my_popen, Unused
    <3> QED
      BY <2>1, <3>1 DEF PlaceInv
  <2>3. CASE insert
    BY <2>3, <2>1 DEF insert, Goto, PlaceInv
  <2>4. CASE waitpid
    <3>1. PICK s \in Streams : /\ pc' = [pc EXCEPT ![0] = "user", ![s] = "gone"]
                               /\ cur' = <<NoStream, NoStream>>
      BY <2>4 DEF waitpid, Awaited
    <3> QED
      BY <2>1, <3>1 DEF PlaceInv
  <2>5. CASE WaitFails
    BY <2>5, <2>1 DEF WaitFails, Goto, PlaceInv
  <2>6. CASE UserEnds
    <3>1. pc' = [pc EXCEPT ![0] = "zombie"] /\ pc[0] = "user" /\ cur' = cur
      BY <2>6 DEF UserEnds, UserCalls, End, pvars
    <3> QED
      BY <2>1, <3>1 DEF PlaceInv
  <2>7. ASSUME NEW s \in Streams, Fwrite(s) PROVE PlaceInv'
    BY <2>7, <2>1 DEF Fwrite, UserCalls, End, PlaceInv
  <2>8. ASSUME NEW s \in Streams, Fread(s) PROVE PlaceInv'
    BY <2>8, <2>1 DEF Fread, UserCalls, PlaceInv
  <2>9. ASSUME NEW s \in Streams, my_pclose(s) PROVE PlaceInv'
    BY <2>9, <2>1 DEF my_pclose, UserCalls, Goto, End, PlaceInv
  <2>10. ASSUME NEW s \in Streams, drop(s) PROVE PlaceInv'
    <3>1. (pc' = pc \/ pc' = [pc EXCEPT ![s] = "zombie"]) /\ cur' = cur
      BY <2>10 DEF drop, End
    <3> QED
      BY <2>1, <3>1 DEF PlaceInv
  <2>11. ASSUME NEW s \in Streams, execl(s) PROVE PlaceInv'
    <3>1. pc' = [pc EXCEPT ![s] = "run"] /\ cur' = cur
      BY <2>11 DEF execl, Goto, pvars
    <3> QED
      BY <2>1, <3>1 DEF PlaceInv
  <2>12. ASSUME NEW s \in Streams, Command(s) PROVE PlaceInv'
    <3>1. (pc' = pc \/ pc' = [pc EXCEPT ![s] = "zombie"]) /\ cur' = cur
      BY <2>12 DEF Command, End
    <3> QED
      BY <2>1, <3>1 DEF PlaceInv
  <2>13. CASE WaitInterrupted
    BY <2>13, <2>1 DEF WaitInterrupted, Fault, PlaceInv
  <2>14. ASSUME NEW m \in Modes, PopenForkFails(m) PROVE PlaceInv'
    <3>1. PICK s \in Streams : pc' = [pc EXCEPT ![0] = "insert"] /\ cur' = <<s, Error>>
      BY <2>14 DEF PopenForkFails, Unused
    <3> QED
      BY <2>1, <3>1 DEF PlaceInv
  <2> QED
    BY <2>2, <2>3, <2>4, <2>5, <2>6, <2>7, <2>8, <2>9, <2>10, <2>11, <2>12, <2>13,
       <2>14 DEF Part2, User
<1> QED
  BY <1>1, <1>2, <1>3, <1>4, Parts

(* Closing ends gives nobody any, and an end is nobody else's.               *)
LEMMA ClosesMine ==
    ASSUME ControlTypes, NEW p, NEW r, NEW w, Close(p, r, w), NEW q \in Streams
    PROVE  /\ rd'[q] \subseteq rd[q] /\ rd[q] \subseteq rd'[q] \cup {p}
           /\ wr'[q] \subseteq wr[q] /\ wr[q] \subseteq wr'[q] \cup {p}
BY DEF Close

(* A process that ends has no ends any more, and others keep theirs.        *)
LEMMA EndsMine ==
    ASSUME ControlTypes, NEW p \in Procs, End(p)
    PROVE  /\ pc'[p] = "zombie" /\ \A q \in Procs \ {p} : pc'[q] = pc[q]
           /\ \A q \in Streams : rd'[q] = rd[q] \ {p} /\ wr'[q] = wr[q] \ {p}
BY DEF ControlTypes, Close, End

(* What nobody has open, no close() opens.                                  *)
LEMMA NoEnds ==
    ASSUME ControlTypes, NEW q \in Streams, rd[q] = {}, wr[q] = {}
    PROVE  /\ \A p \in Procs \ {q} : End(p) => pc'[q] = pc[q] /\ rd'[q] = {} /\ wr'[q] = {}
           /\ \A p, r, w : Close(p, r, w) => rd'[q] = {} /\ wr'[q] = {}
<1>1. ASSUME NEW p \in Procs \ {q}, End(p) PROVE pc'[q] = pc[q] /\ rd'[q] = {} /\ wr'[q] = {}
  BY <1>1, EndsMine, Sorts
<1>2. ASSUME NEW p, NEW r, NEW w, Close(p, r, w) PROVE rd'[q] = {} /\ wr'[q] = {}
  BY <1>2, ClosesMine
<1> QED
  BY <1>1, <1>2

(* What is changed of the streams, whatever the step.                       *)
LEMMA BlankStep ==
    ASSUME Types, PlaceInv, StreamInv, CopyInv, prog = "popen", Part2,
           NEW q \in Streams, mode'[q] = <<"none", "none">>
    PROVE  mode[q] = <<"none", "none">> /\ IsBlank(q)'
<1>1. /\ ControlTypes /\ put \in [Streams -> 0..Items] /\ buf2 \in [Streams -> [1..page -> Int] \X (0..page)]
      /\ data \in [Streams -> Seq(Int)] /\ got \in [Procs -> Seq(Int)] /\ out \in [Procs -> Seq(Int)]
  BY DEF Types, ControlTypes, Pcs
<1>2. mode[q] = <<"none", "none">> => IsBlank(q) /\ \A s \in Streams : copy[s][q] = Closed
  BY DEF StreamInv, CopyInv
<1>3. /\ pc[0] \in {"user", "insert", "wait", "zombie"}
      /\ pc[0] \in {"insert", "wait"} => cur[1] \in Streams
  BY DEF PlaceInv
<1>4. \A m \in Modes : m # <<"none", "none">>
  BY DEF Modes
<1>5. /\ \A p \in Procs \ {q} : End(p) => mode[q] # <<"none", "none">> \/ (pc'[q] = pc[q] /\ rd'[q] = {} /\ wr'[q] = {})
      /\ \A p, r, w : Close(p, r, w) => mode[q] # <<"none", "none">> \/ (rd'[q] = {} /\ wr'[q] = {})
  BY <1>1, <1>2, NoEnds DEF IsBlank
<1> USE <1>1, <1>2, <1>3, <1>4, Sorts DEF ControlTypes, IsBlank, tvars, pvars, evars, fvars
<1>6. ASSUME NEW m \in Modes, my_popen(m) PROVE mode[q] = <<"none", "none">> /\ IsBlank(q)'
  <2>1. PICK s \in Streams :
          /\ pc' = [pc EXCEPT ![0] = "insert", ![s] = "drop"]
          /\ mode' = [mode EXCEPT ![s] = m]
          /\ cur' = <<s, s>>
          /\ rd' = [r \in Streams |-> IF r = s THEN {0, s} ELSE IF 0 \in rd[r] THEN rd[r] \cup {s} ELSE rd[r]]
          /\ wr' = [r \in Streams |-> IF r = s THEN {0, s} ELSE IF 0 \in wr[r] THEN wr[r] \cup {s} ELSE wr[r]]
    BY <1>6 DEF my_popen, Unused
  <2>2. s # q /\ mode[q] = <<"none", "none">>
    BY <2>1
  <2>3. rd'[q] = {} /\ wr'[q] = {}
    BY <2>1, <2>2
  <2>4. pc'[q] = "none" /\ cur'[1] # q
    BY <2>1, <2>2
  <2> QED
    BY <1>6, <2>2, <2>3, <2>4 DEF my_popen
<1>7. CASE insert
  <2>1. mode[q] = <<"none", "none">> /\ q # cur[1]
    BY <1>7 DEF insert
  <2>2. pc'[q] = pc[q] /\ pid'[q] = pid[q] /\ cur'[1] # q /\ rd'[q] = {} /\ wr'[q] = {}
    BY <1>7, <2>1 DEF insert, Goto, Close
  <2> QED
    BY <1>7, <2>1, <2>2 DEF insert
<1>8. CASE waitpid
  <2>1. PICK s \in Streams : waitpid!(s) /\ pc[s] = "zombie"
    BY <1>8 DEF waitpid, Awaited
  <2> QED
    BY <2>1
<1>9. CASE WaitFails
  BY <1>9 DEF WaitFails, Goto
<1>10. CASE UserEnds
  BY <1>10 DEF UserEnds, UserCalls, End, Close
<1>11. ASSUME NEW s \in Streams, Fwrite(s) PROVE mode[q] = <<"none", "none">> /\ IsBlank(q)'
  <2>1. mode[q] = <<"none", "none">> /\ q # s
    BY <1>11 DEF Fwrite, IsOpen
  <2>2. pc'[q] = pc[q] /\ rd'[q] = {} /\ wr'[q] = {}
    <3>1. End(0) \/ UNCHANGED <<pc, evars>>
      BY <1>11 DEF Fwrite
    <3>2. End(0) => pc'[q] = pc[q] /\ rd'[q] = {} /\ wr'[q] = {}
      BY <1>5, <2>1
    <3> QED
      BY <2>1, <3>1, <3>2
  <2>3. data'[q] = data[q] /\ put'[q] = put[q]
    BY <1>11, <2>1 DEF Fwrite, Flush
  <2> QED
    BY <1>11, <2>1, <2>2, <2>3 DEF Fwrite
<1>12. ASSUME NEW s \in Streams, Fread(s) PROVE mode[q] = <<"none", "none">> /\ IsBlank(q)'
  <2>1. mode[q] = <<"none", "none">> /\ q # s
    BY <1>12 DEF Fread, IsOpen
  <2>2. data'[q] = data[q] /\ out'[q] = out[q] /\ buf2'[q] = buf2[q]
    BY <1>12, <2>1 DEF Fread
  <2> QED
    BY <1>12, <2>1, <2>2 DEF Fread
<1>13. ASSUME NEW s \in Streams, my_pclose(s) PROVE mode[q] = <<"none", "none">> /\ IsBlank(q)'
  <2>1. mode[q] = <<"none", "none">> /\ q # s
    BY <1>13 DEF my_pclose, IsOpen
  <2>2. pc'[q] = pc[q] /\ rd'[q] = {} /\ wr'[q] = {}
    <3>1. End(0) \/ (pc' = [pc EXCEPT ![0] = "wait"] /\ Close(0, {s}, {s}))
      BY <1>13 DEF my_pclose, Goto
    <3>2. End(0) => pc'[q] = pc[q] /\ rd'[q] = {} /\ wr'[q] = {}
      BY <1>5, <2>1
    <3>3. Close(0, {s}, {s}) => rd'[q] = {} /\ wr'[q] = {}
      BY <1>5, <2>1
    <3> QED
      BY <2>1, <3>1, <3>2, <3>3
  <2>3. data'[q] = data[q]
    BY <1>13, <2>1 DEF my_pclose, Flush
  <2>4. pid'[q] = pid[q] /\ cur'[1] # q
    <3>1. CASE Broken(s, fbuf[s])
      BY <1>13, <3>1, <2>1 DEF my_pclose
    <3>2. CASE ~Broken(s, fbuf[s])
      BY <1>13, <3>2, <2>1 DEF my_pclose
    <3> QED
      BY <3>1, <3>2
  <2> QED
    BY <1>13, <2>1, <2>2, <2>3, <2>4 DEF my_pclose
<1>14. ASSUME NEW s \in Streams, drop(s) PROVE mode[q] = <<"none", "none">> /\ IsBlank(q)'
  <2>1. PICK r \in Streams : drop(s)!2!(r)
    BY <1>14 DEF drop
  <2>2. mode[q] = <<"none", "none">> /\ q # r /\ q # s
    BY <1>14, <2>1 DEF drop
  <2>3. pc'[q] = pc[q] /\ rd'[q] = {} /\ wr'[q] = {}
    <3>1. End(s) \/ (pc' = pc /\ Close(s, {r}, {r}))
      BY <2>1
    <3>2. End(s) => pc'[q] = pc[q] /\ rd'[q] = {} /\ wr'[q] = {}
      BY <1>5, <2>2
    <3>3. Close(s, {r}, {r}) => rd'[q] = {} /\ wr'[q] = {}
      BY <1>5, <2>2
    <3> QED
      BY <2>2, <3>1, <3>2, <3>3
  <2>4. data'[q] = data[q]
    BY <2>1, <2>2 DEF Flush
  <2> QED
    BY <1>14, <2>2, <2>3, <2>4 DEF drop
<1>15. ASSUME NEW s \in Streams, execl(s) PROVE mode[q] = <<"none", "none">> /\ IsBlank(q)'
  <2>1. mode[q] = <<"none", "none">> /\ q # s
    BY <1>15 DEF execl, Goto
  <2>2. pc'[q] = pc[q] /\ rd'[q] = {} /\ wr'[q] = {}
    <3>1. pc' = [pc EXCEPT ![s] = "run"] /\ (Close(s, {}, {s}) \/ Close(s, {s}, {}))
      BY <1>15 DEF execl, Goto
    <3>2. Close(s, {}, {s}) => rd'[q] = {} /\ wr'[q] = {}
      BY <1>5, <2>1
    <3>3. Close(s, {s}, {}) => rd'[q] = {} /\ wr'[q] = {}
      BY <1>5, <2>1
    <3> QED
      BY <2>1, <3>1, <3>2, <3>3
  <2> QED
    BY <1>15, <2>1, <2>2 DEF execl
<1>16. ASSUME NEW s \in Streams, Command(s) PROVE mode[q] = <<"none", "none">> /\ IsBlank(q)'
  <2>1. mode[q] = <<"none", "none">> /\ q # s
    BY <1>16 DEF Command
  <2>2. pc'[q] = pc[q] /\ rd'[q] = {} /\ wr'[q] = {}
    <3>1. End(s) \/ UNCHANGED <<pc, evars>>
      BY <1>16, CommandDoes
    <3>2. End(s) => pc'[q] = pc[q] /\ rd'[q] = {} /\ wr'[q] = {}
      BY <1>5, <2>1
    <3> QED
      BY <2>1, <3>1, <3>2
  <2>3. Flush(s, <<put[s] + 1>>) => data'[q] = data[q]
    BY <2>1 DEF Flush
  <2>4. data'[q] = data[q] /\ put'[q] = put[q] /\ got'[q] = got[q]
    BY <1>16, <2>1, <2>3, CommandDoes
  <2> QED
    BY <1>16, <2>1, <2>2, <2>4 DEF Command
<1>17. CASE WaitInterrupted
  BY <1>17 DEF WaitInterrupted, Fault
<1>18. ASSUME NEW m \in Modes, PopenForkFails(m) PROVE mode[q] = <<"none", "none">> /\ IsBlank(q)'
  <2>1. PICK s \in Streams :
          /\ pc' = [pc EXCEPT ![0] = "insert"]
          /\ mode' = [mode EXCEPT ![s] = m]
          /\ cur' = <<s, Error>>
          /\ rd' = [rd EXCEPT ![s] = {0}] /\ wr' = [wr EXCEPT ![s] = {0}]
    BY <1>18 DEF PopenForkFails, Unused
  <2>2. s # q /\ mode[q] = <<"none", "none">>
    BY <2>1
  <2>3. pc'[q] = "none" /\ cur'[1] # q /\ rd'[q] = {} /\ wr'[q] = {}
    BY <2>1, <2>2
  <2> QED
    BY <1>18, <2>2, <2>3 DEF PopenForkFails
<1> QED
  BY <1>6, <1>7, <1>8, <1>9, <1>10, <1>11, <1>12, <1>13, <1>14, <1>15, <1>16, <1>17,
     <1>18 DEF Part2, User

(* The state of a stream follows its mode.                                  *)
LEMMA StreamStep ==
    ASSUME Types, PlaceInv, StreamInv, CopyInv, [Next]_vars
    PROVE  StreamInv'
<1> SUFFICES ASSUME prog' = "popen" PROVE StreamInv'
  BY DEF StreamInv
<1>1. prog = "popen" /\ ControlTypes /\ (Part2 \/ UNCHANGED vars)
  BY Parts DEF Types, ControlTypes, Pcs
<1>2. CASE UNCHANGED vars
  BY <1>1, <1>2 DEF vars, pvars, evars, StreamInv, IsBlank, IsOpen
<1>3. CASE Part2
  <2>1. /\ pc[0] \in {"user", "insert", "wait", "zombie"}
        /\ pc[0] \in {"insert", "wait"} => cur[1] \in Streams
        /\ pc[0] \notin {"insert", "wait"} => cur = <<NoStream, NoStream>>
        /\ pc[0] \in {"insert", "wait"} => pid[cur[1]] = NoStream /\ cur[2] # NoStream
        /\ \A s \in Streams : mode[s] = <<"none", "none">> => pid[s] = NoStream
        /\ \A s \in Streams : mode[s][1] # "w" \/ pid[s] = NoStream => fbuf[s] = <<>>
        /\ fbuf \in [Streams -> Seq(1..Items)]
    BY <1>1 DEF PlaceInv, StreamInv, IsBlank, IsOpen, Types
  <2>2. \A s \in Streams : mode[s][1] = "none" => mode[s] = <<"none", "none">>
    BY <1>1 DEF ControlTypes, Modes
  <2>3. ASSUME NEW q \in Streams, mode'[q] = <<"none", "none">> PROVE IsBlank(q)'
    BY <1>1, <1>3, <2>3, BlankStep
  <2> DEFINE Cur   == pc[0] \in {"insert", "wait"} => pid[cur[1]] = NoStream /\ cur[2] # NoStream
             Bufs  == \A s \in Streams : mode[s][1] # "w" \/ pid[s] = NoStream => fbuf[s] = <<>>
  <2>4. Cur' /\ Bufs'
    <3> USE <1>1, <2>1, <2>2, Sorts DEF ControlTypes, Pcs, tvars, pvars, evars, fvars
    <3>1. ASSUME NEW m \in Modes, my_popen(m) PROVE Cur' /\ Bufs'
      <4>1. PICK s \in Streams : /\ mode[s][1] = "none" /\ cur' = <<s, s>>
                                 /\ mode' = [mode EXCEPT ![s] = m]
        BY <3>1 DEF my_popen, Unused
      <4>2. pid[s] = NoStream /\ pid' = pid /\ fbuf' = fbuf
        BY <3>1, <4>1 DEF my_popen
      <4> QED
        BY <4>1, <4>2
    <3>2. CASE insert
      <4>1. /\ pid' = [pid EXCEPT ![cur[1]] = cur[2]] /\ pc'[0] = "user"
            /\ pid[cur[1]] = NoStream /\ cur[1] \in Streams /\ cur[2] # NoStream
            /\ UNCHANGED <<mode, fbuf>>
        BY <3>2 DEF insert, Goto
      <4> QED
        BY <4>1
    <3>3. CASE waitpid
      <4>1. pc'[0] = "user" /\ UNCHANGED <<mode, pid, fbuf>>
        BY <3>3 DEF waitpid, Awaited
      <4> QED
        BY <4>1
    <3>4. CASE WaitFails
      BY <3>4 DEF WaitFails, Goto
    <3>5. CASE UserEnds
      BY <3>5 DEF UserEnds, UserCalls, End, Close
    <3>6. ASSUME NEW s \in Streams, Fwrite(s) PROVE Cur' /\ Bufs'
      <4>1. /\ pid[s] # NoStream /\ mode[s][1] = "w" /\ (pc' = pc \/ pc'[0] = "zombie") /\ pc[0] = "user"
            /\ UNCHANGED <<cur, mode, pid>> /\ \A q \in Streams : q # s => fbuf'[q] = fbuf[q]
        BY <3>6 DEF Fwrite, IsOpen, End, UserCalls
      <4> QED
        BY <4>1
    <3>7. ASSUME NEW s \in Streams, Fread(s) PROVE Cur' /\ Bufs'
      BY <3>7 DEF Fread, UserCalls
    <3>8. ASSUME NEW s \in Streams, my_pclose(s) PROVE Cur' /\ Bufs'
      <4>1. /\ pid[s] # NoStream /\ pc[0] = "user" /\ mode' = mode
            /\ fbuf' = [fbuf EXCEPT ![s] = <<>>]
        BY <3>8 DEF my_pclose, IsOpen, UserCalls
      <4>2. CASE Broken(s, fbuf[s])
        BY <3>8, <4>1, <4>2 DEF my_pclose, End
      <4>3. CASE ~Broken(s, fbuf[s])
        <5>1. pid' = [pid EXCEPT ![s] = NoStream] /\ cur' = <<s, pid[s]>>
          BY <3>8, <4>3 DEF my_pclose
        <5> QED
          BY <4>1, <5>1
      <4> QED
        BY <4>2, <4>3
    <3>9. ASSUME NEW s \in Streams, drop(s) PROVE Cur' /\ Bufs'
      <4>1. (pc' = pc \/ pc' = [pc EXCEPT ![s] = "zombie"]) /\ UNCHANGED <<cur, mode, pid, fbuf>>
        BY <3>9 DEF drop, End
      <4> QED
        BY <4>1
    <3>10. ASSUME NEW s \in Streams, execl(s) PROVE Cur' /\ Bufs'
      <4>1. pc' = [pc EXCEPT ![s] = "run"] /\ UNCHANGED <<cur, mode, pid, fbuf>>
        BY <3>10 DEF execl, Goto
      <4> QED
        BY <4>1
    <3>11. ASSUME NEW s \in Streams, Command(s) PROVE Cur' /\ Bufs'
      <4>1. (pc' = pc \/ pc' = [pc EXCEPT ![s] = "zombie"]) /\ UNCHANGED <<cur, mode, pid, fbuf>>
        BY <3>11 DEF Command, End
      <4> QED
        BY <4>1
    <3>12. CASE WaitInterrupted
      BY <3>12 DEF WaitInterrupted, Fault
    <3>13. ASSUME NEW m \in Modes, PopenForkFails(m) PROVE Cur' /\ Bufs'
      <4>1. PICK s \in Streams : /\ mode[s][1] = "none" /\ cur' = <<s, Error>>
                                 /\ mode' = [mode EXCEPT ![s] = m]
        BY <3>13 DEF PopenForkFails, Unused
      <4>2. pid[s] = NoStream /\ pid' = pid /\ fbuf' = fbuf
        BY <3>13, <4>1 DEF PopenForkFails
      <4> QED
        BY <4>1, <4>2
    <3> QED
      BY <1>3, <3>1, <3>2, <3>3, <3>4, <3>5, <3>6, <3>7, <3>8, <3>9, <3>10, <3>11, <3>12,
         <3>13 DEF Part2, User
  <2> QED
    BY <1>1, <2>3, <2>4 DEF StreamInv, IsOpen
<1> QED
  BY <1>1, <1>2, <1>3

(* A child's copies are made once, and only closed.                         *)
LEMMA CopyStep ==
    ASSUME Types, PlaceInv, StreamInv, CopyInv, [Next]_vars
    PROVE  CopyInv'
<1> SUFFICES ASSUME prog' = "popen" PROVE CopyInv'
  BY DEF CopyInv
<1>1. prog = "popen" /\ ControlTypes /\ (Part2 \/ UNCHANGED vars)
  BY Parts DEF Types, ControlTypes, Pcs
<1>2. CASE UNCHANGED <<mode, copy, copied>>
  BY <1>1, <1>2 DEF CopyInv
<1>3. CASE Part2
  <2> SUFFICES ASSUME ~UNCHANGED <<mode, copy, copied>>, NEW s \in Streams, NEW q \in Streams
               PROVE  /\ copy'[s][s] = Closed
                      /\ mode'[q] = <<"none", "none">> => copy'[s][q] = Closed
                      /\ mode'[q][1] = "r" \/ q \notin copied' => copy'[s][q] \in {<<>>, Closed}
    BY <1>1, <1>2 DEF CopyInv
  <2>1. /\ copy[s][s] = Closed
        /\ mode[q] = <<"none", "none">> => copy[s][q] = Closed
        /\ mode[q][1] = "r" \/ q \notin copied => copy[s][q] \in {<<>>, Closed}
    BY <1>1 DEF CopyInv
  <2>2. /\ mode \in [Streams -> Modes \cup {<<"none", "none">>}]
        /\ copy \in [Streams -> [Streams -> Seq(Int)]]
        /\ \A r \in Streams : mode[r][1] = "none" => mode[r] = <<"none", "none">> /\ pid[r] = NoStream
        /\ \A r \in Streams : mode[r][1] = "r" => fbuf[r] = <<>>
    <3>1. mode \in [Streams -> Modes \cup {<<"none", "none">>}] /\ copy \in [Streams -> [Streams -> Seq(Int)]]
      BY DEF Types
    <3>2. \A r \in Streams : mode[r][1] = "none" => mode[r] = <<"none", "none">>
      BY <3>1 DEF Modes
    <3>3. \A r \in Streams : mode[r] = <<"none", "none">> => pid[r] = NoStream
      BY <1>1 DEF StreamInv, IsBlank
    <3>4. \A r \in Streams : mode[r][1] = "r" => fbuf[r] = <<>>
      BY <1>1 DEF StreamInv
    <3> QED
      BY <3>1, <3>2, <3>3, <3>4
  <2>3. ASSUME NEW m \in Modes, my_popen(m)
        PROVE  /\ copy'[s][s] = Closed
               /\ mode'[q] = <<"none", "none">> => copy'[s][q] = Closed
               /\ mode'[q][1] = "r" \/ q \notin copied' => copy'[s][q] \in {<<>>, Closed}
    <3>1. PICK c \in Streams :
            /\ mode[c][1] = "none" /\ mode' = [mode EXCEPT ![c] = m]
            /\ copy' = [copy EXCEPT ![c] = [r \in Streams |-> IF IsOpen(r) THEN fbuf[r] ELSE Closed]]
      BY <2>3 DEF my_popen, Unused
    <3>2. copied' = copied \cup {r \in Streams : IsOpen(r) /\ fbuf[r] # <<>>}
      BY <2>3 DEF my_popen
    <3>3. ~IsOpen(c) /\ mode[c] = <<"none", "none">> /\ m # <<"none", "none">>
      BY <2>2, <3>1 DEF IsOpen, Modes
    <3>4. CASE s = c
      <4>1. copy'[s][s] = Closed /\ copy'[s][q] = IF IsOpen(q) THEN fbuf[q] ELSE Closed
        BY <2>2, <3>1, <3>3, <3>4
      <4>2. mode'[q] = <<"none", "none">> => ~IsOpen(q)
        BY <2>2, <3>1, <3>3 DEF IsOpen
      <4>3. mode'[q][1] = "r" \/ q \notin copied' => ~IsOpen(q) \/ fbuf[q] = <<>>
        BY <2>2, <3>1, <3>2, <3>3
      <4> QED
        BY <4>1, <4>2, <4>3
    <3>5. CASE s # c
      <4>1. copy'[s] = copy[s]
        BY <2>2, <3>1, <3>5
      <4>2. CASE q = c
        BY <2>1, <3>3, <4>1, <4>2
      <4>3. CASE q # c
        BY <2>1, <2>2, <3>1, <3>2, <4>1, <4>3
      <4> QED
        BY <4>2, <4>3
    <3> QED
      BY <3>4, <3>5
  <2>4. ASSUME NEW m \in Modes, PopenForkFails(m)
        PROVE  /\ copy'[s][s] = Closed
               /\ mode'[q] = <<"none", "none">> => copy'[s][q] = Closed
               /\ mode'[q][1] = "r" \/ q \notin copied' => copy'[s][q] \in {<<>>, Closed}
    <3>1. PICK c \in Streams : mode[c][1] = "none" /\ mode' = [mode EXCEPT ![c] = m]
      BY <2>4 DEF PopenForkFails, Unused
    <3>2. copy' = copy /\ copied' = copied
      BY <2>4 DEF PopenForkFails
    <3>3. m # <<"none", "none">>
      BY DEF Modes
    <3>4. CASE q = c
      BY <2>1, <2>2, <3>1, <3>2, <3>4
    <3>5. CASE q # c
      BY <2>1, <2>2, <3>1, <3>2, <3>5
    <3> QED
      BY <3>4, <3>5
  <2>5. ASSUME NEW p \in Streams, drop(p)
        PROVE  /\ copy'[s][s] = Closed
               /\ mode'[q] = <<"none", "none">> => copy'[s][q] = Closed
               /\ mode'[q][1] = "r" \/ q \notin copied' => copy'[s][q] \in {<<>>, Closed}
    <3>1. PICK r \in Streams : copy' = copy \/ copy' = [copy EXCEPT ![p][r] = Closed]
      BY <2>5 DEF drop
    <3>2. mode' = mode /\ copied' = copied
      BY <2>5 DEF drop
    <3>3. ASSUME NEW a \in Streams PROVE copy'[s][a] \in {copy[s][a], Closed}
      <4>1. CASE copy' = copy
        BY <4>1
      <4>2. CASE copy' = [copy EXCEPT ![p][r] = Closed] /\ s # p
        BY <2>2, <4>2
      <4>3. CASE copy' = [copy EXCEPT ![p][r] = Closed] /\ s = p
        BY <2>2, <4>3
      <4> QED
        BY <3>1, <4>1, <4>2, <4>3
    <3> QED
      BY <2>1, <3>2, <3>3
  <2>6. ASSUME NEW c \in Streams, Fwrite(c) \/ Fread(c) \/ my_pclose(c) \/ execl(c) \/ Command(c)
        PROVE  FALSE
    BY <2>6 DEF Fwrite, Fread, my_pclose, execl, Command, pvars
  <2>7. CASE insert \/ waitpid \/ WaitFails \/ UserEnds \/ WaitInterrupted
    BY <2>7 DEF insert, waitpid, WaitFails, UserEnds, WaitInterrupted, pvars
  <2> QED
    BY <1>3, <2>3, <2>4, <2>5, <2>6, <2>7 DEF Part2, User
<1> QED
  BY <1>1, <1>2, <1>3 DEF vars, pvars

(* Only processes that live have ends, because who ends closes them.        *)
LEMMA LiveEnd ==
    ASSUME ControlTypes, NEW p \in Procs, End(p), NEW q \in Streams, OwnersLive(q)
    PROVE  OwnersLive(q)'
BY EndsMine DEF OwnersLive, Alive, ControlTypes

(* Owners that stay alive, and new ones that are.                           *)
LEMMA LiveStays ==
    ASSUME ControlTypes, NEW q \in Streams, OwnersLive(q),
           \A p \in Procs : Alive(p) => Alive(p)',
           \A p \in rd'[q] \cup wr'[q] : p \in rd[q] \cup wr[q] \/ Alive(p)'
    PROVE  OwnersLive(q)'
BY DEF OwnersLive, ControlTypes

(* No process ends or is waited for while it has an end open.               *)
LEMMA LiveStep ==
    ASSUME Types, PlaceInv, EndsInv, [Next]_vars, NEW q \in Streams
    PROVE  OwnersLive(q)'
<1>1. ControlTypes /\ OwnersLive(q) /\ (Part1 \/ Part2 \/ UNCHANGED vars)
  BY Parts DEF Types, ControlTypes, Pcs, EndsInv
<1>2. CASE UNCHANGED vars
  BY <1>1, <1>2 DEF vars, evars, OwnersLive, Alive
<1>3. CASE Part1
  <2> USE <1>1, Sorts
  <2>1. CASE main
    <3>1. /\ pc' = [pc EXCEPT ![0] = "close", ![1] = "close"]
          /\ rd' = [rd EXCEPT ![1] = {0, 1}, ![2] = {0, 1}]
          /\ wr' = [wr EXCEPT ![1] = {0, 1}, ![2] = {0, 1}]
      BY <2>1 DEF main
    <3>2. Alive(0)' /\ Alive(1)' /\ \A p \in Procs : Alive(p) => Alive(p)'
      BY <3>1 DEF Alive, ControlTypes
    <3>3. rd'[q] \subseteq rd[q] \cup {0, 1} /\ wr'[q] \subseteq wr[q] \cup {0, 1}
      BY <3>1 DEF ControlTypes
    <3> QED
      BY <3>2, <3>3, LiveStays
  <2>2. CASE CloseEnds(0)
    <3>1. pc' = [pc EXCEPT ![0] = "read"]
      BY <2>2 DEF CloseEnds, Goto
    <3>2. (\A p \in Procs : Alive(p) => Alive(p)')
      BY <3>1 DEF Alive, ControlTypes
    <3>3. rd'[q] \subseteq rd[q] /\ wr'[q] \subseteq wr[q]
      BY <2>2, ClosesMine DEF CloseEnds, Goto
    <3> QED
      BY <3>2, <3>3, LiveStays
  <2>3. CASE CloseEnds(1)
    <3>1. pc' = [pc EXCEPT ![1] = "read"]
      BY <2>3 DEF CloseEnds, Goto
    <3>2. (\A p \in Procs : Alive(p) => Alive(p)')
      BY <3>1 DEF Alive, ControlTypes
    <3>3. rd'[q] \subseteq rd[q] /\ wr'[q] \subseteq wr[q]
      BY <2>3, ClosesMine DEF CloseEnds, Goto
    <3> QED
      BY <3>2, <3>3, LiveStays
  <2>4. CASE ReadInput
    <3>1. CASE End(0)
      BY <3>1, LiveEnd
    <3>2. CASE ~End(0)
      <4>1. pc' = [pc EXCEPT ![0] = "write"] /\ UNCHANGED evars
        BY <2>4, <3>2 DEF ReadInput, Goto
      <4>2. (\A p \in Procs : Alive(p) => Alive(p)') /\ rd'[q] \subseteq rd[q] /\ wr'[q] \subseteq wr[q]
        BY <4>1, <1>1 DEF evars, Alive, ControlTypes
      <4> QED
        BY <4>2, LiveStays
    <3> QED
      BY <3>1, <3>2
  <2>5. CASE Write(0, 1, "answer")
    <3>1. CASE rd[1] = {}
      BY <2>5, <3>1, LiveEnd DEF Write
    <3>2. CASE rd[1] # {}
      <4>1. PICK k \in 1..Len(buf[0]) :
                Goto(0, "write", IF k = Len(buf[0]) THEN "answer" ELSE "write") /\ UNCHANGED evars
        BY <2>5, <3>2 DEF Write
      <4>2. pc' = [pc EXCEPT ![0] = "answer"] \/ pc' = [pc EXCEPT ![0] = "write"]
        <5>1. CASE k = Len(buf[0])
          BY <4>1, <5>1 DEF Goto
        <5>2. CASE k # Len(buf[0])
          BY <4>1, <5>2 DEF Goto
        <5> QED
          BY <5>1, <5>2
      <4>3. (\A p \in Procs : Alive(p) => Alive(p)') /\ rd'[q] = rd[q] /\ wr'[q] = wr[q]
        BY <4>1, <4>2 DEF evars, Alive, ControlTypes
      <4> QED
        BY <4>3, LiveStays
    <3> QED
      BY <3>1, <3>2
  <2>6. CASE Write(1, 2, "read")
    <3>1. CASE rd[2] = {}
      BY <2>6, <3>1, LiveEnd DEF Write
    <3>2. CASE rd[2] # {}
      <4>1. PICK k \in 1..Len(buf[1]) :
                Goto(1, "write", IF k = Len(buf[1]) THEN "read" ELSE "write") /\ UNCHANGED evars
        BY <2>6, <3>2 DEF Write
      <4>2. pc' = [pc EXCEPT ![1] = "read"] \/ pc' = [pc EXCEPT ![1] = "write"]
        <5>1. CASE k = Len(buf[1])
          BY <4>1, <5>1 DEF Goto
        <5>2. CASE k # Len(buf[1])
          BY <4>1, <5>2 DEF Goto
        <5> QED
          BY <5>1, <5>2
      <4>3. (\A p \in Procs : Alive(p) => Alive(p)') /\ rd'[q] = rd[q] /\ wr'[q] = wr[q]
        BY <4>1, <4>2 DEF evars, Alive, ControlTypes
      <4> QED
        BY <4>3, LiveStays
    <3> QED
      BY <3>1, <3>2
  <2>7. CASE ReadAnswer
    <3>1. pc' = [pc EXCEPT ![0] = "read"] /\ UNCHANGED evars
      BY <2>7 DEF ReadAnswer, Goto
    <3>2. (\A p \in Procs : Alive(p) => Alive(p)') /\ rd'[q] = rd[q] /\ wr'[q] = wr[q]
      BY <3>1 DEF evars, Alive, ControlTypes
    <3> QED
      BY <3>2, LiveStays
  <2>8. CASE child
    <3>1. CASE End(1)
      BY <3>1, LiveEnd
    <3>2. CASE ~End(1)
      <4>1. pc' = [pc EXCEPT ![1] = "write"] /\ UNCHANGED evars
        BY <2>8, <3>2 DEF child, Goto
      <4>2. (\A p \in Procs : Alive(p) => Alive(p)') /\ rd'[q] \subseteq rd[q] /\ wr'[q] \subseteq wr[q]
        BY <4>1, <1>1 DEF evars, Alive, ControlTypes
      <4> QED
        BY <4>2, LiveStays
    <3> QED
      BY <3>1, <3>2
  <2>9. CASE MainForkFails
    <3>1. /\ pc' = [pc EXCEPT ![0] = "close"]
          /\ rd' = [rd EXCEPT ![1] = {0}, ![2] = {0}]
          /\ wr' = [wr EXCEPT ![1] = {0}, ![2] = {0}]
      BY <2>9 DEF MainForkFails, Goto
    <3>2. Alive(0)' /\ \A p \in Procs : Alive(p) => Alive(p)'
      BY <3>1 DEF Alive, ControlTypes
    <3>3. rd'[q] \subseteq rd[q] \cup {0, 1} /\ wr'[q] \subseteq wr[q] \cup {0}
      BY <3>1 DEF ControlTypes
    <3>4. rd'[q] \subseteq rd[q] \cup {0}
      BY <3>1 DEF ControlTypes
    <3> QED
      BY <3>2, <3>3, <3>4, LiveStays
  <2>10. CASE ReadInputFails
    <3> QED
      BY <2>10, LiveEnd DEF ReadInputFails
  <2>11. CASE ChildKilled
    <3> QED
      BY <2>11, LiveEnd DEF ChildKilled
  <2> QED
    BY <1>3, <2>1, <2>2, <2>3, <2>4, <2>5, <2>6, <2>7, <2>8, <2>9, <2>10, <2>11 DEF Part1,
       Parent, Child
<1>4. CASE Part2
  <2> USE <1>1, Sorts DEF pvars, tvars, evars, fvars
  <2>1. ASSUME NEW m \in Modes, my_popen(m) PROVE OwnersLive(q)'
    <3>1. PICK c \in Streams :
            /\ pc' = [pc EXCEPT ![0] = "insert", ![c] = "drop"]
            /\ rd' = [r \in Streams |-> IF r = c THEN {0, c} ELSE IF 0 \in rd[r] THEN rd[r] \cup {c} ELSE rd[r]]
            /\ wr' = [r \in Streams |-> IF r = c THEN {0, c} ELSE IF 0 \in wr[r] THEN wr[r] \cup {c} ELSE wr[r]]
      BY <2>1 DEF my_popen, Unused
    <3>2. Alive(0)' /\ Alive(c)' /\ \A p \in Procs : Alive(p) => Alive(p)'
      BY <3>1 DEF Alive, ControlTypes
    <3>3. rd'[q] \subseteq rd[q] \cup {0, c} /\ wr'[q] \subseteq wr[q] \cup {0, c}
      BY <3>1
    <3> QED
      BY <3>2, <3>3, LiveStays
  <2>2. CASE insert
    <3>1. pc' = [pc EXCEPT ![0] = "user"]
      BY <2>2 DEF insert, Goto
    <3>2. (\A p \in Procs : Alive(p) => Alive(p)')
      BY <3>1 DEF Alive, ControlTypes
    <3>3. rd'[q] \subseteq rd[q] /\ wr'[q] \subseteq wr[q]
      BY <2>2, ClosesMine DEF insert, Goto
    <3> QED
      BY <3>2, <3>3, LiveStays
  <2>3. CASE waitpid
    <3>1. PICK s \in Streams :
            pc[s] = "zombie" /\ pc' = [pc EXCEPT ![0] = "user", ![s] = "gone"] /\ rd' = rd /\ wr' = wr
      BY <2>3 DEF waitpid, Awaited
    <3>2. (\A p \in Procs : Alive(p) => Alive(p)') /\ rd'[q] = rd[q] /\ wr'[q] = wr[q]
      BY <3>1 DEF Alive, ControlTypes
    <3> QED
      BY <3>2, LiveStays
  <2>4. CASE WaitFails
    <3>1. pc' = [pc EXCEPT ![0] = "user"] /\ rd' = rd /\ wr' = wr
      BY <2>4 DEF WaitFails, Goto
    <3>2. (\A p \in Procs : Alive(p) => Alive(p)') /\ rd'[q] = rd[q] /\ wr'[q] = wr[q]
      BY <3>1 DEF Alive, ControlTypes
    <3> QED
      BY <3>2, LiveStays
  <2>5. CASE UserEnds
    <3> QED
      BY <2>5, LiveEnd DEF UserEnds
  <2>6. ASSUME NEW s \in Streams, Fwrite(s) PROVE OwnersLive(q)'
    <3>1. End(0) \/ (pc' = pc /\ rd' = rd /\ wr' = wr)
      BY <2>6 DEF Fwrite
    <3>2. CASE End(0)
      BY <3>2, LiveEnd
    <3>3. CASE pc' = pc /\ rd' = rd /\ wr' = wr
      BY <3>3 DEF OwnersLive, Alive
    <3> QED
      BY <3>1, <3>2, <3>3
  <2>7. ASSUME NEW s \in Streams, Fread(s) PROVE OwnersLive(q)'
    <3>1. pc' = pc /\ rd' = rd /\ wr' = wr
      BY <2>7 DEF Fread
    <3> QED
      BY <3>1 DEF OwnersLive, Alive
  <2>8. ASSUME NEW s \in Streams, my_pclose(s) PROVE OwnersLive(q)'
    <3>1. CASE End(0)
      BY <3>1, LiveEnd
    <3>2. CASE ~End(0)
      <4>1. pc' = [pc EXCEPT ![0] = "wait"] /\ Close(0, {s}, {s})
        BY <2>8, <3>2 DEF my_pclose, Goto
      <4>2. \A p \in Procs : Alive(p) => Alive(p)'
        BY <4>1 DEF Alive, ControlTypes
      <4>3. rd'[q] \subseteq rd[q] /\ wr'[q] \subseteq wr[q]
        BY <4>1, ClosesMine
      <4> QED
        BY <4>2, <4>3, LiveStays
    <3> QED
      BY <3>1, <3>2
  <2>9. ASSUME NEW s \in Streams, drop(s) PROVE OwnersLive(q)'
    <3>1. PICK r \in Streams : End(s) \/ (Close(s, {r}, {r}) /\ pc' = pc)
      BY <2>9 DEF drop
    <3>2. CASE End(s)
      BY <3>2, LiveEnd
    <3>3. CASE Close(s, {r}, {r}) /\ pc' = pc
      <4>1. (\A p \in Procs : Alive(p) => Alive(p)') /\ rd'[q] \subseteq rd[q] /\ wr'[q] \subseteq wr[q]
        BY <3>3, ClosesMine DEF Alive
      <4> QED
        BY <4>1, LiveStays
    <3> QED
      BY <3>1, <3>2, <3>3
  <2>10. ASSUME NEW s \in Streams, execl(s) PROVE OwnersLive(q)'
    <3>1. pc' = [pc EXCEPT ![s] = "run"] /\ (Close(s, {}, {s}) \/ Close(s, {s}, {}))
      BY <2>10 DEF execl, Goto
    <3>2. \A p \in Procs : Alive(p) => Alive(p)'
      BY <3>1 DEF Alive, ControlTypes
    <3>3. CASE Close(s, {}, {s})
      <4>1. rd'[q] \subseteq rd[q] /\ wr'[q] \subseteq wr[q]
        BY <3>3, ClosesMine
      <4> QED
        BY <3>2, <4>1, LiveStays
    <3>4. CASE Close(s, {s}, {})
      <4>1. rd'[q] \subseteq rd[q] /\ wr'[q] \subseteq wr[q]
        BY <3>4, ClosesMine
      <4> QED
        BY <3>2, <4>1, LiveStays
    <3> QED
      BY <3>1, <3>3, <3>4
  <2>11. ASSUME NEW s \in Streams, Command(s) PROVE OwnersLive(q)'
    <3>1. End(s) \/ (pc' = pc /\ rd' = rd /\ wr' = wr)
      BY <2>11, CommandDoes DEF Command
    <3>2. CASE End(s)
      BY <3>2, LiveEnd
    <3>3. CASE pc' = pc /\ rd' = rd /\ wr' = wr
      BY <3>3 DEF OwnersLive, Alive
    <3> QED
      BY <3>1, <3>2, <3>3
  <2>12. CASE WaitInterrupted
    <3>1. pc' = pc /\ rd' = rd /\ wr' = wr
      BY <2>12 DEF WaitInterrupted
    <3> QED
      BY <3>1 DEF OwnersLive, Alive
  <2>13. ASSUME NEW m \in Modes, PopenForkFails(m) PROVE OwnersLive(q)'
    <3>1. PICK c \in Streams :
            /\ pc' = [pc EXCEPT ![0] = "insert"]
            /\ rd' = [rd EXCEPT ![c] = {0}] /\ wr' = [wr EXCEPT ![c] = {0}]
      BY <2>13 DEF PopenForkFails, Unused
    <3>2. Alive(0)' /\ \A p \in Procs : Alive(p) => Alive(p)'
      BY <3>1 DEF Alive, ControlTypes
    <3>3. rd'[q] \subseteq rd[q] \cup {0} /\ wr'[q] \subseteq wr[q] \cup {0}
      BY <3>1 DEF ControlTypes
    <3> QED
      BY <3>2, <3>3, LiveStays
  <2> QED
    BY <1>4, <2>1, <2>2, <2>3, <2>4, <2>5, <2>6, <2>7, <2>8, <2>9, <2>10, <2>11, <2>12,
       <2>13 DEF Part2, User
<1> QED
  BY <1>1, <1>2, <1>3, <1>4

(* Who ends, and who closes copies, keeps the rest as it is.                *)
LEMMA EndsOfEnd ==
    ASSUME ControlTypes, NEW p \in Procs, End(p), UNCHANGED <<pid, mode, copy, cur>>,
           NEW q \in Streams, EndsOf(q)
    PROVE  EndsOf(q)'
<1>1. /\ pc'[p] = "zombie" /\ \A r \in Procs \ {p} : pc'[r] = pc[r]
      /\ rd'[q] = rd[q] \ {p} /\ wr'[q] = wr[q] \ {p}
  BY EndsMine
<1>2. CASE p = 0
  BY <1>1, <1>2, Sorts DEF EndsOf, IsOpen
<1>3. CASE p # 0
  BY <1>1, <1>3, Sorts DEF EndsOf, IsOpen
<1> QED
  BY <1>2, <1>3

(* Part 2: who has the ends of one stream.                                  *)
LEMMA EndsOfStep ==
    ASSUME Types, PlaceInv, StreamInv, CopyInv, EndsInv, Part2, prog = "popen", NEW q \in Streams
    PROVE  EndsOf(q)'
<1>1. ControlTypes /\ EndsOf(q) /\ OwnersLive(q)
  BY DEF Types, ControlTypes, Pcs, EndsInv
<1>2. /\ pc[0] \in {"user", "insert", "wait", "zombie"}
      /\ pc[0] \in {"insert", "wait"} => cur[1] \in Streams /\ cur[2] # NoStream
      /\ pc[0] \notin {"insert", "wait"} => cur = <<NoStream, NoStream>>
  BY DEF PlaceInv, StreamInv
<1>3. copy \in [Streams -> [Streams -> Seq(Int)]] /\ \A s \in Streams : copy[s][s] = Closed
  BY DEF CopyInv, Types
<1>4. \A s \in Streams : fbuf[s] # Closed
  <2>1. \A s \in Streams : fbuf[s] \in Seq(1..Items)
    BY DEF Types
  <2>2. Closed \notin Seq(1..Items)
    BY PipesAssumption DEF Closed, Error
  <2> QED
    BY <2>1, <2>2
<1>5. \A s \in Streams : mode[s][1] = "none" => pc[s] = "none" /\ pid[s] = NoStream
  <2>1. \A s \in Streams : mode[s][1] = "none" => mode[s] = <<"none", "none">>
    BY <1>1 DEF ControlTypes, Modes
  <2> QED
    BY <2>1 DEF StreamInv, IsBlank
<1> USE <1>1, <1>2, Sorts DEF pvars, tvars, evars, fvars
<1>6. ASSUME NEW m \in Modes, my_popen(m) PROVE EndsOf(q)'
  <2>1. PICK c \in Streams :
          /\ mode[c][1] = "none"
          /\ pc' = [pc EXCEPT ![0] = "insert", ![c] = "drop"]
          /\ mode' = [mode EXCEPT ![c] = m]
          /\ cur' = <<c, c>>
          /\ rd' = [r \in Streams |-> IF r = c THEN {0, c} ELSE IF 0 \in rd[r] THEN rd[r] \cup {c} ELSE rd[r]]
          /\ wr' = [r \in Streams |-> IF r = c THEN {0, c} ELSE IF 0 \in wr[r] THEN wr[r] \cup {c} ELSE wr[r]]
          /\ copy' = [copy EXCEPT ![c] = [r \in Streams |-> IF IsOpen(r) THEN fbuf[r] ELSE Closed]]
    BY <1>6 DEF my_popen, Unused
  <2>2. pc[0] = "user" /\ pid' = pid /\ pc[c] = "none" /\ pid[c] = NoStream /\ c # 0
    BY <1>6, <1>5, <2>1 DEF my_popen, UserCalls
  <2>3. \A s \in Streams : s # c => copy'[s] = copy[s] /\ pc'[s] = pc[s] /\ mode'[s] = mode[s]
    BY <1>3, <2>1 DEF ControlTypes
  <2>4. pc'[0] = "insert" /\ pc'[c] = "drop"
    BY <2>1, <2>2 DEF ControlTypes
  <2>5. CASE q = c
    <3>1. rd'[q] = {0, c} /\ wr'[q] = {0, c}
      BY <2>1, <2>5
    <3>2. \A s \in Streams : s # q /\ pc'[s] = "run" => copy'[s][q] = Closed
      BY <2>3, <2>5 DEF EndsOf
    <3> QED
      BY <2>1, <2>4, <2>5, <3>1, <3>2 DEF EndsOf
  <2>6. CASE q # c
    <3>1. /\ rd'[q] = IF 0 \in rd[q] THEN rd[q] \cup {c} ELSE rd[q]
          /\ wr'[q] = IF 0 \in wr[q] THEN wr[q] \cup {c} ELSE wr[q]
      BY <2>1, <2>6
    <3>2. 0 \in rd[q] \cup wr[q] => IsOpen(q)
      BY <2>2 DEF EndsOf
    <3>3. c \notin rd[q] \cup wr[q]
      BY <2>2 DEF OwnersLive, Alive
    <3>4. copy'[c][q] = IF IsOpen(q) THEN fbuf[q] ELSE Closed
      BY <1>3, <2>1
    <3>5. \A s \in Streams : s # q /\ s \in rd'[q] \cup wr'[q] => copy'[s][q] # Closed
      BY <1>4, <2>3, <3>1, <3>2, <3>3, <3>4 DEF EndsOf
    <3>6. \A s \in Streams : s # q /\ pc'[s] = "run" => copy'[s][q] = Closed
      BY <2>3, <2>4 DEF EndsOf
    <3>7. mode'[q] = mode[q] /\ pc'[q] = pc[q] /\ (IsOpen(q)' <=> IsOpen(q)) /\ cur'[1] # q
      BY <2>1, <2>2, <2>3, <2>6 DEF IsOpen
    <3>8. mode'[q][1] = "w" /\ IsOpen(q)' => 0 \in wr'[q]
      BY <2>2, <3>1, <3>7 DEF EndsOf
    <3>9. mode'[q][1] = "r" /\ pc'[q] \in {"drop", "run"} => q \in wr'[q]
      BY <3>1, <3>7 DEF EndsOf
    <3>10. 0 \in rd'[q] \cup wr'[q] => IsOpen(q)'
      BY <2>2, <3>1, <3>2, <3>7
    <3> QED
      BY <3>5, <3>6, <3>7, <3>8, <3>9, <3>10 DEF EndsOf
  <2> QED
    BY <2>5, <2>6
<1>7. CASE insert
  <2>1. PICK c \in Streams : c = cur[1]
    BY <1>7 DEF insert, Goto
  <2>2. /\ pc[0] = "insert" /\ pc' = [pc EXCEPT ![0] = "user"]
        /\ pid' = [pid EXCEPT ![c] = cur[2]] /\ cur' = <<NoStream, NoStream>>
        /\ UNCHANGED <<mode, copy>>
    BY <1>7, <2>1 DEF insert, Goto
  <2>3. PICK r, w : Close(0, r, w) /\ (mode[c][1] = "w" => w = {}) /\ w \subseteq {c}
    BY <1>7, <2>1 DEF insert
  <2>4. /\ rd'[q] \subseteq rd[q] /\ rd[q] \subseteq rd'[q] \cup {0}
        /\ wr'[q] \subseteq wr[q] /\ wr[q] \subseteq wr'[q] \cup {0}
    BY <2>3, ClosesMine
  <2>5. pc'[0] = "user" /\ \A s \in Streams : pc'[s] = pc[s]
    BY <2>2 DEF ControlTypes
  <2>6. CASE q = c
    <3>1. IsOpen(q)'
      BY <2>2, <2>6 DEF IsOpen, ControlTypes
    <3>2. mode[q][1] = "w" => wr'[q] = wr[q]
      BY <2>3, <2>6 DEF Close, ControlTypes
    <3> QED
      BY <2>1, <2>2, <2>4, <2>5, <2>6, <3>1, <3>2 DEF EndsOf
  <2>7. CASE q # c
    <3>1. IsOpen(q)' <=> IsOpen(q)
      BY <2>2, <2>7 DEF IsOpen, ControlTypes
    <3>2. wr'[q] = wr[q]
      BY <2>3, <2>7 DEF Close, ControlTypes
    <3> QED
      BY <2>1, <2>2, <2>4, <2>5, <2>7, <3>1, <3>2 DEF EndsOf
  <2> QED
    BY <2>6, <2>7
<1>8. CASE waitpid
  <2>1. PICK c \in Streams :
          /\ pc[0] = "wait" /\ pc' = [pc EXCEPT ![0] = "user", ![c] = "gone"]
          /\ UNCHANGED <<rd, wr, mode, pid, copy>>
    BY <1>8 DEF waitpid, Awaited
  <2>2. pc'[0] = "user" /\ \A s \in Streams : pc'[s] = pc[s] \/ pc'[s] = "gone"
    BY <2>1 DEF ControlTypes
  <2> QED
    BY <2>1, <2>2 DEF EndsOf, IsOpen
<1>9. CASE WaitFails
  <2>1. /\ pc[0] = "wait" /\ pc' = [pc EXCEPT ![0] = "user"]
        /\ UNCHANGED <<rd, wr, mode, pid, copy>>
    BY <1>9 DEF WaitFails, Goto
  <2>2. pc'[0] = "user" /\ \A s \in Streams : pc'[s] = pc[s]
    BY <2>1 DEF ControlTypes
  <2> QED
    BY <2>1, <2>2 DEF EndsOf, IsOpen
<1>10. CASE UserEnds
  <2>1. UNCHANGED <<pid, mode, copy, cur>> /\ End(0)
    BY <1>10 DEF UserEnds
  <2> QED
    BY <2>1, EndsOfEnd
<1>11. ASSUME NEW s \in Streams, Fwrite(s) PROVE EndsOf(q)'
  <2>1. UNCHANGED <<pid, mode, copy, cur>> /\ (End(0) \/ UNCHANGED <<pc, rd, wr>>)
    BY <1>11 DEF Fwrite
  <2>2. CASE End(0)
    BY <2>1, <2>2, EndsOfEnd
  <2>3. CASE UNCHANGED <<pc, rd, wr>>
    BY <2>1, <2>3 DEF EndsOf, IsOpen
  <2> QED
    BY <2>1, <2>2, <2>3
<1>12. ASSUME NEW s \in Streams, Fread(s) PROVE EndsOf(q)'
  <2>1. UNCHANGED <<pc, rd, wr, mode, pid, copy, cur>>
    BY <1>12 DEF Fread
  <2> QED
    BY <2>1 DEF EndsOf, IsOpen
<1>13. ASSUME NEW s \in Streams, my_pclose(s) PROVE EndsOf(q)'
  <2>1. CASE Broken(s, fbuf[s])
    <3>1. UNCHANGED <<pid, mode, copy, cur>> /\ End(0)
      BY <1>13, <2>1 DEF my_pclose
    <3> QED
      BY <3>1, EndsOfEnd
  <2>2. CASE ~Broken(s, fbuf[s])
    <3>1. /\ pc[0] = "user" /\ pc' = [pc EXCEPT ![0] = "wait"] /\ Close(0, {s}, {s})
          /\ pid' = [pid EXCEPT ![s] = NoStream] /\ UNCHANGED <<mode, copy>>
      BY <1>13, <2>2 DEF my_pclose, Goto, UserCalls
    <3>2. pc'[0] = "wait" /\ \A r \in Streams : pc'[r] = pc[r]
      BY <3>1 DEF ControlTypes
    <3>3. rd'[q] = (IF q = s THEN rd[q] \ {0} ELSE rd[q]) /\ wr'[q] = (IF q = s THEN wr[q] \ {0} ELSE wr[q])
      BY <3>1 DEF Close
    <3>4. pid'[q] = IF q = s THEN NoStream ELSE pid[q]
      BY <3>1 DEF ControlTypes
    <3> QED
      BY <3>1, <3>2, <3>3, <3>4 DEF EndsOf, IsOpen
  <2> QED
    BY <2>1, <2>2
<1>14. ASSUME NEW s \in Streams, drop(s) PROVE EndsOf(q)'
  <2>1. PICK r \in Streams : drop(s)!2!(r)
    BY <1>14 DEF drop
  <2>2. UNCHANGED <<pid, mode, cur>>
    BY <1>14 DEF drop
  <2>3. CASE Broken(r, copy[s][r])
    BY <2>1, <2>2, <2>3, EndsOfEnd
  <2>4. CASE ~Broken(r, copy[s][r])
    <3>1. /\ copy' = [copy EXCEPT ![s][r] = Closed] /\ Close(s, {r}, {r}) /\ pc' = pc
          /\ copy[s][r] # Closed
      BY <2>1, <2>4
    <3>2. rd'[q] = (IF q = r THEN rd[q] \ {s} ELSE rd[q]) /\ wr'[q] = (IF q = r THEN wr[q] \ {s} ELSE wr[q])
      BY <3>1 DEF Close
    <3>3. r # s /\ s # 0
      BY <1>3, <3>1
    <3>4. \A a \in Streams : copy'[a][q] = IF a = s /\ q = r THEN Closed ELSE copy[a][q]
      BY <1>3, <3>1
    <3> QED
      BY <2>2, <3>1, <3>2, <3>3, <3>4 DEF EndsOf, IsOpen
  <2> QED
    BY <2>3, <2>4
<1>15. ASSUME NEW s \in Streams, execl(s) PROVE EndsOf(q)'
  <2>1. /\ \A r \in Streams : copy[s][r] = Closed
        /\ pc' = [pc EXCEPT ![s] = "run"]
        /\ UNCHANGED <<pid, mode, copy, cur>>
    BY <1>15 DEF execl, Goto
  <2>2. PICK r, w : Close(s, r, w) /\ (mode[s][1] = "r" => w = {})
    BY <1>15 DEF execl
  <2>3. /\ rd'[q] \subseteq rd[q] /\ rd[q] \subseteq rd'[q] \cup {s}
        /\ wr'[q] \subseteq wr[q] /\ wr[q] \subseteq wr'[q] \cup {s}
    BY <2>2, ClosesMine
  <2>4. pc'[0] = pc[0] /\ s # 0 /\ \A a \in Streams : pc'[a] = IF a = s THEN "run" ELSE pc[a]
    BY <2>1 DEF ControlTypes
  <2>5. mode[q][1] = "r" /\ s = q => wr'[q] = wr[q]
    BY <2>2 DEF Close, ControlTypes
  <2>6. pc[s] = "drop"
    BY <1>15 DEF execl, Goto
  <2> QED
    BY <2>1, <2>3, <2>4, <2>5, <2>6 DEF EndsOf, IsOpen
<1>16. ASSUME NEW s \in Streams, Command(s) PROVE EndsOf(q)'
  <2>1. UNCHANGED <<pid, mode, copy, cur>> /\ (End(s) \/ UNCHANGED <<pc, rd, wr>>)
    BY <1>16, CommandDoes DEF Command
  <2>2. CASE End(s)
    BY <2>1, <2>2, EndsOfEnd
  <2>3. CASE UNCHANGED <<pc, rd, wr>>
    BY <2>1, <2>3 DEF EndsOf, IsOpen
  <2> QED
    BY <2>1, <2>2, <2>3
<1>17. CASE WaitInterrupted
  <2>1. pc[0] = "wait" /\ UNCHANGED <<pc, rd, wr, mode, pid, copy>>
    BY <1>17 DEF WaitInterrupted
  <2> QED
    BY <2>1 DEF EndsOf, IsOpen
<1>18. ASSUME NEW m \in Modes, PopenForkFails(m) PROVE EndsOf(q)'
  <2>1. PICK c \in Streams :
          /\ mode[c][1] = "none"
          /\ pc' = [pc EXCEPT ![0] = "insert"]
          /\ mode' = [mode EXCEPT ![c] = m]
          /\ cur' = <<c, Error>>
          /\ rd' = [rd EXCEPT ![c] = {0}] /\ wr' = [wr EXCEPT ![c] = {0}]
    BY <1>18 DEF PopenForkFails, Unused
  <2>2. pc[0] = "user" /\ pid' = pid /\ copy' = copy /\ pc[c] = "none" /\ c # 0
    BY <1>18, <1>5, <2>1 DEF PopenForkFails, UserCalls
  <2>3. \A s \in Streams : pc'[s] = pc[s] /\ (s # c => mode'[s] = mode[s])
    BY <2>1 DEF ControlTypes
  <2>4. pc'[0] = "insert"
    BY <2>1 DEF ControlTypes
  <2>5. CASE q = c
    <3>1. rd'[q] = {0} /\ wr'[q] = {0}
      BY <2>1, <2>5 DEF ControlTypes
    <3>2. \A s \in Streams : s # q /\ pc'[s] = "run" => copy'[s][q] = Closed
      BY <2>2, <2>3, <2>5 DEF EndsOf
    <3> QED
      BY <2>1, <2>2, <2>3, <2>4, <2>5, <3>1, <3>2 DEF EndsOf
  <2>6. CASE q # c
    <3>1. rd'[q] = rd[q] /\ wr'[q] = wr[q] /\ mode'[q] = mode[q] /\ pc'[q] = pc[q] /\ cur'[1] # q
      BY <2>1, <2>3, <2>6 DEF ControlTypes
    <3> QED
      BY <2>2, <2>3, <2>4, <3>1 DEF EndsOf, IsOpen
  <2> QED
    BY <2>5, <2>6
<1> QED
  BY <1>6, <1>7, <1>8, <1>9, <1>10, <1>11, <1>12, <1>13, <1>14, <1>15, <1>16, <1>17,
     <1>18 DEF Part2, User

(* Who has the ends of pipes, of both parts.                                *)
LEMMA EndsStep ==
    ASSUME Types, PlaceInv, StreamInv, CopyInv, EndsInv, [Next]_vars
    PROVE  EndsInv'
<1>1. \A q \in Streams : OwnersLive(q)'
  BY LiveStep
<1>2. ASSUME prog' = "popen", NEW q \in Streams PROVE EndsOf(q)'
  <2>1. prog = "popen" /\ (Part2 \/ UNCHANGED vars)
    BY <1>2, Parts DEF Types
  <2>2. CASE UNCHANGED vars
    BY <2>1, <2>2 DEF vars, pvars, evars, EndsInv, EndsOf, IsOpen
  <2> QED
    BY <2>1, <2>2, EndsOfStep
<1> QED
  BY <1>1, <1>2 DEF EndsInv

(* The command of a stream is waited for once, by the stream it belongs to. *)
LEMMA WaitStep ==
    ASSUME Types, PlaceInv, StreamInv, WaitInv, [Next]_vars
    PROVE  WaitInv'
<1> SUFFICES ASSUME prog' = "popen", hurt' = {}, NEW q \in Streams, mode'[q] # <<"none", "none">>
             PROVE  IsWaitedFor(q)'
  BY DEF WaitInv
<1>1. prog = "popen" /\ ControlTypes /\ (Part2 \/ UNCHANGED vars)
  BY Parts DEF Types, ControlTypes, Pcs
<1>2. CASE UNCHANGED vars
  BY <1>1, <1>2 DEF vars, pvars, fvars, WaitInv, IsWaitedFor
<1>3. CASE Part2
  <2>1. /\ pc[0] \in {"user", "insert", "wait", "zombie"}
        /\ pc[0] \in {"insert", "wait"} => cur[1] \in Streams /\ pid[cur[1]] = NoStream
        /\ pc[0] \notin {"insert", "wait"} => cur = <<NoStream, NoStream>>
    BY <1>1 DEF PlaceInv, StreamInv
  <2>2. hurt = {} => \A s \in Streams : mode[s] # <<"none", "none">> => IsWaitedFor(s)
    BY <1>1 DEF WaitInv
  <2>3. \A s \in Streams : mode[s] = <<"none", "none">> => pc[s] = "none" /\ pid[s] = NoStream
    BY <1>1 DEF StreamInv, IsBlank
  <2>4. \A s \in Streams : mode[s][1] = "none" => mode[s] = <<"none", "none">>
    BY <1>1 DEF ControlTypes, Modes
  <2>5. ASSUME NEW k, Fault(k) PROVE FALSE
    BY <2>5 DEF Fault
  <2> USE <1>1, <2>1, <2>2, Sorts DEF pvars, tvars, evars, fvars
  <2>6. ASSUME NEW m \in Modes, my_popen(m) PROVE IsWaitedFor(q)'
    <3>1. PICK c \in Streams :
            /\ mode[c][1] = "none" /\ cur' = <<c, c>>
            /\ pc' = [pc EXCEPT ![0] = "insert", ![c] = "drop"]
            /\ mode' = [mode EXCEPT ![c] = m]
      BY <2>6 DEF my_popen, Unused
    <3>2. UNCHANGED <<pid, status, hurt>> /\ pid[c] = NoStream /\ cur = <<NoStream, NoStream>>
      BY <2>6, <2>3, <2>4, <3>1 DEF my_popen, UserCalls
    <3>3. CASE q = c
      BY <3>1, <3>2, <3>3 DEF IsWaitedFor, ControlTypes
    <3>4. CASE q # c
      <4>1. mode[q] # <<"none", "none">> /\ pc'[q] = pc[q]
        BY <3>1, <3>4 DEF ControlTypes
      <4> QED
        BY <3>1, <3>2, <3>4, <4>1 DEF IsWaitedFor
    <3> QED
      BY <3>3, <3>4
  <2>7. CASE insert
    <3>1. /\ pc[0] = "insert" /\ pc' = [pc EXCEPT ![0] = "user"]
          /\ pid' = [pid EXCEPT ![cur[1]] = cur[2]] /\ cur' = <<NoStream, NoStream>>
          /\ UNCHANGED <<mode, status, hurt>>
      BY <2>7 DEF insert, Goto
    <3>2. IsWaitedFor(q) /\ pc'[q] = pc[q]
      BY <3>1 DEF ControlTypes
    <3>3. CASE q = cur[1]
      BY <3>1, <3>2, <3>3 DEF IsWaitedFor, ControlTypes
    <3>4. CASE q # cur[1]
      BY <3>1, <3>2, <3>4 DEF IsWaitedFor, ControlTypes
    <3> QED
      BY <3>3, <3>4
  <2>8. CASE waitpid
    <3>1. PICK c \in Streams :
            /\ pc[0] = "wait" /\ pc[c] = "zombie" /\ cur[2] \in {c, Error}
            /\ pc' = [pc EXCEPT ![0] = "user", ![c] = "gone"]
            /\ status' = [status EXCEPT ![cur[1]] = c]
            /\ cur' = <<NoStream, NoStream>> /\ UNCHANGED <<mode, pid, hurt>>
      BY <2>8 DEF waitpid, Awaited
    <3>2. PICK d \in Streams : d = cur[1] /\ pid[d] = NoStream
      BY <3>1
    <3>3. CASE mode[d] = <<"none", "none">>
      BY <2>3, <3>1, <3>2, <3>3 DEF StreamInv, IsBlank
    <3>4. CASE mode[d] # <<"none", "none">>
      <4>1. cur = <<d, d>>
        BY <3>1, <3>2, <3>4 DEF IsWaitedFor
      <4>2. c = d
        BY <3>1, <4>1
      <4>3. pc'[q] = (IF q = d THEN "gone" ELSE pc[q]) /\ status'[q] = (IF q = d THEN d ELSE status[q])
        BY <3>1, <4>1, <4>2 DEF ControlTypes
      <4>4. IsWaitedFor(q)
        BY <3>1
      <4> QED
        BY <3>1, <3>2, <4>1, <4>3, <4>4 DEF IsWaitedFor
    <3> QED
      BY <3>3, <3>4
  <2>9. CASE WaitFails
    <3>1. /\ pc[0] = "wait" /\ pc' = [pc EXCEPT ![0] = "user"] /\ Awaited(cur[2]) = {}
          /\ cur' = <<NoStream, NoStream>> /\ UNCHANGED <<mode, pid, status, hurt>>
      BY <2>9 DEF WaitFails, Goto
    <3>2. IsWaitedFor(q) /\ pc'[q] = pc[q]
      BY <3>1 DEF ControlTypes
    <3>3. ~(cur = <<q, q>> /\ pc[q] \notin {"none", "gone"})
      BY <3>1 DEF Awaited
    <3> QED
      BY <3>1, <3>2, <3>3 DEF IsWaitedFor
  <2>10. CASE UserEnds
    <3>1. /\ UNCHANGED <<mode, pid, cur, status, hurt>>
          /\ pc' = pc \/ pc' = [pc EXCEPT ![0] = "zombie"]
      BY <2>10 DEF UserEnds, UserCalls, End
    <3>2. pc[0] \notin {"none", "gone"}
      BY <2>10 DEF UserEnds, UserCalls, End
    <3>3. /\ mode[q] # <<"none", "none">>
          /\ (pc[q] \notin {"none", "gone"} => pc'[q] \notin {"none", "gone"})
          /\ (pc[q] = "gone" => pc'[q] = "gone")
      BY <3>1, <3>2 DEF ControlTypes
    <3> QED
      BY <3>1, <3>3 DEF IsWaitedFor
  <2>11. ASSUME NEW s \in Streams, Fwrite(s) PROVE IsWaitedFor(q)'
    <3>1. /\ UNCHANGED <<mode, pid, cur, status, hurt>>
          /\ pc' = pc \/ pc' = [pc EXCEPT ![0] = "zombie"]
      BY <2>11 DEF Fwrite, UserCalls, End
    <3>2. pc[0] \notin {"none", "gone"}
      BY <2>11 DEF Fwrite, UserCalls, End
    <3>3. /\ mode[q] # <<"none", "none">>
          /\ (pc[q] \notin {"none", "gone"} => pc'[q] \notin {"none", "gone"})
          /\ (pc[q] = "gone" => pc'[q] = "gone")
      BY <3>1, <3>2 DEF ControlTypes
    <3> QED
      BY <3>1, <3>3 DEF IsWaitedFor
  <2>12. ASSUME NEW s \in Streams, Fread(s) PROVE IsWaitedFor(q)'
    <3>1. UNCHANGED <<pc, mode, pid, cur, status, hurt>>
      BY <2>12 DEF Fread
    <3> QED
      BY <3>1 DEF IsWaitedFor
  <2>13. ASSUME NEW s \in Streams, my_pclose(s) PROVE IsWaitedFor(q)'
    <3>1. pc[0] = "user" /\ UNCHANGED <<mode, status, hurt>> /\ cur = <<NoStream, NoStream>>
      BY <2>13 DEF my_pclose, UserCalls
    <3>2. CASE Broken(s, fbuf[s])
      <4>1. UNCHANGED <<pid, cur>> /\ End(0)
        BY <2>13, <3>2 DEF my_pclose
      <4>2. pc'[q] = pc[q]
        BY <4>1, EndsMine
      <4> QED
        BY <3>1, <4>1, <4>2 DEF IsWaitedFor
    <3>3. CASE ~Broken(s, fbuf[s])
      <4>1. /\ pid[s] # NoStream /\ pc' = [pc EXCEPT ![0] = "wait"]
            /\ pid' = [pid EXCEPT ![s] = NoStream] /\ cur' = <<s, pid[s]>>
        BY <2>13, <3>3 DEF my_pclose, IsOpen, Goto
      <4>2. IsWaitedFor(q) /\ pc'[q] = pc[q]
        BY <3>1, <4>1 DEF ControlTypes
      <4>3. CASE q = s
        BY <3>1, <4>1, <4>2, <4>3 DEF IsWaitedFor, ControlTypes
      <4>4. CASE q # s
        BY <3>1, <4>1, <4>2, <4>4 DEF IsWaitedFor, ControlTypes
      <4> QED
        BY <4>3, <4>4
    <3> QED
      BY <3>2, <3>3
  <2>14. ASSUME NEW s \in Streams, drop(s) PROVE IsWaitedFor(q)'
    <3>1. /\ UNCHANGED <<mode, pid, cur, status, hurt>>
          /\ pc' = pc \/ pc' = [pc EXCEPT ![s] = "zombie"]
      BY <2>14 DEF drop, End
    <3>2. pc[s] \notin {"none", "gone"}
      BY <2>14 DEF drop, End
    <3>3. /\ mode[q] # <<"none", "none">>
          /\ (pc[q] \notin {"none", "gone"} => pc'[q] \notin {"none", "gone"})
          /\ (pc[q] = "gone" => pc'[q] = "gone")
      BY <3>1, <3>2 DEF ControlTypes
    <3> QED
      BY <3>1, <3>3 DEF IsWaitedFor
  <2>15. ASSUME NEW s \in Streams, execl(s) PROVE IsWaitedFor(q)'
    <3>1. /\ UNCHANGED <<mode, pid, cur, status, hurt>>
          /\ pc' = pc \/ pc' = [pc EXCEPT ![s] = "run"]
      BY <2>15 DEF execl, Goto
    <3>2. pc[s] \notin {"none", "gone"}
      BY <2>15 DEF execl, Goto
    <3>3. /\ mode[q] # <<"none", "none">>
          /\ (pc[q] \notin {"none", "gone"} => pc'[q] \notin {"none", "gone"})
          /\ (pc[q] = "gone" => pc'[q] = "gone")
      BY <3>1, <3>2 DEF ControlTypes
    <3> QED
      BY <3>1, <3>3 DEF IsWaitedFor
  <2>16. ASSUME NEW s \in Streams, Command(s) PROVE IsWaitedFor(q)'
    <3>1. /\ UNCHANGED <<mode, pid, cur, status, hurt>>
          /\ pc' = pc \/ pc' = [pc EXCEPT ![s] = "zombie"]
      BY <2>16 DEF Command, End
    <3>2. pc[s] \notin {"none", "gone"}
      BY <2>16 DEF Command, End
    <3>3. /\ mode[q] # <<"none", "none">>
          /\ (pc[q] \notin {"none", "gone"} => pc'[q] \notin {"none", "gone"})
          /\ (pc[q] = "gone" => pc'[q] = "gone")
      BY <3>1, <3>2 DEF ControlTypes
    <3> QED
      BY <3>1, <3>3 DEF IsWaitedFor
  <2>17. CASE WaitInterrupted
    <3> QED
      BY <2>17, <2>5 DEF WaitInterrupted
  <2>18. ASSUME NEW m \in Modes, PopenForkFails(m) PROVE IsWaitedFor(q)'
    <3> QED
      BY <2>18, <2>5 DEF PopenForkFails
  <2> QED
    BY <1>3, <2>6, <2>7, <2>8, <2>9, <2>10, <2>11, <2>12, <2>13, <2>14, <2>15, <2>16, <2>17,
       <2>18 DEF Part2, User
<1> QED
  BY <1>1, <1>2, <1>3

(* The empty sequence, and one item.                                        *)
LEMMA Ends ==
    ASSUME NEW S, NEW s \in Seq(S), NEW x \in S, NEW n \in Nat, NEW caps \in BOOLEAN
    PROVE  /\ <<>> \in Seq(S) /\ Len(<<>>) = 0 /\ s \o <<>> = s /\ Runs(<<>>, n, caps)
           /\ <<x>> \in Seq(S) /\ Len(<<x>>) = 1 /\ <<x>>[1] = x
           /\ Append(s, x) = s \o <<x>>
<1>1. <<>> \in Seq(S) /\ Len(<<>>) = 0 /\ s \o <<>> = s /\ <<x>> \in Seq(S) /\ Len(<<x>>) = 1 /\ <<x>>[1] = x
  OBVIOUS
<1>2. Runs(<<>>, n, caps)
  BY <1>1 DEF Runs
<1>3. Append(s, x) = s \o <<x>>
  OBVIOUS
<1> QED
  BY <1>1, <1>2, <1>3

(* Steps that are not about a stream to write to.                           *)
LEMMA WrittenKept ==
    ASSUME NEW s \in Streams, IsWritten(s),
           got'[s] = got[s], data'[s] = data[s], fbuf'[s] = fbuf[s], put'[s] = put[s],
           IsOpen(s) /\ pc[0] = "zombie" => IsOpen(s)' /\ pc'[0] = "zombie"
    PROVE  IsWritten(s)'
BY DEF IsWritten

(* What is written to one stream goes on in order, and is not lost.         *)
LEMMA WrittenStep ==
    ASSUME Types, PlaceInv, StreamInv, CopyInv, WriteInv, Part2, prog = "popen",
           NEW q \in Streams, mode'[q][1] = "w", q \notin copied'
    PROVE  IsWritten(q)'
<1>1. /\ ControlTypes /\ put \in [Streams -> 0..Items]
      /\ data \in [Streams -> Seq(Int)] /\ got \in [Procs -> Seq(Int)]
      /\ fbuf \in [Streams -> Seq(1..Items)]
  BY DEF Types, ControlTypes, Pcs
<1>2. /\ data[q] \in Seq(Int) /\ got[q] \in Seq(Int) /\ fbuf[q] \in Seq(1..Items) /\ fbuf[q] \in Seq(Int)
      /\ Len(data[q]) \in Nat /\ Len(got[q]) \in Nat /\ Len(fbuf[q]) \in Nat
      /\ put[q] \in 0..Items /\ Items \in Nat
  <2>1. data[q] \in Seq(Int) /\ got[q] \in Seq(Int) /\ fbuf[q] \in Seq(1..Items) /\ put[q] \in 0..Items
    BY <1>1, Sorts
  <2>2. Items \in Nat /\ Seq(1..Items) \subseteq Seq(Int)
    BY PipesAssumption, SeqMonotonic
  <2> QED
    BY <2>1, <2>2
<1>3. /\ pc[0] \in {"user", "insert", "wait", "zombie"}
      /\ \A s \in Streams : pc[s] \in {"none", "drop", "run", "zombie", "gone"}
  BY DEF PlaceInv
<1>4. \A s \in Streams : mode[s][1] = "none" => mode[s] = <<"none", "none">> /\ pid[s] = NoStream
  <2>1. \A s \in Streams : mode[s][1] = "none" => mode[s] = <<"none", "none">>
    BY <1>1 DEF ControlTypes, Modes
  <2> QED
    BY <2>1 DEF StreamInv, IsBlank
<1>5. q \notin copied /\ mode[q][1] \in {"none", "w"} => IsWritten(q)
  <2>1. CASE mode[q][1] = "w"
    BY <2>1 DEF WriteInv
  <2>2. CASE mode[q][1] = "none"
    <3>1. data[q] = <<>> /\ got[q] = <<>> /\ fbuf[q] = <<>> /\ put[q] = 0
      BY <1>4, <2>2 DEF StreamInv, IsBlank
    <3> QED
      BY <3>1 DEF IsWritten, Runs
  <2> QED
    BY <2>1, <2>2
<1>6. /\ data \in [Streams -> Seq(Int)] /\ got \in [Procs -> Seq(Int)] /\ fbuf \in [Streams -> Seq(1..Items)]
      /\ put \in [Streams -> 0..Items] /\ Items \in Nat /\ q \in Procs
      /\ Len(data[q]) \in Nat /\ Len(got[q]) \in Nat /\ Len(fbuf[q]) \in Nat
  BY <1>1, <1>2, Sorts
<1>7. ASSUME NEW m \in Modes, my_popen(m) PROVE IsWritten(q)'
  <2>1. PICK c \in Streams : mode[c][1] = "none" /\ mode' = [mode EXCEPT ![c] = m]
    BY <1>7 DEF my_popen, Unused
  <2>2. UNCHANGED <<got, data, fbuf, put, pid>> /\ pc[0] = "user" /\ copied \subseteq copied'
    BY <1>7 DEF my_popen, UserCalls
  <2>3. mode[q][1] \in {"none", "w"}
    BY <1>1, <2>1 DEF ControlTypes
  <2>4. IsWritten(q)
    BY <1>5, <2>2, <2>3
  <2> QED
    BY <2>2, <2>4, WrittenKept
<1>8. CASE insert
  <2>1. /\ UNCHANGED <<got, data, fbuf, put, mode, copied>>
        /\ (pc[0] # "zombie" \/ (pc'[0] = "zombie" /\ pid' = pid))
    BY <1>8, <1>1, Sorts DEF insert, Goto, ControlTypes, tvars, pvars, evars, fvars
  <2>2. IsWritten(q)
    BY <1>5, <2>1
  <2> QED
    BY <2>1, <2>2, WrittenKept DEF IsOpen
<1>9. CASE waitpid
  <2>1. /\ UNCHANGED <<got, data, fbuf, put, mode, copied>>
        /\ (pc[0] # "zombie" \/ (pc'[0] = "zombie" /\ pid' = pid))
    BY <1>9, <1>1, Sorts DEF waitpid, Awaited, ControlTypes, tvars, pvars, evars, fvars
  <2>2. IsWritten(q)
    BY <1>5, <2>1
  <2> QED
    BY <2>1, <2>2, WrittenKept DEF IsOpen
<1>10. CASE WaitFails
  <2>1. /\ UNCHANGED <<got, data, fbuf, put, mode, copied>>
        /\ (pc[0] # "zombie" \/ (pc'[0] = "zombie" /\ pid' = pid))
    BY <1>10, <1>1, Sorts DEF WaitFails, Goto, ControlTypes, tvars, pvars, evars, fvars
  <2>2. IsWritten(q)
    BY <1>5, <2>1
  <2> QED
    BY <2>1, <2>2, WrittenKept DEF IsOpen
<1>11. CASE UserEnds
  <2>1. /\ UNCHANGED <<got, data, fbuf, put, mode, copied>>
        /\ (pc[0] # "zombie" \/ (pc'[0] = "zombie" /\ pid' = pid))
    BY <1>11, <1>1, Sorts DEF UserEnds, UserCalls, ControlTypes, tvars, pvars, evars, fvars
  <2>2. IsWritten(q)
    BY <1>5, <2>1
  <2> QED
    BY <2>1, <2>2, WrittenKept DEF IsOpen
<1>12. ASSUME NEW s \in Streams, Fwrite(s) PROVE IsWritten(q)'
  <2>1. /\ pc[0] = "user" /\ pid[s] # NoStream /\ UNCHANGED <<got, mode, pid, copied>>
        /\ put' = [put EXCEPT ![s] = @ + 1]
    BY <1>12 DEF Fwrite, UserCalls, IsOpen
  <2>2. IsWritten(q)
    BY <1>5, <2>1
  <2>3. CASE s # q
    <3>1. data'[q] = data[q] /\ fbuf'[q] = fbuf[q] /\ put'[q] = put[q]
      BY <1>12, <1>1, <2>3 DEF Fwrite, Flush
    <3> QED
      BY <2>1, <2>2, <3>1, WrittenKept
  <2>4. CASE s = q
    <3>1. put'[q] = put[q] + 1 /\ got'[q] = got[q] /\ pid'[q] = pid[q]
      BY <1>1, <2>1, <2>4
    <3>2. Len(got[q]) + Len(data[q]) + Len(fbuf[q]) = put[q]
      BY <2>1, <2>2 DEF IsWritten
    <3>3. put[q] + 1 \in 1..Items
      BY <1>12, <1>2, <2>4 DEF Fwrite
    <3>4. PICK x \in Seq(1..Items) : x = <<put[q] + 1>>
      <4>1. PICK i \in 1..Items : i = put[q] + 1
        BY <3>3
      <4>2. <<i>> \in Seq(1..Items)
        OBVIOUS
      <4> QED
        BY <4>1, <4>2
    <3>5. x \in Seq(Int) /\ Len(x) = 1 /\ x[1] = put[q] + 1 /\ Append(fbuf[q], put[q] + 1) = fbuf[q] \o x
      <4>1. x \in Seq(Int)
        BY <1>2, <3>4, SeqMonotonic
      <4>2. Len(x) = 1 /\ x[1] = put[q] + 1
        BY <3>4
      <4>3. Append(fbuf[q], put[q] + 1) = fbuf[q] \o x
        <5>1. fbuf[q] \in Seq(1..Items) /\ put[q] + 1 \in 1..Items
          BY <1>2, <3>3
        <5>2. Append(fbuf[q], put[q] + 1) = fbuf[q] \o <<put[q] + 1>>
          BY SMTT(40), <5>1, Ends
        <5> QED
          BY <3>4, <5>2
      <4> QED
        BY <4>1, <4>2, <4>3
    <3>6. Runs(x, Len(got[q]) + Len(data[q]) + Len(fbuf[q]), FALSE)
      <4>1. ASSUME NEW i \in 1..Len(x)
            PROVE  x[i] = Len(got[q]) + Len(data[q]) + Len(fbuf[q]) + i
        BY <1>6, <3>2, <3>5
      <4> QED
        BY <4>1 DEF Runs
    <3>7. CASE Len(fbuf[q]) < StdioBuf
      <4>1. fbuf'[q] = fbuf[q] \o x /\ data' = data
        BY <1>12, <1>1, <2>4, <3>5, <3>7 DEF Fwrite
      <4>2. Runs(fbuf[q] \o x, Len(got[q]) + Len(data[q]), FALSE)
        <5>1. PICK n \in Nat, k \in Nat : n = Len(got[q]) + Len(data[q]) /\ k = n + Len(fbuf[q])
          BY <1>6
        <5>2. Runs(fbuf[q], n, FALSE) /\ Runs(x, k, FALSE)
          BY <2>2, <3>6, <5>1 DEF IsWritten
        <5>3. Runs(fbuf[q] \o x, n, FALSE)
          BY <1>2, <3>5, <5>1, <5>2, RunsJoined
        <5> QED
          BY <5>1, <5>3
      <4>3. Len(fbuf[q] \o x) = Len(fbuf[q]) + 1
        BY <1>2, <3>5, Joined
      <4>4. Len(got[q]) + Len(data[q]) + Len(fbuf[q] \o x) = put[q] + 1
        BY <1>6, <3>2, <4>3
      <4> QED
        BY <2>2, <3>1, <4>1, <4>2, <4>4 DEF IsWritten
    <3>8. CASE ~(Len(fbuf[q]) < StdioBuf) /\ Broken(q, fbuf[q])
      <4>1. data' = data /\ fbuf' = fbuf /\ End(0)
        BY <1>12, <2>4, <3>8 DEF Fwrite
      <4>2. pc'[0] = "zombie"
        BY <1>1, <4>1, EndsMine, Sorts
      <4> QED
        BY <2>1, <2>2, <2>4, <3>1, <4>1, <4>2 DEF IsWritten, IsOpen
    <3>9. CASE ~(Len(fbuf[q]) < StdioBuf) /\ ~Broken(q, fbuf[q])
      <4>1. data'[q] = data[q] \o fbuf[q] /\ fbuf'[q] = x
        BY <1>12, <1>1, <2>4, <3>4, <3>9 DEF Fwrite, Flush
      <4>2. Runs(data[q] \o fbuf[q], Len(got[q]), FALSE)
        <5>1. PICK k \in Nat : k = Len(got[q]) + Len(data[q])
          BY <1>6
        <5>2. Runs(data[q], Len(got[q]), FALSE) /\ Runs(fbuf[q], k, FALSE)
          BY <2>2, <5>1 DEF IsWritten
        <5> QED
          BY <1>2, <5>1, <5>2, RunsJoined
      <4>3. Len(data[q] \o fbuf[q]) = Len(data[q]) + Len(fbuf[q])
        BY <1>2, Joined
      <4>4. Len(got[q]) + Len(data'[q]) = Len(got[q]) + Len(data[q]) + Len(fbuf[q])
        <5>1. Len(data'[q]) = Len(data[q]) + Len(fbuf[q])
          BY <4>1, <4>3
        <5> QED
          BY <1>6, <5>1
      <4>5. Runs(x, Len(got[q]) + Len(data'[q]), FALSE)
        BY <3>6, <4>4
      <4>6. Len(got[q]) + Len(data'[q]) + Len(x) = put[q] + 1
        BY <1>2, <3>2, <3>5, <4>4
      <4> QED
        BY <2>2, <3>1, <4>1, <4>2, <4>5, <4>6 DEF IsWritten
    <3> QED
      BY <2>4, <3>7, <3>8, <3>9
  <2> QED
    BY <2>3, <2>4
<1>13. ASSUME NEW s \in Streams, Fread(s) PROVE IsWritten(q)'
  <2>1. mode[s][1] = "r" /\ UNCHANGED <<got, fbuf, put, mode, copied, pc, pid>>
    BY <1>13 DEF Fread, tvars
  <2>2. s # q /\ IsWritten(q)
    BY <1>5, <2>1
  <2>3. data'[q] = data[q]
    BY <1>13, <1>1, <2>2 DEF Fread
  <2> QED
    BY <2>1, <2>2, <2>3, WrittenKept DEF IsOpen
<1>14. ASSUME NEW s \in Streams, my_pclose(s) PROVE IsWritten(q)'
  <2>1. /\ pc[0] = "user" /\ UNCHANGED <<got, mode, put, copied>> /\ fbuf' = [fbuf EXCEPT ![s] = <<>>]
        /\ pid[s] # NoStream
    BY <1>14 DEF my_pclose, UserCalls, IsOpen
  <2>2. IsWritten(q)
    BY <1>5, <2>1
  <2>3. CASE s # q
    <3>1. data'[q] = data[q] /\ fbuf'[q] = fbuf[q]
      BY <1>14, <1>1, <2>1, <2>3 DEF my_pclose, Flush
    <3> QED
      BY <2>1, <2>2, <3>1, WrittenKept
  <2>4. CASE s = q
    <3>1. fbuf'[q] = <<>> /\ got'[q] = got[q] /\ put'[q] = put[q]
      BY <1>1, <2>1, <2>4
    <3>2. Len(got[q]) + Len(data[q]) + Len(fbuf[q]) = put[q]
      BY <2>1, <2>2 DEF IsWritten
    <3>3. \A n \in Nat : Runs(<<>>, n, FALSE)
      BY DEF Runs
    <3>4. CASE Broken(q, fbuf[q])
      <4>1. data' = data /\ pid' = pid /\ End(0)
        BY <1>14, <2>4, <3>4 DEF my_pclose
      <4>2. pc'[0] = "zombie"
        BY <1>1, <4>1, EndsMine, Sorts
      <4>3. Runs(<<>>, Len(got[q]) + Len(data[q]), FALSE)
        BY DEF Runs
      <4>4. IsOpen(q)'
        BY <2>1, <2>4, <4>1 DEF IsOpen
      <4> QED
        BY <2>2, <3>1, <4>1, <4>2, <4>3, <4>4 DEF IsWritten
    <3>5. CASE ~Broken(q, fbuf[q])
      <4>1. data'[q] = data[q] \o fbuf[q]
        BY <1>14, <1>1, <2>4, <3>5 DEF my_pclose, Flush
      <4>2. Runs(data[q] \o fbuf[q], Len(got[q]), FALSE)
        <5>1. PICK k \in Nat : k = Len(got[q]) + Len(data[q])
          BY <1>6
        <5>2. Runs(data[q], Len(got[q]), FALSE) /\ Runs(fbuf[q], k, FALSE)
          BY <2>2, <5>1 DEF IsWritten
        <5> QED
          BY <1>2, <5>1, <5>2, RunsJoined
      <4>3. Len(data[q] \o fbuf[q]) = Len(data[q]) + Len(fbuf[q]) /\ Len(<<>>) = 0
        BY <1>2, Joined
      <4>4. Len(got[q]) + Len(data'[q]) \in Nat /\ Len(got[q]) + Len(data'[q]) + Len(<<>>) = put[q]
        <5>1. Len(data'[q]) = Len(data[q]) + Len(fbuf[q])
          BY <4>1, <4>3
        <5> QED
          BY <1>6, <3>2, <4>3, <5>1
      <4> QED
        BY <2>2, <3>1, <3>3, <4>1, <4>2, <4>4 DEF IsWritten
    <3> QED
      BY <3>4, <3>5
  <2> QED
    BY <2>3, <2>4
<1>15. ASSUME NEW s \in Streams, drop(s) PROVE IsWritten(q)'
  <2>1. UNCHANGED <<got, fbuf, put, mode, copied, pid>>
    BY <1>15 DEF drop
  <2>2. q \notin copied /\ IsWritten(q)
    BY <1>5, <2>1
  <2>3. PICK r \in Streams : drop(s)!2!(r)
    BY <1>15 DEF drop
  <2>4. pc'[0] = pc[0]
    <3>1. End(s) => pc'[0] = pc[0]
      BY <1>1, EndsMine, Sorts
    <3> QED
      BY <2>3, <3>1
  <2>5. data'[q] = data[q]
    <3>1. CASE r = q
      <4>1. copy[s][q] = <<>>
        BY <2>2, <2>3, <3>1 DEF CopyInv
      <4>2. data[q] \o <<>> = data[q]
        BY <1>2
      <4> QED
        BY <1>1, <2>3, <3>1, <4>1, <4>2 DEF Flush
    <3>2. CASE r # q
      BY <1>1, <2>3, <3>2 DEF Flush
    <3> QED
      BY <3>1, <3>2
  <2> QED
    BY <2>1, <2>2, <2>4, <2>5, WrittenKept DEF IsOpen
<1>16. ASSUME NEW s \in Streams, execl(s) PROVE IsWritten(q)'
  <2>1. /\ UNCHANGED <<got, data, fbuf, put, mode, copied>>
        /\ (pc[0] # "zombie" \/ (pc'[0] = "zombie" /\ pid' = pid))
    BY <1>16, <1>1, Sorts DEF execl, Goto, ControlTypes, tvars, pvars, evars, fvars
  <2>2. IsWritten(q)
    BY <1>5, <2>1
  <2> QED
    BY <2>1, <2>2, WrittenKept DEF IsOpen
<1>17. ASSUME NEW s \in Streams, Command(s) PROVE IsWritten(q)'
  <2>1. UNCHANGED <<fbuf, mode, copied, pid>> /\ mode[q][1] = "w"
    BY <1>17 DEF Command
  <2>2. IsWritten(q)
    BY <1>5, <2>1
  <2>3. pc'[0] = pc[0]
    <3>1. End(s) => pc'[0] = pc[0]
      BY <1>1, EndsMine, Sorts
    <3> QED
      BY <1>17, <3>1, CommandDoes
  <2>4. CASE s # q
    <3>1. data'[q] = data[q] /\ got'[q] = got[q] /\ put'[q] = put[q]
      <4>1. Flush(s, <<put[s] + 1>>) => data'[q] = data[q]
        BY <1>1, <2>4 DEF Flush
      <4> QED
        BY <1>17, <1>1, <2>4, <4>1, CommandDoes, Sorts
    <3> QED
      BY <2>1, <2>2, <2>3, <3>1, WrittenKept DEF IsOpen
  <2>5. CASE s = q
    <3>1. CASE got' = [got EXCEPT ![s] = @ \o data[s]] /\ data' = [data EXCEPT ![s] = <<>>] /\ put' = put
      <4>1. got'[q] = got[q] \o data[q] /\ data'[q] = <<>> /\ fbuf'[q] = fbuf[q] /\ put'[q] = put[q]
        BY <1>1, <2>1, <2>5, <3>1, Sorts
      <4>2. Runs(got[q] \o data[q], 0, FALSE)
        <5>1. Len(got[q]) = 0 + Len(got[q])
          BY <1>2
        <5>2. Runs(got[q], 0, FALSE) /\ Runs(data[q], Len(got[q]), FALSE)
          BY <2>2 DEF IsWritten
        <5> QED
          BY <1>2, <5>1, <5>2, RunsJoined
      <4>3. Len(got[q] \o data[q]) = Len(got[q]) + Len(data[q]) /\ Len(<<>>) = 0
        BY <1>2, Joined
      <4>4. Len(got'[q]) + Len(data'[q]) = Len(got[q]) + Len(data[q])
        BY <1>2, <4>1, <4>3
      <4>5. Runs(<<>>, Len(got'[q]), FALSE)
        BY DEF Runs
      <4> QED
        BY <2>1, <2>2, <2>3, <4>1, <4>2, <4>4, <4>5 DEF IsWritten, IsOpen
    <3>2. CASE UNCHANGED <<data, got, put>>
      BY <2>1, <2>2, <2>3, <3>2, WrittenKept DEF IsOpen
    <3> QED
      <4>1. mode[s] # <<"r", "all">>
        BY <2>1, <2>5
      <4> QED
        BY <1>17, <3>1, <3>2, <4>1, CommandDoes
  <2> QED
    BY <2>4, <2>5
<1>18. CASE WaitInterrupted
  <2>1. /\ UNCHANGED <<got, data, fbuf, put, mode, copied>>
        /\ (pc[0] # "zombie" \/ (pc'[0] = "zombie" /\ pid' = pid))
    BY <1>18, <1>1, Sorts DEF WaitInterrupted, ControlTypes, tvars, pvars, evars, fvars
  <2>2. IsWritten(q)
    BY <1>5, <2>1
  <2> QED
    BY <2>1, <2>2, WrittenKept DEF IsOpen
<1>19. ASSUME NEW m \in Modes, PopenForkFails(m) PROVE IsWritten(q)'
  <2>1. PICK c \in Streams : mode[c][1] = "none" /\ mode' = [mode EXCEPT ![c] = m]
    BY <1>19 DEF PopenForkFails, Unused
  <2>2. UNCHANGED <<got, data, fbuf, put, pid, copied>> /\ pc[0] = "user"
    BY <1>19 DEF PopenForkFails, UserCalls
  <2>3. mode[q][1] \in {"none", "w"}
    BY <1>1, <2>1 DEF ControlTypes
  <2>4. IsWritten(q)
    BY <1>5, <2>2, <2>3
  <2> QED
    BY <2>2, <2>4, WrittenKept
<1> QED
  BY <1>7, <1>8, <1>9, <1>10, <1>11, <1>12, <1>13, <1>14, <1>15, <1>16, <1>17, <1>18,
     <1>19 DEF Part2, User

(* Once a command has read to the end, nothing comes any more.              *)
LEMMA ReadToEndStep ==
    ASSUME Types, PlaceInv, StreamInv, CopyInv, EndsInv, WriteInv, Part2, prog = "popen",
           NEW q \in Streams, mode'[q] = <<"w", "all">>, copied' = {}, pc'[q] \in {"zombie", "gone"}
    PROVE  IsReadToEnd(q)'
<1>1. ControlTypes /\ data \in [Streams -> Seq(Int)]
  BY DEF Types, ControlTypes, Pcs
<1>2. /\ pc[0] \in {"user", "insert", "wait", "zombie"}
      /\ \A s \in Streams : pc[s] \in {"none", "drop", "run", "zombie", "gone"}
  BY DEF PlaceInv
<1>3. /\ copied = {} /\ mode[q] = <<"w", "all">> /\ pc[q] \in {"zombie", "gone"} => IsReadToEnd(q)
      /\ copied = {} => \A s, r \in Streams : copy[s][r] \in {<<>>, Closed}
  BY DEF WriteInv, CopyInv
<1>4. mode[q] = <<"w", "all">> /\ wr[q] = {} /\ pc[0] = "user" => ~IsOpen(q)
  BY DEF EndsInv, EndsOf
<1>5. \A s \in Streams : mode[s][1] = "none" => pc[s] = "none"
  <2>1. \A s \in Streams : mode[s][1] = "none" => mode[s] = <<"none", "none">>
    BY <1>1 DEF ControlTypes, Modes
  <2> QED
    BY <2>1 DEF StreamInv, IsBlank
<1>6. ASSUME NEW m \in Modes, my_popen(m) PROVE IsReadToEnd(q)'
  <2>1. PICK c \in Streams :
          /\ mode[c][1] = "none" /\ mode' = [mode EXCEPT ![c] = m]
          /\ pc' = [pc EXCEPT ![0] = "insert", ![c] = "drop"]
          /\ wr' = [r \in Streams |-> IF r = c THEN {0, c} ELSE IF 0 \in wr[r] THEN wr[r] \cup {c} ELSE wr[r]]
    BY <1>6 DEF my_popen, Unused
  <2>2. data' = data /\ copied = {}
    BY <1>6 DEF my_popen
  <2>3. q # c /\ mode[q] = <<"w", "all">> /\ pc'[q] = pc[q]
    BY <1>1, <2>1, Sorts DEF ControlTypes
  <2>4. data[q] = <<>> /\ wr[q] = {}
    BY <1>3, <2>2, <2>3 DEF IsReadToEnd
  <2>5. wr'[q] = {}
    BY <2>1, <2>3, <2>4
  <2> QED
    BY <2>2, <2>4, <2>5 DEF IsReadToEnd
<1>7. CASE insert
  <2>1. /\ UNCHANGED <<data, mode, copied>>
        /\ (pc'[q] \in {"zombie", "gone"} => pc[q] \in {"zombie", "gone"})
    BY <1>7, <1>1, Sorts DEF insert, Goto, ControlTypes, tvars, pvars, evars, fvars
  <2>2. data[q] = <<>> /\ wr[q] = {}
    BY <1>3, <2>1 DEF IsReadToEnd
  <2>3. PICK r, w : Close(0, r, w)
    BY <1>7 DEF insert
  <2>4. wr'[q] = {}
    BY <1>1, <2>2, <2>3, ClosesMine
  <2> QED
    BY <2>1, <2>2, <2>4 DEF IsReadToEnd
<1>8. CASE waitpid
  <2>1. PICK c \in Streams : pc[c] = "zombie" /\ pc' = [pc EXCEPT ![0] = "user", ![c] = "gone"]
    BY <1>8 DEF waitpid, Awaited
  <2>2. UNCHANGED <<data, mode, copied, wr>>
    BY <1>8 DEF waitpid, evars
  <2>3. pc[q] \in {"zombie", "gone"}
    BY <1>1, <2>1, Sorts DEF ControlTypes
  <2> QED
    BY <1>3, <2>2, <2>3 DEF IsReadToEnd
<1>9. CASE WaitFails
  <2>1. /\ UNCHANGED <<data, mode, copied>>
        /\ (pc'[q] \in {"zombie", "gone"} => pc[q] \in {"zombie", "gone"})
    BY <1>9, <1>1, Sorts DEF WaitFails, Goto, ControlTypes, tvars, pvars, evars, fvars
  <2>2. data[q] = <<>> /\ wr[q] = {}
    BY <1>3, <2>1 DEF IsReadToEnd
  <2>3. wr' = wr
    BY <1>9 DEF WaitFails, Goto, evars
  <2> QED
    BY <2>1, <2>2, <2>3 DEF IsReadToEnd
<1>10. CASE UserEnds
  <2>1. UNCHANGED <<data, mode, copied>> /\ End(0)
    BY <1>10 DEF UserEnds, pvars
  <2>2. pc'[q] = pc[q] /\ wr'[q] = wr[q] \ {0}
    BY <1>1, <2>1, EndsMine, Sorts
  <2> QED
    BY <1>3, <2>1, <2>2 DEF IsReadToEnd
<1>11. ASSUME NEW s \in Streams, Fwrite(s) PROVE IsReadToEnd(q)'
  <2>1. pc[0] = "user" /\ IsOpen(s) /\ UNCHANGED <<mode, copied>> /\ (End(0) \/ UNCHANGED <<pc, wr>>)
    BY <1>11 DEF Fwrite, UserCalls, evars
  <2>2. End(0) => pc'[q] = pc[q] /\ wr'[q] = wr[q] \ {0}
    BY <1>1, EndsMine, Sorts
  <2>3. data[q] = <<>> /\ wr[q] = {} /\ wr'[q] = {}
    BY <1>3, <2>1, <2>2 DEF IsReadToEnd
  <2>4. s # q
    BY <1>4, <2>1, <2>3
  <2>5. data'[q] = data[q]
    BY <1>11, <1>1, <2>4 DEF Fwrite, Flush
  <2> QED
    BY <2>3, <2>5 DEF IsReadToEnd
<1>12. ASSUME NEW s \in Streams, Fread(s) PROVE IsReadToEnd(q)'
  <2>1. mode[s][1] = "r" /\ UNCHANGED <<mode, copied, pc, wr>>
    BY <1>12 DEF Fread, evars
  <2>2. data[q] = <<>> /\ wr[q] = {} /\ s # q
    BY <1>3, <2>1 DEF IsReadToEnd
  <2>3. data'[q] = data[q]
    BY <1>12, <1>1, <2>2 DEF Fread
  <2> QED
    BY <2>1, <2>2, <2>3 DEF IsReadToEnd
<1>13. ASSUME NEW s \in Streams, my_pclose(s) PROVE IsReadToEnd(q)'
  <2>1. /\ pc[0] = "user" /\ IsOpen(s) /\ UNCHANGED <<mode, copied>>
        /\ End(0) \/ (pc' = [pc EXCEPT ![0] = "wait"] /\ Close(0, {s}, {s}))
    BY <1>13 DEF my_pclose, UserCalls, Goto
  <2>2. End(0) => pc'[q] = pc[q] /\ wr'[q] = wr[q] \ {0}
    BY <1>1, EndsMine, Sorts
  <2>3. Close(0, {s}, {s}) => wr'[q] \subseteq wr[q]
    BY <1>1, ClosesMine
  <2>4. pc'[q] = pc[q]
    BY <1>1, <2>1, <2>2, Sorts DEF ControlTypes
  <2>5. data[q] = <<>> /\ wr[q] = {} /\ wr'[q] = {}
    BY <1>3, <2>1, <2>2, <2>3, <2>4 DEF IsReadToEnd
  <2>6. s # q
    BY <1>4, <2>1, <2>5
  <2>7. data'[q] = data[q]
    BY <1>13, <1>1, <2>6 DEF my_pclose, Flush
  <2> QED
    BY <2>5, <2>7 DEF IsReadToEnd
<1>14. ASSUME NEW s \in Streams, drop(s) PROVE IsReadToEnd(q)'
  <2>1. UNCHANGED <<mode, copied>>
    BY <1>14 DEF drop
  <2>2. PICK r \in Streams : drop(s)!2!(r)
    BY <1>14 DEF drop
  <2>3. copy[s][r] = <<>>
    BY <1>3, <2>1, <2>2
  <2>4. Flush(r, <<>>) /\ Close(s, {r}, {r}) /\ pc' = pc
    BY <2>2, <2>3 DEF Broken
  <2>5. data[q] = <<>> /\ wr[q] = {}
    BY <1>3, <2>1, <2>4 DEF IsReadToEnd
  <2>6. wr'[q] = {}
    BY <2>4, <2>5, <1>1, ClosesMine
  <2>7. data'[q] = <<>>
    <3>1. <<>> \o <<>> = <<>>
      OBVIOUS
    <3> QED
      BY <1>1, <2>4, <2>5, <3>1 DEF Flush
  <2> QED
    BY <2>6, <2>7 DEF IsReadToEnd
<1>15. ASSUME NEW s \in Streams, execl(s) PROVE IsReadToEnd(q)'
  <2>1. /\ UNCHANGED <<data, mode, copied>>
        /\ (pc'[q] \in {"zombie", "gone"} => pc[q] \in {"zombie", "gone"})
    BY <1>15, <1>1, Sorts DEF execl, Goto, ControlTypes, tvars, pvars, evars, fvars
  <2>2. data[q] = <<>> /\ wr[q] = {}
    BY <1>3, <2>1 DEF IsReadToEnd
  <2>3. PICK r, w : Close(s, r, w)
    BY <1>15 DEF execl
  <2>4. wr'[q] = {}
    BY <1>1, <2>2, <2>3, ClosesMine
  <2> QED
    BY <2>1, <2>2, <2>4 DEF IsReadToEnd
<1>16. ASSUME NEW s \in Streams, Command(s) PROVE IsReadToEnd(q)'
  <2>1. UNCHANGED <<mode, copied>> /\ pc[s] = "run"
    BY <1>16 DEF Command
  <2>2. CASE s = q
    <3>1. pc[q] = "run"
      BY <2>1, <2>2
    <3>2. UNCHANGED <<pc, evars>> => FALSE
      BY <3>1
    <3>3. data[q] = <<>> /\ wr[q] = {} /\ End(q) /\ data' = data
      BY <1>16, <2>1, <2>2, <3>2, CommandDoes
    <3>4. wr'[q] = wr[q] \ {q}
      BY <1>1, <3>3, EndsMine, Sorts
    <3> QED
      BY <3>3, <3>4 DEF IsReadToEnd
  <2>3. CASE s # q
    <3>1. Flush(s, <<put[s] + 1>>) => data'[q] = data[q]
      BY <1>1, <2>3 DEF Flush
    <3>2. End(s) => pc'[q] = pc[q] /\ wr'[q] = wr[q] \ {s}
      BY <1>1, <2>3, EndsMine, Sorts
    <3>3. data'[q] = data[q] /\ (End(s) \/ UNCHANGED <<pc, wr>>)
      BY <1>16, <1>1, <2>3, <3>1, CommandDoes DEF evars
    <3>4. data[q] = <<>> /\ wr[q] = {}
      BY <1>3, <2>1, <3>2, <3>3 DEF IsReadToEnd
    <3> QED
      BY <3>2, <3>3, <3>4 DEF IsReadToEnd
  <2> QED
    BY <2>2, <2>3
<1>17. CASE WaitInterrupted
  <2>1. /\ UNCHANGED <<data, mode, copied>>
        /\ (pc'[q] \in {"zombie", "gone"} => pc[q] \in {"zombie", "gone"})
    BY <1>17, <1>1, Sorts DEF WaitInterrupted, ControlTypes, tvars, pvars, evars, fvars
  <2>2. data[q] = <<>> /\ wr[q] = {}
    BY <1>3, <2>1 DEF IsReadToEnd
  <2>3. wr' = wr
    BY <1>17 DEF WaitInterrupted, evars
  <2> QED
    BY <2>1, <2>2, <2>3 DEF IsReadToEnd
<1>18. ASSUME NEW m \in Modes, PopenForkFails(m) PROVE IsReadToEnd(q)'
  <2>1. PICK c \in Streams :
          /\ mode[c][1] = "none" /\ mode' = [mode EXCEPT ![c] = m]
          /\ pc' = [pc EXCEPT ![0] = "insert"]
          /\ wr' = [wr EXCEPT ![c] = {0}]
    BY <1>18 DEF PopenForkFails, Unused
  <2>2. data' = data /\ copied = {}
    BY <1>18 DEF PopenForkFails
  <2>3. pc'[q] = pc[q]
    BY <1>1, <2>1, Sorts DEF ControlTypes
  <2>4. q # c /\ mode[q] = <<"w", "all">>
    BY <1>1, <1>5, <2>1, <2>3 DEF ControlTypes
  <2>5. data[q] = <<>> /\ wr[q] = {} /\ wr'[q] = wr[q]
    BY <1>1, <1>3, <2>1, <2>2, <2>3, <2>4 DEF IsReadToEnd, ControlTypes
  <2> QED
    BY <2>2, <2>5 DEF IsReadToEnd
<1> QED
  BY <1>6, <1>7, <1>8, <1>9, <1>10, <1>11, <1>12, <1>13, <1>14, <1>15, <1>16, <1>17,
     <1>18 DEF Part2, User

(* Both, for all streams to write to.                                       *)
LEMMA WriteStep ==
    ASSUME Types, PlaceInv, StreamInv, CopyInv, EndsInv, WriteInv, [Next]_vars
    PROVE  WriteInv'
<1> SUFFICES ASSUME prog' = "popen", NEW q \in Streams, mode'[q][1] = "w"
             PROVE  /\ q \notin copied' => IsWritten(q)'
                    /\ mode'[q][2] = "all" /\ copied' = {} /\ pc'[q] \in {"zombie", "gone"}
                       => IsReadToEnd(q)'
  BY DEF WriteInv
<1>1. prog = "popen" /\ (Part2 \/ UNCHANGED vars)
  BY Parts DEF Types
<1>2. CASE UNCHANGED vars
  BY <1>1, <1>2 DEF vars, pvars, evars, WriteInv, IsWritten, IsReadToEnd, IsOpen
<1>3. CASE Part2
  <2>1. mode'[q][2] = "all" => mode'[q] = <<"w", "all">>
    <3>1. mode'[q] \in Modes \cup {<<"none", "none">>}
      BY ControlTypesStep DEF ControlTypes
    <3> QED
      BY <3>1 DEF Modes
  <2> QED
    BY <1>1, <1>3, <2>1, WrittenStep, ReadToEndStep
<1> QED
  BY <1>1, <1>2, <1>3

(* Steps that are not about a stream to read from.                          *)
LEMMA PrintedKept ==
    ASSUME NEW s \in Streams, IsPrinted(s), page' = page,
           buf2'[s] = buf2[s], data'[s] = data[s], out'[s] = out[s], put'[s] = put[s],
           wr[s] = {} => wr'[s] = {}
    PROVE  IsPrinted(s)'
BY DEF IsPrinted

(* fread() of the stream itself: items go on from the pipe to the page, and *)
(* a page goes out.                                                         *)
LEMMA FreadPrinted ==
    ASSUME NEW q \in Streams, Fread(q), IsPrinted(q), UNCHANGED <<page, put, wr>>,
           page \in Nat \ {0}, Items \in Nat, q \in Procs, put \in [Streams -> 0..Items],
           data \in [Streams -> Seq(Int)], out \in [Procs -> Seq(Int)],
           buf2 \in [Streams -> [1..page -> Int] \X (0..page)]
    PROVE  IsPrinted(q)'
<1>1. PICK k \in 0..page, f \in [1..page -> Int] :
        /\ k <= Len(data[q]) /\ buf2[q][2] + k <= page
        /\ \A i \in 1..page :
             f[i] = IF i \in (buf2[q][2] + 1)..(buf2[q][2] + k)
                    THEN data[q][i - buf2[q][2]] ELSE buf2[q][1][i]
        /\ k = 0 => wr[q] = {} /\ (data[q] = <<>> \/ buf2[q][2] = page)
        /\ k > 0 \/ buf2[q][2] > 0
        /\ data' = [data EXCEPT ![q] = Rest(@, k)]
        /\ \/ /\ buf2[q][2] + k = page \/ k = 0
              /\ out' = [out EXCEPT ![q] = @ \o f]
              /\ buf2' = [buf2 EXCEPT ![q] = <<f, 0>>]
           \/ /\ buf2[q][2] + k < page /\ k > 0
              /\ buf2' = [buf2 EXCEPT ![q] = <<f, buf2[q][2] + k>>]
              /\ out' = out
  BY FreadOf
<1>2. PICK n \in Nat, o \in Nat, p \in Nat, l \in Nat :
        n = buf2[q][2] /\ o = Len(out[q]) /\ p = put[q] /\ l = Len(data[q])
  <2>1. buf2[q][2] \in Nat /\ Len(out[q]) \in Nat /\ put[q] \in Nat /\ Len(data[q]) \in Nat
    <3>1. buf2[q] \in [1..page -> Int] \X (0..page) /\ out[q] \in Seq(Int)
      OBVIOUS
    <3>2. put[q] \in 0..Items /\ data[q] \in Seq(Int)
      OBVIOUS
    <3> QED
      BY <3>1, <3>2
  <2> QED
    BY <2>1
<1>3. PICK d \in Seq(Int) : d = data[q]
  OBVIOUS
<1>4. PICK r \in Seq(Int) : r = out[q]
  OBVIOUS
<1>5. /\ n < page /\ Runs(d, o + n, FALSE) /\ Len(d) = l /\ Len(r) = o
      /\ \A i \in 1..n : buf2[q][1][i] = o + i
      /\ \A i \in 1..o : i <= p => r[i] = i
      /\ o + n + l = p \/ (p <= o /\ n = 0 /\ d = <<>> /\ wr[q] = {})
  BY <1>2, <1>3, <1>4 DEF IsPrinted
<1>6. /\ n \in Nat /\ o \in Nat /\ p \in Nat /\ l \in Nat /\ page \in Nat /\ k \in Nat /\ k <= l /\ n + k <= page
      /\ (k > 0 \/ n > 0)
  BY <1>1, <1>2
<1>7. o + n + l = p
  <2>1. d = <<>> => l = 0
    BY <1>5
  <2> QED
    BY <1>5, <1>6, <2>1
<1>8. ASSUME NEW i \in 1..(n + k) PROVE f[i] = o + i
  <2>1. i \in 1..page
    BY <1>6
  <2>2. CASE i <= n
    <3>1. i \notin (n + 1)..(n + k) /\ i \in 1..n
      BY SMTT(40), <2>2
    <3>2. f[i] = buf2[q][1][i]
      BY <1>1, <1>2, <2>1, <3>1
    <3> QED
      BY <1>5, <3>1, <3>2
  <2>3. CASE i > n
    <3>1. PICK j \in 1..l : i = n + j /\ j = i - n
      <4>1. i - n \in 1..l /\ i = n + (i - n)
        BY <1>6, <2>3
      <4> QED
        BY <4>1
    <3>2. f[i] = d[j]
      <4>1. i \in (n + 1)..(n + k)
        BY SMTT(40), <1>6, <2>3
      <4> QED
        BY <1>1, <1>2, <1>3, <2>1, <3>1, <4>1
    <3>3. d[j] = o + n + j
      BY <1>5, <3>1 DEF Runs
    <3> QED
      BY <3>1, <3>2, <3>3
  <2> QED
    BY <2>2, <2>3
<1>9. data'[q] = Rest(d, k) /\ Rest(d, k) \in Seq(Int) /\ Len(Rest(d, k)) = l - k /\ Runs(Rest(d, k), o + n + k, FALSE)
  <2>1. data'[q] = Rest(d, k)
    BY <1>1, <1>3
  <2>2. k \in 0..Len(d)
    BY <1>5, <1>6
  <2>3. Rest(d, k) \in Seq(Int) /\ Len(Rest(d, k)) = Len(d) - k
    BY <2>2, Cut
  <2>4. PICK a \in Nat, b \in Nat : a = o + n /\ b = a + k
    <3>1. o + n \in Nat /\ (o + n) + k \in Nat
      BY <1>6
    <3> QED
      BY <3>1
  <2>5. Runs(Rest(d, k), b, FALSE)
    BY <1>5, <2>2, <2>4, RunsCut
  <2> QED
    BY <1>5, <2>1, <2>3, <2>4, <2>5
<1>10. put'[q] = p /\ page' = page
  BY <1>2
<1>11. CASE /\ n + k < page /\ k > 0
            /\ buf2' = [buf2 EXCEPT ![q] = <<f, buf2[q][2] + k>>]
            /\ out' = out
  <2>1. buf2'[q] = <<f, n + k>> /\ out'[q] = r
    BY <1>2, <1>4, <1>11
  <2>2. buf2'[q][1] = f /\ buf2'[q][2] = n + k
    BY <2>1
  <2>3. Len(out'[q]) = o /\ Len(data'[q]) = l - k
    BY <1>5, <1>9, <2>1
  <2>4. o + (n + k) = o + n + k /\ o + (n + k) + (l - k) = p
    BY <1>6, <1>7
  <2>5. Runs(data'[q], o + (n + k), FALSE)
    BY <1>9, <2>4
  <2> QED
    BY <1>5, <1>8, <1>10, <1>11, <2>1, <2>2, <2>3, <2>4, <2>5 DEF IsPrinted
<1>12. CASE /\ n + k = page \/ k = 0
            /\ out' = [out EXCEPT ![q] = @ \o f]
            /\ buf2' = [buf2 EXCEPT ![q] = <<f, 0>>]
  <2>1. buf2'[q][1] = f /\ buf2'[q][2] = 0 /\ out'[q] = r \o f
    BY <1>4, <1>12
  <2>2. f \in Seq(Int) /\ Len(f) = page
    OBVIOUS
  <2>3. /\ Len(r \o f) = o + page
        /\ \A i \in 1..o : (r \o f)[i] = r[i]
        /\ \A i \in 1..page : (r \o f)[o + i] = f[i]
    <3>1. PICK g \in Seq(Int) : g = f
      BY <2>2
    <3>2. Len(g) = page /\ Len(r) = o
      BY <1>5, <2>2, <3>1
    <3>3. /\ Len(r \o g) = Len(r) + Len(g)
          /\ \A i \in 1..Len(r) : (r \o g)[i] = r[i]
          /\ \A i \in 1..Len(g) : (r \o g)[Len(r) + i] = g[i]
      <4>1. Len(r \o g) = Len(r) + Len(g)
        BY Joined
      <4>2. ASSUME NEW i \in 1..Len(r) PROVE (r \o g)[i] = r[i]
        BY Joined
      <4>3. ASSUME NEW i \in 1..Len(g) PROVE (r \o g)[Len(r) + i] = g[i]
        BY Joined
      <4> QED
        BY <4>1, <4>2, <4>3
    <3> QED
      BY <3>1, <3>2, <3>3
  <2>4. n + k < page => k = 0 /\ l = 0 /\ d = <<>> /\ wr[q] = {}
    <3>1. d = <<>> => l = 0
      BY <1>5
    <3>2. n # page
      BY <1>5
    <3>3. n + k < page => k = 0
      BY <1>12, <1>6
    <3> QED
      BY <1>1, <1>2, <1>3, <3>1, <3>2, <3>3
  <2>5. ASSUME NEW i \in 1..(o + page), i <= p PROVE (r \o f)[i] = i
    <3>1. CASE i <= o
      <4>1. i \in 1..o
        BY <3>1
      <4> QED
        BY <1>5, <2>3, <2>5, <4>1
    <3>2. CASE i > o
      <4>1. PICK j \in 1..page : i = o + j
        <5>1. i - o \in 1..page /\ i = o + (i - o)
          BY SMTT(40), <3>2
        <5> QED
          BY <5>1
      <4>2. (r \o f)[i] = f[j]
        BY <2>3, <4>1
      <4>3. j \in 1..(n + k)
        BY <1>6, <1>7, <2>4, <2>5, <4>1
      <4> QED
        BY <1>8, <4>1, <4>2, <4>3
    <3>3. i <= o \/ i > o
      BY <1>6
    <3> QED
      BY <3>1, <3>2, <3>3
  <2>6. Len(out'[q]) = o + page /\ Len(data'[q]) = l - k
    BY <1>9, <2>1, <2>3
  <2>7. \/ n + k = page /\ o + page + 0 + (l - k) = p
        \/ /\ p <= o + page /\ data'[q] = <<>> /\ wr'[q] = {}
    <3>1. CASE n + k = page
      <4>1. o + page + 0 + (l - k) = p
        BY <1>6, <1>7, <3>1
      <4> QED
        BY <3>1, <4>1
    <3>2. CASE n + k < page
      <4>1. k = 0 /\ l = 0 /\ wr[q] = {}
        BY <2>4, <3>2
      <4>2. Rest(d, k) = <<>>
        <5>1. Len(Rest(d, k)) = 0
          BY <1>9, <4>1
        <5> QED
          BY <1>9, <5>1
      <4>3. p <= o + page
        BY <1>5, <1>7, <4>1
      <4> QED
        BY <1>9, <4>1, <4>2, <4>3
    <3> QED
      BY <1>6, <3>1, <3>2
  <2>8. Runs(data'[q], o + page + 0, FALSE)
    <3>1. CASE n + k = page
      <4>1. o + n + k = o + page + 0
        BY <1>6, <3>1
      <4> QED
        BY <1>9, <4>1
    <3>2. CASE data'[q] = <<>>
      BY <3>2 DEF Runs
    <3> QED
      BY <2>7, <3>1, <3>2
  <2>9. \A i \in 1..0 : f[i] = o + page + i
    OBVIOUS
  <2>10. 0 < page
    OBVIOUS
  <2>11. \A i \in 1..Len(out'[q]) : i <= put'[q] => out'[q][i] = i
    BY <1>10, <2>1, <2>5, <2>6
  <2>12. \A i \in 1..buf2'[q][2] : buf2'[q][1][i] = Len(out'[q]) + i
    BY <2>1, <2>6, <2>9
  <2>13. \/ Len(out'[q]) + buf2'[q][2] + Len(data'[q]) = put'[q]
         \/ put'[q] <= Len(out'[q]) /\ buf2'[q][2] = 0 /\ data'[q] = <<>> /\ wr'[q] = {}
    BY <1>10, <2>1, <2>6, <2>7
  <2>15. buf2'[q][2] < page'
    BY <1>10, <2>1, <2>10
  <2>14. Runs(data'[q], Len(out'[q]) + buf2'[q][2], FALSE)
    BY <2>1, <2>6, <2>8
  <2> QED
    BY <2>11, <2>12, <2>13, <2>14, <2>15, Zenon DEF IsPrinted
<1> QED
  BY <1>1, <1>2, <1>11, <1>12

(* What is read from one stream is printed in order.                        *)
LEMMA PrintedStep ==
    ASSUME Types, PlaceInv, StreamInv, CopyInv, EndsInv, ReadInv, Part2, prog = "popen", page' = page,
           NEW q \in Streams, mode'[q][1] = "r"
    PROVE  IsPrinted(q)'
<1>1. /\ ControlTypes /\ put \in [Streams -> 0..Items]
      /\ data \in [Streams -> Seq(Int)] /\ out \in [Procs -> Seq(Int)]
      /\ buf2 \in [Streams -> [1..page -> Int] \X (0..page)]
  BY DEF Types, ControlTypes, Pcs
<1>2. page \in Nat \ {0} /\ Items \in Nat /\ q \in Procs
  BY PipesAssumption, Sorts DEF Types
<1>3. /\ pc[0] \in {"user", "insert", "wait", "zombie"}
      /\ \A s \in Streams : pc[s] \in {"none", "drop", "run", "zombie", "gone"}
  BY DEF PlaceInv
<1>4. /\ Len(data[q]) \in Nat /\ Len(out[q]) \in Nat /\ put[q] \in 0..Items /\ buf2[q][2] \in 0..page
      /\ data[q] \in Seq(Int) /\ out[q] \in Seq(Int)
  BY <1>1, <1>2
<1>5. mode[q][1] \in {"none", "r"} => IsPrinted(q)
  <2>1. CASE mode[q][1] = "r"
    BY <2>1 DEF ReadInv
  <2>2. CASE mode[q][1] = "none"
    <3>1. mode[q] = <<"none", "none">>
      BY <1>1, <2>2 DEF ControlTypes, Modes
    <3>2. data[q] = <<>> /\ out[q] = <<>> /\ buf2[q][2] = 0 /\ put[q] = 0
      BY <3>1 DEF StreamInv, IsBlank
    <3>3. Len(<<>>) = 0 /\ 0 < page
      BY <1>2
    <3>4. buf2[q][2] < page
      BY <3>2, <3>3
    <3>5. \A i \in 1..buf2[q][2] : buf2[q][1][i] = Len(out[q]) + i
      BY <3>2
    <3>6. Runs(data[q], Len(out[q]) + buf2[q][2], FALSE)
      BY <3>2, <3>3 DEF Runs
    <3>7. \A i \in 1..Len(out[q]) : i <= put[q] => out[q][i] = i
      BY <3>2, <3>3
    <3>8. Len(out[q]) + buf2[q][2] + Len(data[q]) = put[q]
      BY <3>2, <3>3
    <3> QED
      BY <3>4, <3>5, <3>6, <3>7, <3>8 DEF IsPrinted
  <2> QED
    BY <2>1, <2>2
<1>6. mode[q][1] = "r" => fbuf[q] = <<>> /\ \A s \in Streams : copy[s][q] \in {<<>>, Closed}
  BY DEF StreamInv, CopyInv
<1>7. mode[q][1] = "r" /\ pc[q] = "run" => wr[q] # {}
  BY DEF EndsInv, EndsOf
<1>8. ASSUME NEW m \in Modes, my_popen(m) PROVE IsPrinted(q)'
  <2>1. PICK c \in Streams :
          /\ mode[c][1] = "none" /\ mode' = [mode EXCEPT ![c] = m]
          /\ wr' = [r \in Streams |-> IF r = c THEN {0, c} ELSE IF 0 \in wr[r] THEN wr[r] \cup {c} ELSE wr[r]]
    BY <1>8 DEF my_popen, Unused
  <2>2. UNCHANGED <<out, data, buf2, put>>
    BY <1>8 DEF my_popen
  <2>3. mode[q][1] \in {"none", "r"}
    BY <1>1, <2>1 DEF ControlTypes
  <2>4. IsPrinted(q)
    BY <1>5, <2>3
  <2>5. CASE q = c
    <3>1. mode[q] = <<"none", "none">>
      BY <1>1, <2>1, <2>5 DEF ControlTypes, Modes
    <3>2. data[q] = <<>> /\ out[q] = <<>> /\ buf2[q][2] = 0 /\ put[q] = 0 /\ Len(<<>>) = 0
      BY <3>1 DEF StreamInv, IsBlank
    <3>3. Len(out[q]) + buf2[q][2] + Len(data[q]) = put[q]
      BY <3>2
    <3> QED
      BY <2>2, <2>4, <3>3 DEF IsPrinted
  <2>6. CASE q # c
    <3>1. wr[q] = {} => wr'[q] = {}
      BY <1>1, <2>1, <2>6 DEF ControlTypes
    <3> QED
      BY <2>2, <2>4, <3>1, PrintedKept
  <2> QED
    BY <2>5, <2>6
<1>9. CASE insert
  <2>1. UNCHANGED <<out, data, buf2, put, mode>>
    BY <1>9 DEF insert, pvars, tvars
  <2>2. IsPrinted(q)
    BY <1>5, <2>1
  <2>3. PICK r, w : Close(0, r, w)
    BY <1>9 DEF insert
  <2>4. wr'[q] \subseteq wr[q]
    BY <1>1, <2>3, ClosesMine
  <2> QED
    BY <2>1, <2>2, <2>4, PrintedKept
<1>10. CASE waitpid
  <2>1. UNCHANGED <<out, data, buf2, put, mode, wr>>
    BY <1>10 DEF waitpid, tvars, pvars, evars, fvars
  <2>2. IsPrinted(q)
    BY <1>5, <2>1
  <2> QED
    BY <2>1, <2>2, PrintedKept
<1>11. CASE WaitFails
  <2>1. UNCHANGED <<out, data, buf2, put, mode, wr>>
    BY <1>11 DEF WaitFails, tvars, pvars, evars, fvars
  <2>2. IsPrinted(q)
    BY <1>5, <2>1
  <2> QED
    BY <2>1, <2>2, PrintedKept
<1>12. CASE UserEnds
  <2>1. UNCHANGED <<out, data, buf2, put, mode>> /\ End(0)
    BY <1>12 DEF UserEnds, pvars, tvars
  <2>2. IsPrinted(q)
    BY <1>5, <2>1
  <2>3. wr'[q] = wr[q] \ {0}
    BY <1>1, <2>1, EndsMine, Sorts
  <2> QED
    BY <2>1, <2>2, <2>3, PrintedKept
<1>13. ASSUME NEW s \in Streams, Fwrite(s) PROVE IsPrinted(q)'
  <2>1. /\ UNCHANGED <<out, buf2, mode>> /\ mode[s][1] = "w" /\ (End(0) \/ UNCHANGED <<pc, wr>>)
        /\ put' = [put EXCEPT ![s] = @ + 1]
    BY <1>13 DEF Fwrite, evars
  <2>2. IsPrinted(q) /\ s # q
    BY <1>5, <2>1
  <2>3. End(0) => wr'[q] = wr[q] \ {0}
    BY <1>1, EndsMine, Sorts
  <2>4. data'[q] = data[q] /\ put'[q] = put[q]
    BY <1>13, <1>1, <2>1, <2>2 DEF Fwrite, Flush
  <2> QED
    BY <2>1, <2>2, <2>3, <2>4, PrintedKept
<1>14. ASSUME NEW s \in Streams, Fread(s) PROVE IsPrinted(q)'
  <2>1. UNCHANGED <<mode, put, wr>> /\ mode[q][1] = "r"
    BY <1>14 DEF Fread, evars
  <2>2. IsPrinted(q)
    BY <1>5, <2>1
  <2>3. CASE s # q
    <3>1. data'[q] = data[q] /\ out'[q] = out[q] /\ buf2'[q] = buf2[q]
      <4>1. PICK k \in 0..page, f \in [1..page -> Int] :
              \/ /\ out' = [out EXCEPT ![s] = @ \o f]
                 /\ buf2' = [buf2 EXCEPT ![s] = <<f, 0>>]
              \/ /\ buf2' = [buf2 EXCEPT ![s] = <<f, buf2[s][2] + k>>]
                 /\ out' = out
        BY <1>14, <1>1, <1>2, FreadOf
      <4>2. data' = [data EXCEPT ![s] = Rest(@, IF Len(data[s]) < page - buf2[s][2] THEN Len(data[s]) ELSE page - buf2[s][2])]
        BY <1>14 DEF Fread
      <4>3. data'[q] = data[q]
        BY <1>1, <2>3, <4>2
      <4> QED
        BY <1>1, <1>2, <2>3, <4>1, <4>3, Sorts
    <3> QED
      BY <2>1, <2>2, <3>1, PrintedKept
  <2>4. CASE s = q
    BY <1>14, <1>1, <1>2, <2>1, <2>2, <2>4, FreadPrinted
  <2> QED
    BY <2>3, <2>4
<1>15. ASSUME NEW s \in Streams, my_pclose(s) PROVE IsPrinted(q)'
  <2>1. /\ UNCHANGED <<out, buf2, mode, put>>
        /\ End(0) \/ Close(0, {s}, {s})
    BY <1>15 DEF my_pclose
  <2>2. IsPrinted(q)
    BY <1>5, <2>1
  <2>3. End(0) => wr'[q] = wr[q] \ {0}
    BY <1>1, EndsMine, Sorts
  <2>4. Close(0, {s}, {s}) => wr'[q] \subseteq wr[q]
    BY <1>1, ClosesMine
  <2>5. data'[q] = data[q]
    <3>1. CASE s = q
      <4>1. fbuf[q] = <<>> /\ data[q] \o <<>> = data[q]
        BY <1>4, <1>6, <2>1
      <4> QED
        BY <1>15, <1>1, <3>1, <4>1 DEF my_pclose, Flush
    <3>2. CASE s # q
      BY <1>15, <1>1, <3>2 DEF my_pclose, Flush
    <3> QED
      BY <3>1, <3>2
  <2> QED
    BY <2>1, <2>2, <2>3, <2>4, <2>5, PrintedKept
<1>16. ASSUME NEW s \in Streams, drop(s) PROVE IsPrinted(q)'
  <2>1. UNCHANGED <<out, buf2, mode, put>>
    BY <1>16 DEF drop
  <2>2. IsPrinted(q)
    BY <1>5, <2>1
  <2>3. PICK r \in Streams : drop(s)!2!(r)
    BY <1>16 DEF drop
  <2>4. wr'[q] \subseteq wr[q]
    <3>1. End(s) => wr'[q] = wr[q] \ {s}
      BY <1>1, EndsMine, Sorts
    <3>2. Close(s, {r}, {r}) => wr'[q] \subseteq wr[q]
      BY <1>1, ClosesMine
    <3> QED
      BY <2>3, <3>1, <3>2
  <2>5. data'[q] = data[q]
    <3>1. CASE r = q
      <4>1. copy[s][q] = <<>> /\ data[q] \o <<>> = data[q]
        BY <1>4, <1>6, <2>1, <2>3, <3>1
      <4> QED
        BY <1>1, <2>3, <3>1, <4>1 DEF Flush
    <3>2. CASE r # q
      BY <1>1, <2>3, <3>2 DEF Flush
    <3> QED
      BY <3>1, <3>2
  <2> QED
    BY <2>1, <2>2, <2>4, <2>5, PrintedKept
<1>17. ASSUME NEW s \in Streams, execl(s) PROVE IsPrinted(q)'
  <2>1. UNCHANGED <<out, data, buf2, put, mode>>
    BY <1>17 DEF execl, pvars, tvars
  <2>2. IsPrinted(q)
    BY <1>5, <2>1
  <2>3. PICK r, w : Close(s, r, w)
    BY <1>17 DEF execl
  <2>4. wr'[q] \subseteq wr[q]
    BY <1>1, <2>3, ClosesMine
  <2> QED
    BY <2>1, <2>2, <2>4, PrintedKept
<1>18. ASSUME NEW s \in Streams, Command(s) PROVE IsPrinted(q)'
  <2>1. UNCHANGED <<out, buf2, mode>> /\ pc[s] = "run"
    BY <1>18 DEF Command
  <2>2. IsPrinted(q)
    BY <1>5, <2>1
  <2>3. End(s) => wr'[q] = wr[q] \ {s}
    BY <1>1, EndsMine, Sorts
  <2>4. CASE UNCHANGED <<data, put>>
    <3>1. wr'[q] \subseteq wr[q]
      BY <1>18, <2>3, CommandDoes DEF evars
    <3> QED
      BY <2>1, <2>2, <2>4, <3>1, PrintedKept
  <2>5. CASE s # q
    <3>1. Flush(s, <<put[s] + 1>>) => data'[q] = data[q]
      BY <1>1, <2>5 DEF Flush
    <3>2. data'[q] = data[q] /\ put'[q] = put[q] /\ wr'[q] \subseteq wr[q]
      BY <1>18, <1>1, <2>3, <2>5, <3>1, CommandDoes DEF evars
    <3> QED
      BY <2>1, <2>2, <3>2, PrintedKept
  <2>6. CASE s = q /\ ~UNCHANGED <<data, put>>
    <3>1. mode[q] # <<"w", "all">>
      BY <2>1
    <3>2. /\ put[q] < Items /\ Flush(q, <<put[q] + 1>>) /\ put' = [put EXCEPT ![q] = @ + 1] /\ wr' = wr
      BY <1>18, <2>6, <3>1, CommandDoes DEF evars
    <3>3. PICK x \in Seq(Int) : x = <<put[q] + 1>> /\ Len(x) = 1 /\ x[1] = put[q] + 1
      <4>1. put[q] + 1 \in Int
        BY <1>4, <1>2
      <4> QED
        BY <1>4, <4>1, Ends
    <3>4. data'[q] = data[q] \o x /\ put'[q] = put[q] + 1
      BY <1>1, <3>2, <3>3 DEF Flush
    <3>5. Len(out[q]) + buf2[q][2] + Len(data[q]) = put[q]
      BY <1>7, <2>1, <2>2, <2>6 DEF IsPrinted
    <3>6. PICK n \in Nat, k \in Nat : n = Len(out[q]) + buf2[q][2] /\ k = n + Len(data[q])
      BY SMTT(40), <1>1, <1>2, <1>4
    <3>7. Runs(x, k, FALSE)
      BY <3>3, <3>5, <3>6 DEF Runs
    <3>8. Runs(data[q] \o x, n, FALSE)
      BY <1>4, <2>2, <3>3, <3>6, <3>7, RunsJoined DEF IsPrinted
    <3>9. Len(data[q] \o x) = Len(data[q]) + 1
      BY <1>4, <3>3, Joined
    <3>10. Len(out[q]) + buf2[q][2] + Len(data'[q]) = put'[q]
      <4>1. Len(data'[q]) = Len(data[q]) + 1
        BY <3>4, <3>9
      <4> QED
        BY SMTT(40), <1>1, <1>2, <1>4, <3>4, <3>5, <4>1
    <3>11. \A i \in 1..Len(out[q]) : i <= put[q] + 1 => out[q][i] = i
      <4>1. Len(out[q]) <= put[q]
        BY SMTT(40), <1>1, <1>2, <1>4, <3>5
      <4>2. \A i \in 1..Len(out[q]) : i <= put[q]
        BY <1>1, <1>2, <1>4, <4>1
      <4> QED
        BY <2>2, <4>2 DEF IsPrinted
    <3> QED
      BY <2>1, <2>2, <3>4, <3>6, <3>8, <3>10, <3>11 DEF IsPrinted
  <2> QED
    BY <2>4, <2>5, <2>6
<1>19. CASE WaitInterrupted
  <2>1. UNCHANGED <<out, data, buf2, put, mode, wr>>
    BY <1>19 DEF WaitInterrupted, tvars, pvars, evars, fvars
  <2>2. IsPrinted(q)
    BY <1>5, <2>1
  <2> QED
    BY <2>1, <2>2, PrintedKept
<1>20. ASSUME NEW m \in Modes, PopenForkFails(m) PROVE IsPrinted(q)'
  <2>1. PICK c \in Streams :
          /\ mode[c][1] = "none" /\ mode' = [mode EXCEPT ![c] = m]
          /\ wr' = [wr EXCEPT ![c] = {0}]
    BY <1>20 DEF PopenForkFails, Unused
  <2>2. UNCHANGED <<out, data, buf2, put>>
    BY <1>20 DEF PopenForkFails
  <2>3. mode[q][1] \in {"none", "r"}
    BY <1>1, <2>1 DEF ControlTypes
  <2>4. IsPrinted(q)
    BY <1>5, <2>3
  <2>5. CASE q = c
    <3>1. mode[q] = <<"none", "none">>
      BY <1>1, <2>1, <2>5 DEF ControlTypes, Modes
    <3>2. data[q] = <<>> /\ out[q] = <<>> /\ buf2[q][2] = 0 /\ put[q] = 0 /\ Len(<<>>) = 0
      BY <3>1 DEF StreamInv, IsBlank
    <3>3. Len(out[q]) + buf2[q][2] + Len(data[q]) = put[q]
      BY <3>2
    <3> QED
      BY <2>2, <2>4, <3>3 DEF IsPrinted
  <2>6. CASE q # c
    <3>1. wr[q] = {} => wr'[q] = {}
      BY <1>1, <2>1, <2>6 DEF ControlTypes
    <3> QED
      BY <2>2, <2>4, <3>1, PrintedKept
  <2> QED
    BY <2>5, <2>6
<1> QED
  BY <1>8, <1>9, <1>10, <1>11, <1>12, <1>13, <1>14, <1>15, <1>16, <1>17, <1>18, <1>19,
     <1>20 DEF Part2, User

(* The same, for all streams to read from.                                  *)
LEMMA ReadStep ==
    ASSUME Types, PlaceInv, StreamInv, CopyInv, EndsInv, ReadInv, [Next]_vars
    PROVE  ReadInv'
<1> SUFFICES ASSUME prog' = "popen", NEW q \in Streams, mode'[q][1] = "r"
             PROVE  IsPrinted(q)'
  BY DEF ReadInv
<1>1. prog = "popen" /\ page' = page /\ (Part2 \/ UNCHANGED vars)
  BY Parts DEF Types
<1>2. CASE UNCHANGED vars
  BY <1>1, <1>2 DEF vars, pvars, evars, ReadInv, IsPrinted
<1> QED
  BY <1>1, <1>2, PrintedStep

(***************************************************************************)
(* Part 1: items move on, in order.                                        *)
(***************************************************************************)

(* A block that is read follows what has been read.                        *)
LEMMA BlockOf ==
    ASSUME NEW n \in Nat, NEW k \in Nat
    PROVE  /\ [i \in 1..k |-> n + i] \in Seq(Int) /\ Len([i \in 1..k |-> n + i]) = k
           /\ Runs([i \in 1..k |-> n + i], n, FALSE)
<1>1. [i \in 1..k |-> n + i] \in Seq(Int) /\ Len([i \in 1..k |-> n + i]) = k
  OBVIOUS
<1>2. \A j \in 1..k : [i \in 1..k |-> n + i][j] = n + j
  OBVIOUS
<1> QED
  BY <1>1, <1>2 DEF Runs

(* The capitals of the first items of a run are a run of capitals.          *)
LEMMA CapitalsOf ==
    ASSUME NEW s \in Seq(Int), NEW k \in 0..Len(s), NEW n \in Nat, Runs(s, n, FALSE)
    PROVE  /\ [i \in 1..k |-> -s[i]] \in Seq(Int) /\ Len([i \in 1..k |-> -s[i]]) = k
           /\ Runs([i \in 1..k |-> -s[i]], n, TRUE)
<1>1. Len(s) \in Nat /\ k \in Nat
  OBVIOUS
<1>2. \A i \in 1..k : i \in 1..Len(s) /\ s[i] \in Int /\ s[i] = n + i
  BY <1>1 DEF Runs
<1>3. [i \in 1..k |-> -s[i]] \in [1..k -> Int]
  BY <1>2
<1>4. [i \in 1..k |-> -s[i]] \in Seq(Int) /\ Len([i \in 1..k |-> -s[i]]) = k
  BY <1>1, <1>3
<1>5. \A j \in 1..k : [i \in 1..k |-> -s[i]][j] = -(n + j)
  BY <1>2
<1> QED
  BY <1>4, <1>5 DEF Runs

(* Where an item may go: from each place to the one before it.              *)
LEMMA Moves ==
    ASSUME NEW a \in Seq(Int), NEW b \in Seq(Int), NEW c \in Seq(Int), NEW d \in Seq(Int),
           NEW e \in Seq(Int), NEW n, InOrder(a, b, c, d, e, n), NEW k \in Nat
    PROVE  /\ e = <<>> => InOrder(a, b, c, d, [i \in 1..k |-> n + i], n + k)
           /\ k <= Len(e) => InOrder(a, b, c, d \o Take(e, k), Rest(e, k), n)
           /\ c = <<>> /\ k <= Len(d) => InOrder(a, b, [i \in 1..k |-> -d[i]], Rest(d, k), e, n)
           /\ k <= Len(c) => InOrder(a, b \o Take(c, k), Rest(c, k), d, e, n)
           /\ k <= Len(b) => InOrder(a \o Take(b, k), Rest(b, k), c, d, e, n)
<1>1. /\ Len(a) \in Nat /\ Len(b) \in Nat /\ Len(c) \in Nat /\ Len(d) \in Nat /\ Len(e) \in Nat
      /\ Len(<<>>) = 0
  OBVIOUS
<1>2. PICK la \in Nat, lb \in Nat, lc \in Nat, ld \in Nat, le \in Nat :
        la = Len(a) /\ lb = Len(b) /\ lc = Len(c) /\ ld = Len(d) /\ le = Len(e)
  BY <1>1
<1>3. PICK ob \in Nat, oc \in Nat, od \in Nat : ob = la + lb /\ oc = ob + lc /\ od = oc + ld
  <2>1. la + lb \in Nat /\ (la + lb) + lc \in Nat /\ ((la + lb) + lc) + ld \in Nat
    BY <1>2
  <2> QED
    BY <2>1
<1>4. /\ Runs(a, 0, TRUE) /\ Runs(b, la, TRUE) /\ Runs(c, ob, TRUE) /\ Runs(d, oc, FALSE)
      /\ Runs(e, od, FALSE) /\ n = od + le
  BY <1>2, <1>3 DEF InOrder
<1>5. ASSUME e = <<>> PROVE InOrder(a, b, c, d, [i \in 1..k |-> n + i], n + k)
  <2>1. n \in Nat /\ n = od
    BY <1>1, <1>2, <1>3, <1>4, <1>5
  <2>2. PICK f \in Seq(Int) : f = [i \in 1..k |-> n + i] /\ Len(f) = k /\ Runs(f, n, FALSE)
    BY <2>1, BlockOf
  <2>3. InOrder(a, b, c, d, f, n + k)
    BY <1>2, <1>3, <1>4, <2>1, <2>2 DEF InOrder
  <2> QED
    BY <2>2, <2>3
<1>6. ASSUME k <= Len(e) PROVE InOrder(a, b, c, d \o Take(e, k), Rest(e, k), n)
  <2>1. k \in 0..Len(e) /\ k \in 0..le
    BY <1>1, <1>2, <1>6
  <2>2. /\ Take(e, k) \in Seq(Int) /\ Len(Take(e, k)) = k
        /\ Rest(e, k) \in Seq(Int) /\ Len(Rest(e, k)) = le - k
    BY <1>2, <2>1, Cut
  <2>3. PICK m \in Nat : m = od + k
    BY <1>2, <1>3
  <2>4. Runs(Take(e, k), od, FALSE) /\ Runs(Rest(e, k), m, FALSE)
    BY <1>3, <1>4, <2>1, <2>3, RunsCut
  <2>5. Runs(d \o Take(e, k), oc, FALSE) /\ Len(d \o Take(e, k)) = ld + k
    <3>1. od = oc + Len(d)
      BY <1>2, <1>3
    <3>2. Runs(d, oc, FALSE) /\ Runs(Take(e, k), od, FALSE)
      BY <1>4, <2>4
    <3>3. Len(d \o Take(e, k)) = Len(d) + k
      BY <2>2, Joined
    <3> QED
      BY <1>2, <1>3, <2>2, <3>1, <3>2, <3>3, RunsJoined
  <2>6. m = la + lb + lc + (ld + k) /\ n = la + lb + lc + (ld + k) + (le - k)
    BY <1>2, <1>3, <1>4, <2>1, <2>3
  <2> QED
    BY <1>2, <1>3, <1>4, <2>2, <2>4, <2>5, <2>6 DEF InOrder
<1>7. ASSUME c = <<>>, k <= Len(d) PROVE InOrder(a, b, [i \in 1..k |-> -d[i]], Rest(d, k), e, n)
  <2>1. k \in 0..Len(d) /\ k \in 0..ld /\ oc = ob
    BY <1>1, <1>2, <1>3, <1>7
  <2>2. Rest(d, k) \in Seq(Int) /\ Len(Rest(d, k)) = ld - k
    BY <1>2, <2>1, Cut
  <2>3. PICK m \in Nat : m = oc + k
    BY <1>2, <1>3
  <2>4. Runs(Rest(d, k), m, FALSE)
    BY <1>3, <1>4, <2>1, <2>3, RunsCut
  <2>5. PICK f \in Seq(Int) : f = [i \in 1..k |-> -d[i]] /\ Len(f) = k /\ Runs(f, ob, TRUE)
    BY ZenonT(40), <1>3, <1>4, <2>1, CapitalsOf
  <2>6. m = la + lb + k /\ od = la + lb + k + (ld - k) /\ n = la + lb + k + (ld - k) + le
    <3>1. n = od + le
      BY <1>4
    <3>2. ob = la + lb /\ od = ob + ld /\ m = ob + k
      BY <1>3, <2>1, <2>3
    <3>3. ob + k = la + lb + k /\ ob + ld = la + lb + k + (ld - k)
      BY <1>2, <1>3, <3>2
    <3>4. od + le = la + lb + k + (ld - k) + le
      BY <1>2, <1>3, <3>2, <3>3
    <3> QED
      BY <3>1, <3>2, <3>3, <3>4
  <2>7. InOrder(a, b, f, Rest(d, k), e, n)
    BY <1>2, <1>3, <1>4, <2>2, <2>4, <2>5, <2>6 DEF InOrder
  <2> QED
    BY <2>5, <2>7
<1>8. ASSUME k <= Len(c) PROVE InOrder(a, b \o Take(c, k), Rest(c, k), d, e, n)
  <2>1. k \in 0..Len(c) /\ k \in 0..lc
    BY <1>1, <1>2, <1>8
  <2>2. /\ Take(c, k) \in Seq(Int) /\ Len(Take(c, k)) = k
        /\ Rest(c, k) \in Seq(Int) /\ Len(Rest(c, k)) = lc - k
    BY <1>2, <2>1, Cut
  <2>3. PICK m \in Nat : m = ob + k
    BY <1>2, <1>3
  <2>4. Runs(Take(c, k), ob, TRUE) /\ Runs(Rest(c, k), m, TRUE)
    BY <1>3, <1>4, <2>1, <2>3, RunsCut
  <2>5. Runs(b \o Take(c, k), la, TRUE) /\ Len(b \o Take(c, k)) = lb + k
    <3>1. ob = la + Len(b)
      BY <1>2, <1>3
    <3>2. Runs(b, la, TRUE) /\ Runs(Take(c, k), ob, TRUE)
      BY <1>4, <2>4
    <3>3. Len(b \o Take(c, k)) = Len(b) + k
      BY <2>2, Joined
    <3> QED
      BY <1>2, <1>3, <2>2, <3>1, <3>2, <3>3, RunsJoined
  <2>6. /\ m = la + (lb + k) /\ oc = la + (lb + k) + (lc - k)
        /\ od = la + (lb + k) + (lc - k) + ld /\ n = la + (lb + k) + (lc - k) + ld + le
    BY <1>2, <1>3, <1>4, <2>1, <2>3
  <2> QED
    BY <1>2, <1>3, <1>4, <2>2, <2>4, <2>5, <2>6 DEF InOrder
<1>9. ASSUME k <= Len(b) PROVE InOrder(a \o Take(b, k), Rest(b, k), c, d, e, n)
  <2>1. k \in 0..Len(b) /\ k \in 0..lb
    BY <1>1, <1>2, <1>9
  <2>2. /\ Take(b, k) \in Seq(Int) /\ Len(Take(b, k)) = k
        /\ Rest(b, k) \in Seq(Int) /\ Len(Rest(b, k)) = lb - k
    BY <1>2, <2>1, Cut
  <2>3. PICK m \in Nat : m = la + k
    BY <1>2
  <2>4. Runs(Take(b, k), la, TRUE) /\ Runs(Rest(b, k), m, TRUE)
    BY <1>2, <1>4, <2>1, <2>3, RunsCut
  <2>5. Runs(a \o Take(b, k), 0, TRUE) /\ Len(a \o Take(b, k)) = la + k
    <3>1. la = 0 + Len(a)
      BY <1>2
    <3>2. Runs(a, 0, TRUE) /\ Runs(Take(b, k), la, TRUE)
      BY <1>4, <2>4
    <3>3. Len(a \o Take(b, k)) = Len(a) + k
      BY <2>2, Joined
    <3> QED
      BY <1>2, <2>2, <3>1, <3>2, <3>3, RunsJoined
  <2>6. /\ m = la + k /\ ob = (la + k) + (lb - k) /\ oc = (la + k) + (lb - k) + lc
        /\ od = (la + k) + (lb - k) + lc + ld /\ n = (la + k) + (lb - k) + lc + ld + le
    BY <1>2, <1>3, <1>4, <2>1, <2>3
  <2> QED
    BY <1>2, <1>3, <1>4, <2>2, <2>4, <2>5, <2>6 DEF InOrder
<1> QED
  BY <1>5, <1>6, <1>7, <1>8, <1>9

(* Each step of part 1 moves items on in order.                             *)
LEMMA OrderStep ==
    ASSUME Types, PlaceInv, OrderInv, [Next]_vars
    PROVE  OrderInv'
<1> SUFFICES ASSUME prog' = "toupper" PROVE OrderInv'
  BY DEF OrderInv
<1>1. prog = "toupper" /\ (Part1 \/ UNCHANGED vars)
  BY Parts DEF Types
<1>2. CASE UNCHANGED vars
  BY <1>2 DEF OrderInv, vars, tvars
<1>3. /\ ControlTypes /\ data \in [Streams -> Seq(Int)] /\ got \in [Procs -> Seq(Int)]
      /\ out \in [Procs -> Seq(Int)] /\ buf \in [Procs -> Seq(Int)]
  BY DEF Types, ControlTypes, Pcs
<1>4. 0 \in Procs /\ 1 \in Procs /\ 1 \in Streams /\ 2 \in Streams /\ 1 # 2
  BY Sorts
<1>5. PICK a \in Seq(Int), b \in Seq(Int), c \in Seq(Int), d \in Seq(Int), e \in Seq(Int), g \in Seq(Int) :
        a = out[0] /\ b = data[2] /\ c = buf[1] /\ d = data[1] /\ e = buf[0] /\ g = got[0]
  BY <1>3, <1>4
<1>6. /\ InOrder(a, b, c, d, e, Len(g))
      /\ pc[0] \in {"fork", "close", "read", "answer"} => e = <<>>
      /\ pc[1] \in {"none", "close", "read"} => c = <<>>
  BY <1>1, <1>5 DEF OrderInv
<1>7. \A x \in Seq(Int) : Rest(x, Len(x)) = <<>>
  BY DEF Rest
<1>8. CASE main
  <2>1. UNCHANGED <<data, got, out, buf>>
    BY <1>8 DEF main, tvars
  <2>2. /\ pc'[0] \in {"fork", "close", "read", "answer"} => pc[0] \in {"fork", "close", "read", "answer"}
        /\ pc'[1] \in {"none", "close", "read"} => pc[1] \in {"none", "close", "read"}
    BY <1>8, <1>1, <1>3, <1>4 DEF PlaceInv, main, ControlTypes, Pcs
  <2> QED
    BY <1>5, <1>6, <2>1, <2>2 DEF OrderInv
<1>9. CASE CloseEnds(0)
  <2>1. UNCHANGED <<data, got, out, buf>>
    BY <1>9 DEF CloseEnds, Goto, tvars
  <2>2. /\ pc'[0] \in {"fork", "close", "read", "answer"} => pc[0] \in {"fork", "close", "read", "answer"}
        /\ pc'[1] \in {"none", "close", "read"} => pc[1] \in {"none", "close", "read"}
    BY <1>9, <1>3, <1>4 DEF CloseEnds, Goto, ControlTypes, Pcs
  <2> QED
    BY <1>5, <1>6, <2>1, <2>2 DEF OrderInv
<1>10. CASE CloseEnds(1)
  <2>1. UNCHANGED <<data, got, out, buf>>
    BY <1>10 DEF CloseEnds, Goto, tvars
  <2>2. /\ pc'[0] \in {"fork", "close", "read", "answer"} => pc[0] \in {"fork", "close", "read", "answer"}
        /\ pc'[1] \in {"none", "close", "read"} => pc[1] \in {"none", "close", "read"}
    BY <1>10, <1>3, <1>4 DEF CloseEnds, Goto, ControlTypes, Pcs
  <2> QED
    BY <1>5, <1>6, <2>1, <2>2 DEF OrderInv
<1>11. CASE ReadInput
  <2>1. UNCHANGED <<data, out>>
    BY <1>11 DEF ReadInput
  <2>2. CASE Len(got[0]) = Items
    <3>1. UNCHANGED <<got, buf>> /\ pc' = [pc EXCEPT ![0] = "zombie"]
      BY <1>11, <2>2 DEF ReadInput, End, tvars
    <3>2. pc'[0] = "zombie" /\ pc'[1] = pc[1]
      BY <1>3, <1>4, <3>1 DEF ControlTypes
    <3> QED
      BY <1>5, <1>6, <2>1, <3>1, <3>2 DEF OrderInv
  <2>3. CASE Len(got[0]) # Items
    <3>1. PICK k \in 1..page :
            /\ pc[0] = "read" /\ pc' = [pc EXCEPT ![0] = "write"]
            /\ got' = [got EXCEPT ![0] = @ \o [i \in 1..k |-> Len(got[0]) + i]]
            /\ buf' = [buf EXCEPT ![0] = [i \in 1..k |-> Len(got[0]) + i]]
      BY <1>11, <2>3 DEF ReadInput, Goto
    <3>2. k \in Nat /\ Len(g) \in Nat
      <4>1. page \in Nat
        BY PipesAssumption DEF Types
      <4> QED
        BY <4>1
    <3>3. PICK f \in Seq(Int) : f = [i \in 1..k |-> Len(g) + i] /\ Len(f) = k
      BY <3>2, BlockOf
    <3>4. InOrder(a, b, c, d, f, Len(g) + k)
      BY <1>6, <3>1, <3>2, <3>3, Moves
    <3>5. Len(g \o f) = Len(g) + k
      BY <3>3, Joined
    <3>6. got'[0] = g \o f /\ buf'[0] = f /\ buf'[1] = c /\ pc'[0] = "write" /\ pc'[1] = pc[1]
      BY <1>3, <1>4, <1>5, <3>1, <3>3 DEF ControlTypes
    <3>7. InOrder(out[0], data[2], buf[1], data[1], buf[0], Len(got[0]))'
      BY <1>5, <2>1, <3>4, <3>5, <3>6
    <3> QED
      BY <1>6, <3>6, <3>7 DEF OrderInv
  <2> QED
    BY <2>2, <2>3
<1>12. CASE Write(0, 1, "answer")
  <2>1. UNCHANGED <<got, out>>
    BY <1>12 DEF Write
  <2>2. CASE rd[1] = {}
    <3>1. UNCHANGED <<data, buf>> /\ pc' = [pc EXCEPT ![0] = "zombie"]
      BY <1>12, <2>2 DEF Write, End
    <3>2. pc'[0] = "zombie" /\ pc'[1] = pc[1]
      BY <1>3, <1>4, <3>1 DEF ControlTypes
    <3> QED
      BY <1>5, <1>6, <2>1, <3>1, <3>2 DEF OrderInv
  <2>3. CASE rd[1] # {}
    <3>1. PICK k \in 1..Len(buf[0]) :
            /\ data' = [data EXCEPT ![1] = @ \o Take(buf[0], k)]
            /\ buf' = [buf EXCEPT ![0] = Rest(@, k)]
            /\ pc' = [pc EXCEPT ![0] = IF k = Len(buf[0]) THEN "answer" ELSE "write"]
      BY <1>12, <2>3 DEF Write, Goto
    <3>2. k \in Nat /\ k <= Len(e)
      BY <1>5
    <3>3. InOrder(a, b, c, d \o Take(e, k), Rest(e, k), Len(g))
      BY <1>6, <3>2, Moves
    <3>4. /\ data'[1] = d \o Take(e, k) /\ data'[2] = data[2]
          /\ buf'[0] = Rest(e, k) /\ buf'[1] = buf[1] /\ pc'[1] = pc[1]
          /\ pc'[0] = IF k = Len(e) THEN "answer" ELSE "write"
      BY <1>3, <1>4, <1>5, <3>1 DEF ControlTypes
    <3>5. pc'[0] # "write" => buf'[0] = <<>>
      BY <1>7, <3>4
    <3>6. InOrder(out[0], data[2], buf[1], data[1], buf[0], Len(got[0]))'
      BY <1>5, <2>1, <3>3, <3>4
    <3>7. pc'[1] \in {"none", "close", "read"} => buf'[1] = <<>>
      BY <1>5, <1>6, <3>4
    <3> QED
      BY <3>5, <3>6, <3>7 DEF OrderInv
  <2> QED
    BY <2>2, <2>3
<1>13. CASE Write(1, 2, "read")
  <2>1. UNCHANGED <<got, out>>
    BY <1>13 DEF Write
  <2>2. CASE rd[2] = {}
    <3>1. UNCHANGED <<data, buf>> /\ pc' = [pc EXCEPT ![1] = "zombie"]
      BY <1>13, <2>2 DEF Write, End
    <3>2. pc'[1] = "zombie" /\ pc'[0] = pc[0]
      BY <1>3, <1>4, <3>1 DEF ControlTypes
    <3> QED
      BY <1>5, <1>6, <2>1, <3>1, <3>2 DEF OrderInv
  <2>3. CASE rd[2] # {}
    <3>1. PICK k \in 1..Len(buf[1]) :
            /\ data' = [data EXCEPT ![2] = @ \o Take(buf[1], k)]
            /\ buf' = [buf EXCEPT ![1] = Rest(@, k)]
            /\ pc' = [pc EXCEPT ![1] = IF k = Len(buf[1]) THEN "read" ELSE "write"]
      BY <1>13, <2>3 DEF Write, Goto
    <3>2. k \in Nat /\ k <= Len(c)
      BY <1>5
    <3>3. InOrder(a, b \o Take(c, k), Rest(c, k), d, e, Len(g))
      BY <1>6, <3>2, Moves
    <3>4. /\ data'[2] = b \o Take(c, k) /\ data'[1] = data[1]
          /\ buf'[1] = Rest(c, k) /\ buf'[0] = buf[0] /\ pc'[0] = pc[0]
          /\ pc'[1] = IF k = Len(c) THEN "read" ELSE "write"
      BY <1>3, <1>4, <1>5, <3>1 DEF ControlTypes
    <3>5. pc'[1] # "write" => buf'[1] = <<>>
      BY <1>7, <3>4
    <3>6. InOrder(out[0], data[2], buf[1], data[1], buf[0], Len(got[0]))'
      BY <1>5, <2>1, <3>3, <3>4
    <3>7. pc'[0] \in {"fork", "close", "read", "answer"} => buf'[0] = <<>>
      BY <1>5, <1>6, <3>4
    <3> QED
      BY <3>5, <3>6, <3>7 DEF OrderInv
  <2> QED
    BY <2>2, <2>3
<1>14. CASE ReadAnswer
  <2>1. PICK k : /\ k = IF Len(data[2]) < page THEN Len(data[2]) ELSE page
              /\ data' = [data EXCEPT ![2] = Rest(@, k)]
              /\ out' = [out EXCEPT ![0] = @ \o Take(data[2], k)]
    BY <1>14 DEF ReadAnswer
  <2>2. UNCHANGED <<got, buf>> /\ pc[0] = "answer" /\ pc' = [pc EXCEPT ![0] = "read"]
    BY <1>14 DEF ReadAnswer, Goto, tvars
  <2>3. k \in Nat /\ k <= Len(b)
    <3>1. page \in Nat /\ Len(b) \in Nat
      BY PipesAssumption DEF Types
    <3> QED
      BY <1>5, <2>1, <3>1
  <2>4. InOrder(a \o Take(b, k), Rest(b, k), c, d, e, Len(g))
    BY <1>6, <2>3, Moves
  <2>5. out'[0] = a \o Take(b, k) /\ data'[2] = Rest(b, k) /\ data'[1] = d /\ pc'[1] = pc[1]
    BY <1>3, <1>4, <1>5, <2>1, <2>2 DEF ControlTypes
  <2>6. InOrder(out[0], data[2], buf[1], data[1], buf[0], Len(got[0]))'
    BY <1>5, <2>2, <2>4, <2>5
  <2> QED
    BY <1>5, <1>6, <2>2, <2>5, <2>6 DEF OrderInv
<1>15. CASE child
  <2>1. PICK k : /\ k = IF Len(data[1]) < page THEN Len(data[1]) ELSE page
              /\ pc[1] = "read"
              /\ \/ /\ k > 0 /\ pc' = [pc EXCEPT ![1] = "write"]
                    /\ data' = [data EXCEPT ![1] = Rest(@, k)]
                    /\ buf' = [buf EXCEPT ![1] = [i \in 1..k |-> -data[1][i]]]
                 \/ pc' = [pc EXCEPT ![1] = "zombie"] /\ UNCHANGED <<data, buf>>
    BY <1>15 DEF child, Goto, End, tvars
  <2>2. UNCHANGED <<got, out>>
    BY <1>15 DEF child
  <2>3. k \in Nat /\ k <= Len(d)
    <3>1. page \in Nat /\ Len(d) \in Nat
      BY PipesAssumption DEF Types
    <3> QED
      BY <1>5, <2>1, <3>1
  <2>4. pc'[0] = pc[0] /\ pc'[1] \in {"write", "zombie"}
    BY <1>3, <1>4, <2>1 DEF ControlTypes
  <2>5. CASE UNCHANGED <<data, buf>>
    BY <1>5, <1>6, <2>2, <2>4, <2>5 DEF OrderInv
  <2>6. CASE /\ data' = [data EXCEPT ![1] = Rest(@, k)]
             /\ buf' = [buf EXCEPT ![1] = [i \in 1..k |-> -data[1][i]]]
    <3>1. InOrder(a, b, [i \in 1..k |-> -d[i]], Rest(d, k), e, Len(g))
      BY <1>6, <2>1, <2>3, Moves
    <3>2. data'[1] = Rest(d, k) /\ data'[2] = b /\ buf'[1] = [i \in 1..k |-> -d[i]] /\ buf'[0] = e
      BY <1>3, <1>4, <1>5, <2>6
    <3>3. InOrder(out[0], data[2], buf[1], data[1], buf[0], Len(got[0]))'
      BY <1>5, <2>2, <3>1, <3>2
    <3> QED
      BY <1>5, <1>6, <2>4, <3>2, <3>3 DEF OrderInv
  <2> QED
    BY <2>1, <2>5, <2>6
<1>16. CASE MainForkFails
  <2>1. UNCHANGED <<data, got, out, buf>>
    BY <1>16 DEF MainForkFails, Goto, tvars
  <2>2. /\ pc'[0] \in {"fork", "close", "read", "answer"} => pc[0] \in {"fork", "close", "read", "answer"}
        /\ pc'[1] \in {"none", "close", "read"} => pc[1] \in {"none", "close", "read"}
    BY <1>16, <1>3, <1>4 DEF MainForkFails, Goto, ControlTypes, Pcs
  <2> QED
    BY <1>5, <1>6, <2>1, <2>2 DEF OrderInv
<1>17. CASE ReadInputFails
  <2>1. UNCHANGED <<data, got, out, buf>>
    BY <1>17 DEF ReadInputFails, End, tvars
  <2>2. /\ pc'[0] \in {"fork", "close", "read", "answer"} => pc[0] \in {"fork", "close", "read", "answer"}
        /\ pc'[1] \in {"none", "close", "read"} => pc[1] \in {"none", "close", "read"}
    BY <1>17, <1>3, <1>4 DEF ReadInputFails, End, ControlTypes, Pcs
  <2> QED
    BY <1>5, <1>6, <2>1, <2>2 DEF OrderInv
<1>18. CASE ChildKilled
  <2>1. UNCHANGED <<data, got, out, buf>>
    BY <1>18 DEF ChildKilled, End, tvars
  <2>2. /\ pc'[0] \in {"fork", "close", "read", "answer"} => pc[0] \in {"fork", "close", "read", "answer"}
        /\ pc'[1] \in {"none", "close", "read"} => pc[1] \in {"none", "close", "read"}
    BY <1>18, <1>3, <1>4 DEF ChildKilled, End, ControlTypes, Pcs
  <2> QED
    BY <1>5, <1>6, <2>1, <2>2 DEF OrderInv
<1> QED
  BY <1>1, <1>2, <1>8, <1>9, <1>10, <1>11, <1>12, <1>13, <1>14, <1>15, <1>16, <1>17,
     <1>18 DEF Part1, Parent, Child

(* Nothing that has gone wrong is forgotten.                                *)
LEMMA HurtGrows ==
    ASSUME Part1
    PROVE  hurt \subseteq hurt'
<1>1. CASE main
  BY <1>1 DEF main, fvars
<1>2. CASE CloseEnds(0)
  BY <1>2 DEF CloseEnds, fvars
<1>3. CASE CloseEnds(1)
  BY <1>3 DEF CloseEnds, fvars
<1>4. CASE ReadInput
  BY <1>4 DEF ReadInput, fvars
<1>5. CASE Write(0, 1, "answer")
  BY <1>5 DEF Write, fvars
<1>6. CASE Write(1, 2, "read")
  BY <1>6 DEF Write, fvars
<1>7. CASE ReadAnswer
  BY <1>7 DEF ReadAnswer, fvars
<1>8. CASE child
  BY <1>8 DEF child, fvars
<1>9. CASE MainForkFails
  BY <1>9 DEF MainForkFails, Fault
<1>10. CASE ReadInputFails
  BY <1>10 DEF ReadInputFails, Fault
<1>11. CASE ChildKilled
  BY <1>11 DEF ChildKilled, Fault
<1> QED
  BY <1>1, <1>2, <1>3, <1>4, <1>5, <1>6, <1>7, <1>8, <1>9, <1>10, <1>11 DEF Part1, Parent, Child

(* Each step of part 1 leaves the block at one place.                       *)
LEMMA BlockStep ==
    ASSUME Types, PlaceInv, BlockInv, [Next]_vars
    PROVE  BlockInv'
<1> SUFFICES ASSUME prog' = "toupper", Whole' PROVE BlockInv'
  BY DEF BlockInv
<1>1. prog = "toupper" /\ page' = page /\ (Part1 \/ UNCHANGED vars)
  BY Parts DEF Types
<1>2. CASE UNCHANGED vars
  BY <1>2 DEF BlockInv, Whole, Linked, OnePlace, vars, tvars, evars, fvars
<1>3. /\ ControlTypes /\ data \in [Streams -> Seq(Int)] /\ buf \in [Procs -> Seq(Int)]
      /\ len \in [Procs -> 0..page]
  BY DEF Types, ControlTypes, Pcs
<1>4. 0 \in Procs /\ 1 \in Procs /\ 1 \in Streams /\ 2 \in Streams /\ 1 # 2 /\ 0 # 1 /\ 0 # 2
  BY Sorts
<1>5. PICK b \in Seq(Int), c \in Seq(Int), d \in Seq(Int), e \in Seq(Int) :
        b = data[2] /\ c = buf[1] /\ d = data[1] /\ e = buf[0]
  BY <1>3, <1>4
<1>6. Part1 => Whole
  BY <1>1, HurtGrows DEF Whole
<1>7. Part1 => /\ pc[0] \in {"close", "read", "write", "answer"} => Linked
               /\ pc[0] = "write" => len[0] = Len(e)
               /\ pc[1] = "write" => len[1] = Len(c)
               /\ OnePlace(b, c, d, e)
  BY <1>1, <1>5, <1>6 DEF BlockInv
<1>8. page \in Nat /\ Len(b) \in Nat /\ Len(c) \in Nat /\ Len(d) \in Nat /\ Len(e) \in Nat /\ Len(<<>>) = 0
  BY SMTT(40), PipesAssumption DEF Types
<1>9. /\ pc[0] \in {"fork", "close", "read", "write", "answer", "zombie"}
      /\ pc[1] \in {"none", "close", "read", "write", "zombie"}
  BY <1>1 DEF PlaceInv
<1>10. /\ \A x \in Seq(Int) : Take(x, Len(x)) = x /\ Rest(x, Len(x)) = <<>> /\ <<>> \o x = x
       /\ \A x \in Seq(Int) : Len(x) = 0 => x = <<>>
  BY DEF Take, Rest
<1>11. CASE main
  <2>1. UNCHANGED <<data, buf, len>> /\ pc[0] = "fork"
    BY <1>11 DEF main, tvars
  <2>2. pc'[0] = "close" /\ pc'[1] = "close" /\ Linked'
    BY <1>11, <1>3, <1>4 DEF main, Linked, ControlTypes
  <2>3. OnePlace(b, c, d, e)'
    BY <1>11, <1>1, <1>5, <1>7, <2>1, <2>2 DEF OnePlace, Part1, Parent
  <2> QED
    BY <1>5, <2>1, <2>2, <2>3 DEF BlockInv
<1>12. CASE CloseEnds(0)
  <2>1. UNCHANGED <<data, buf, len>>
    BY <1>12 DEF CloseEnds, tvars
  <2>2. pc[0] = "close" /\ pc'[0] = "read" /\ pc'[1] = pc[1]
    BY <1>12, <1>3, <1>4 DEF CloseEnds, Goto, ControlTypes
  <2>3. Linked => Linked'
    BY ZenonT(40), <1>12, <1>3, <1>4, <2>2 DEF CloseEnds, Close, Linked, ControlTypes
  <2>4. OnePlace(b, c, d, e)'
    BY <1>12, <1>1, <1>5, <1>7, <2>1, <2>2 DEF OnePlace, Part1, Parent, Child
  <2> QED
    BY <1>12, <1>5, <1>7, <2>1, <2>2, <2>3, <2>4 DEF BlockInv, Part1, Parent, Child
<1>13. CASE CloseEnds(1)
  <2>1. UNCHANGED <<data, buf, len>>
    BY <1>13 DEF CloseEnds, tvars
  <2>2. pc[1] = "close" /\ pc'[1] = "read" /\ pc'[0] = pc[0]
    BY <1>13, <1>3, <1>4 DEF CloseEnds, Goto, ControlTypes
  <2>3. Linked => Linked'
    BY ZenonT(40), <1>13, <1>3, <1>4, <2>2 DEF CloseEnds, Close, Linked, ControlTypes
  <2>4. OnePlace(b, c, d, e)'
    BY <1>13, <1>1, <1>5, <1>7, <2>1, <2>2 DEF OnePlace, Part1, Parent, Child
  <2> QED
    BY <1>13, <1>5, <1>7, <2>1, <2>2, <2>3, <2>4 DEF BlockInv, Part1, Parent, Child
<1>14. CASE ReadInput
  <2>1. data' = data
    BY <1>14 DEF ReadInput
  <2>2. CASE Len(got[0]) = Items
    <3>1. UNCHANGED <<buf, len>> /\ pc[0] = "read" /\ End(0)
      BY <1>14, <2>2 DEF ReadInput, tvars
    <3>2. pc'[0] = "zombie" /\ pc'[1] = pc[1]
      BY <1>3, <1>4, <3>1, EndsMine
    <3>3. OnePlace(b, c, d, e)'
      BY <1>14, <1>1, <1>5, <1>7, <3>1, <3>2 DEF OnePlace, Part1, Parent
    <3> QED
      BY <1>14, <1>5, <1>7, <2>1, <3>1, <3>2, <3>3 DEF BlockInv, Part1, Parent
  <2>3. CASE Len(got[0]) # Items
    <3>1. PICK k \in 1..page :
            /\ pc[0] = "read" /\ pc' = [pc EXCEPT ![0] = "write"]
            /\ buf' = [buf EXCEPT ![0] = [i \in 1..k |-> Len(got[0]) + i]]
            /\ len' = [len EXCEPT ![0] = k] /\ UNCHANGED evars
      BY <1>14, <2>3 DEF ReadInput, Goto
    <3>2. PICK f : f = [i \in 1..k |-> Len(got[0]) + i] /\ Len(f) = k
      <4>1. k \in Nat
        BY <1>8
      <4>2. Len([i \in 1..k |-> Len(got[0]) + i]) = k
        BY <4>1
      <4> QED
        BY <4>2
    <3>3. /\ buf'[0] = f /\ buf'[1] = c /\ len'[0] = k /\ len'[1] = len[1]
          /\ pc'[0] = "write" /\ pc'[1] = pc[1]
      BY <1>3, <1>4, <1>5, <3>1, <3>2 DEF ControlTypes
    <3>4. Linked'
      BY <1>14, <1>7, <3>1, <3>3 DEF Linked, evars, Part1, Parent
    <3>5. OnePlace(data[2], buf[1], data[1], buf[0])'
      BY <1>14, <1>1, <1>5, <1>7, <2>1, <3>1, <3>3 DEF OnePlace, Part1, Parent
    <3> QED
      BY <1>14, <1>7, <3>2, <3>3, <3>4, <3>5 DEF BlockInv, Part1, Parent
  <2> QED
    BY <2>2, <2>3
<1>15. CASE Write(0, 1, "answer")
  <2>1. pc[0] = "write" /\ len' = len /\ Part1
    BY <1>15 DEF Write, Part1, Parent
  <2>2. Linked /\ rd[1] # {} /\ len[0] = Len(e)
    BY <1>7, <2>1 DEF Linked
  <2>3. len[0] <= PipeBuf
    <3>1. len[0] \in 0..page /\ page <= PipeBuf /\ PipeBuf \in Nat
      BY <1>3, <1>4, <1>6, <2>1, PipesAssumption DEF Whole
    <3> QED
      BY <1>8, <3>1
  <2>4. PICK k \in 1..Len(e) :
          /\ len[0] <= PipeBuf => k = len[0]
          /\ data' = [data EXCEPT ![1] = @ \o Take(e, k)]
          /\ buf' = [buf EXCEPT ![0] = Rest(@, k)]
          /\ pc' = [pc EXCEPT ![0] = IF k = Len(e) THEN "answer" ELSE "write"]
          /\ UNCHANGED evars
    BY <1>15, <1>5, <2>2 DEF Write, Goto
  <2>5. k = Len(e) /\ Take(e, k) = e /\ Rest(e, k) = <<>>
    BY <1>10, <2>2, <2>3, <2>4
  <2>6. b = <<>> /\ c = <<>> /\ d = <<>> /\ <<>> \o e = e
    BY <1>7, <1>10, <2>1 DEF OnePlace
  <2>7. /\ data'[1] = e /\ data'[2] = b /\ buf'[0] = <<>> /\ buf'[1] = c
        /\ pc'[0] = "answer" /\ pc'[1] = pc[1]
    BY <1>3, <1>4, <1>5, <2>4, <2>5, <2>6 DEF ControlTypes
  <2>8. Len(e) <= page
    BY <1>3, <1>4, <1>8, <2>2
  <2>9. OnePlace(data[2], buf[1], data[1], buf[0])'
    BY <1>1, <2>6, <2>7, <2>8 DEF OnePlace
  <2>10. Linked'
    BY <2>2, <2>4, <2>7 DEF Linked, evars
  <2> QED
    BY <1>7, <2>1, <2>7, <2>9, <2>10 DEF BlockInv
<1>16. CASE Write(1, 2, "read")
  <2>1. pc[1] = "write" /\ len' = len /\ Part1 /\ len[1] = Len(c)
    BY <1>16, <1>7 DEF Write, Part1, Child
  <2>2. CASE rd[2] = {}
    <3>1. UNCHANGED <<data, buf>> /\ End(1)
      BY <1>16, <2>2 DEF Write
    <3>2. pc'[1] = "zombie" /\ pc'[0] = pc[0]
      BY <1>3, <1>4, <3>1, EndsMine
    <3>3. pc[0] \notin {"close", "read", "write", "answer"}
      BY <1>7, <2>1, <2>2 DEF Linked
    <3>4. OnePlace(data[2], buf[1], data[1], buf[0])'
      BY <1>1, <1>5, <1>7, <2>1, <3>1, <3>2 DEF OnePlace
    <3> QED
      BY <3>2, <3>3, <3>4 DEF BlockInv
  <2>3. CASE rd[2] # {}
    <3>1. len[1] <= PipeBuf
      <4>1. len[1] \in 0..page /\ page <= PipeBuf /\ PipeBuf \in Nat
        BY <1>3, <1>4, <1>6, <2>1, PipesAssumption DEF Whole
      <4> QED
        BY <1>8, <4>1
    <3>2. PICK k \in 1..Len(c) :
            /\ len[1] <= PipeBuf => k = len[1]
            /\ data' = [data EXCEPT ![2] = @ \o Take(c, k)]
            /\ buf' = [buf EXCEPT ![1] = Rest(@, k)]
            /\ pc' = [pc EXCEPT ![1] = IF k = Len(c) THEN "read" ELSE "write"]
            /\ UNCHANGED evars
      BY <1>16, <1>5, <2>3 DEF Write, Goto
    <3>3. k = Len(c) /\ Take(c, k) = c /\ Rest(c, k) = <<>> /\ c # <<>>
      BY <1>8, <1>10, <2>1, <3>1, <3>2
    <3>4. b = <<>> /\ d = <<>> /\ <<>> \o c = c /\ pc[0] = "answer"
      BY <1>7, <1>10, <2>1, <3>3 DEF OnePlace
    <3>5. /\ data'[2] = c /\ data'[1] = d /\ buf'[1] = <<>> /\ buf'[0] = e
          /\ pc'[1] = "read" /\ pc'[0] = pc[0]
      BY <1>3, <1>4, <1>5, <3>2, <3>3, <3>4 DEF ControlTypes
    <3>6. Len(c) <= page
      BY <1>3, <1>4, <1>8, <2>1
    <3>7. OnePlace(data[2], buf[1], data[1], buf[0])'
      BY <1>1, <1>7, <2>1, <3>4, <3>5, <3>6 DEF OnePlace
    <3>8. Linked'
      BY <1>7, <2>1, <3>2, <3>4, <3>5 DEF Linked, evars
    <3> QED
      BY <3>4, <3>5, <3>7, <3>8 DEF BlockInv
  <2> QED
    BY <2>2, <2>3
<1>17. CASE ReadAnswer
  <2>1. PICK k : /\ k = IF Len(b) < page THEN Len(b) ELSE page
              /\ (k > 0 \/ wr[2] = {})
              /\ data' = [data EXCEPT ![2] = Rest(@, k)]
    BY <1>17, <1>5 DEF ReadAnswer
  <2>2. /\ UNCHANGED <<buf, len, evars>> /\ pc[0] = "answer" /\ pc' = [pc EXCEPT ![0] = "read"] /\ Part1
    BY <1>17 DEF ReadAnswer, Goto, tvars, Part1, Parent
  <2>3. Linked /\ wr[2] # {}
    BY <1>7, <2>2 DEF Linked
  <2>4. b # <<>>
    BY <1>8, <2>1, <2>3
  <2>5. c = <<>> /\ d = <<>> /\ e = <<>> /\ Len(b) <= page
    BY <1>7, <2>2, <2>4 DEF OnePlace
  <2>6. Rest(b, k) = <<>>
    <3>1. k = Len(b)
      BY <1>8, <2>1, <2>5
    <3> QED
      BY <1>10, <3>1
  <2>7. data'[2] = <<>> /\ data'[1] = d /\ pc'[0] = "read" /\ pc'[1] = pc[1]
    BY <1>3, <1>4, <1>5, <2>1, <2>2, <2>6 DEF ControlTypes
  <2>8. OnePlace(data[2], buf[1], data[1], buf[0])'
    BY <1>1, <1>5, <1>8, <2>2, <2>5, <2>7 DEF OnePlace
  <2>9. Linked'
    BY <2>2, <2>3, <2>7 DEF Linked, evars
  <2> QED
    BY <1>5, <1>7, <2>2, <2>7, <2>8, <2>9 DEF BlockInv
<1>18. CASE child
  <2>1. PICK k : /\ k = IF Len(d) < page THEN Len(d) ELSE page
              /\ pc[1] = "read" /\ Part1
              /\ \/ /\ k > 0 /\ pc' = [pc EXCEPT ![1] = "write"]
                    /\ data' = [data EXCEPT ![1] = Rest(@, k)]
                    /\ buf' = [buf EXCEPT ![1] = [i \in 1..k |-> -d[i]]]
                    /\ len' = [len EXCEPT ![1] = k]
                    /\ UNCHANGED evars
                 \/ wr[1] = {} /\ End(1) /\ UNCHANGED <<data, buf, len>>
    BY <1>18, <1>5 DEF child, Goto, tvars, Part1, Child
  <2>2. CASE wr[1] = {} /\ End(1) /\ UNCHANGED <<data, buf, len>>
    <3>1. pc'[1] = "zombie" /\ pc'[0] = pc[0]
      BY <1>3, <1>4, <2>2, EndsMine
    <3>2. pc[0] \notin {"close", "read", "write", "answer"}
      BY <1>7, <2>1, <2>2 DEF Linked
    <3>3. OnePlace(data[2], buf[1], data[1], buf[0])'
      BY <1>1, <1>5, <1>7, <2>1, <2>2, <3>1 DEF OnePlace
    <3> QED
      BY <3>1, <3>2, <3>3 DEF BlockInv
  <2>3. CASE /\ k > 0 /\ pc' = [pc EXCEPT ![1] = "write"]
             /\ data' = [data EXCEPT ![1] = Rest(@, k)]
             /\ buf' = [buf EXCEPT ![1] = [i \in 1..k |-> -d[i]]]
             /\ len' = [len EXCEPT ![1] = k]
             /\ UNCHANGED evars
    <3>1. d # <<>>
      BY <1>8, <2>1, <2>3
    <3>2. b = <<>> /\ c = <<>> /\ pc[0] = "answer" /\ Len(d) <= page /\ e = <<>>
      BY <1>7, <2>1, <3>1 DEF OnePlace
    <3>3. k = Len(d) /\ Rest(d, k) = <<>>
      <4>1. k = Len(d)
        BY <1>8, <2>1, <3>2
      <4> QED
        BY <1>10, <4>1
    <3>4. PICK f : f = [i \in 1..k |-> -d[i]] /\ Len(f) = k
      <4>1. k \in Nat
        BY <1>8, <3>3
      <4>2. Len([i \in 1..k |-> -d[i]]) = k
        BY <4>1
      <4> QED
        BY <4>2
    <3>5. /\ data'[1] = <<>> /\ data'[2] = b /\ buf'[1] = f /\ buf'[0] = e /\ len'[1] = k
          /\ pc'[1] = "write" /\ pc'[0] = pc[0]
      BY <1>3, <1>4, <1>5, <2>3, <3>3, <3>4 DEF ControlTypes
    <3>6. OnePlace(data[2], buf[1], data[1], buf[0])'
      BY <1>1, <3>2, <3>5 DEF OnePlace
    <3>7. Linked'
      BY <1>7, <2>1, <2>3, <3>2, <3>5 DEF Linked, evars
    <3> QED
      BY <3>2, <3>4, <3>5, <3>6, <3>7 DEF BlockInv
  <2> QED
    BY <2>1, <2>2, <2>3
<1>19. CASE MainForkFails
  <2>1. "fork_error" \in hurt'
    BY <1>19 DEF MainForkFails, Fault
  <2> QED
    BY <2>1 DEF Whole
<1>20. CASE ReadInputFails
  <2>1. UNCHANGED <<data, buf, len>> /\ pc[0] = "read" /\ End(0)
    BY <1>20 DEF ReadInputFails, tvars
  <2>2. pc'[0] = "zombie" /\ pc'[1] = pc[1]
    BY <1>3, <1>4, <2>1, EndsMine
  <2>3. OnePlace(b, c, d, e)'
    BY <1>20, <1>1, <1>5, <1>7, <2>1, <2>2 DEF OnePlace, Part1
  <2> QED
    BY <1>20, <1>5, <1>7, <2>1, <2>2, <2>3 DEF BlockInv, Part1
<1>21. CASE ChildKilled
  <2>1. "kill_child" \in hurt'
    BY <1>21 DEF ChildKilled, Fault
  <2> QED
    BY <2>1 DEF Whole
<1> QED
  BY <1>1, <1>2, <1>11, <1>12, <1>13, <1>14, <1>15, <1>16, <1>17, <1>18, <1>19, <1>20,
     <1>21 DEF Part1, Parent, Child

(***************************************************************************)
(* The invariant.                                                          *)
(***************************************************************************)
IInv ==
    /\ Types /\ PlaceInv
    /\ StreamInv /\ CopyInv /\ EndsInv /\ WaitInv /\ WriteInv /\ ReadInv
    /\ OrderInv /\ BlockInv

(* The first states.                                                        *)
LEMMA InitTypes ==
    ASSUME Init
    PROVE  Types /\ PlaceInv
<1>1. /\ page \in Nat \ {0} /\ Items \in Nat /\ PipeCap \in Nat /\ StdioBuf \in Nat /\ MaxFaults \in Nat
      /\ page \in BlockSizes
  BY PipesAssumption DEF Init
<1>2. <<>> \in Seq(Int) /\ <<>> \in Seq(1..Items) /\ Len(<<>>) = 0 /\ Closed \in Seq(Int)
  BY DEF Closed, Error
<1>3. 0 \in Procs /\ 1 \in Streams /\ 0 \notin Streams /\ 1 \in Procs /\ Streams \subseteq Procs /\ Streams \subseteq Nat
  BY Sorts
<1>4. /\ prog \in {"toupper", "popen"} /\ page \in BlockSizes
      /\ rd \in [Streams -> SUBSET Procs] /\ wr \in [Streams -> SUBSET Procs]
      /\ mode \in [Streams -> Modes \cup {<<"none", "none">>}]
      /\ pid \in [Streams -> {NoStream, Error} \cup Streams]
      /\ cur \in (Streams \cup {NoStream}) \X ({NoStream, Error} \cup Streams)
      /\ status \in [Streams -> Streams \cup {NoStream}] /\ copied \subseteq Streams
      /\ hurt \subseteq Faults /\ nfaults \in 0..MaxFaults
  BY <1>1 DEF Init
<1>5. pc \in [Procs -> {"none", "fork", "close", "read", "write", "answer", "user", "insert",
                        "drop", "run", "wait", "zombie", "gone"}]
  BY DEF Init
<1>6. /\ data \in [Streams -> Seq(Int)] /\ got \in [Procs -> Seq(Int)] /\ out \in [Procs -> Seq(Int)]
      /\ buf \in [Procs -> Seq(Int)] /\ len \in [Procs -> 0..page]
      /\ put \in [Streams -> 0..Items] /\ fbuf \in [Streams -> Seq(1..Items)]
      /\ copy \in [Streams -> [Streams -> Seq(Int)]]
  BY <1>1, <1>2 DEF Init
<1>7. \A q \in Streams : Room(q) >= 0 /\ Len(fbuf[q]) <= StdioBuf
  BY <1>1, <1>2 DEF Init, Room
<1>8. buf2 \in [Streams -> [1..page -> Int] \X (0..page)]
  <2>1. <<[k \in 1..page |-> 0], 0>> \in [1..page -> Int] \X (0..page)
    BY <1>1
  <2> QED
    BY <2>1 DEF Init
<1>9. Types
  BY <1>4, <1>5, <1>6, <1>7, <1>8 DEF Types
<1>10. PlaceInv
  BY <1>3 DEF Init, PlaceInv
<1> QED
  BY <1>9, <1>10

(* The invariant holds at first.                                            *)
LEMMA InitInv ==
    ASSUME Init
    PROVE  IInv
<1>1. Types /\ PlaceInv
  BY InitTypes
<1>2. /\ page \in Nat \ {0} /\ 0 \in Procs /\ 1 \in Procs /\ 1 \in Streams /\ 2 \in Streams /\ Streams \subseteq Procs
      /\ 0 \notin Streams /\ Len(<<>>) = 0 /\ NoStream \notin Streams /\ NoStream = 0
  BY PipesAssumption, Sorts DEF Init, NoStream
<1>3. \A n, caps : Runs(<<>>, n, caps)
  BY DEF Runs
<1>4. \A s \in Streams :
        /\ pc[s] = "none" /\ pid[s] = NoStream /\ put[s] = 0 /\ buf2[s][2] = 0
        /\ data[s] = <<>> /\ got[s] = <<>> /\ out[s] = <<>> /\ fbuf[s] = <<>>
        /\ rd[s] = {} /\ wr[s] = {} /\ mode[s] = <<"none", "none">> /\ ~IsOpen(s)
        /\ \A q \in Streams : copy[s][q] = Closed
  <2> SUFFICES ASSUME NEW s \in Streams
               PROVE  /\ pc[s] = "none" /\ pid[s] = NoStream /\ put[s] = 0 /\ buf2[s][2] = 0
                      /\ data[s] = <<>> /\ got[s] = <<>> /\ out[s] = <<>> /\ fbuf[s] = <<>>
                      /\ rd[s] = {} /\ wr[s] = {} /\ mode[s] = <<"none", "none">> /\ ~IsOpen(s)
                      /\ \A q \in Streams : copy[s][q] = Closed
    OBVIOUS
  <2>1. s \in Procs /\ s > 0
    BY <1>2, Sorts DEF Streams
  <2>2. pc[s] = "none" /\ got[s] = <<>> /\ out[s] = <<>>
    BY <2>1 DEF Init
  <2>3. /\ pid[s] = NoStream /\ put[s] = 0 /\ data[s] = <<>> /\ fbuf[s] = <<>>
        /\ rd[s] = {} /\ wr[s] = {} /\ mode[s] = <<"none", "none">>
        /\ \A q \in Streams : copy[s][q] = Closed
    BY DEF Init
  <2>4. buf2[s][2] = 0
    <3>1. buf2[s] = <<[k \in 1..page |-> 0], 0>>
      BY DEF Init
    <3> QED
      BY <3>1
  <2> QED
    BY <2>2, <2>3, <2>4 DEF IsOpen
<1>5. /\ cur[1] = NoStream /\ (prog = "popen" => pc[0] = "user") /\ (prog = "toupper" => pc[0] = "fork")
      /\ data[1] = <<>> /\ data[2] = <<>> /\ buf[0] = <<>> /\ buf[1] = <<>>
      /\ out[0] = <<>> /\ got[0] = <<>> /\ pc[1] = "none"
  BY <1>2 DEF Init
<1>6. StreamInv
  BY <1>2, <1>4, <1>5 DEF StreamInv, IsBlank
<1>7. CopyInv
  BY <1>4 DEF CopyInv
<1>8. EndsInv
  BY <1>4, <1>2 DEF EndsInv, OwnersLive, EndsOf
<1>9. WaitInv /\ WriteInv /\ ReadInv
  BY <1>4 DEF WaitInv, WriteInv, ReadInv
<1>10. InOrder(out[0], data[2], buf[1], data[1], buf[0], Len(got[0]))
  <2>1. InOrder(<<>>, <<>>, <<>>, <<>>, <<>>, Len(<<>>))
    <3>1. Len(<<>>) = Len(<<>>) + Len(<<>>) + Len(<<>>) + Len(<<>>) + Len(<<>>)
      BY <1>2
    <3> QED
      BY <1>3, <3>1, Zenon DEF InOrder
  <2> QED
    BY <1>5, <2>1
<1>11. OrderInv
  BY <1>5, <1>10 DEF OrderInv
<1>12. BlockInv
  BY <1>2, <1>5 DEF BlockInv, OnePlace
<1> QED
  BY <1>1, <1>6, <1>7, <1>8, <1>9, <1>11, <1>12 DEF IInv

(* Each step keeps it.                                                      *)
LEMMA StepInv ==
    ASSUME IInv, [Next]_vars
    PROVE  IInv'
<1>1. Types /\ PlaceInv /\ StreamInv /\ CopyInv /\ EndsInv /\ WaitInv /\ WriteInv /\ ReadInv /\ OrderInv /\ BlockInv
  BY DEF IInv
<1>2. Types' /\ PlaceInv'
  BY <1>1, TypesStep, PlaceStep
<1>3. StreamInv' /\ CopyInv'
  BY <1>1, StreamStep, CopyStep
<1>4. EndsInv'
  BY <1>1, EndsStep
<1>5. WaitInv'
  BY <1>1, WaitStep
<1>6. WriteInv' /\ ReadInv'
  BY <1>1, WriteStep, ReadStep
<1>7. OrderInv' /\ BlockInv'
  BY <1>1, OrderStep, BlockStep
<1> QED
  BY <1>2, <1>3, <1>4, <1>5, <1>6, <1>7 DEF IInv

(* So it always holds.                                                      *)
LEMMA Inductive == Spec => []IInv
<1>1. Init => IInv
  BY InitInv
<1>2. IInv /\ [Next]_vars => IInv'
  BY StepInv
<1> QED
  BY <1>1, <1>2, PTL DEF Spec

(***************************************************************************)
(* The properties.                                                         *)
(***************************************************************************)

(* Variables have their types, a pipe never holds more than fits into it,   *)
(* only processes that run have ends of one, and a command of part 2 has    *)
(* none but its own: with any number of streams, popened and pclosed in any *)
(* order, drop() has closed all others by the time the command is run.      *)
THEOREM TypeCorrect == Spec => []TypeOK
<1>1. IInv => TypeOK
  <2> SUFFICES ASSUME IInv, NEW q \in Streams, NEW p \in rd[q] \cup wr[q]
               PROVE  Alive(p) /\ (pc[p] = "run" => p = q)
    BY DEF IInv, TypeOK
  <2>1. Alive(p)
    BY DEF IInv, EndsInv, OwnersLive
  <2>2. p \in Procs /\ prog \in {"toupper", "popen"}
    BY DEF IInv, Types
  <2>3. p = 0 \/ p \in Streams
    BY <2>2, PipesAssumption DEF Procs, Streams
  <2>4. pc[0] # "run"
    BY <2>2 DEF IInv, PlaceInv
  <2>5. CASE prog = "toupper"
    BY <2>1, <2>3, <2>4, <2>5, Sorts DEF IInv, PlaceInv
  <2>6. CASE prog = "popen"
    BY <2>1, <2>3, <2>4, <2>6 DEF IInv, EndsInv, EndsOf
  <2> QED
    BY <2>2, <2>1, <2>5, <2>6
<1> QED
  BY <1>1, Inductive, PTL

(* my_pclose() returns when its own command has ended, and with its status, *)
(* for any number of streams that are open at a time.                       *)
THEOREM WaitsForItsOwn == Spec => []PcloseWaits
<1>1. IInv => PcloseWaits
  <2> SUFFICES ASSUME IInv, pc[0] = "user", hurt = {}, NEW s \in Streams, mode[s][1] # "none", ~IsOpen(s)
               PROVE  pc[s] = "gone" /\ status[s] = s
    BY DEF PcloseWaits
  <2>1. prog = "popen"
    BY DEF IInv, Types, PlaceInv
  <2>2. IsWaitedFor(s)
    BY <2>1 DEF IInv, WaitInv
  <2>3. cur = <<NoStream, NoStream>>
    BY <2>1 DEF IInv, PlaceInv
  <2> QED
    BY <2>2, <2>3, Sorts DEF IsWaitedFor, IsOpen
<1> QED
  BY <1>1, Inductive, PTL

(* A command gets what is written to its stream, once, in order and, by the *)
(* time its stream is closed, all of it; and what a command writes is       *)
(* printed in order: for any sizes of pages, pipes and buffers.             *)
THEOREM StreamsKeepOrder == Spec => []StreamsCarry
<1>1. IInv => StreamsCarry
  <2> SUFFICES ASSUME IInv, NEW s \in Streams
               PROVE  /\ mode[s][1] = "w" /\ s \notin copied => got[s] = [i \in 1..Len(got[s]) |-> i]
                      /\ mode[s] = <<"w", "all">> /\ pc[s] \in {"zombie", "gone"} /\ ~IsOpen(s) /\ copied = {}
                         => Len(got[s]) = put[s]
                      /\ mode[s][1] = "r" => \A i \in 1..Len(out[s]) : i <= put[s] => out[s][i] = i
    BY DEF StreamsCarry
  <2>1. mode[s][1] # "none" => prog = "popen"
    BY DEF IInv, Types, PlaceInv
  <2>2. got[s] \in Seq(Int) /\ Len(got[s]) \in Nat /\ put[s] \in Nat
    <3>1. got \in [Procs -> Seq(Int)] /\ put \in [Streams -> 0..Items] /\ Items \in Nat /\ s \in Procs
      BY Sorts, PipesAssumption DEF IInv, Types
    <3> QED
      BY <3>1
  <2>3. ASSUME mode[s][1] = "w", s \notin copied PROVE got[s] = [i \in 1..Len(got[s]) |-> i]
    <3>1. Runs(got[s], 0, FALSE)
      BY <2>1, <2>3 DEF IInv, WriteInv, IsWritten
    <3>2. PICK g \in Seq(Int) : g = got[s]
      BY <2>2
    <3>3. \A i \in 1..Len(g) : g[i] = i
      BY <3>1, <3>2 DEF Runs
    <3>4. g = [i \in 1..Len(g) |-> i]
      BY <3>3
    <3> QED
      BY <3>2, <3>4
  <2>4. ASSUME mode[s] = <<"w", "all">>, pc[s] \in {"zombie", "gone"}, ~IsOpen(s), copied = {}
        PROVE  Len(got[s]) = put[s]
    <3>1. prog = "popen" /\ mode[s][1] = "w" /\ mode[s][2] = "all" /\ s \notin copied
      BY <2>1, <2>4
    <3>2. data[s] = <<>> /\ fbuf[s] = <<>>
      BY <2>4, <3>1 DEF IInv, WriteInv, IsReadToEnd, StreamInv
    <3>3. Len(got[s]) + Len(data[s]) + Len(fbuf[s]) = put[s]
      BY <2>4, <3>1 DEF IInv, WriteInv, IsWritten
    <3>4. Len(got[s]) + 0 + 0 = put[s]
      BY <3>2, <3>3
    <3> QED
      BY <2>2, <3>4
  <2>5. ASSUME mode[s][1] = "r" PROVE \A i \in 1..Len(out[s]) : i <= put[s] => out[s][i] = i
    BY <2>1, <2>5 DEF IInv, ReadInv, IsPrinted
  <2> QED
    BY <2>3, <2>4, <2>5
<1> QED
  BY <1>1, Inductive, PTL

(* The parent prints capitals of what it reads, in order; and it reads a    *)
(* block when the answer to the last one is printed, if no write() is torn  *)
(* and there is a child that is not killed: for any sizes of blocks.        *)
THEOREM AnsweredInOrder == Spec => []BlockByBlock
<1>1. IInv => BlockByBlock
  <2> SUFFICES ASSUME IInv, prog = "toupper" PROVE BlockByBlock
    BY DEF BlockByBlock
  <2>1. InOrder(out[0], data[2], buf[1], data[1], buf[0], Len(got[0]))
    BY DEF IInv, OrderInv
  <2>2. /\ out[0] \in Seq(Int) /\ got[0] \in Seq(Int) /\ Len(out[0]) \in Nat /\ Len(<<>>) = 0
    <3>1. out \in [Procs -> Seq(Int)] /\ got \in [Procs -> Seq(Int)] /\ 0 \in Procs
      BY Sorts DEF IInv, Types
    <3> QED
      BY <3>1
  <2>3. ASSUME NEW i \in 1..Len(out[0]) PROVE out[0][i] = -i
    BY <2>1, <2>2 DEF InOrder, Runs
  <2>4. ASSUME Whole, pc[0] \in {"read", "zombie"} PROVE Len(out[0]) = Len(got[0])
    <3>1. OnePlace(data[2], buf[1], data[1], buf[0])
      BY <2>4 DEF IInv, BlockInv
    <3>2. data[2] = <<>> /\ buf[1] = <<>> /\ data[1] = <<>> /\ buf[0] = <<>>
      BY <2>4, <3>1 DEF OnePlace
    <3>3. Len(got[0]) = Len(out[0]) + 0 + 0 + 0 + 0
      BY <2>1, <2>2, <3>2 DEF InOrder
    <3> QED
      BY <2>2, <3>3
  <2> QED
    BY <2>3, <2>4 DEF BlockByBlock, Whole
<1> QED
  BY <1>1, Inductive, PTL
=============================================================================
