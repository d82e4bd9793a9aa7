-------------------------- MODULE SvmsgFileProofs ---------------------------
(***************************************************************************)
(* TLAPS proofs about SvmsgFile, for any clients, files and queue sizes:   *)
(* what clients receive, and that none is forgotten.                       *)
(***************************************************************************)
EXTENDS SvmsgFile, TLAPS

ChildPcs  == Running \cup {"none", "zombie", "gone"}
ClientPcs == Over \cup {"get", "create", "request", "msgrcv", "exit"}
Fresh     == {"get", "create", "request"}
Ended     == {"zombie", "gone"}

(* A client has one request, and that gets one child.                        *)
OnceInv ==
    /\ \A i \in 1..Len(squeue) :
        /\ chpc[squeue[i]] = "none" /\ cpc[squeue[i]] \notin Fresh
        /\ ~(spc = "fork" /\ req = squeue[i])
        /\ \A j \in 1..Len(squeue) : squeue[i] = squeue[j] => i = j
    /\ spc = "fork" => chpc[req] = "none" /\ cpc[req] \notin Fresh
    /\ \A c \in Clients : cpc[c] \in Fresh => chpc[c] = "none"

(* How many messages the child of c has sent.                                *)
Sent(c) == Len(got[c]) + Len(cqueue[c])

(* A client's queue exists from before its request to its exit handler, and  *)
(* only MT_FAILURE and MT_END, the last messages, may exceed its size.       *)
QueueInv(c) ==
    /\ cpc[c] \in {"get", "create"} => c \notin cqs
    /\ cpc[c] \in {"request", "msgrcv", "exit"} => c \in cqs
    /\ c \notin cqs => cqueue[c] = <<>>
    /\ chpc[c] \notin Ended => Len(cqueue[c]) <= QueueCap

(* The child's progress in its file.                                         *)
ChildInv(c) ==
    /\ chpc[c] \in {"none", "open", "fail"} => Sent(c) = 0 /\ pos[c] = 0
    /\ chpc[c] = "fail" => file[c] = NoFile
    /\ chpc[c] \in {"read", "send", "end"} => file[c] # NoFile
    /\ chpc[c] = "send" => pos[c] > 0

(* What it has sent of what it has read, and why it is at the end.           *)
SentInv(c) ==
    "read_error" \notin hurt /\ c \in cqs =>
        /\ chpc[c] = "read" => Sent(c) = pos[c]
        /\ chpc[c] = "send" => Sent(c) = pos[c] - 1
        /\ chpc[c] = "end" =>
            \/ DataHead(c) < 0
            \/ pos[c] = Len(file[c]) /\ Sent(c) = pos[c]

(* What was received and what is in the queue make the beginning of the      *)
(* answer.                                                                   *)
PrefixInv(c) ==
    "read_error" \notin hurt =>
        /\ Sent(c) <= Len(Expected(c))
        /\ \A k \in 1..Len(got[c]) : got[c][k] = Expected(c)[k]
        /\ \A k \in 1..Len(cqueue[c]) : cqueue[c][k] = Expected(c)[Len(got[c]) + k]

AnswerInv(c) == QueueInv(c) /\ ChildInv(c) /\ SentInv(c) /\ PrefixInv(c)

(* While only clients are killed, the server keeps its queue.                *)
ServerInv == hurt \subseteq {"kill_client"} /\ spc # "down" => serverId = sqid

(* Somebody has the request or the child of c, or its answer has come.       *)
InHands(c) ==
    \/ \E k \in 1..Len(squeue) : squeue[k] = c
    \/ spc = "fork" /\ req = c
    \/ chpc[c] \in Running
    \/ Answered(c)

IInv ==
    /\ TypeOK /\ OnceInv /\ ServerInv /\ Accounted
    /\ \A c \in Clients : AnswerInv(c)

(***************************************************************************)
(* Types.                                                                  *)
(***************************************************************************)

(* The types of what belongs to one client.                                  *)
LEMMA ClientTypes ==
    ASSUME TypeOK, NEW c \in Clients
    PROVE  /\ got[c] \in Seq(Msgs) /\ cqueue[c] \in Seq(Msgs)
           /\ Len(got[c]) \in Nat /\ Len(cqueue[c]) \in Nat
           /\ pos[c] \in Nat /\ pos[c] <= Len(file[c])
           /\ chpc[c] \in ChildPcs /\ cpc[c] \in ClientPcs
<1>1. got[c] \in Seq(Msgs) /\ cqueue[c] \in Seq(Msgs) /\ pos[c] \in Nat /\ pos[c] <= Len(file[c])
  BY DEF TypeOK
<1>2. chpc[c] \in ChildPcs /\ cpc[c] \in ClientPcs
  BY DEF TypeOK, ChildPcs, ClientPcs
<1> QED
  BY <1>1, <1>2

(* The variables that are functions.                                         *)
LEMMA FunctionTypes ==
    ASSUME TypeOK
    PROVE  /\ squeue \in Seq(Clients) /\ (spc = "fork" => req \in Clients)
           /\ chpc \in [Clients -> ChildPcs] /\ cpc \in [Clients -> ClientPcs]
           /\ pos \in [Clients -> Nat] /\ csid \in [Clients -> 0..MaxStarts]
           /\ got \in [Clients -> Seq(Msgs)] /\ cqueue \in [Clients -> Seq(Msgs)]
BY DEF TypeOK, ChildPcs, ClientPcs

(* A file is a sequence of integers.                                         *)
LEMMA FileType == ASSUME TypeOK, NEW c \in Clients PROVE file[c] \in Seq(Int)
<1>1. file[c] \in Files
  BY DEF TypeOK
<1>2. Seq({-1, 0, 1}) \subseteq Seq(Int) /\ NoFile \in Seq(Int)
  BY DEF NoFile
<1> QED
  BY <1>1, <1>2, SvmsgAssumption

(* The messages a client is to receive, one by one.                          *)
LEMMA ExpectedIs ==
    ASSUME TypeOK, NEW c \in Clients
    PROVE  /\ Len(Expected(c)) \in Nat /\ Len(file[c]) \in Nat
           /\ file[c] = NoFile => Len(Expected(c)) = 1 /\ Expected(c)[1] = <<MT_FAILURE, 0>>
           /\ file[c] # NoFile =>
                /\ Len(Expected(c)) = Len(file[c]) + 1
                /\ \A k \in 1..Len(file[c]) : Expected(c)[k] = <<MT_DATA, k>>
                /\ Expected(c)[Len(file[c]) + 1] = <<MT_END, 0>>
<1>1. Len(file[c]) \in Nat
  BY FileType
<1> DEFINE D == [k \in 1..Len(file[c]) |-> <<MT_DATA, k>>]
<1>2. D \in Seq(Int \X Int) /\ Len(D) = Len(file[c])
  BY <1>1 DEF MT_DATA
<1>3. <<MT_END, 0>> \in Int \X Int
  BY DEF MT_END
<1>4. ASSUME NEW E, E = Append(D, <<MT_END, 0>>)
      PROVE  /\ Len(E) = Len(file[c]) + 1
             /\ \A k \in 1..Len(file[c]) : E[k] = D[k]
             /\ E[Len(file[c]) + 1] = <<MT_END, 0>>
  <2> HIDE DEF D
  <2> QED
    BY <1>1, <1>2, <1>3, <1>4
<1>5. CASE file[c] = NoFile
  BY <1>1, <1>5 DEF Expected
<1>6. CASE file[c] # NoFile
  BY <1>1, <1>4, <1>6 DEF Expected
<1> QED
  BY <1>5, <1>6

(***************************************************************************)
(* One request, one child.                                                 *)
(***************************************************************************)

(* Most steps create no request and start no child.                          *)
LEMMA OnceFrame ==
    ASSUME TypeOK, OnceInv,
           squeue' = squeue \/ squeue' = <<>>,
           spc' = "fork" => spc = "fork" /\ req' = req,
           \A c \in Clients : chpc'[c] = "none" <=> chpc[c] = "none",
           \A c \in Clients : cpc'[c] \in Fresh => cpc[c] \in Fresh
    PROVE  OnceInv'
<1>1. \A i \in 1..Len(squeue) : squeue[i] \in Clients
  BY FunctionTypes
<1>2. spc = "fork" => req \in Clients
  BY FunctionTypes
<1>3. CASE squeue' = squeue
  BY <1>1, <1>2, <1>3 DEF OnceInv
<1>4. CASE squeue' = <<>>
  BY <1>2, <1>4 DEF OnceInv
<1> QED
  BY <1>3, <1>4

(* Every step keeps it.                                                      *)
LEMMA OnceStep == ASSUME TypeOK, OnceInv, [Next]_vars PROVE OnceInv'
<1> USE FunctionTypes DEF vars, svars, qvars, cqvars, chvars, cvars, fvars, ChildPcs, Running, Fresh
<1>1. CASE ServerStart
  BY <1>1, OnceFrame DEF ServerStart
<1>2. CASE Receive
  <2>1. Len(squeue) \in Nat /\ Len(squeue) > 0 /\ \A i \in 1..Len(squeue) : squeue[i] \in Clients
    BY <1>2 DEF Receive
  <2>2. req' = squeue[1] /\ Len(squeue') = Len(squeue) - 1
    BY <1>2, <2>1 DEF Receive
  <2>3. \A i \in 1..Len(squeue') : squeue'[i] = squeue[i + 1]
    BY <1>2, <2>1 DEF Receive
  <2>4. chpc' = chpc /\ cpc' = cpc
    BY <1>2 DEF Receive
  <2> HIDE FunctionTypes
  <2> QED
    BY <2>1, <2>2, <2>3, <2>4, SMTT(30) DEF OnceInv
<1>3. CASE ReceiveFails
  BY <1>3, OnceFrame DEF ReceiveFails, ServerGone
<1>4. CASE Fork
  <2>1. req \in Clients /\ squeue' = squeue /\ spc' = "msgrcv" /\ cpc' = cpc
    BY <1>4 DEF Fork
  <2>2. \A c \in Clients : chpc'[c] = IF c = req THEN "open" ELSE chpc[c]
    BY <1>4, <2>1 DEF Fork
  <2>3. \A i \in 1..Len(squeue) : squeue[i] \in Clients
    OBVIOUS
  <2>4. spc = "fork"
    BY <1>4 DEF Fork
  <2> HIDE FunctionTypes
  <2> QED
    BY <2>1, <2>2, <2>3, <2>4 DEF OnceInv
<1>5. CASE ForkFails
  BY <1>5, OnceFrame DEF ForkFails, Fault
<1>6. CASE EnterHandler
  BY <1>6, OnceFrame DEF EnterHandler
<1>7. ASSUME NEW c \in Clients, Reap(c) PROVE OnceInv'
  BY <1>7, OnceFrame DEF Reap
<1>8. CASE LeaveHandler
  BY <1>8, OnceFrame DEF LeaveHandler
<1>9. CASE ServerSigint
  BY <1>9, OnceFrame DEF ServerSigint, ServerGone, RemoveServerQueue, Fault
<1>10. CASE ServerKilled
  BY <1>10, OnceFrame DEF ServerKilled, ServerGone, Fault
<1>11. ASSUME NEW c \in Clients, OpenFile(c) PROVE OnceInv'
  BY <1>11, OnceFrame DEF OpenFile, ChildAt
<1>12. ASSUME NEW c \in Clients, SendFailure(c) PROVE OnceInv'
  BY <1>12, OnceFrame DEF SendFailure, ChildExits, Put
<1>13. ASSUME NEW c \in Clients, ReadChunk(c) PROVE OnceInv'
  BY <1>13, OnceFrame DEF ReadChunk, ChildAt
<1>14. ASSUME NEW c \in Clients, ReadFails(c) PROVE OnceInv'
  BY <1>14, OnceFrame DEF ReadFails, ChildAt, Fault
<1>15. ASSUME NEW c \in Clients, SendChunk(c) PROVE OnceInv'
  BY <1>15, OnceFrame DEF SendChunk, ChildAt, Put
<1>16. ASSUME NEW c \in Clients, SendEnd(c) PROVE OnceInv'
  BY <1>16, OnceFrame DEF SendEnd, ChildExits, Put
<1>17. ASSUME NEW c \in Clients, ChildSigint(c) PROVE OnceInv'
  BY <1>17, OnceFrame DEF ChildSigint, ChildExits, RemoveServerQueue, Fault
<1>18. ASSUME NEW c \in Clients, GetServerQueue(c) PROVE OnceInv'
  BY <1>18, OnceFrame DEF GetServerQueue, ClientAt
<1>19. ASSUME NEW c \in Clients, CreateQueue(c) PROVE OnceInv'
  BY <1>19, OnceFrame DEF CreateQueue, ClientAt
<1>20. ASSUME NEW c \in Clients, SendRequest(c) PROVE OnceInv'
  <2>1. CASE csid[c] # sqid
    BY <1>20, <2>1, OnceFrame DEF SendRequest, ClientAt
  <2>2. CASE csid[c] = sqid
    <3>1. squeue' = Append(squeue, c) /\ cpc[c] = "request" /\ chpc' = chpc /\ spc' = spc /\ req' = req
      BY <1>20, <2>2 DEF SendRequest, ClientAt
    <3>2. \A d \in Clients : cpc'[d] = IF d = c THEN "msgrcv" ELSE cpc[d]
      BY <1>20, <2>2 DEF SendRequest, ClientAt
    <3>3. Len(squeue) \in Nat /\ \A i \in 1..Len(squeue) : squeue[i] \in Clients
      OBVIOUS
    <3>4. Len(squeue') = Len(squeue) + 1 /\ squeue'[Len(squeue) + 1] = c
          /\ \A i \in 1..Len(squeue) : squeue'[i] = squeue[i]
      BY <3>1
    <3>5. spc = "fork" => req \in Clients
      OBVIOUS
    <3>6. chpc[c] = "none" /\ (\A i \in 1..Len(squeue) : squeue[i] # c) /\ ~(spc = "fork" /\ req = c)
      BY <3>1, <3>3, <3>5 DEF OnceInv
    <3> HIDE FunctionTypes
    <3> QED
      BY <3>1, <3>2, <3>3, <3>4, <3>5, <3>6 DEF OnceInv
  <2> QED
    BY <2>1, <2>2
<1>21. ASSUME NEW c \in Clients, ReceiveResponse(c) PROVE OnceInv'
  BY <1>21, OnceFrame DEF ReceiveResponse, ClientAt
<1>22. ASSUME NEW c \in Clients, removeQueue(c) PROVE OnceInv'
  BY <1>22, OnceFrame DEF removeQueue, ClientAt
<1>23. ASSUME NEW c \in Clients, ClientKilled(c) PROVE OnceInv'
  BY <1>23, OnceFrame DEF ClientKilled, Fault
<1>24. CASE UNCHANGED vars
  BY <1>24, OnceFrame
<1> QED
  BY <1>1, <1>2, <1>3, <1>4, <1>5, <1>6, <1>7, <1>8, <1>9, <1>10, <1>11, <1>12,
     <1>13, <1>14, <1>15, <1>16, <1>17, <1>18, <1>19, <1>20, <1>21, <1>22, <1>23, <1>24
  DEF Next, Server, Child, Client

(***************************************************************************)
(* Types are kept.                                                         *)
(***************************************************************************)

(* What a child sends are messages.                                          *)
LEMMA SendTypes ==
    ASSUME TypeOK, NEW c \in Clients
    PROVE  {<<MT_FAILURE, 0>>, <<MT_END, 0>>, <<MT_DATA, pos[c]>>} \subseteq Msgs
BY ClientTypes DEF Msgs

(* A removed queue of requests leaves the types alone.                       *)
LEMMA RemoveTypes ==
    ASSUME TypeOK, NEW id, RemoveServerQueue(id)
    PROVE  squeue' \in Seq(Clients) /\ Len(squeue') <= ServerCap /\ sqid' \in 0..MaxStarts
<1>1. squeue \in Seq(Clients) /\ Len(squeue) <= ServerCap /\ sqid \in 0..MaxStarts
  BY DEF TypeOK
<1>2. CASE id = sqid
  BY <1>2, SvmsgAssumption DEF RemoveServerQueue
<1>3. CASE id # sqid
  BY <1>1, <1>3 DEF RemoveServerQueue, qvars
<1> QED
  BY <1>2, <1>3

(* A message more in the queue of c.                                         *)
LEMMA PutTypes ==
    ASSUME TypeOK, NEW c \in Clients, NEW msg \in Msgs, Len(cqueue[c]) <= QueueCap, Put(c, msg)
    PROVE  /\ cqueue' \in [Clients -> Seq(Msgs)]
           /\ \A d \in Clients : Len(cqueue'[d]) <= QueueCap + 1
<1>1. /\ cqueue[c] \in Seq(Msgs) /\ Len(cqueue[c]) \in Nat
      /\ \A d \in Clients : Len(cqueue[d]) <= QueueCap + 1
      /\ cqueue \in [Clients -> Seq(Msgs)]
  BY SMTT(30) DEF TypeOK
<1>2. Append(cqueue[c], msg) \in Seq(Msgs) /\ Len(Append(cqueue[c], msg)) = Len(cqueue[c]) + 1
  BY <1>1
<1>3. cqueue' = [cqueue EXCEPT ![c] = Append(cqueue[c], msg)]
  BY DEF Put
<1> QED
  BY <1>1, <1>2, <1>3, SvmsgAssumption

(* Every step keeps the types, and the queues within bounds.                 *)
LEMMA TypeStep == ASSUME TypeOK, \A c \in Clients : QueueInv(c), [Next]_vars PROVE TypeOK'
<1> USE SvmsgAssumption DEF TypeOK, Over, Running, vars, svars, qvars, cqvars, chvars, cvars, fvars
<1>1. CASE ServerStart
  <2>1. life' \in 0..MaxStarts
    BY <1>1 DEF ServerStart
  <2>2. serverId' \in 0..MaxStarts /\ sqid' \in 0..MaxStarts
    BY <1>1, <2>1 DEF ServerStart
  <2> QED
    BY <1>1, <2>1, <2>2 DEF ServerStart
<1>2. CASE Receive
  <2>1. req' \in Clients /\ squeue' \in Seq(Clients) /\ Len(squeue') <= ServerCap
    BY <1>2 DEF Receive
  <2> QED
    BY <1>2, <2>1 DEF Receive
<1>3. CASE ReceiveFails
  BY <1>3 DEF ReceiveFails, ServerGone
<1>4. CASE Fork
  BY <1>4 DEF Fork
<1>5. CASE ForkFails
  BY <1>5 DEF ForkFails, Fault
<1>6. CASE EnterHandler
  BY <1>6 DEF EnterHandler
<1>7. ASSUME NEW c \in Clients, Reap(c) PROVE TypeOK'
  BY <1>7 DEF Reap
<1>8. CASE LeaveHandler
  BY <1>8 DEF LeaveHandler
<1>9. CASE ServerSigint
  <2>1. squeue' \in Seq(Clients) /\ Len(squeue') <= ServerCap /\ sqid' \in 0..MaxStarts
    BY <1>9, RemoveTypes DEF ServerSigint
  <2>2. hurt' \subseteq Faults /\ nfaults' \in 0..MaxFaults
    BY <1>9 DEF ServerSigint, Fault
  <2> QED
    BY <1>9, <2>1, <2>2 DEF ServerSigint, ServerGone
<1>10. CASE ServerKilled
  BY <1>10 DEF ServerKilled, ServerGone, Fault
<1>11. ASSUME NEW c \in Clients, OpenFile(c) PROVE TypeOK'
  BY <1>11 DEF OpenFile, ChildAt
<1>12. ASSUME NEW c \in Clients, SendFailure(c) PROVE TypeOK'
  <2>1. cqueue' \in [Clients -> Seq(Msgs)] /\ \A d \in Clients : Len(cqueue'[d]) <= QueueCap + 1
    <3>1. <<MT_FAILURE, 0>> \in Msgs /\ Len(cqueue[c]) <= QueueCap
      BY <1>12, SendTypes DEF SendFailure, ChildAt, QueueInv, Ended
    <3>2. CASE UNCHANGED cqueue
      BY <3>2
    <3>3. CASE Put(c, <<MT_FAILURE, 0>>)
      BY <3>1, <3>3, PutTypes
    <3> QED
      BY <1>12, <3>2, <3>3 DEF SendFailure
  <2>2. sigchld' \in BOOLEAN /\ chpc' \in [Clients -> ChildPcs]
    BY <1>12 DEF SendFailure, ChildExits, ChildPcs
  <2> QED
    BY <1>12, <2>1, <2>2 DEF SendFailure, ChildPcs
<1>13. ASSUME NEW c \in Clients, ReadChunk(c) PROVE TypeOK'
  <2>1. pos' \in [Clients -> Nat] /\ \A d \in Clients : pos'[d] <= Len(file[d])
    <3>1. Len(file[c]) \in Nat
      BY FileType
    <3>2. \A d \in Clients :
              pos'[d] = IF d = c /\ pos[c] < Len(file[c]) THEN pos[c] + 1 ELSE pos[d]
      BY <1>13 DEF ReadChunk
    <3>3. \A d \in Clients : pos[d] \in Nat /\ pos[d] <= Len(file[d])
      OBVIOUS
    <3>4. pos' \in [Clients -> Nat]
      <4>1. pos' = [pos EXCEPT ![c] = pos[c] + 1] \/ pos' = pos
        BY <1>13 DEF ReadChunk
      <4>2. pos \in [Clients -> Nat] /\ pos[c] + 1 \in Nat
        BY <3>3
      <4> HIDE DEF TypeOK
      <4> QED
        BY <4>1, <4>2
    <3> HIDE DEF TypeOK
    <3> QED
      BY <3>1, <3>2, <3>3, <3>4
  <2>2. chpc' \in [Clients -> ChildPcs]
    BY <1>13 DEF ReadChunk, ChildAt, ChildPcs
  <2>3. UNCHANGED <<svars, qvars, cqvars, orphans, cvars, file, fvars>>
    BY <1>13 DEF ReadChunk
  <2> HIDE DEF TypeOK
  <2>4. /\ chpc' \in [Clients -> Running \cup {"none", "zombie", "gone"}]
        /\ pos' \in [Clients -> Nat] /\ \A d \in Clients : pos'[d] <= Len(file'[d])
    BY <2>1, <2>2, <2>3 DEF ChildPcs
  <2> QED
    BY <2>3, <2>4, ZenonT(30) DEF TypeOK
<1>14. ASSUME NEW c \in Clients, ReadFails(c) PROVE TypeOK'
  <2>1. chpc' \in [Clients -> ChildPcs] /\ hurt' \subseteq Faults /\ nfaults' \in 0..MaxFaults
    BY <1>14 DEF ReadFails, ChildAt, Fault, ChildPcs
  <2>2. UNCHANGED <<svars, qvars, cqvars, pos, orphans, cvars, file>>
    BY <1>14 DEF ReadFails
  <2> QED
    BY <2>1, <2>2, ZenonT(30) DEF ChildPcs
<1>15. ASSUME NEW c \in Clients, SendChunk(c) PROVE TypeOK'
  <2>1. cqueue' \in [Clients -> Seq(Msgs)] /\ \A d \in Clients : Len(cqueue'[d]) <= QueueCap + 1
    <3>1. <<MT_DATA, pos[c]>> \in Msgs /\ Len(cqueue[c]) <= QueueCap
      BY <1>15, SendTypes DEF SendChunk, ChildAt, QueueInv, Ended
    <3>2. CASE UNCHANGED cqueue
      BY <3>2
    <3>3. CASE Put(c, <<MT_DATA, pos[c]>>)
      BY <3>1, <3>3, PutTypes
    <3> QED
      BY <1>15, <3>2, <3>3 DEF SendChunk
  <2>2. sigchld' \in BOOLEAN /\ chpc' \in [Clients -> ChildPcs]
    BY <1>15 DEF SendChunk, ChildAt, ChildPcs
  <2> QED
    BY <1>15, <2>1, <2>2 DEF SendChunk, ChildPcs
<1>16. ASSUME NEW c \in Clients, SendEnd(c) PROVE TypeOK'
  <2>1. cqueue' \in [Clients -> Seq(Msgs)] /\ \A d \in Clients : Len(cqueue'[d]) <= QueueCap + 1
    <3>1. <<MT_END, 0>> \in Msgs /\ Len(cqueue[c]) <= QueueCap
      BY <1>16, SendTypes DEF SendEnd, ChildAt, QueueInv, Ended
    <3>2. CASE UNCHANGED cqueue
      BY <3>2
    <3>3. CASE Put(c, <<MT_END, 0>>)
      BY <3>1, <3>3, PutTypes
    <3> QED
      BY <1>16, <3>2, <3>3 DEF SendEnd
  <2>2. sigchld' \in BOOLEAN /\ chpc' \in [Clients -> ChildPcs]
    BY <1>16 DEF SendEnd, ChildExits, ChildPcs
  <2> QED
    BY <1>16, <2>1, <2>2 DEF SendEnd, ChildPcs
<1>17. ASSUME NEW c \in Clients, ChildSigint(c) PROVE TypeOK'
  <2>1. squeue' \in Seq(Clients) /\ Len(squeue') <= ServerCap /\ sqid' \in 0..MaxStarts
    BY <1>17, RemoveTypes DEF ChildSigint
  <2>2. hurt' \subseteq Faults /\ nfaults' \in 0..MaxFaults
    BY <1>17 DEF ChildSigint, Fault
  <2>3. sigchld' \in BOOLEAN /\ chpc' \in [Clients -> ChildPcs]
    BY <1>17 DEF ChildSigint, ChildExits, ChildPcs
  <2> QED
    BY <1>17, <2>1, <2>2, <2>3 DEF ChildSigint, ChildPcs
<1>18. ASSUME NEW c \in Clients, GetServerQueue(c) PROVE TypeOK'
  BY <1>18 DEF GetServerQueue, ClientAt
<1>19. ASSUME NEW c \in Clients, CreateQueue(c) PROVE TypeOK'
  BY <1>19 DEF CreateQueue, ClientAt
<1>20. ASSUME NEW c \in Clients, SendRequest(c) PROVE TypeOK'
  <2>1. squeue' \in Seq(Clients) /\ Len(squeue') <= ServerCap
    <3>1. CASE csid[c] = sqid
      <4>1. Append(squeue, c) \in Seq(Clients) /\ Len(Append(squeue, c)) = Len(squeue) + 1
        OBVIOUS
      <4>2. Len(squeue) \in Nat
        OBVIOUS
      <4>3. squeue' = Append(squeue, c) /\ Len(squeue) < ServerCap
        BY <1>20, <3>1 DEF SendRequest
      <4> HIDE DEF TypeOK
      <4> QED
        BY <4>1, <4>2, <4>3
    <3>2. CASE csid[c] # sqid
      BY <1>20, <3>2 DEF SendRequest
    <3> QED
      BY <3>1, <3>2
  <2>2. cpc' \in [Clients -> ClientPcs]
    BY <1>20 DEF SendRequest, ClientAt, ClientPcs
  <2> QED
    BY <1>20, <2>1, <2>2 DEF SendRequest, ClientPcs
<1>21. ASSUME NEW c \in Clients, ReceiveResponse(c) PROVE TypeOK'
  <2>1. cqueue[c] \in Seq(Msgs) /\ got[c] \in Seq(Msgs)
    OBVIOUS
  <2>2. cqueue[c] # <<>>
    BY <1>21 DEF ReceiveResponse
  <2>3. Tail(cqueue[c]) \in Seq(Msgs) /\ Len(Tail(cqueue[c])) <= Len(cqueue[c])
        /\ Append(got[c], Head(cqueue[c])) \in Seq(Msgs)
    BY <2>1, <2>2
  <2>4. got' \in [Clients -> Seq(Msgs)] /\ cqueue' \in [Clients -> Seq(Msgs)]
    BY <1>21, <2>3 DEF ReceiveResponse
  <2>5. \A d \in Clients : Len(cqueue'[d]) <= QueueCap + 1
    <3>1. \A d \in Clients : cqueue'[d] = IF d = c THEN Tail(cqueue[c]) ELSE cqueue[d]
      BY <1>21 DEF ReceiveResponse
    <3>2. Len(cqueue[c]) \in Nat /\ Len(Tail(cqueue[c])) \in Nat /\ Len(cqueue[c]) <= QueueCap + 1
      BY <2>1, <2>3
    <3>3. \A d \in Clients : Len(cqueue[d]) <= QueueCap + 1
      OBVIOUS
    <3> HIDE DEF TypeOK
    <3>4. Len(Tail(cqueue[c])) <= QueueCap + 1
      BY <3>2, <2>3
    <3> QED
      BY <3>1, <3>3, <3>4
  <2>6. cpc' \in [Clients -> ClientPcs]
    BY <1>21 DEF ReceiveResponse, ClientAt, ClientPcs
  <2> QED
    BY <1>21, <2>4, <2>5, <2>6 DEF ReceiveResponse, ClientPcs
<1>22. ASSUME NEW c \in Clients, removeQueue(c) PROVE TypeOK'
  <2>1. cqueue' \in [Clients -> Seq(Msgs)]
    BY <1>22 DEF removeQueue
  <2>2. \A d \in Clients : Len(cqueue'[d]) <= QueueCap + 1
    <3>1. \A d \in Clients : cqueue'[d] = IF d = c THEN <<>> ELSE cqueue[d]
      BY <1>22 DEF removeQueue
    <3>2. \A d \in Clients : Len(cqueue[d]) <= QueueCap + 1
      OBVIOUS
    <3> HIDE DEF TypeOK
    <3> QED
      BY <3>1, <3>2
  <2>3. cpc' \in [Clients -> ClientPcs]
    BY <1>22 DEF removeQueue, ClientAt, ClientPcs
  <2> QED
    BY <1>22, <2>1, <2>2, <2>3 DEF removeQueue, ClientPcs
<1>23. ASSUME NEW c \in Clients, ClientKilled(c) PROVE TypeOK'
  BY SMTT(40), <1>23 DEF ClientKilled, Fault
<1>24. CASE UNCHANGED vars
  BY <1>24
<1> QED
  BY <1>1, <1>2, <1>3, <1>4, <1>5, <1>6, <1>7, <1>8, <1>9, <1>10, <1>11, <1>12,
     <1>13, <1>14, <1>15, <1>16, <1>17, <1>18, <1>19, <1>20, <1>21, <1>22, <1>23, <1>24
  DEF Next, Server, Child, Client

(***************************************************************************)
(* Answers.                                                                *)
(***************************************************************************)

(* Nothing happens to what d is to receive, or its child ends.               *)
LEMMA AnswerFrame ==
    ASSUME TypeOK, NEW d \in Clients, AnswerInv(d), file' = file, hurt \subseteq hurt',
           got'[d] = got[d], cqueue'[d] = cqueue[d], pos'[d] = pos[d],
           chpc'[d] = chpc[d] \/ chpc'[d] \in Ended,
           d \in cqs' <=> d \in cqs,
           cpc'[d] \in {"get", "create"} => cpc[d] \in {"get", "create"},
           cpc'[d] \in {"request", "msgrcv", "exit"} => cpc[d] \in {"request", "msgrcv", "exit"}
    PROVE  AnswerInv(d)'
<1>1. Sent(d)' = Sent(d) /\ DataHead(d)' = DataHead(d) /\ Expected(d)' = Expected(d)
  BY DEF Sent, DataHead, Expected
<1>2. QueueInv(d)'
  BY DEF AnswerInv, QueueInv, Ended
<1>3. ChildInv(d)'
  BY <1>1 DEF AnswerInv, ChildInv, Ended
<1>4. SentInv(d)'
  BY <1>1 DEF AnswerInv, SentInv, Ended
<1>5. PrefixInv(d)'
  BY <1>1 DEF AnswerInv, PrefixInv
<1> QED
  BY <1>2, <1>3, <1>4, <1>5 DEF AnswerInv

(* The next message of the answer goes into the queue of c.                  *)
LEMMA PutPrefix ==
    ASSUME TypeOK, NEW c \in Clients, PrefixInv(c), NEW msg \in Msgs, Put(c, msg),
           got' = got, file' = file, hurt' = hurt,
           "read_error" \notin hurt =>
               Sent(c) < Len(Expected(c)) /\ msg = Expected(c)[Sent(c) + 1]
    PROVE  PrefixInv(c)' /\ Sent(c)' = Sent(c) + 1 /\ Len(cqueue'[c]) = Len(cqueue[c]) + 1
<1>1. /\ cqueue[c] \in Seq(Msgs) /\ Len(cqueue[c]) \in Nat /\ Len(got[c]) \in Nat
      /\ Len(Expected(c)) \in Nat
  BY ClientTypes, ExpectedIs
<1>2. cqueue'[c] = Append(cqueue[c], msg)
  BY FunctionTypes DEF Put
<1>0. /\ got \in [Clients -> Seq(Msgs)] /\ cqueue \in [Clients -> Seq(Msgs)]
      /\ cqueue' \in [Clients -> Seq(Msgs)]
  <2>1. Append(cqueue[c], msg) \in Seq(Msgs)
    BY <1>1
  <2> QED
    BY <2>1, FunctionTypes DEF Put
<1>3. /\ Len(cqueue'[c]) = Len(cqueue[c]) + 1 /\ cqueue'[c][Len(cqueue[c]) + 1] = msg
      /\ \A k \in 1..Len(cqueue[c]) : cqueue'[c][k] = cqueue[c][k]
  BY <1>1, <1>2
<1>4. Expected(c)' = Expected(c)
  BY DEF Expected
<1>5. Sent(c)' = Sent(c) + 1
  BY <1>0, <1>3 DEF Sent
<1>6. ASSUME "read_error" \notin hurt, NEW k \in 1..Len(cqueue'[c])
      PROVE  cqueue'[c][k] = Expected(c)[Len(got[c]) + k]
  <2>1. CASE k = Len(cqueue[c]) + 1
    <3>1. Len(got[c]) + k = Sent(c) + 1
      BY <1>0, <2>1 DEF Sent
    <3> QED
      BY <1>3, <1>6, <2>1, <3>1
  <2>2. CASE k # Len(cqueue[c]) + 1
    <3>1. k \in 1..Len(cqueue[c])
      BY <1>1, <1>3, <1>6, <2>2
    <3> QED
      BY <1>3, <1>6, <3>1 DEF PrefixInv
  <2> QED
    BY <2>1, <2>2
<1>7. "read_error" \notin hurt => Sent(c)' <= Len(Expected(c))
  <2>1. Sent(c) \in Nat
    BY <1>0 DEF Sent
  <2> QED
    BY <1>1, <1>5, <2>1
<1> QED
  BY <1>3, <1>4, <1>5, <1>6, <1>7 DEF PrefixInv

(* Every step keeps the answers in order.                                    *)
LEMMA AnswerStep == ASSUME IInv, [Next]_vars PROVE (\A d \in Clients : AnswerInv(d))'
<1>0. /\ \A d \in Clients : AnswerInv(d)
      /\ TypeOK /\ OnceInv
  BY DEF IInv
<1>t. /\ got \in [Clients -> Seq(Msgs)] /\ cqueue \in [Clients -> Seq(Msgs)]
      /\ got' \in [Clients -> Seq(Msgs)] /\ cqueue' \in [Clients -> Seq(Msgs)]
  BY <1>0, TypeStep DEF TypeOK, AnswerInv
<1> USE <1>0 DEF vars, svars, qvars, cqvars, chvars, cvars, fvars, Ended, Over
<1>1. CASE ServerStart
  BY <1>1, AnswerFrame, FunctionTypes DEF ServerStart, ChildPcs
<1>2. CASE Receive
  BY <1>2, AnswerFrame, FunctionTypes DEF Receive, ChildPcs
<1>3. CASE ReceiveFails
  BY <1>3, AnswerFrame, FunctionTypes DEF ReceiveFails, ServerGone, ChildPcs
<1>4. CASE Fork
  <2>1. ASSUME NEW d \in Clients, d # req PROVE AnswerInv(d)'
    BY <1>4, <2>1, AnswerFrame, FunctionTypes DEF Fork
  <2>2. ASSUME NEW c \in Clients, c = req PROVE AnswerInv(c)'
    <3>0. /\ QueueInv(c) /\ ChildInv(c) /\ SentInv(c) /\ PrefixInv(c)
          /\ got[c] \in Seq(Msgs) /\ cqueue[c] \in Seq(Msgs) /\ pos[c] \in Nat /\ pos[c] <= Len(file[c])
          /\ Len(got[c]) \in Nat /\ Len(cqueue[c]) \in Nat /\ Len(file[c]) \in Nat
      BY ClientTypes, FileType DEF AnswerInv
    <3>2. chpc'[c] = "open" /\ chpc[c] = "none"
      BY <1>4, <2>2, FunctionTypes DEF Fork, OnceInv
    <3>3. Sent(c)' = Sent(c) /\ Expected(c)' = Expected(c) /\ Sent(c) \in Nat
      BY <1>t, <1>4 DEF Fork, Sent, Expected
    <3>4. QueueInv(c)' /\ PrefixInv(c)'
      BY <3>0, <3>2, <3>3, <1>4 DEF Fork, QueueInv, PrefixInv
    <3>5. ChildInv(c)'
      BY <3>0, <3>2, <3>3, <1>4 DEF Fork, ChildInv
    <3>6. SentInv(c)'
      BY <3>2 DEF SentInv
    <3> QED
      BY <3>4, <3>5, <3>6 DEF AnswerInv
  <2> QED
    BY <2>1, <2>2
<1>5. CASE ForkFails
  BY <1>5, AnswerFrame, FunctionTypes DEF ForkFails, Fault, ChildPcs
<1>6. CASE EnterHandler
  BY <1>6, AnswerFrame, FunctionTypes DEF EnterHandler, ChildPcs
<1>7. ASSUME NEW c \in Clients, Reap(c) PROVE (\A d \in Clients : AnswerInv(d))'
  BY <1>7, AnswerFrame, FunctionTypes DEF Reap, ChildPcs
<1>8. CASE LeaveHandler
  BY <1>8, AnswerFrame, FunctionTypes DEF LeaveHandler, ChildPcs
<1>9. CASE ServerSigint
  BY <1>9, AnswerFrame, FunctionTypes DEF ServerSigint, ServerGone, RemoveServerQueue, Fault, ChildPcs
<1>10. CASE ServerKilled
  BY <1>10, AnswerFrame, FunctionTypes DEF ServerKilled, ServerGone, Fault, ChildPcs
<1>11. ASSUME NEW c \in Clients, OpenFile(c) PROVE (\A d \in Clients : AnswerInv(d))'
  <2>1. ASSUME NEW d \in Clients, d # c PROVE AnswerInv(d)'
    BY <1>11, <2>1, AnswerFrame, FunctionTypes DEF OpenFile, ChildAt
  <2>2. AnswerInv(c)'
    <3>0. /\ QueueInv(c) /\ ChildInv(c) /\ SentInv(c) /\ PrefixInv(c)
          /\ got[c] \in Seq(Msgs) /\ cqueue[c] \in Seq(Msgs) /\ pos[c] \in Nat /\ pos[c] <= Len(file[c])
          /\ Len(got[c]) \in Nat /\ Len(cqueue[c]) \in Nat /\ Len(file[c]) \in Nat
      BY ClientTypes, FileType DEF AnswerInv
    <3>2. chpc[c] = "open" /\ chpc'[c] = IF file[c] = NoFile THEN "fail" ELSE "read"
      BY <1>11, FunctionTypes DEF OpenFile, ChildAt
    <3>3. Sent(c)' = Sent(c) /\ Expected(c)' = Expected(c) /\ Sent(c) \in Nat
      BY <1>t, <1>11 DEF OpenFile, Sent, Expected
    <3>4. QueueInv(c)' /\ PrefixInv(c)'
      BY <3>0, <3>2, <3>3, <1>11 DEF OpenFile, QueueInv, PrefixInv
    <3>5. ChildInv(c)'
      BY <3>0, <3>2, <3>3, <1>11 DEF OpenFile, ChildInv
    <3>6. SentInv(c)'
      BY <3>0, <3>2, <3>3, <1>11 DEF OpenFile, SentInv, ChildInv
    <3> QED
      BY <3>4, <3>5, <3>6 DEF AnswerInv
  <2> QED
    BY <2>1, <2>2
<1>12. ASSUME NEW c \in Clients, SendFailure(c) PROVE (\A d \in Clients : AnswerInv(d))'
  <2>1. ASSUME NEW d \in Clients, d # c PROVE AnswerInv(d)'
    BY <1>12, <2>1, AnswerFrame, FunctionTypes DEF SendFailure, ChildExits, Put
  <2>2. AnswerInv(c)'
    <3>0. /\ QueueInv(c) /\ ChildInv(c) /\ SentInv(c) /\ PrefixInv(c)
          /\ got[c] \in Seq(Msgs) /\ cqueue[c] \in Seq(Msgs) /\ pos[c] \in Nat /\ pos[c] <= Len(file[c])
          /\ Len(got[c]) \in Nat /\ Len(cqueue[c]) \in Nat /\ Len(file[c]) \in Nat
      BY ClientTypes, FileType DEF AnswerInv
    <3>1. chpc[c] = "fail" /\ chpc'[c] \in Ended
      BY <1>12, FunctionTypes DEF SendFailure, ChildExits
    <3>2. PrefixInv(c)' /\ (c \notin cqs => cqueue'[c] = cqueue[c])
      <4>1. CASE c \in cqs
        <5>1. Put(c, <<MT_FAILURE, 0>>) /\ got' = got /\ file' = file /\ hurt' = hurt
          BY <1>12, <4>1 DEF SendFailure
        <5>2. Sent(c) = 0 /\ Len(Expected(c)) = 1 /\ Expected(c)[1] = <<MT_FAILURE, 0>>
          BY <3>0, <3>1, ExpectedIs DEF ChildInv
        <5>3. <<MT_FAILURE, 0>> \in Msgs
          BY SendTypes
        <5> QED
          BY <3>0, <4>1, <5>1, <5>2, <5>3, PutPrefix, SMTT(30)
      <4>2. CASE c \notin cqs
        BY <1>12, <3>0, <4>2 DEF SendFailure, PrefixInv, Sent, Expected
      <4> QED
        BY <4>1, <4>2
    <3>4. QueueInv(c)' /\ PrefixInv(c)'
      BY <3>0, <3>1, <3>2, <1>12 DEF SendFailure, QueueInv
    <3>5. ChildInv(c)'
      BY <3>1 DEF ChildInv
    <3>6. SentInv(c)'
      BY <3>1 DEF SentInv
    <3> QED
      BY <3>4, <3>5, <3>6 DEF AnswerInv
  <2> QED
    BY <2>1, <2>2
<1>13. ASSUME NEW c \in Clients, ReadChunk(c) PROVE (\A d \in Clients : AnswerInv(d))'
  <2>1. ASSUME NEW d \in Clients, d # c PROVE AnswerInv(d)'
    BY <1>13, <2>1, AnswerFrame, FunctionTypes DEF ReadChunk, ChildAt
  <2>2. AnswerInv(c)'
    <3>0. /\ QueueInv(c) /\ ChildInv(c) /\ SentInv(c) /\ PrefixInv(c)
          /\ got[c] \in Seq(Msgs) /\ cqueue[c] \in Seq(Msgs) /\ pos[c] \in Nat /\ pos[c] <= Len(file[c])
          /\ Len(got[c]) \in Nat /\ Len(cqueue[c]) \in Nat /\ Len(file[c]) \in Nat
      BY ClientTypes, FileType DEF AnswerInv
    <3>2. /\ chpc[c] = "read"
          /\ \/ chpc'[c] = "send" /\ pos'[c] = pos[c] + 1
             \/ chpc'[c] = "end" /\ pos'[c] = pos[c] /\ pos[c] = Len(file[c])
      <4>1. CASE pos[c] < Len(file[c])
        BY <1>13, <4>1, FunctionTypes DEF ReadChunk, ChildAt
      <4>2. CASE ~(pos[c] < Len(file[c]))
        BY <1>13, <4>2, <3>0, FunctionTypes DEF ReadChunk, ChildAt
      <4> QED
        BY <4>1, <4>2
    <3>3. Sent(c)' = Sent(c) /\ Expected(c)' = Expected(c) /\ Sent(c) \in Nat
      BY <1>t, <1>13 DEF ReadChunk, Sent, Expected
    <3>4. QueueInv(c)' /\ PrefixInv(c)'
      BY <3>0, <3>2, <3>3, <1>13 DEF ReadChunk, QueueInv, PrefixInv
    <3>5. ChildInv(c)'
      BY <3>0, <3>2, <1>13 DEF ReadChunk, ChildInv
    <3>7. hurt' = hurt /\ cqs' = cqs /\ file' = file
      BY <1>13 DEF ReadChunk
    <3>6. SentInv(c)'
      BY <3>0, <3>2, <3>3, <3>7 DEF SentInv
    <3> QED
      BY <3>4, <3>5, <3>6 DEF AnswerInv
  <2> QED
    BY <2>1, <2>2
<1>14. ASSUME NEW c \in Clients, ReadFails(c) PROVE (\A d \in Clients : AnswerInv(d))'
  <2>1. ASSUME NEW d \in Clients, d # c PROVE AnswerInv(d)'
    BY <1>14, <2>1, AnswerFrame, FunctionTypes DEF ReadFails, ChildAt, Fault
  <2>2. AnswerInv(c)'
    <3>0. /\ QueueInv(c) /\ ChildInv(c) /\ SentInv(c) /\ PrefixInv(c)
          /\ got[c] \in Seq(Msgs) /\ cqueue[c] \in Seq(Msgs) /\ pos[c] \in Nat /\ pos[c] <= Len(file[c])
          /\ Len(got[c]) \in Nat /\ Len(cqueue[c]) \in Nat /\ Len(file[c]) \in Nat
      BY ClientTypes, FileType DEF AnswerInv
    <3>2. chpc[c] = "read" /\ chpc'[c] = "end" /\ "read_error" \in hurt'
      BY <1>14, FunctionTypes DEF ReadFails, ChildAt, Fault
    <3>4. QueueInv(c)' /\ PrefixInv(c)'
      BY <3>0, <3>2, <1>14 DEF ReadFails, QueueInv, PrefixInv
    <3>5. ChildInv(c)'
      BY <3>0, <3>2, <1>14 DEF ReadFails, ChildInv
    <3>6. SentInv(c)'
      BY <3>2 DEF SentInv
    <3> QED
      BY <3>4, <3>5, <3>6 DEF AnswerInv
  <2> QED
    BY <2>1, <2>2
<1>15. ASSUME NEW c \in Clients, SendChunk(c) PROVE (\A d \in Clients : AnswerInv(d))'
  <2>1. ASSUME NEW d \in Clients, d # c PROVE AnswerInv(d)'
    BY <1>15, <2>1, AnswerFrame, FunctionTypes DEF SendChunk, ChildAt, Put
  <2>2. AnswerInv(c)'
    <3>0. /\ QueueInv(c) /\ ChildInv(c) /\ SentInv(c) /\ PrefixInv(c)
          /\ got[c] \in Seq(Msgs) /\ cqueue[c] \in Seq(Msgs) /\ pos[c] \in Nat /\ pos[c] <= Len(file[c])
          /\ Len(got[c]) \in Nat /\ Len(cqueue[c]) \in Nat /\ Len(file[c]) \in Nat
      BY ClientTypes, FileType DEF AnswerInv
    <3>1. chpc[c] = "send" /\ got' = got /\ file' = file /\ hurt' = hurt /\ pos' = pos /\ cqs' = cqs /\ cpc' = cpc
      BY <1>15 DEF SendChunk, ChildAt
    <3>2. CASE Sendable(MT_DATA, DataHead(c)) /\ c \in cqs
      <4>1. Put(c, <<MT_DATA, pos[c]>>) /\ Len(cqueue[c]) < QueueCap /\ chpc'[c] = "read"
        BY <1>15, <3>2, FunctionTypes DEF SendChunk, ChildAt
      <4>2. "read_error" \notin hurt => Sent(c) = pos[c] - 1
        BY <3>0, <3>1, <3>2 DEF SentInv
      <4>3. pos[c] \in 1..Len(file[c]) /\ file[c] # NoFile
        BY <3>0, <3>1 DEF ChildInv
      <4>4. Len(Expected(c)) = Len(file[c]) + 1 /\ Expected(c)[pos[c]] = <<MT_DATA, pos[c]>>
        BY <4>3, ExpectedIs
      <4>5. "read_error" \notin hurt =>
               Sent(c) < Len(Expected(c)) /\ <<MT_DATA, pos[c]>> = Expected(c)[Sent(c) + 1]
        <5>1. "read_error" \notin hurt => Sent(c) + 1 = pos[c]
          BY <3>0, <4>2
        <5> QED
          BY <3>0, <4>2, <4>3, <4>4, <5>1
      <4>6. <<MT_DATA, pos[c]>> \in Msgs
        BY SendTypes
      <4>7. PrefixInv(c)' /\ Sent(c)' = Sent(c) + 1 /\ Len(cqueue'[c]) = Len(cqueue[c]) + 1
        BY <3>0, <3>1, <4>1, <4>5, <4>6, PutPrefix
      <4>8. QueueInv(c)'
        BY <3>0, <3>1, <3>2, <4>1, <4>7, SvmsgAssumption DEF QueueInv
      <4>9. ChildInv(c)'
        BY <3>0, <3>1, <4>1, <4>3 DEF ChildInv
      <4>10. SentInv(c)'
        BY <3>0, <3>1, <4>1, <4>2, <4>7 DEF SentInv
      <4> QED
        BY <4>7, <4>8, <4>9, <4>10 DEF AnswerInv
    <3>3. CASE ~(Sendable(MT_DATA, DataHead(c)) /\ c \in cqs)
      <4>1. chpc'[c] = "end" /\ cqueue' = cqueue
        BY <1>15, <3>3, FunctionTypes DEF SendChunk, ChildAt
      <4>2. Sent(c)' = Sent(c) /\ Expected(c)' = Expected(c) /\ DataHead(c)' = DataHead(c)
        BY <3>1, <4>1 DEF Sent, Expected, DataHead
      <4>3. c \in cqs => DataHead(c) < 0
        <5>1. DataHead(c) \in Int
          BY <3>0, FileType DEF DataHead
        <5> QED
          BY <3>3, <5>1 DEF Sendable, MT_DATA
      <4>4. QueueInv(c)' /\ PrefixInv(c)'
        BY <3>0, <3>1, <4>1, <4>2 DEF QueueInv, PrefixInv
      <4>5. ChildInv(c)'
        BY <3>0, <3>1, <4>1 DEF ChildInv
      <4>6. SentInv(c)'
        BY <3>1, <4>1, <4>2, <4>3 DEF SentInv
      <4> QED
        BY <4>4, <4>5, <4>6 DEF AnswerInv
    <3> QED
      BY <3>2, <3>3
  <2> QED
    BY <2>1, <2>2
<1>16. ASSUME NEW c \in Clients, SendEnd(c) PROVE (\A d \in Clients : AnswerInv(d))'
  <2>1. ASSUME NEW d \in Clients, d # c PROVE AnswerInv(d)'
    BY <1>16, <2>1, AnswerFrame, FunctionTypes DEF SendEnd, ChildExits, Put
  <2>2. AnswerInv(c)'
    <3>0. /\ QueueInv(c) /\ ChildInv(c) /\ SentInv(c) /\ PrefixInv(c)
          /\ got[c] \in Seq(Msgs) /\ cqueue[c] \in Seq(Msgs) /\ pos[c] \in Nat /\ pos[c] <= Len(file[c])
          /\ Len(got[c]) \in Nat /\ Len(cqueue[c]) \in Nat /\ Len(file[c]) \in Nat
      BY ClientTypes, FileType DEF AnswerInv
    <3>1. chpc[c] = "end" /\ chpc'[c] \in Ended
      BY <1>16, FunctionTypes DEF SendEnd, ChildExits
    <3>2. PrefixInv(c)' /\ (c \notin cqs => cqueue'[c] = cqueue[c])
      <4>1. CASE Sendable(MT_END, DataHead(c)) /\ c \in cqs
        <5>1. Put(c, <<MT_END, 0>>) /\ got' = got /\ file' = file /\ hurt' = hurt
          BY <1>16, <4>1 DEF SendEnd
        <5>2. DataHead(c) > 0 /\ DataHead(c) \in Int
          BY <3>0, <4>1, FileType DEF Sendable, MT_END, DataHead
        <5>3. "read_error" \notin hurt =>
                 /\ Sent(c) = Len(file[c]) /\ Len(Expected(c)) = Len(file[c]) + 1
                 /\ Expected(c)[Len(file[c]) + 1] = <<MT_END, 0>>
          BY <3>0, <3>1, <4>1, <5>2, ExpectedIs DEF SentInv, ChildInv
        <5>4. <<MT_END, 0>> \in Msgs
          BY SendTypes
        <5>5. "read_error" \notin hurt =>
                 Sent(c) < Len(Expected(c)) /\ <<MT_END, 0>> = Expected(c)[Sent(c) + 1]
          BY <3>0, <5>3
        <5> QED
          BY <3>0, <4>1, <5>1, <5>4, <5>5, PutPrefix
      <4>2. CASE ~(Sendable(MT_END, DataHead(c)) /\ c \in cqs)
        BY <1>16, <3>0, <4>2 DEF SendEnd, PrefixInv, Sent, Expected
      <4> QED
        BY <4>1, <4>2
    <3>4. QueueInv(c)' /\ PrefixInv(c)'
      BY <3>0, <3>1, <3>2, <1>16 DEF SendEnd, QueueInv
    <3>5. ChildInv(c)'
      BY <3>1 DEF ChildInv
    <3>6. SentInv(c)'
      BY <3>1 DEF SentInv
    <3> QED
      BY <3>4, <3>5, <3>6 DEF AnswerInv
  <2> QED
    BY <2>1, <2>2
<1>17. ASSUME NEW c \in Clients, ChildSigint(c) PROVE (\A d \in Clients : AnswerInv(d))'
  BY <1>17, AnswerFrame, FunctionTypes DEF ChildSigint, ChildExits, RemoveServerQueue, Fault, ChildPcs
<1>18. ASSUME NEW c \in Clients, GetServerQueue(c) PROVE (\A d \in Clients : AnswerInv(d))'
  BY <1>18, AnswerFrame, FunctionTypes DEF GetServerQueue, ClientAt, ChildPcs
<1>19. ASSUME NEW c \in Clients, CreateQueue(c) PROVE (\A d \in Clients : AnswerInv(d))'
  <2>1. ASSUME NEW d \in Clients, d # c PROVE AnswerInv(d)'
    BY <1>19, <2>1, AnswerFrame, FunctionTypes DEF CreateQueue, ClientAt
  <2>2. AnswerInv(c)'
    <3>0. /\ QueueInv(c) /\ ChildInv(c) /\ SentInv(c) /\ PrefixInv(c)
          /\ got[c] \in Seq(Msgs) /\ cqueue[c] \in Seq(Msgs) /\ pos[c] \in Nat /\ pos[c] <= Len(file[c])
          /\ Len(got[c]) \in Nat /\ Len(cqueue[c]) \in Nat /\ Len(file[c]) \in Nat
      BY ClientTypes, FileType DEF AnswerInv
    <3>2. /\ cpc[c] = "create" /\ cpc'[c] = "request" /\ c \in cqs' /\ chpc[c] = "none" /\ chpc' = chpc
          /\ cqueue' = cqueue /\ got' = got /\ pos' = pos /\ file' = file /\ hurt' = hurt
      BY <1>19, FunctionTypes DEF CreateQueue, ClientAt, OnceInv, Fresh
    <3>3. Sent(c)' = Sent(c) /\ Expected(c)' = Expected(c)
      BY <3>2 DEF Sent, Expected
    <3>4. QueueInv(c)' /\ PrefixInv(c)'
      BY <3>0, <3>2, <3>3 DEF QueueInv, PrefixInv
    <3>5. ChildInv(c)'
      BY <3>0, <3>2, <3>3 DEF ChildInv
    <3>6. SentInv(c)'
      BY <3>2 DEF SentInv
    <3> QED
      BY <3>4, <3>5, <3>6 DEF AnswerInv
  <2> QED
    BY <2>1, <2>2
<1>20. ASSUME NEW c \in Clients, SendRequest(c) PROVE (\A d \in Clients : AnswerInv(d))'
  BY <1>20, AnswerFrame, FunctionTypes DEF SendRequest, ClientAt, ChildPcs
<1>21. ASSUME NEW c \in Clients, ReceiveResponse(c) PROVE (\A d \in Clients : AnswerInv(d))'
  <2>1. ASSUME NEW d \in Clients, d # c PROVE AnswerInv(d)'
    BY <1>21, <2>1, AnswerFrame, FunctionTypes DEF ReceiveResponse, ClientAt
  <2>2. AnswerInv(c)'
    <3>0. /\ QueueInv(c) /\ ChildInv(c) /\ SentInv(c) /\ PrefixInv(c)
          /\ got[c] \in Seq(Msgs) /\ cqueue[c] \in Seq(Msgs) /\ pos[c] \in Nat /\ pos[c] <= Len(file[c])
          /\ Len(got[c]) \in Nat /\ Len(cqueue[c]) \in Nat /\ Len(file[c]) \in Nat
      BY ClientTypes, FileType DEF AnswerInv
    <3>1. /\ cqueue[c] # <<>> /\ cpc[c] = "msgrcv" /\ cpc'[c] \in {"msgrcv", "exit"}
          /\ got'[c] = Append(got[c], Head(cqueue[c])) /\ cqueue'[c] = Tail(cqueue[c])
          /\ cqs' = cqs /\ chpc' = chpc /\ pos' = pos /\ file' = file /\ hurt' = hurt
      BY <1>21, FunctionTypes DEF ReceiveResponse, ClientAt
    <3>2. /\ Len(cqueue'[c]) = Len(cqueue[c]) - 1 /\ Len(got'[c]) = Len(got[c]) + 1
          /\ Len(cqueue[c]) > 0
          /\ \A k \in 1..(Len(cqueue[c]) - 1) : cqueue'[c][k] = cqueue[c][k + 1]
          /\ \A k \in 1..Len(got[c]) : got'[c][k] = got[c][k]
          /\ got'[c][Len(got[c]) + 1] = cqueue[c][1]
      <4>1. Head(cqueue[c]) \in Msgs /\ Head(cqueue[c]) = cqueue[c][1] /\ Len(cqueue[c]) > 0
        BY <3>0, <3>1
      <4>2. /\ Len(cqueue'[c]) = Len(cqueue[c]) - 1
            /\ \A k \in 1..(Len(cqueue[c]) - 1) : cqueue'[c][k] = cqueue[c][k + 1]
        BY <3>0, <3>1, <4>1
      <4>3. /\ Len(got'[c]) = Len(got[c]) + 1
            /\ \A k \in 1..Len(got[c]) : got'[c][k] = got[c][k]
            /\ got'[c][Len(got[c]) + 1] = cqueue[c][1]
        BY <3>0, <3>1, <4>1
      <4> QED
        BY <4>1, <4>2, <4>3
    <3>3. Sent(c)' = Sent(c) /\ Expected(c)' = Expected(c) /\ DataHead(c)' = DataHead(c)
      <4>1. Sent(c)' = Sent(c)
        BY <1>t, <3>2 DEF Sent
      <4> QED
        BY <3>1, <4>1 DEF Expected, DataHead
    <3>4. QueueInv(c)' /\ PrefixInv(c)'
      <4>1. QueueInv(c)'
        BY <3>0, <3>1, <3>2, SvmsgAssumption DEF QueueInv
      <4>2. ASSUME "read_error" \notin hurt, NEW k \in 1..Len(got'[c])
            PROVE  got'[c][k] = Expected(c)[k]
        <5>1. CASE k = Len(got[c]) + 1
          BY <3>0, <3>2, <4>2, <5>1, SMTT(30) DEF PrefixInv
        <5>2. CASE k # Len(got[c]) + 1
          <6>1. k \in 1..Len(got[c])
            BY <1>t, <3>2, <4>2, <5>2
          <6> QED
            BY <3>0, <3>2, <4>2, <6>1 DEF PrefixInv
        <5> QED
          BY <5>1, <5>2
      <4>3. ASSUME "read_error" \notin hurt, NEW k \in 1..Len(cqueue'[c])
            PROVE  cqueue'[c][k] = Expected(c)[Len(got'[c]) + k]
        <5>1. k + 1 \in 1..Len(cqueue[c]) /\ k \in 1..(Len(cqueue[c]) - 1)
          BY <3>0, <3>2, <4>3
        <5>2. cqueue[c][k + 1] = Expected(c)[Len(got[c]) + (k + 1)]
          BY <3>0, <4>3, <5>1 DEF PrefixInv
        <5>3. Len(got[c]) + (k + 1) = Len(got'[c]) + k
          BY <1>t, <3>2, <5>1
        <5> QED
          BY <3>2, <5>1, <5>2, <5>3
      <4>4. PrefixInv(c)'
        BY <3>0, <3>1, <3>3, <4>2, <4>3 DEF PrefixInv
      <4> QED
        BY <4>1, <4>4
    <3>5. ChildInv(c)'
      BY <3>0, <3>1, <3>3 DEF ChildInv
    <3>6. SentInv(c)'
      BY <3>0, <3>1, <3>3 DEF SentInv
    <3> QED
      BY <3>4, <3>5, <3>6 DEF AnswerInv
  <2> QED
    BY <2>1, <2>2
<1>22. ASSUME NEW c \in Clients, removeQueue(c) PROVE (\A d \in Clients : AnswerInv(d))'
  <2>1. ASSUME NEW d \in Clients, d # c PROVE AnswerInv(d)'
    BY <1>22, <2>1, AnswerFrame, FunctionTypes DEF removeQueue, ClientAt
  <2>2. AnswerInv(c)'
    <3>0. /\ QueueInv(c) /\ ChildInv(c) /\ SentInv(c) /\ PrefixInv(c)
          /\ got[c] \in Seq(Msgs) /\ cqueue[c] \in Seq(Msgs) /\ pos[c] \in Nat /\ pos[c] <= Len(file[c])
          /\ Len(got[c]) \in Nat /\ Len(cqueue[c]) \in Nat /\ Len(file[c]) \in Nat
      BY ClientTypes, FileType DEF AnswerInv
    <3>2. /\ cpc'[c] = "done" /\ c \notin cqs' /\ chpc' = chpc
          /\ cqueue'[c] = <<>> /\ got' = got /\ pos' = pos /\ file' = file /\ hurt' = hurt
      BY <1>22, FunctionTypes DEF removeQueue, ClientAt
    <3>3. Sent(c)' = Len(got[c]) /\ Expected(c)' = Expected(c) /\ Len(cqueue'[c]) = 0
      BY <3>0, <3>2 DEF Sent, Expected
    <3>4. QueueInv(c)' /\ PrefixInv(c)'
      <4>1. QueueInv(c)'
        BY <3>2, <3>3, SvmsgAssumption DEF QueueInv
      <4>2. Len(Expected(c)) \in Nat
        BY ExpectedIs
      <4>3. PrefixInv(c)'
        <5>1. Len(got[c]) <= Sent(c) /\ Sent(c) \in Nat
          BY <1>t DEF Sent
        <5> QED
          BY <3>0, <3>2, <3>3, <4>2, <5>1 DEF PrefixInv
      <4> QED
        BY <4>1, <4>3
    <3>5. ChildInv(c)'
      <4>1. Sent(c) = 0 => Len(got[c]) = 0
        BY <1>t DEF Sent
      <4> QED
        BY <3>0, <3>2, <3>3, <4>1 DEF ChildInv
    <3>6. SentInv(c)'
      BY <3>2 DEF SentInv
    <3> QED
      BY <3>4, <3>5, <3>6 DEF AnswerInv
  <2> QED
    BY <2>1, <2>2
<1>23. ASSUME NEW c \in Clients, ClientKilled(c) PROVE (\A d \in Clients : AnswerInv(d))'
  BY <1>23, AnswerFrame, FunctionTypes DEF ClientKilled, Fault, ChildPcs
<1>24. CASE UNCHANGED vars
  BY <1>24, AnswerFrame, FunctionTypes
<1> QED
  BY <1>1, <1>2, <1>3, <1>4, <1>5, <1>6, <1>7, <1>8, <1>9, <1>10, <1>11, <1>12,
     <1>13, <1>14, <1>15, <1>16, <1>17, <1>18, <1>19, <1>20, <1>21, <1>22, <1>23, <1>24
  DEF Next, Server, Child, Client

(***************************************************************************)
(* Nobody is forgotten.                                                    *)
(***************************************************************************)

(* Every step keeps the server's queue in place.                             *)
LEMMA ServerStep == ASSUME ServerInv, [Next]_vars PROVE ServerInv'
<1> USE DEF vars, svars, qvars, cqvars, chvars, cvars, fvars
<1>1. CASE ServerStart
  BY <1>1 DEF ServerInv, ServerStart
<1>2. CASE Receive
  BY <1>2 DEF ServerInv, Receive
<1>3. CASE ReceiveFails
  BY <1>3 DEF ServerInv, ReceiveFails, ServerGone
<1>4. CASE Fork
  BY <1>4 DEF ServerInv, Fork
<1>5. CASE ForkFails
  BY <1>5 DEF ServerInv, ForkFails, Fault
<1>6. CASE EnterHandler
  BY <1>6 DEF ServerInv, EnterHandler
<1>7. ASSUME NEW c \in Clients, Reap(c) PROVE ServerInv'
  BY <1>7 DEF ServerInv, Reap
<1>8. CASE LeaveHandler
  BY <1>8 DEF ServerInv, LeaveHandler
<1>9. CASE ServerSigint
  BY <1>9 DEF ServerInv, ServerSigint, ServerGone, RemoveServerQueue, Fault
<1>10. CASE ServerKilled
  BY <1>10 DEF ServerInv, ServerKilled, ServerGone, Fault
<1>11. ASSUME NEW c \in Clients, OpenFile(c) PROVE ServerInv'
  BY <1>11 DEF ServerInv, OpenFile, ChildAt
<1>12. ASSUME NEW c \in Clients, SendFailure(c) PROVE ServerInv'
  BY <1>12 DEF ServerInv, SendFailure, ChildExits, Put
<1>13. ASSUME NEW c \in Clients, ReadChunk(c) PROVE ServerInv'
  BY <1>13 DEF ServerInv, ReadChunk, ChildAt
<1>14. ASSUME NEW c \in Clients, ReadFails(c) PROVE ServerInv'
  BY <1>14 DEF ServerInv, ReadFails, ChildAt, Fault
<1>15. ASSUME NEW c \in Clients, SendChunk(c) PROVE ServerInv'
  BY <1>15 DEF ServerInv, SendChunk, ChildAt, Put
<1>16. ASSUME NEW c \in Clients, SendEnd(c) PROVE ServerInv'
  BY <1>16 DEF ServerInv, SendEnd, ChildExits, Put
<1>17. ASSUME NEW c \in Clients, ChildSigint(c) PROVE ServerInv'
  BY <1>17 DEF ServerInv, ChildSigint, ChildExits, RemoveServerQueue, Fault
<1>18. ASSUME NEW c \in Clients, GetServerQueue(c) PROVE ServerInv'
  BY <1>18 DEF ServerInv, GetServerQueue, ClientAt
<1>19. ASSUME NEW c \in Clients, CreateQueue(c) PROVE ServerInv'
  BY <1>19 DEF ServerInv, CreateQueue, ClientAt
<1>20. ASSUME NEW c \in Clients, SendRequest(c) PROVE ServerInv'
  BY <1>20 DEF ServerInv, SendRequest, ClientAt
<1>21. ASSUME NEW c \in Clients, ReceiveResponse(c) PROVE ServerInv'
  BY <1>21 DEF ServerInv, ReceiveResponse, ClientAt
<1>22. ASSUME NEW c \in Clients, removeQueue(c) PROVE ServerInv'
  BY <1>22 DEF ServerInv, removeQueue, ClientAt
<1>23. ASSUME NEW c \in Clients, ClientKilled(c) PROVE ServerInv'
  BY <1>23 DEF ServerInv, ClientKilled, Fault
<1>24. CASE UNCHANGED vars
  BY <1>24 DEF ServerInv
<1> QED
  BY <1>1, <1>2, <1>3, <1>4, <1>5, <1>6, <1>7, <1>8, <1>9, <1>10, <1>11, <1>12,
     <1>13, <1>14, <1>15, <1>16, <1>17, <1>18, <1>19, <1>20, <1>21, <1>22, <1>23, <1>24
  DEF Next, Server, Child, Client

(* Whoever waits is in somebody's hands, if none of these is lost and nobody *)
(* begins to wait.                                                           *)
LEMMA AccountedFrame ==
    ASSUME Accounted, file' = file, hurt \subseteq hurt', squeue' = squeue,
           spc = "fork" => spc' = "fork" /\ req' = req,
           \A d \in Clients :
               cpc'[d] = "msgrcv" =>
                   /\ cpc[d] = "msgrcv"
                   /\ cqueue'[d] = cqueue[d]
                   /\ chpc[d] \in Running => chpc'[d] \in Running
    PROVE  Accounted'
<1> SUFFICES ASSUME hurt' \subseteq {"kill_client"}, NEW d \in Clients,
                    cpc'[d] = "msgrcv", Transmissible(d)'
             PROVE  InHands(d)'
  BY DEF Accounted, InHands
<1>1. hurt \subseteq {"kill_client"} /\ cpc[d] = "msgrcv"
  OBVIOUS
<1>2. Transmissible(d)
  BY DEF Transmissible
<1>3. InHands(d)
  BY <1>1, <1>2 DEF Accounted, InHands
<1> QED
  BY <1>3 DEF InHands, Answered

(* The last element of an extended sequence.                                 *)
LEMMA LastOfAppend ==
    ASSUME NEW s \in Seq(Msgs), NEW m \in Msgs
    PROVE  /\ Append(s, m) # <<>> /\ Len(Append(s, m)) = Len(s) + 1
           /\ Append(s, m)[Len(s) + 1] = m
<1>1. Len(s) \in Nat /\ Len(Append(s, m)) = Len(s) + 1 /\ Append(s, m)[Len(s) + 1] = m
  OBVIOUS
<1>2. Append(s, m) # <<>>
  BY <1>1
<1> QED
  BY <1>1, <1>2

(* The rest of a longer sequence ends as the sequence does.                  *)
LEMMA LastOfTail ==
    ASSUME NEW s \in Seq(Msgs), Len(s) > 1
    PROVE  /\ Tail(s) # <<>> /\ Len(Tail(s)) = Len(s) - 1
           /\ Tail(s)[Len(s) - 1] = s[Len(s)]
<1>1. s # <<>> /\ Len(s) \in Nat
  OBVIOUS
<1>2. Len(Tail(s)) = Len(s) - 1 /\ Tail(s)[Len(s) - 1] = s[Len(s)]
  BY <1>1
<1>3. Tail(s) # <<>>
  <2>1. ASSUME NEW t \in Seq(Msgs), Len(t) = Len(s) - 1 PROVE t # <<>>
    BY <2>1
  <2>2. Tail(s) \in Seq(Msgs)
    BY <1>1
  <2> QED
    BY <1>2, <2>1, <2>2
<1> QED
  BY <1>2, <1>3

(* Every step keeps the waiting clients in hands.                            *)
LEMMA AccountedStep == ASSUME IInv, [Next]_vars PROVE Accounted'
<1>0. /\ \A c \in Clients : AnswerInv(c)
      /\ TypeOK /\ OnceInv /\ Accounted /\ ServerInv
  BY DEF IInv
<1>t. /\ squeue \in Seq(Clients)
      /\ chpc \in [Clients -> ChildPcs] /\ cpc \in [Clients -> ClientPcs]
      /\ cqueue \in [Clients -> Seq(Msgs)] /\ cqueue' \in [Clients -> Seq(Msgs)]
  BY <1>0, FunctionTypes, TypeStep DEF TypeOK, AnswerInv
<1> USE <1>0, <1>t DEF vars, svars, qvars, cqvars, chvars, cvars, fvars
<1>1. CASE ServerStart
  BY <1>1, AccountedFrame DEF ServerStart, Running
<1>2. CASE Receive
  <2> SUFFICES ASSUME hurt' \subseteq {"kill_client"}, NEW d \in Clients,
                      cpc'[d] = "msgrcv", Transmissible(d)'
               PROVE  InHands(d)'
    BY DEF Accounted, InHands
  <2>1. file' = file /\ hurt' = hurt
    BY <1>2 DEF Receive
  <2>2. Transmissible(d)
    BY <2>1 DEF Transmissible
  <2>3. cpc[d] = "msgrcv" => InHands(d)
    BY <2>1, <2>2 DEF Accounted, InHands
  <2>4. cpc[d] = "msgrcv" /\ chpc' = chpc /\ cqueue' = cqueue /\ spc' = "fork" /\ spc = "msgrcv"
    BY <1>2 DEF Receive
  <2>5. Len(squeue) \in Nat /\ Len(squeue) > 0 /\ req' = squeue[1] /\ Len(squeue') = Len(squeue) - 1
    BY <1>2 DEF Receive
  <2>6. \A k \in 1..(Len(squeue) - 1) : squeue'[k] = squeue[k + 1]
    BY <1>2, <2>5 DEF Receive
  <2>7. ASSUME NEW k \in 1..Len(squeue), squeue[k] = d PROVE InHands(d)'
    <3>1. CASE k = 1
      BY <2>4, <2>5, <2>7, <3>1 DEF InHands
    <3>2. CASE k # 1
      <4>1. k - 1 \in 1..(Len(squeue) - 1) /\ (k - 1) + 1 = k
        BY <2>5, <3>2
      <4>2. k - 1 \in 1..Len(squeue') /\ squeue'[k - 1] = d
        BY <2>5, <2>6, <2>7, <4>1
      <4> QED
        BY <4>2 DEF InHands
    <3> QED
      BY <3>1, <3>2
  <2> QED
    BY <2>3, <2>4, <2>7 DEF InHands, Answered
<1>3. CASE ReceiveFails
  <2>1. ~(hurt \subseteq {"kill_client"}) /\ hurt' = hurt
    BY <1>3 DEF ReceiveFails, ServerInv
  <2> QED
    BY <2>1 DEF Accounted
<1>4. CASE Fork
  <2> SUFFICES ASSUME hurt' \subseteq {"kill_client"}, NEW d \in Clients,
                      cpc'[d] = "msgrcv", Transmissible(d)'
               PROVE  InHands(d)'
    BY DEF Accounted, InHands
  <2>1. file' = file /\ hurt' = hurt
    BY <1>4 DEF Fork
  <2>2. Transmissible(d)
    BY <2>1 DEF Transmissible
  <2>3. cpc[d] = "msgrcv" => InHands(d)
    BY <2>1, <2>2 DEF Accounted, InHands
  <2>4. cpc[d] = "msgrcv" /\ cqueue' = cqueue /\ squeue' = squeue /\ spc = "fork" /\ req \in Clients
    BY <1>4, FunctionTypes DEF Fork
  <2>5. chpc'[d] = IF d = req THEN "open" ELSE chpc[d]
    BY <1>4, <2>4 DEF Fork
  <2> QED
    BY <2>3, <2>4, <2>5 DEF InHands, Answered, Running
<1>5. CASE ForkFails
  <2>1. "fork_error" \in hurt'
    BY <1>5 DEF ForkFails, Fault
  <2> QED
    BY <2>1 DEF Accounted
<1>6. CASE EnterHandler
  BY <1>6, AccountedFrame DEF EnterHandler, Running
<1>7. ASSUME NEW c \in Clients, Reap(c) PROVE Accounted'
  BY <1>7, AccountedFrame DEF Reap, Running
<1>8. CASE LeaveHandler
  BY <1>8, AccountedFrame DEF LeaveHandler, Running
<1>9. CASE ServerSigint
  <2>1. "sigint" \in hurt'
    BY <1>9 DEF ServerSigint, Fault
  <2> QED
    BY <2>1 DEF Accounted
<1>10. CASE ServerKilled
  <2>1. "kill_server" \in hurt'
    BY <1>10 DEF ServerKilled, Fault
  <2> QED
    BY <2>1 DEF Accounted
<1>11. ASSUME NEW c \in Clients, OpenFile(c) PROVE Accounted'
  BY <1>11, AccountedFrame DEF OpenFile, ChildAt, Running
<1>12. ASSUME NEW c \in Clients, SendFailure(c) PROVE Accounted'
  <2> SUFFICES ASSUME hurt' \subseteq {"kill_client"}, NEW d \in Clients,
                      cpc'[d] = "msgrcv", Transmissible(d)'
               PROVE  InHands(d)'
    BY DEF Accounted, InHands
  <2>1. file' = file /\ hurt' = hurt
    BY <1>12 DEF SendFailure
  <2>2. Transmissible(d)
    BY <2>1 DEF Transmissible
  <2>3. cpc[d] = "msgrcv" => InHands(d)
    BY <2>1, <2>2 DEF Accounted, InHands
  <2>4. ASSUME d # c PROVE InHands(d)'
    BY <1>12, <2>3, <2>4 DEF SendFailure, ChildExits, Put, InHands, Answered, Running
  <2>5. ASSUME d = c PROVE InHands(d)'
    <3>3. c \in cqs
      BY <1>12, <2>5 DEF SendFailure, AnswerInv, QueueInv
    <3>4. cqueue'[c] = Append(cqueue[c], <<MT_FAILURE, 0>>)
      BY <1>12, <3>3 DEF SendFailure, Put
    <3>5. <<MT_FAILURE, 0>> \in Msgs /\ cqueue[c] \in Seq(Msgs)
      BY SendTypes
    <3>6. /\ cqueue'[c] # <<>> /\ Len(cqueue'[c]) = Len(cqueue[c]) + 1
          /\ cqueue'[c][Len(cqueue[c]) + 1] = <<MT_FAILURE, 0>>
      <4>1. /\ Append(cqueue[c], <<MT_FAILURE, 0>>) # <<>> /\ Len(Append(cqueue[c], <<MT_FAILURE, 0>>)) = Len(cqueue[c]) + 1
            /\ Append(cqueue[c], <<MT_FAILURE, 0>>)[Len(cqueue[c]) + 1] = <<MT_FAILURE, 0>>
        BY <3>5, LastOfAppend, Zenon
      <4> QED
        BY <3>4, <4>1, Zenon
    <3>7. <<MT_FAILURE, 0>>[1] # MT_DATA
      BY DEF MT_DATA, MT_END, MT_FAILURE
    <3> QED
      BY <2>5, <3>6, <3>7 DEF InHands, Answered
  <2> QED
    BY <2>4, <2>5
<1>13. ASSUME NEW c \in Clients, ReadChunk(c) PROVE Accounted'
  BY <1>13, AccountedFrame DEF ReadChunk, ChildAt, Running
<1>14. ASSUME NEW c \in Clients, ReadFails(c) PROVE Accounted'
  <2>1. "read_error" \in hurt'
    BY <1>14 DEF ReadFails, Fault
  <2> QED
    BY <2>1 DEF Accounted
<1>15. ASSUME NEW c \in Clients, SendChunk(c) PROVE Accounted'
  <2> SUFFICES ASSUME hurt' \subseteq {"kill_client"}, NEW d \in Clients,
                      cpc'[d] = "msgrcv", Transmissible(d)'
               PROVE  InHands(d)'
    BY DEF Accounted, InHands
  <2>1. file' = file /\ hurt' = hurt
    BY <1>15 DEF SendChunk
  <2>2. Transmissible(d)
    BY <2>1 DEF Transmissible
  <2>3. cpc[d] = "msgrcv" => InHands(d)
    BY <2>1, <2>2 DEF Accounted, InHands
  <2>4. ASSUME d # c PROVE InHands(d)'
    BY <1>15, <2>3, <2>4 DEF SendChunk, ChildAt, Put, InHands, Answered, Running
  <2>5. ASSUME d = c PROVE InHands(d)'
    BY <1>15, <2>5 DEF SendChunk, ChildAt, InHands, Running
  <2> QED
    BY <2>4, <2>5
<1>16. ASSUME NEW c \in Clients, SendEnd(c) PROVE Accounted'
  <2> SUFFICES ASSUME hurt' \subseteq {"kill_client"}, NEW d \in Clients,
                      cpc'[d] = "msgrcv", Transmissible(d)'
               PROVE  InHands(d)'
    BY DEF Accounted, InHands
  <2>1. file' = file /\ hurt' = hurt
    BY <1>16 DEF SendEnd
  <2>2. Transmissible(d)
    BY <2>1 DEF Transmissible
  <2>3. cpc[d] = "msgrcv" => InHands(d)
    BY <2>1, <2>2 DEF Accounted, InHands
  <2>4. ASSUME d # c PROVE InHands(d)'
    BY <1>16, <2>3, <2>4 DEF SendEnd, ChildExits, Put, InHands, Answered, Running
  <2>5. ASSUME d = c PROVE InHands(d)'
    <3>1. c \in cqs /\ chpc[c] = "end" /\ "read_error" \notin hurt
      BY <1>16, <2>1, <2>5 DEF SendEnd, AnswerInv, QueueInv
    <3>2. DataHead(c) > 0
      <4>1. file[c] \in Seq(Int) /\ pos[c] \in Nat /\ pos[c] <= Len(file[c]) /\ Len(file[c]) \in Nat
        BY FileType, ClientTypes
      <4>2. file[c] # NoFile /\ (DataHead(c) < 0 \/ pos[c] = Len(file[c]))
        BY <3>1 DEF AnswerInv, ChildInv, SentInv
      <4>3. /\ \A k \in 1..Len(file[c]) : file[c][k] >= 0
            /\ file[c] # <<>> /\ file[c][Len(file[c])] > 0
        BY <2>2, <2>5, <4>2 DEF Transmissible
      <4>4. ~(DataHead(c) < 0)
        BY <4>1, <4>3, SMTT(30) DEF DataHead
      <4>5. pos[c] = Len(file[c]) /\ Len(file[c]) # 0
        BY <4>1, <4>2, <4>3, <4>4
      <4> QED
        BY <4>3, <4>5 DEF DataHead
    <3>3. Sendable(MT_END, DataHead(c)) /\ c \in cqs
      BY <3>1, <3>2 DEF Sendable
    <3>4. cqueue'[c] = Append(cqueue[c], <<MT_END, 0>>)
      BY <1>16, <3>3 DEF SendEnd, Put
    <3>5. <<MT_END, 0>> \in Msgs /\ cqueue[c] \in Seq(Msgs)
      BY SendTypes
    <3>6. /\ cqueue'[c] # <<>> /\ Len(cqueue'[c]) = Len(cqueue[c]) + 1
          /\ cqueue'[c][Len(cqueue[c]) + 1] = <<MT_END, 0>>
      <4>1. /\ Append(cqueue[c], <<MT_END, 0>>) # <<>> /\ Len(Append(cqueue[c], <<MT_END, 0>>)) = Len(cqueue[c]) + 1
            /\ Append(cqueue[c], <<MT_END, 0>>)[Len(cqueue[c]) + 1] = <<MT_END, 0>>
        BY <3>5, LastOfAppend, Zenon
      <4> QED
        BY <3>4, <4>1, Zenon
    <3>7. <<MT_END, 0>>[1] # MT_DATA
      BY DEF MT_DATA, MT_END, MT_FAILURE
    <3> QED
      BY <2>5, <3>6, <3>7 DEF InHands, Answered
  <2> QED
    BY <2>4, <2>5
<1>17. ASSUME NEW c \in Clients, ChildSigint(c) PROVE Accounted'
  <2>1. "sigint" \in hurt'
    BY <1>17 DEF ChildSigint, Fault
  <2> QED
    BY <2>1 DEF Accounted
<1>18. ASSUME NEW c \in Clients, GetServerQueue(c) PROVE Accounted'
  BY <1>18, AccountedFrame DEF GetServerQueue, ClientAt, Running
<1>19. ASSUME NEW c \in Clients, CreateQueue(c) PROVE Accounted'
  BY <1>19, AccountedFrame DEF CreateQueue, ClientAt, Running
<1>20. ASSUME NEW c \in Clients, SendRequest(c) PROVE Accounted'
  <2> SUFFICES ASSUME hurt' \subseteq {"kill_client"}, NEW d \in Clients,
                      cpc'[d] = "msgrcv", Transmissible(d)'
               PROVE  InHands(d)'
    BY DEF Accounted, InHands
  <2>1. file' = file /\ hurt' = hurt
    BY <1>20 DEF SendRequest
  <2>2. Transmissible(d)
    BY <2>1 DEF Transmissible
  <2>3. cpc[d] = "msgrcv" => InHands(d)
    BY <2>1, <2>2 DEF Accounted, InHands
  <2>4. CASE csid[c] # sqid
    BY <1>20, <2>3, <2>4 DEF SendRequest, ClientAt, InHands, Answered
  <2>5. CASE csid[c] = sqid
    <3>1. squeue' = Append(squeue, c) /\ chpc' = chpc /\ cqueue' = cqueue /\ spc' = spc /\ req' = req
      BY <1>20, <2>5 DEF SendRequest
    <3>2. /\ Len(squeue') = Len(squeue) + 1 /\ squeue'[Len(squeue) + 1] = c /\ Len(squeue) \in Nat
          /\ \A k \in 1..Len(squeue) : squeue'[k] = squeue[k]
      BY <3>1
    <3>3. CASE d = c
      <4>1. Len(squeue) + 1 \in 1..Len(squeue')
        BY <3>2
      <4> QED
        BY <3>2, <3>3, <4>1, Zenon DEF InHands
    <3>4. CASE d # c
      <4>1. cpc[d] = "msgrcv"
        BY <1>20, <3>4 DEF SendRequest, ClientAt
      <4> QED
        BY <2>3, <3>1, <3>2, <4>1 DEF InHands, Answered
    <3> QED
      BY <3>3, <3>4
  <2> QED
    BY <2>4, <2>5
<1>21. ASSUME NEW c \in Clients, ReceiveResponse(c) PROVE Accounted'
  <2> SUFFICES ASSUME hurt' \subseteq {"kill_client"}, NEW d \in Clients,
                      cpc'[d] = "msgrcv", Transmissible(d)'
               PROVE  InHands(d)'
    BY DEF Accounted, InHands
  <2>1. file' = file /\ hurt' = hurt
    BY <1>21 DEF ReceiveResponse
  <2>2. Transmissible(d)
    BY <2>1 DEF Transmissible
  <2>3. cpc[d] = "msgrcv" => InHands(d)
    BY <2>1, <2>2 DEF Accounted, InHands
  <2>4. ASSUME d # c PROVE InHands(d)'
    BY <1>21, <2>3, <2>4 DEF ReceiveResponse, ClientAt, InHands, Answered
  <2>5. ASSUME d = c PROVE InHands(d)'
    <3>1. /\ cqueue[c] # <<>> /\ cqueue'[c] = Tail(cqueue[c]) /\ cpc[c] = "msgrcv"
          /\ squeue' = squeue /\ spc' = spc /\ req' = req /\ chpc' = chpc
          /\ Head(cqueue[c])[1] = MT_DATA
      BY <1>21, <2>5 DEF ReceiveResponse, ClientAt
    <3>2. cqueue[c] \in Seq(Msgs)
      OBVIOUS
    <3>3. ASSUME Answered(c) PROVE Answered(c)'
      <4>1. Len(cqueue[c]) \in Nat /\ Len(cqueue[c]) > 0 /\ Head(cqueue[c]) = cqueue[c][1]
        BY <3>1, <3>2
      <4>2. Len(cqueue[c]) # 1
        BY <3>1, <3>3, <4>1 DEF Answered
      <4>5. cqueue[c] \in Seq(Msgs) /\ Len(cqueue[c]) > 1
        <5>1. ASSUME NEW n \in Nat, n > 0, n # 1 PROVE n > 1
          BY <5>1
        <5> QED
          BY <3>2, <4>1, <4>2, <5>1, Zenon
      <4>3. /\ Len(cqueue'[c]) = Len(cqueue[c]) - 1
            /\ cqueue'[c][Len(cqueue[c]) - 1] = cqueue[c][Len(cqueue[c])]
        BY <3>1, <4>2, <4>5, LastOfTail
      <4>4. cqueue'[c] # <<>>
        BY <3>1, <4>2, <4>5, LastOfTail
      <4> QED
        BY <3>3, <4>3, <4>4 DEF Answered
    <3> QED
      BY <2>3, <2>5, <3>1, <3>3 DEF InHands
  <2> QED
    BY <2>4, <2>5
<1>22. ASSUME NEW c \in Clients, removeQueue(c) PROVE Accounted'
  BY <1>22, AccountedFrame DEF removeQueue, ClientAt, Running
<1>23. ASSUME NEW c \in Clients, ClientKilled(c) PROVE Accounted'
  BY <1>23, AccountedFrame DEF ClientKilled, Fault, Running
<1>24. CASE UNCHANGED vars
  BY <1>24, AccountedFrame
<1> QED
  BY <1>1, <1>2, <1>3, <1>4, <1>5, <1>6, <1>7, <1>8, <1>9, <1>10, <1>11, <1>12,
     <1>13, <1>14, <1>15, <1>16, <1>17, <1>18, <1>19, <1>20, <1>21, <1>22, <1>23, <1>24
  DEF Next, Server, Child, Client

(***************************************************************************)
(* The theorems.                                                           *)
(***************************************************************************)

(* The invariant holds at first.                                             *)
LEMMA InitInv == ASSUME Init PROVE IInv
<1> USE SvmsgAssumption DEF Init
<1>1. TypeOK
  <2>1. /\ squeue \in Seq(Clients) /\ Len(squeue) <= ServerCap
        /\ cqueue \in [Clients -> Seq(Msgs)] /\ got \in [Clients -> Seq(Msgs)]
    OBVIOUS
  <2>2. \A c \in Clients : Len(cqueue[c]) <= QueueCap + 1
    OBVIOUS
  <2>3. \A c \in Clients : pos[c] <= Len(file[c])
    <3>1. ASSUME NEW f \in Files PROVE 0 <= Len(f)
      <4>1. Seq({-1, 0, 1}) \subseteq Seq(Int) /\ NoFile \in Seq(Int)
        BY DEF NoFile
      <4> QED
        BY <4>1
    <3> QED
      BY <3>1
  <2>4. /\ chpc \in [Clients -> Running \cup {"none", "zombie", "gone"}]
        /\ cpc \in [Clients -> Over \cup {"get", "create", "request", "msgrcv", "exit"}]
    BY DEF Running, Over
  <2>5. spc \in {"down", "msgrcv", "fork"} /\ spc # "fork" /\ req \in Clients \cup {NoClient}
    OBVIOUS
  <2>6. /\ serverId \in 0..MaxStarts /\ life \in 0..MaxStarts /\ sqid \in 0..MaxStarts
        /\ csid \in [Clients -> 0..MaxStarts] /\ pos \in [Clients -> Nat] /\ nfaults \in 0..MaxFaults
    OBVIOUS
  <2>7. /\ sigchld \in BOOLEAN /\ handling \in BOOLEAN /\ cqs \subseteq Clients
        /\ orphans \subseteq Clients /\ file \in [Clients -> Files] /\ hurt \subseteq Faults
    OBVIOUS
  <2> HIDE DEF Init
  <2> QED
    BY <2>1, <2>2, <2>3, <2>4, <2>5, <2>6, <2>7 DEF TypeOK
<1>2. OnceInv /\ ServerInv /\ Accounted
  BY DEF OnceInv, ServerInv, Accounted
<1>3. ASSUME NEW c \in Clients PROVE AnswerInv(c)
  <2>1. Len(got[c]) = 0 /\ Len(cqueue[c]) = 0 /\ chpc[c] = "none" /\ cpc[c] = "get" /\ cqs = {} /\ pos[c] = 0
    OBVIOUS
  <2>2. Sent(c) = 0
    BY <2>1 DEF Sent
  <2>3. QueueInv(c) /\ ChildInv(c) /\ SentInv(c)
    BY <2>1, <2>2 DEF QueueInv, ChildInv, SentInv, Ended
  <2>4. PrefixInv(c)
    BY <1>1, <2>1, <2>2, ExpectedIs DEF PrefixInv
  <2> QED
    BY <2>3, <2>4 DEF AnswerInv
<1> QED
  BY <1>1, <1>2, <1>3 DEF IInv

(* The inductive invariant of the server, its children and the clients.      *)
THEOREM Invariance == Spec => []IInv
<1>1. ASSUME IInv, [Next]_vars PROVE IInv'
  <2>1. TypeOK' /\ OnceInv' /\ ServerInv'
    BY <1>1, TypeStep, OnceStep, ServerStep DEF IInv, AnswerInv
  <2>2. (\A c \in Clients : AnswerInv(c))' /\ Accounted'
    BY <1>1, AnswerStep, AccountedStep
  <2> QED
    BY <2>1, <2>2 DEF IInv
<1> QED
  BY InitInv, <1>1, PTL DEF Spec

(* The variables keep their types, the queues their bounds, and the children *)
(* stay inside their files.                                                  *)
THEOREM TypeCorrect == Spec => []TypeOK
<1>1. IInv => TypeOK
  BY DEF IInv
<1> QED
  BY Invariance, <1>1, PTL

(* What a client has received is the beginning of its file, or of the        *)
(* answer that there is none, unless read() failed.                          *)
THEOREM AnswersInOrder == Spec => []AnswerIsPrefix
<1>1. IInv => AnswerIsPrefix
  <2> SUFFICES ASSUME IInv, "read_error" \notin hurt, NEW c \in Clients
               PROVE  /\ Len(got[c]) <= Len(Expected(c))
                      /\ \A k \in 1..Len(got[c]) : got[c][k] = Expected(c)[k]
    BY DEF AnswerIsPrefix
  <2>1. TypeOK /\ PrefixInv(c)
    BY DEF IInv, AnswerInv
  <2>2. Len(got[c]) <= Sent(c) /\ Len(got[c]) \in Nat /\ Sent(c) \in Nat
    BY <2>1, FunctionTypes DEF Sent
  <2>3. Len(Expected(c)) \in Nat
    BY <2>1, ExpectedIs
  <2> QED
    BY <2>1, <2>2, <2>3 DEF PrefixInv
<1> QED
  BY Invariance, <1>1, PTL

(* As long as only clients are killed, a client that waits for a file that   *)
(* can be sent is in somebody's hands.                                       *)
THEOREM NobodyForgotten == Spec => []Accounted
<1>1. IInv => Accounted
  BY DEF IInv
<1> QED
  BY Invariance, <1>1, PTL
=============================================================================
