--------------------------- MODULE PmsgFileProofs ---------------------------
(***************************************************************************)
(* TLAPS proofs about PmsgFile, for any clients, servers, files and queue  *)
(* sizes: the chunks of a file are received once and in order, and a queue *)
(* under the common name is somebody's.                                    *)
(***************************************************************************)
EXTENDS PmsgFile, TLAPS

ServerPcs == {"new", "reopen", "receive", "fork", "down"}
ChildPcs  == Serving \cup {"none", "gone"}
Fresh     == {"start", "create", "reopen", "connect"}
ClientPcs == Over \cup Fresh \cup {"receive", "unlink"}

(* Sequences are looked at through these three predicates alone: client c    *)
(* is the i-th to ask in the queue of server s, the k-th chunk of d's file   *)
(* is the i-th message in the queue of q, or was the i-th that c received.   *)
Chunk(d, k)      == <<d, MT_DATA, k>>
Asks(s, i, c)    == i \in 1..Len(squeue[s]) /\ squeue[s][i] = c
InQ(q, i, d, k)  == i \in 1..Len(cqueue[q]) /\ cqueue[q][i] = Chunk(d, k)
Got(c, i, d, k)  == i \in 2..Len(got[c]) /\ got[c][i] = Chunk(d, k)
Received(d, k)   == \E c \in Clients, i \in Nat : Got(c, i, d, k)

(* A client has one request, and that gets one child.                        *)
OnceInv ==
    /\ \A s \in Servers, i \in Nat, c \in Clients : Asks(s, i, c) =>
        /\ chpc[c] = "none" /\ cpc[c] \notin Fresh
        /\ \A r \in Servers : req[r] # c
        /\ \A r \in Servers, j \in Nat : Asks(r, j, c) => r = s /\ j = i
    /\ \A s \in Servers, c \in Clients : req[s] = c =>
        /\ chpc[c] = "none" /\ cpc[c] \notin Fresh
        /\ \A r \in Servers : req[r] = c => r = s
    /\ \A c \in Clients : cpc[c] \in Fresh => chpc[c] = "none"

(* The progress of the child of c in its file.                               *)
ChildInv ==
    \A c \in Clients :
        /\ chpc[c] \in {"none", "open", "fail"} => pos[c] = 0
        /\ chpc[c] = "data" => size[c] # NoFile
        /\ pos[c] > 0 => pos[c] <= size[c]
        /\ Len(got[c]) >= 1

(* What was received of d's file is its beginning, and by whom does not      *)
(* matter; nothing was received twice.                                       *)
GotInv ==
    /\ \A c \in Clients, i \in Nat, d \in Clients, k \in Nat : Got(c, i, d, k) =>
        /\ k \in 1..pos[d]
        /\ \A h \in 1..k : Received(d, h)
    /\ \A c, b \in Clients, i, j \in Nat, d \in Clients, k \in Nat :
        Got(c, i, d, k) /\ Got(b, j, d, k) => c = b /\ i = j
    /\ \A c \in Clients, i, j \in Nat, d \in Clients, k, h \in Nat :
        Got(c, i, d, k) /\ Got(c, j, d, h) /\ i < j => k < h

(* What is in a queue follows on that, in order, and in one queue.           *)
QueueInv ==
    /\ \A q \in Clients, i \in Nat, d \in Clients, k \in Nat : InQ(q, i, d, k) =>
        /\ k \in 1..pos[d]
        /\ \A h \in Nat : Received(d, h) => h < k
        /\ \A h \in 1..(k - 1) : Received(d, h) \/ \E j \in Nat : j < i /\ InQ(q, j, d, h)
    /\ \A q, r \in Clients, i, j \in Nat, d \in Clients, k, h \in Nat :
        InQ(q, i, d, k) /\ InQ(r, j, d, h) => q = r /\ (i < j => k < h)

(* And it is all that the child has sent, to the queue that it has open.     *)
SentInv ==
    \A d \in Clients : chpc[d] = "data" =>
        /\ \A q \in Clients, i \in Nat, k \in Nat : InQ(q, i, d, k) => q = chq[d]
        /\ \A h \in 1..pos[d] :
            Received(d, h) \/ \E q \in Clients, j \in Nat : q = chq[d] /\ InQ(q, j, d, h)

DataInv == "sigchld_client" \notin hurt => GotInv /\ QueueInv /\ SentInv

IInv == TypeOK /\ OnceInv /\ ChildInv /\ DataInv /\ NameIsUsed

(***************************************************************************)
(* Types.                                                                  *)
(***************************************************************************)

(* The variables that are functions.                                         *)
LEMMA FunctionTypes ==
    ASSUME TypeOK
    PROVE  /\ squeue \in [Servers -> Seq(Clients)] /\ cqueue \in [Clients -> Seq(Msgs)]
           /\ got \in [Clients -> Seq(Msgs)] /\ pos \in [Clients -> Nat]
           /\ spc \in [Servers -> ServerPcs] /\ chpc \in [Clients -> ChildPcs]
           /\ cpc \in [Clients -> ClientPcs]
           /\ req \in [Servers -> Clients \cup {NoClient}]
           /\ serverId \in [Servers -> Servers \cup {NoServer}]
           /\ csid \in [Clients -> Servers \cup {NoServer}]
           /\ chq \in [Clients -> Clients \cup {NoClient}]
           /\ clientId \in [Clients -> Clients \cup {NoClient}]
           /\ size \in [Clients -> Nat \cup {NoFile}]
           /\ sname \in Servers \cup {NoServer} /\ cname \in Clients \cup {NoClient}
<1>1. size \in [Clients -> Nat \cup {NoFile}]
  BY PmsgAssumption DEF TypeOK
<1> QED
  BY <1>1 DEF TypeOK, ServerPcs, ChildPcs, ClientPcs, Fresh

(* What is no client, and no server.                                         *)
LEMMA Nobody == NoClient \notin Clients /\ NoServer \notin Servers
BY PmsgAssumption DEF NoClient, NoServer, Servers

(* Two chunks are the same only if they are.                                 *)
LEMMA ChunkIs ==
    /\ \A d, e, k, h : Chunk(d, k) = Chunk(e, h) => d = e /\ k = h
    /\ \A d \in Clients, k \in Nat : Chunk(d, k) \in Msgs
    /\ \A e, d, k, n : <<e, MT_FAILURE, n>> # Chunk(d, k) /\ <<e, MT_END, n>> # Chunk(d, k)
BY DEF Chunk, Msgs, MT_DATA, MT_FAILURE, MT_END

(* Initially nobody has asked.                                               *)
LEMMA InitIInv == Init => IInv
<1> SUFFICES ASSUME Init PROVE IInv
  OBVIOUS
<1> USE PmsgAssumption DEF Init
<1>1. TypeOK
  <2>1. \A c \in Clients : <<FirstResp(c)>> \in Seq(Msgs)
    BY DEF FirstResp, Msgs, MT_DATA
  <2>2. size \in [Clients -> Sizes]
    OBVIOUS
  <2> QED
    BY <2>1, <2>2, Nobody DEF TypeOK, Serving, Over
<1>2. OnceInv /\ ChildInv /\ NameIsUsed
  BY Nobody DEF OnceInv, ChildInv, NameIsUsed, Asks, FirstResp
<1>3. \A c, d \in Clients, i, k \in Nat : ~Got(c, i, d, k) /\ ~InQ(c, i, d, k)
  BY DEF Got, InQ, FirstResp
<1>4. DataInv
  BY <1>3 DEF DataInv, GotInv, QueueInv, SentInv, Received
<1> QED
  BY <1>1, <1>2, <1>4 DEF IInv

(***************************************************************************)
(* Each step keeps the types.                                              *)
(***************************************************************************)

(* The types of the servers, the client queues, the children, the clients    *)
(* and the faults.                                                           *)
ServerPart ==
    /\ sname \in Servers \cup {NoServer}
    /\ squeue \in [Servers -> Seq(Clients)] /\ \A s \in Servers : Len(squeue[s]) <= QueueCap
    /\ spc \in [Servers -> ServerPcs]
    /\ serverId \in [Servers -> Servers \cup {NoServer}]
    /\ req \in [Servers -> Clients \cup {NoClient}]
    /\ \A s \in Servers : spc[s] = "fork" <=> req[s] # NoClient
QueuePart ==
    /\ cname \in Clients \cup {NoClient}
    /\ cqueue \in [Clients -> Seq(Msgs)] /\ \A c \in Clients : Len(cqueue[c]) <= QueueCap
ChildPart ==
    /\ chpc \in [Clients -> ChildPcs] /\ chq \in [Clients -> Clients \cup {NoClient}]
    /\ pos \in [Clients -> Nat] /\ size \in [Clients -> Sizes]
    /\ \A c \in Clients : chpc[c] = "data" => pos[c] <= size[c]
ClientPart ==
    /\ cpc \in [Clients -> ClientPcs] /\ csid \in [Clients -> Servers \cup {NoServer}]
    /\ \A c \in Clients : cpc[c] \in {"create", "reopen", "connect"} => csid[c] # NoServer
    /\ clientId \in [Clients -> Clients \cup {NoClient}] /\ got \in [Clients -> Seq(Msgs)]
FaultPart == hurt \subseteq Faults /\ nfaults \in 0..MaxFaults

LEMMA Parts == TypeOK <=> ServerPart /\ QueuePart /\ ChildPart /\ ClientPart /\ FaultPart
BY DEF TypeOK, ServerPart, QueuePart, ChildPart, ClientPart, FaultPart,
       ServerPcs, ChildPcs, ClientPcs, Fresh

LEMMA NextParts ==
    ASSUME ServerPart', QueuePart', ChildPart', ClientPart', FaultPart'
    PROVE  TypeOK'
BY DEF TypeOK, ServerPart, QueuePart, ChildPart, ClientPart, FaultPart,
       ServerPcs, ChildPcs, ClientPcs, Fresh

(* A part whose variables stay keeps its types.                              *)
LEMMA Frame ==
    ASSUME TypeOK
    PROVE  /\ UNCHANGED <<sqvars, svars>> => ServerPart'
           /\ UNCHANGED cqvars => QueuePart'
           /\ UNCHANGED <<chvars, size>> => ChildPart'
           /\ UNCHANGED cvars => ClientPart'
           /\ UNCHANGED fvars => FaultPart'
           /\ \A k : Fault(k) => FaultPart'
<1>1. UNCHANGED <<sqvars, svars>> => ServerPart'
  BY Parts DEF ServerPart, svars, sqvars
<1>2. UNCHANGED cqvars => QueuePart'
  BY Parts DEF QueuePart, cqvars
<1>3. UNCHANGED <<chvars, size>> => ChildPart'
  BY Parts DEF ChildPart, chvars
<1>4. UNCHANGED cvars => ClientPart'
  BY Parts DEF ClientPart, cvars
<1>5. UNCHANGED fvars => FaultPart'
  BY Parts DEF FaultPart, fvars
<1>6. \A k : Fault(k) => FaultPart'
  BY Parts, PmsgAssumption DEF FaultPart, Fault
<1> QED
  BY <1>1, <1>2, <1>3, <1>4, <1>5, <1>6

(* What the steps of servers change.                                         *)
LEMMA ServerTypes ==
    ASSUME TypeOK, NEW s \in Servers,
           \/ Server(s) \/ CreateServerQueue(s) \/ ForkFails(s)
           \/ __clean_serverId(s) \/ ServerKilled(s)
    PROVE  TypeOK'
<1>0. ServerPart /\ ChildPart
  BY Parts
<1> USE Nobody DEF ServerAt, ServerPcs
<1>1. CASE CreateServerQueue(s)
  <2>1. ServerPart'
    BY ZenonT(40), <1>0, <1>1 DEF CreateServerQueue, ServerPart
  <2> QED
    BY <1>1, <2>1, NextParts, Frame DEF CreateServerQueue
<1>2. CASE OpenServerQueue(s)
  <2>1. ServerPart'
    BY <1>0, <1>2 DEF OpenServerQueue, ServerPart, sqvars
  <2> QED
    BY <1>2, <2>1, NextParts, Frame DEF OpenServerQueue
<1>3. CASE Receive(s)
  <2> DEFINE q == serverId[s]
  <2>1. q \in Servers /\ squeue[q] \in Seq(Clients) /\ squeue[q] # <<>>
    BY <1>0, <1>3 DEF Receive, ServerPart
  <2>2. Head(squeue[q]) \in Clients /\ Tail(squeue[q]) \in Seq(Clients)
        /\ Len(Tail(squeue[q])) = Len(squeue[q]) - 1 /\ Len(squeue[q]) \in Nat
    BY <2>1
  <2>3. squeue' = [squeue EXCEPT ![q] = Tail(squeue[q])] /\ req' = [req EXCEPT ![s] = Head(squeue[q])]
        /\ spc' = [spc EXCEPT ![s] = "fork"] /\ UNCHANGED <<sname, serverId>>
    BY <1>3 DEF Receive
  <2>4. squeue' \in [Servers -> Seq(Clients)]
    BY <1>0, <2>1, <2>2, <2>3 DEF ServerPart
  <2>5. \A r \in Servers : Len(squeue'[r]) <= QueueCap
    <3>1. \A r \in Servers : squeue'[r] = IF r = q THEN Tail(squeue[q]) ELSE squeue[r]
      BY <1>0, <2>1, <2>3 DEF ServerPart
    <3>2. \A r \in Servers : Len(squeue[r]) <= QueueCap
      BY <1>0 DEF ServerPart
    <3>3. QueueCap \in Nat
      BY PmsgAssumption
    <3> HIDE DEF q
    <3> QED
      BY <3>1, <3>2, <3>3, <2>1, <2>2, <2>4, FunctionTypes
  <2> HIDE DEF q
  <2>6. ServerPart'
    BY <1>0, <2>2, <2>3, <2>4, <2>5 DEF ServerPart
  <2> QED
    BY <1>3, <2>6, NextParts, Frame DEF Receive
<1>4. CASE ReceiveFails(s)
  <2>1. ServerPart'
    BY <1>0, <1>4 DEF ReceiveFails, ServerPart
  <2> QED
    BY <1>4, <2>1, NextParts, Frame DEF ReceiveFails
<1>5. CASE Fork(s)
  <2>1. ServerPart'
    BY <1>0, <1>5 DEF Fork, ServerPart, sqvars
  <2>2. ChildPart'
    BY <1>0, <1>5 DEF Fork, ChildPart, ChildPcs, Serving
  <2> QED
    BY <1>5, <2>1, <2>2, NextParts, Frame DEF Fork
<1>6. CASE ForkFails(s)
  <2>1. ServerPart'
    BY <1>0, <1>6 DEF ForkFails, ServerPart, sqvars
  <2> QED
    BY <1>6, <2>1, NextParts, Frame DEF ForkFails
<1>7. CASE __clean_serverId(s)
  <2>1. ServerPart'
    BY <1>0, <1>7 DEF __clean_serverId, ServerGone, ServerPart
  <2> QED
    BY <1>7, <2>1, NextParts, Frame DEF __clean_serverId
<1>8. CASE ServerKilled(s)
  <2>1. ServerPart'
    BY <1>0, <1>8 DEF ServerKilled, ServerGone, ServerPart, sqvars
  <2> QED
    BY <1>8, <2>1, NextParts, Frame DEF ServerKilled
<1> QED
  BY <1>1, <1>2, <1>3, <1>4, <1>5, <1>6, <1>7, <1>8 DEF Server

(* A message goes into the queue that the child has open, if it has one.     *)
LEMMA SendTypes ==
    ASSUME TypeOK, NEW c \in Clients, NEW mtype \in {MT_FAILURE, MT_DATA, MT_END},
           NEW n \in Nat, Send(c, mtype, n), cname' = cname
    PROVE  QueuePart'
<1>0. QueuePart /\ ChildPart
  BY Parts
<1>1. CASE chq[c] = NoClient
  BY <1>0, <1>1 DEF Send, QueuePart
<1>2. CASE chq[c] # NoClient
  <2> DEFINE q == chq[c]  m == <<c, mtype, n>>
  <2>1. q \in Clients /\ m \in Msgs
    BY <1>0, <1>2 DEF ChildPart, Msgs
  <2>2. cqueue' = [cqueue EXCEPT ![q] = Append(cqueue[q], m)] /\ Len(cqueue[q]) < QueueCap
    BY <1>2 DEF Send
  <2>3. cqueue[q] \in Seq(Msgs) /\ cqueue \in [Clients -> Seq(Msgs)]
    BY <1>0, <2>1 DEF QueuePart
  <2> HIDE DEF q, m
  <2>4. Append(cqueue[q], m) \in Seq(Msgs) /\ Len(Append(cqueue[q], m)) = Len(cqueue[q]) + 1
        /\ Len(cqueue[q]) \in Nat
    BY <2>1, <2>3
  <2>5. cqueue' \in [Clients -> Seq(Msgs)]
    BY <2>2, <2>3, <2>4
  <2>6. \A d \in Clients : Len(cqueue'[d]) <= QueueCap
    <3>1. \A d \in Clients : cqueue'[d] = IF d = q THEN Append(cqueue[q], m) ELSE cqueue[d]
      BY <2>1, <2>2, <2>3
    <3>2. \A d \in Clients : Len(cqueue[d]) <= QueueCap
      BY <1>0 DEF QueuePart
    <3>3. QueueCap \in Nat
      BY PmsgAssumption
    <3> QED
      BY <3>1, <3>2, <3>3, <2>1, <2>2, <2>3, <2>4, <2>5
  <2> QED
    BY <1>0, <2>5, <2>6 DEF QueuePart
<1> QED
  BY <1>1, <1>2

(* What the steps of children change.                                        *)
LEMMA ChildTypes ==
    ASSUME TypeOK, ChildInv, NEW c \in Clients, Child(c) \/ ReadFails(c) \/ ChildSigint(c)
    PROVE  TypeOK'
<1>0. ServerPart /\ ChildPart
  BY Parts
<1> USE Nobody, FunctionTypes DEF ChildAt
<1>1. CASE OpenFiles(c)
  <2>1. size[c] # NoFile => 0 <= size[c]
    BY DEF NoFile
  <2>2. chpc[c] = "open" /\ pos[c] = 0
    BY <1>1 DEF OpenFiles, ChildInv
  <2>3. chpc' = [chpc EXCEPT ![c] = IF size[c] = NoFile THEN "fail" ELSE "data"]
        /\ chq' = [chq EXCEPT ![c] = cname] /\ UNCHANGED <<pos, size>>
    BY <1>1 DEF OpenFiles
  <2>4. ChildPart'
    BY <1>0, <2>1, <2>2, <2>3 DEF ChildPart, ChildPcs, Serving
  <2> QED
    BY <1>1, <2>4, NextParts, Frame DEF OpenFiles
<1>2. CASE SendFailure(c)
  <2>1. ChildPart'
    BY <1>0, <1>2 DEF SendFailure, ChildPart, ChildPcs, Serving
  <2>2. QueuePart'
    BY <1>2, SendTypes DEF SendFailure
  <2> QED
    BY <1>2, <2>1, <2>2, NextParts, Frame DEF SendFailure
<1>3. CASE SendChunk(c)
  <2>0. size[c] \in Int /\ pos[c] \in Nat /\ pos[c] < size[c]
    BY <1>3 DEF SendChunk, NoFile
  <2>1. chpc' = [chpc EXCEPT ![c] = IF chq[c] = NoClient THEN "end" ELSE "data"]
        /\ pos' = [pos EXCEPT ![c] = pos[c] + 1] /\ UNCHANGED <<chq, size>>
    BY <1>3 DEF SendChunk
  <2>2. ChildPart'
    BY <1>0, <2>0, <2>1 DEF ChildPart, ChildPcs, Serving
  <2>3. QueuePart'
    BY <1>3, <2>0, SendTypes DEF SendChunk
  <2> QED
    BY <1>3, <2>2, <2>3, NextParts, Frame DEF SendChunk
<1>4. CASE EndOfFile(c)
  <2>1. ChildPart'
    BY <1>0, <1>4 DEF EndOfFile, ChildPart, ChildPcs, Serving
  <2> QED
    BY <1>4, <2>1, NextParts, Frame DEF EndOfFile
<1>5. CASE SendEnd(c)
  <2>1. ChildPart'
    BY <1>0, <1>5 DEF SendEnd, ChildPart, ChildPcs, Serving
  <2>2. QueuePart'
    BY <1>5, SendTypes DEF SendEnd
  <2> QED
    BY <1>5, <2>1, <2>2, NextParts, Frame DEF SendEnd
<1>6. CASE ReadFails(c)
  <2>1. ChildPart'
    BY <1>0, <1>6 DEF ReadFails, ChildPart, ChildPcs, Serving
  <2> QED
    BY <1>6, <2>1, NextParts, Frame DEF ReadFails
<1>7. CASE ChildSigint(c)
  <2>1. ChildPart'
    BY <1>0, <1>7 DEF ChildSigint, ChildPart, ChildPcs, Serving
  <2>2. ServerPart'
    BY <1>0, <1>7 DEF ChildSigint, ServerPart, svars
  <2> QED
    BY <1>7, <2>1, <2>2, NextParts, Frame DEF ChildSigint
<1> QED
  BY <1>1, <1>2, <1>3, <1>4, <1>5, <1>6, <1>7 DEF Child

(* What the steps of clients change.                                         *)
LEMMA ClientTypes ==
    ASSUME TypeOK, ChildInv, NEW c \in Clients,
           Client(c) \/ ReceiveInterrupted(c) \/ __clean_clientId(c) \/ ClientKilled(c)
    PROVE  TypeOK'
<1>0. ServerPart /\ QueuePart /\ ClientPart
  BY Parts
<1> USE Nobody DEF ClientAt, ClientPcs, Fresh, Over
<1>1. CASE OpenServer(c)
  <2>1. ClientPart'
    BY <1>0, <1>1, FunctionTypes DEF OpenServer, ClientPart
  <2> QED
    BY <1>1, <2>1, NextParts, Frame DEF OpenServer
<1>2. CASE CreateQueue(c)
  <2>1. ClientPart'
    BY ZenonT(40), <1>0, <1>2 DEF CreateQueue, ClientPart
  <2>2. QueuePart'
    BY <1>0, <1>2 DEF CreateQueue, QueuePart
  <2> QED
    BY <1>2, <2>1, <2>2, NextParts, Frame DEF CreateQueue
<1>3. CASE OpenQueue(c)
  <2>1. ClientPart'
    BY <1>0, <1>3, FunctionTypes DEF OpenQueue, ClientPart
  <2> QED
    BY <1>3, <2>1, NextParts, Frame DEF OpenQueue
<1>4. CASE connect_server(c)
  <2> DEFINE s == csid[c]
  <2>1. ClientPart'
    BY <1>0, <1>4 DEF connect_server, ClientPart
  <2>2. s \in Servers
    BY <1>0, <1>4 DEF connect_server, ClientPart
  <2>3. squeue' = [squeue EXCEPT ![s] = Append(squeue[s], c)] /\ Len(squeue[s]) < QueueCap
        /\ UNCHANGED <<sname, svars>>
    BY <1>4 DEF connect_server
  <2> HIDE DEF s
  <2>4. squeue \in [Servers -> Seq(Clients)] /\ squeue[s] \in Seq(Clients)
    BY <1>0, <2>2 DEF ServerPart
  <2>5. Append(squeue[s], c) \in Seq(Clients) /\ Len(Append(squeue[s], c)) = Len(squeue[s]) + 1
        /\ Len(squeue[s]) \in Nat
    BY <2>4
  <2>6. squeue' \in [Servers -> Seq(Clients)]
    BY <2>3, <2>4, <2>5
  <2>7. \A r \in Servers : Len(squeue'[r]) <= QueueCap
    <3>1. \A r \in Servers : squeue'[r] = IF r = s THEN Append(squeue[s], c) ELSE squeue[r]
      BY <2>2, <2>3, <2>4
    <3>2. \A r \in Servers : Len(squeue[r]) <= QueueCap
      BY <1>0 DEF ServerPart
    <3>3. QueueCap \in Nat
      BY PmsgAssumption
    <3> QED
      BY <3>1, <3>2, <3>3, <2>2, <2>3, <2>4, <2>5, <2>6
  <2>8. ServerPart'
    BY <1>0, <2>3, <2>6, <2>7 DEF ServerPart, svars
  <2> QED
    BY <1>4, <2>1, <2>8, NextParts, Frame DEF connect_server
<1>5. CASE proc_resp(c)
  <2> DEFINE q == clientId[c]
  <2>1. q \in Clients /\ cqueue[q] # <<>>
    BY <1>0, <1>5 DEF proc_resp, ClientPart
  <2>2. cqueue \in [Clients -> Seq(Msgs)] /\ cqueue[q] \in Seq(Msgs)
    BY <1>0, <2>1 DEF QueuePart
  <2>3. cqueue' = [cqueue EXCEPT ![q] = Tail(cqueue[q])] /\ cname' = cname
        /\ got' = [got EXCEPT ![c] = Append(got[c], Head(cqueue[q]))]
        /\ cpc' = [cpc EXCEPT ![c] = After(Head(cqueue[q])[2])] /\ UNCHANGED <<csid, clientId>>
    BY <1>5 DEF proc_resp
  <2> HIDE DEF q
  <2>4. Tail(cqueue[q]) \in Seq(Msgs) /\ Head(cqueue[q]) \in Msgs
        /\ Len(Tail(cqueue[q])) = Len(cqueue[q]) - 1 /\ Len(cqueue[q]) \in Nat
    BY <2>1, <2>2
  <2>5. cqueue' \in [Clients -> Seq(Msgs)]
    BY <2>2, <2>3, <2>4
  <2>6. \A d \in Clients : Len(cqueue'[d]) <= QueueCap
    <3>1. \A d \in Clients : cqueue'[d] = IF d = q THEN Tail(cqueue[q]) ELSE cqueue[d]
      BY <2>1, <2>2, <2>3
    <3>2. \A d \in Clients : Len(cqueue[d]) <= QueueCap
      BY <1>0 DEF QueuePart
    <3>3. QueueCap \in Nat
      BY PmsgAssumption
    <3> QED
      BY <3>1, <3>2, <3>3, <2>1, <2>2, <2>4, <2>5
  <2>7. QueuePart'
    BY <1>0, <2>3, <2>5, <2>6 DEF QueuePart
  <2>8. \A t : After(t) \in {"receive", "unlink", "failed"}
    BY DEF After
  <2>9. got \in [Clients -> Seq(Msgs)] /\ Append(got[c], Head(cqueue[q])) \in Seq(Msgs)
    BY <1>0, <2>4 DEF ClientPart
  <2>10. got' \in [Clients -> Seq(Msgs)]
    BY <2>3, <2>9
  <2>11. ClientPart'
    BY <1>0, <2>3, <2>8, <2>10 DEF ClientPart
  <2> QED
    BY <1>5, <2>7, <2>11, NextParts, Frame DEF proc_resp
<1>6. CASE Unlink(c)
  <2>1. ClientPart'
    BY <1>0, <1>6 DEF Unlink, ClientPart
  <2>2. QueuePart'
    BY <1>0, <1>6 DEF Unlink, QueuePart
  <2> QED
    BY <1>6, <2>1, <2>2, NextParts, Frame DEF Unlink
<1>7. CASE ReceiveInterrupted(c)
  <2>1. got[c] \in Seq(Msgs) /\ Len(got[c]) \in 1..Len(got[c])
    BY <1>0 DEF ClientPart, ChildInv
  <2>2. Append(got[c], got[c][Len(got[c])]) \in Seq(Msgs)
    BY <2>1
  <2>3. got' = [got EXCEPT ![c] = Append(got[c], got[c][Len(got[c])])] /\ UNCHANGED <<cpc, csid, clientId>>
    BY <1>7 DEF ReceiveInterrupted
  <2>4. ClientPart'
    BY <1>0, <2>2, <2>3 DEF ClientPart
  <2> QED
    BY <1>7, <2>4, NextParts, Frame DEF ReceiveInterrupted
<1>8. CASE __clean_clientId(c)
  <2>1. ClientPart'
    BY <1>0, <1>8 DEF __clean_clientId, ClientPart
  <2>2. QueuePart'
    BY <1>0, <1>8 DEF __clean_clientId, QueuePart
  <2> QED
    BY <1>8, <2>1, <2>2, NextParts, Frame DEF __clean_clientId
<1>9. CASE ClientKilled(c)
  <2>1. ClientPart'
    BY <1>0, <1>9 DEF ClientKilled, ClientPart
  <2> QED
    BY <1>9, <2>1, NextParts, Frame DEF ClientKilled
<1> QED
  BY <1>1, <1>2, <1>3, <1>4, <1>5, <1>6, <1>7, <1>8, <1>9 DEF Client

(* Every step keeps the types.                                               *)
LEMMA TypeStep == ASSUME TypeOK, ChildInv, [Next]_vars PROVE TypeOK'
<1>1. CASE UNCHANGED vars
  BY <1>1, Frame, NextParts DEF vars
<1>2. CASE Next
  BY <1>2, ServerTypes, ChildTypes, ClientTypes DEF Next, System
<1> QED
  BY <1>1, <1>2

(***************************************************************************)
(* One request, one child; its progress; whose the name is.                *)
(***************************************************************************)

(* Most steps make no request and start no child.                            *)
LEMMA OnceFrame ==
    ASSUME TypeOK, OnceInv, squeue' = squeue,
           \A s \in Servers : req'[s] \in {req[s], NoClient},
           \A c \in Clients : chpc[c] = "none" => chpc'[c] = "none",
           \A c \in Clients : cpc'[c] \in Fresh => cpc[c] \in Fresh
    PROVE  OnceInv'
<1>1. \A s, i, c : Asks(s, i, c)' <=> Asks(s, i, c)
  BY DEF Asks
<1>2. \A s \in Servers, c \in Clients : req'[s] = c => req[s] = c
  BY Nobody
<1>3. \A s \in Servers, i \in Nat, c \in Clients : Asks(s, i, c) =>
        chpc'[c] = "none" /\ cpc'[c] \notin Fresh
  BY DEF OnceInv
<1>4. \A s \in Servers, c \in Clients : req[s] = c => chpc'[c] = "none" /\ cpc'[c] \notin Fresh
  BY DEF OnceInv
<1>5. \A c \in Clients : cpc'[c] \in Fresh => chpc'[c] = "none"
  BY DEF OnceInv
<1> QED
  BY <1>1, <1>2, <1>3, <1>4, <1>5 DEF OnceInv

(* Every step keeps it.                                                      *)
LEMMA OnceStep == ASSUME TypeOK, OnceInv, [Next]_vars PROVE OnceInv'
<1> USE FunctionTypes, Nobody
    DEF svars, sqvars, cqvars, chvars, cvars, ServerAt, ChildAt, ClientAt
<1>1. ASSUME NEW s \in Servers, Receive(s) PROVE OnceInv'
  <2> DEFINE q == serverId[s]
  <2>1. q \in Servers /\ squeue[q] \in Seq(Clients) /\ squeue[q] # <<>>
    BY <1>1 DEF Receive
  <2>2. squeue' = [squeue EXCEPT ![q] = Tail(squeue[q])]
        /\ req' = [req EXCEPT ![s] = Head(squeue[q])] /\ UNCHANGED <<chpc, cpc>>
        /\ spc[s] = "receive"
    BY <1>1 DEF Receive
  <2> HIDE DEF q
  <2>3. Len(squeue[q]) \in Nat /\ Len(squeue[q]) >= 1
        /\ Head(squeue[q]) = squeue[q][1] /\ Len(Tail(squeue[q])) = Len(squeue[q]) - 1
        /\ \A i \in 1..(Len(squeue[q]) - 1) : Tail(squeue[q])[i] = squeue[q][i + 1]
    BY <2>1
  <2>4. Asks(q, 1, req'[s]) /\ req'[s] \in Clients
    BY <2>1, <2>2, <2>3 DEF Asks
  <2>5. \A r \in Servers, i \in Nat, c \in Clients :
            Asks(r, i, c)' => IF r = q THEN i >= 1 /\ Asks(q, i + 1, c) ELSE Asks(r, i, c)
    <3> TAKE r \in Servers, i \in Nat, c \in Clients
    <3>1. CASE r = q
      <4>1. squeue'[r] = Tail(squeue[q])
        BY <2>1, <2>2, <3>1
      <4> QED
        BY <4>1, <3>1, <2>3 DEF Asks
    <3>2. CASE r # q
      <4>1. squeue'[r] = squeue[r]
        BY <2>1, <2>2, <3>2
      <4> QED
        BY <4>1, <3>2 DEF Asks
    <3> QED
      BY <3>1, <3>2
  <2>6. \A r \in Servers : req'[r] = IF r = s THEN req'[s] ELSE req[r]
    BY <2>2
  <2>7. \A r \in Servers, i \in Nat, c \in Clients :
            Asks(r, i, c)' => \E j \in Nat \ {0} : Asks(r, j, c) /\ (r # q => j = i) /\ (r = q => j = i + 1)
    <3> HIDE FunctionTypes
    <3>1. \A r \in Servers, i \in Nat, c \in Clients : Asks(r, i, c) => i \in Nat \ {0}
      BY DEF Asks
    <3>2. \A i \in Nat : i + 1 \in Nat \ {0}
      OBVIOUS
    <3> QED
      BY <2>1, <2>5, <3>1, <3>2
  <2>8. chpc' = chpc /\ cpc' = cpc
    BY <2>2
  <2>9. \A r \in Servers, i \in Nat, c \in Clients : Asks(r, i, c)' =>
            /\ chpc'[c] = "none" /\ cpc'[c] \notin Fresh
            /\ \A r2 \in Servers : req'[r2] # c
            /\ \A r2 \in Servers, j \in Nat : Asks(r2, j, c)' => r2 = r /\ j = i
    <3> HIDE FunctionTypes
    <3> SUFFICES ASSUME NEW r \in Servers, NEW i \in Nat, NEW c \in Clients, Asks(r, i, c)'
                 PROVE  /\ chpc'[c] = "none" /\ cpc'[c] \notin Fresh
                        /\ \A r2 \in Servers : req'[r2] # c
                        /\ \A r2 \in Servers, j \in Nat : Asks(r2, j, c)' => r2 = r /\ j = i
      OBVIOUS
    <3>1. PICK k \in Nat \ {0} : Asks(r, k, c) /\ (r # q => k = i) /\ (r = q => k = i + 1)
      BY <2>7
    <3>2. chpc[c] = "none" /\ cpc[c] \notin Fresh /\ \A r2 \in Servers : req[r2] # c
      BY <3>1 DEF OnceInv
    <3>3. \A r2 \in Servers, j \in Nat : Asks(r2, j, c) => r2 = r /\ j = k
      BY <3>1 DEF OnceInv
    <3>4. req'[s] # c
      <4>1. SUFFICES ASSUME req'[s] = c PROVE FALSE
        OBVIOUS
      <4>2. r = q /\ k = 1
        BY <2>1, <2>4, <3>3, <4>1
      <4>3. i >= 1
        BY <2>5, <4>2
      <4> QED
        BY <3>1, <4>2, <4>3
    <3>5. \A r2 \in Servers, j \in Nat : Asks(r2, j, c)' => r2 = r /\ j = i
      <4> SUFFICES ASSUME NEW r2 \in Servers, NEW j \in Nat, Asks(r2, j, c)' PROVE r2 = r /\ j = i
        OBVIOUS
      <4>1. PICK h \in Nat \ {0} : Asks(r2, h, c) /\ (r2 # q => h = j) /\ (r2 = q => h = j + 1)
        BY <2>7
      <4>2. r2 = r /\ h = k
        BY <4>1, <3>3
      <4> HIDE FunctionTypes
      <4> QED
        BY <4>1, <4>2, <3>1
    <3> QED
      BY <2>6, <2>8, <3>2, <3>4, <3>5
  <2>10. \A r \in Servers, c \in Clients : req'[r] = c =>
            /\ chpc'[c] = "none" /\ cpc'[c] \notin Fresh
            /\ \A r2 \in Servers : req'[r2] = c => r2 = r
    <3>1. chpc[req'[s]] = "none" /\ cpc[req'[s]] \notin Fresh /\ \A r2 \in Servers : req[r2] # req'[s]
      BY <2>1, <2>4 DEF OnceInv
    <3>2. \A r \in Servers, c \in Clients : req[r] = c =>
            /\ chpc[c] = "none" /\ cpc[c] \notin Fresh
            /\ \A r2 \in Servers : req[r2] = c => r2 = r
      BY DEF OnceInv
    <3> HIDE FunctionTypes
    <3> QED
      BY <2>6, <2>8, <3>1, <3>2
  <2>11. \A c \in Clients : cpc'[c] \in Fresh => chpc'[c] = "none"
    BY <2>8 DEF OnceInv
  <2> QED
    BY <2>9, <2>10, <2>11 DEF OnceInv
<1>2. ASSUME NEW s \in Servers, Fork(s) PROVE OnceInv'
  <2>1. req[s] \in Clients
    BY <1>2 DEF Fork, TypeOK
  <2>2. squeue' = squeue /\ cpc' = cpc /\ req' = [req EXCEPT ![s] = NoClient]
        /\ chpc' = [chpc EXCEPT ![req[s]] = "open"]
    BY <1>2 DEF Fork
  <2>3. \A r, i, c : Asks(r, i, c)' <=> Asks(r, i, c)
    BY <2>2 DEF Asks
  <2>4. \A c \in Clients : chpc'[c] = IF c = req[s] THEN "open" ELSE chpc[c]
    BY <2>1, <2>2
  <2>5. \A r \in Servers : req'[r] = IF r = s THEN NoClient ELSE req[r]
    BY <2>2
  <2> HIDE FunctionTypes
  <2> QED
    BY <2>1, <2>2, <2>3, <2>4, <2>5 DEF OnceInv
<1>3. ASSUME NEW c \in Clients, connect_server(c) PROVE OnceInv'
  <2> DEFINE s == csid[c]
  <2>1. s \in Servers /\ cpc[c] = "connect"
    BY <1>3 DEF connect_server, TypeOK
  <2>2. squeue' = [squeue EXCEPT ![s] = Append(squeue[s], c)] /\ UNCHANGED <<req, chpc>>
        /\ cpc' = [cpc EXCEPT ![c] = "receive"]
    BY <1>3 DEF connect_server
  <2> HIDE DEF s
  <2>3. \A r \in Servers, i \in Nat, d \in Clients :
            Asks(r, i, d)' => Asks(r, i, d) \/ (r = s /\ i = Len(squeue[s]) + 1 /\ d = c)
    <3> TAKE r \in Servers, i \in Nat, d \in Clients
    <3>1. squeue[s] \in Seq(Clients)
      BY <2>1
    <3>2. CASE r = s
      <4>1. squeue'[r] = Append(squeue[s], c)
        BY <2>1, <2>2, <3>2
      <4> QED
        BY <3>1, <3>2, <4>1 DEF Asks
    <3>3. CASE r # s
      <4>1. squeue'[r] = squeue[r]
        BY <2>1, <2>2, <3>3
      <4> QED
        BY <3>3, <4>1 DEF Asks
    <3> QED
      BY <3>2, <3>3
  <2>4. \A d \in Clients : cpc'[d] = IF d = c THEN "receive" ELSE cpc[d]
    BY <2>2
  <2>5. chpc[c] = "none" /\ (\A r \in Servers, i \in Nat : ~Asks(r, i, c)) /\ \A r \in Servers : req[r] # c
    BY <2>1 DEF OnceInv, Fresh
  <2>6. "receive" \notin Fresh /\ UNCHANGED <<req, chpc>>
    BY <2>2 DEF Fresh
  <2> HIDE FunctionTypes
  <2> QED
    BY <2>3, <2>4, <2>5, <2>6 DEF OnceInv
<1>4. ASSUME NEW s \in Servers,
             \/ OpenServerQueue(s) \/ ReceiveFails(s) \/ CreateServerQueue(s)
             \/ ForkFails(s) \/ __clean_serverId(s) \/ ServerKilled(s)
      PROVE  OnceInv'
  <2>1. squeue' = squeue /\ chpc' = chpc /\ cpc' = cpc
    BY <1>4 DEF OpenServerQueue, ReceiveFails, CreateServerQueue, ForkFails, __clean_serverId, ServerKilled
  <2>2. \A r \in Servers : req'[r] \in {req[r], NoClient}
    BY <1>4 DEF OpenServerQueue, ReceiveFails, CreateServerQueue, ForkFails,
                __clean_serverId, ServerKilled, ServerGone
  <2> QED
    BY <2>1, <2>2, OnceFrame
<1>5. ASSUME NEW c \in Clients, Child(c) \/ ReadFails(c) \/ ChildSigint(c) PROVE OnceInv'
  <2>1. squeue' = squeue /\ req' = req /\ cpc' = cpc
    BY <1>5 DEF Child, OpenFiles, SendFailure, SendChunk, EndOfFile, SendEnd, ReadFails, ChildSigint
  <2>2. \A d \in Clients : chpc[d] = "none" => chpc'[d] = "none"
    BY <1>5 DEF Child, OpenFiles, SendFailure, SendChunk, EndOfFile, SendEnd, ReadFails, ChildSigint, Serving
  <2> QED
    BY <2>1, <2>2, OnceFrame
<1>6. ASSUME NEW c \in Clients,
             \/ OpenServer(c) \/ CreateQueue(c) \/ OpenQueue(c) \/ proc_resp(c) \/ Unlink(c)
             \/ ReceiveInterrupted(c) \/ __clean_clientId(c) \/ ClientKilled(c)
      PROVE  OnceInv'
  <2>1. squeue' = squeue /\ req' = req /\ chpc' = chpc
    BY <1>6 DEF OpenServer, CreateQueue, OpenQueue, proc_resp, Unlink,
                ReceiveInterrupted, __clean_clientId, ClientKilled
  <2>2. \A t : After(t) \notin Fresh
    BY DEF After, Fresh
  <2>3. \A d \in Clients : cpc'[d] \in Fresh => cpc[d] \in Fresh
    BY <1>6, <2>2 DEF OpenServer, CreateQueue, OpenQueue, proc_resp, Unlink,
                ReceiveInterrupted, __clean_clientId, ClientKilled, Fresh
  <2> QED
    BY <2>1, <2>3, OnceFrame
<1>7. CASE UNCHANGED vars
  BY <1>7, OnceFrame DEF vars
<1> QED
  BY <1>1, <1>2, <1>3, <1>4, <1>5, <1>6, <1>7 DEF Next, System, Server, Client

(* A child begins at the beginning, and sends no more than there is.         *)
LEMMA ChildStep == ASSUME TypeOK, OnceInv, ChildInv, [Next]_vars PROVE ChildInv'
<1> USE FunctionTypes, Nobody DEF svars, sqvars, cqvars, chvars, cvars, ServerAt, ChildAt, ClientAt
<1>0. ASSUME UNCHANGED <<pos, size>>, \A c \in Clients : Len(got'[c]) >= 1,
             \A c \in Clients : chpc'[c] \in {chpc[c], "end", "gone"}
                                \/ (pos[c] = 0 /\ (chpc'[c] = "data" => size[c] # NoFile))
      PROVE  ChildInv'
  <2>1. \A c \in Clients : chpc'[c] \in {"none", "open", "fail", "data"} =>
            chpc'[c] = chpc[c] \/ (pos[c] = 0 /\ (chpc'[c] = "data" => size[c] # NoFile))
    BY <1>0
  <2> HIDE FunctionTypes
  <2> QED
    BY <1>0, <2>1 DEF ChildInv
<1>1. ASSUME got' = got PROVE \A c \in Clients : Len(got'[c]) >= 1
  BY <1>1 DEF ChildInv
<1>2. ASSUME NEW s \in Servers, Server(s) \/ CreateServerQueue(s) \/ ForkFails(s)
                                \/ __clean_serverId(s) \/ ServerKilled(s)
      PROVE  ChildInv'
  <2>1. got' = got /\ UNCHANGED <<pos, size>>
    BY <1>2 DEF Server, OpenServerQueue, Receive, ReceiveFails, Fork, CreateServerQueue, ForkFails,
                __clean_serverId, ServerKilled
  <2>2. chpc' = chpc \/ (spc[s] = "fork" /\ chpc' = [chpc EXCEPT ![req[s]] = "open"])
    BY <1>2 DEF Server, OpenServerQueue, Receive, ReceiveFails, Fork, CreateServerQueue, ForkFails,
                __clean_serverId, ServerKilled
  <2>3. spc[s] = "fork" => req[s] \in Clients
    BY DEF TypeOK
  <2>4. spc[s] = "fork" => pos[req[s]] = 0
    BY <2>3 DEF OnceInv, ChildInv
  <2> QED
    BY <1>0, <1>1, <2>1, <2>2, <2>3, <2>4
<1>3. ASSUME NEW c \in Clients, Client(c) \/ ReceiveInterrupted(c) \/ __clean_clientId(c) \/ ClientKilled(c)
      PROVE  ChildInv'
  <2>1. UNCHANGED <<pos, size, chpc>>
    BY <1>3 DEF Client, OpenServer, CreateQueue, OpenQueue, connect_server, proc_resp, Unlink,
                ReceiveInterrupted, __clean_clientId, ClientKilled
  <2>2. got' = got \/ \E m : got' = [got EXCEPT ![c] = Append(got[c], m)] /\ m \in Msgs
    <3>1. CASE proc_resp(c)
      <4>1. clientId[c] \in Clients /\ cqueue[clientId[c]] \in Seq(Msgs) /\ cqueue[clientId[c]] # <<>>
        BY <3>1 DEF proc_resp
      <4>2. Head(cqueue[clientId[c]]) \in Msgs
        BY <4>1
      <4> QED
        BY <3>1, <4>2 DEF proc_resp
    <3>2. CASE ReceiveInterrupted(c)
      <4>1. got[c] \in Seq(Msgs) /\ Len(got[c]) \in 1..Len(got[c])
        BY DEF ChildInv
      <4>2. got[c][Len(got[c])] \in Msgs
        BY <4>1
      <4> QED
        BY <3>2, <4>2 DEF ReceiveInterrupted
    <3> QED
      BY <1>3, <3>1, <3>2 DEF Client, OpenServer, CreateQueue, OpenQueue, connect_server, Unlink,
                              __clean_clientId, ClientKilled
  <2>3. \A d \in Clients : Len(got'[d]) >= 1
    <3>1. CASE got' = got
      BY <3>1, <1>1
    <3>2. ASSUME NEW m \in Msgs, got' = [got EXCEPT ![c] = Append(got[c], m)]
          PROVE  \A d \in Clients : Len(got'[d]) >= 1
      <4>1. got[c] \in Seq(Msgs)
        OBVIOUS
      <4>2. got'[c] = Append(got[c], m) /\ \A d \in Clients \ {c} : got'[d] = got[d]
        BY <3>2
      <4>3. Len(Append(got[c], m)) = Len(got[c]) + 1 /\ Len(got[c]) \in Nat
        BY <4>1
      <4>4. \A d \in Clients : Len(got[d]) >= 1
        BY DEF ChildInv
      <4>5. Len(got'[c]) >= 1
        BY <4>2, <4>3, <4>4
      <4>6. \A d \in Clients \ {c} : Len(got'[d]) >= 1
        BY <4>2, <4>4
      <4> QED
        BY <4>5, <4>6
    <3> QED
      BY <2>2, <3>1, <3>2
  <2> QED
    BY <1>0, <2>1, <2>3
<1>4. ASSUME NEW c \in Clients, SendChunk(c) PROVE ChildInv'
  <2>1. chpc[c] = "data" /\ size[c] \in Int /\ pos[c] < size[c] /\ size' = size /\ got' = got
        /\ pos' = [pos EXCEPT ![c] = pos[c] + 1] /\ pos[c] \in Nat
        /\ chpc' = [chpc EXCEPT ![c] = IF chq[c] = NoClient THEN "end" ELSE "data"]
    BY <1>4 DEF SendChunk, NoFile
  <2>2. \A d \in Clients : pos'[d] = IF d = c THEN pos[c] + 1 ELSE pos[d]
    BY <2>1
  <2>3. \A d \in Clients : IF d = c THEN chpc'[d] \in {"end", "data"} ELSE chpc'[d] = chpc[d]
    BY <2>1
  <2>4. \A d \in Clients : Len(got'[d]) >= 1
    BY <2>1, <1>1
  <2> HIDE FunctionTypes
  <2> QED
    BY <2>1, <2>2, <2>3, <2>4 DEF ChildInv
<1>5. ASSUME NEW c \in Clients, OpenFiles(c) PROVE ChildInv'
  <2>1. UNCHANGED <<pos, size, got>> /\ pos[c] = 0
        /\ chpc' = [chpc EXCEPT ![c] = IF size[c] = NoFile THEN "fail" ELSE "data"]
    BY <1>5 DEF OpenFiles, ChildInv
  <2> QED
    BY <1>0, <1>1, <2>1
<1>6. ASSUME NEW c \in Clients, SendFailure(c) \/ EndOfFile(c) \/ SendEnd(c) \/ ReadFails(c) \/ ChildSigint(c)
      PROVE  ChildInv'
  <2>1. UNCHANGED <<pos, size, got>>
        /\ (chpc' = [chpc EXCEPT ![c] = "gone"] \/ chpc' = [chpc EXCEPT ![c] = "end"])
    BY <1>6 DEF SendFailure, EndOfFile, SendEnd, ReadFails, ChildSigint
  <2> QED
    BY <1>0, <1>1, <2>1
<1>7. CASE UNCHANGED vars
  BY <1>0, <1>1, <1>7 DEF vars
<1> QED
  BY <1>2, <1>3, <1>4, <1>5, <1>6, <1>7 DEF Next, System, Child

(* A queue under the common name is somebody's who will take it away.        *)
LEMMA NameStep == ASSUME TypeOK, NameIsUsed, [Next]_vars PROVE NameIsUsed'
<1> USE FunctionTypes, Nobody DEF svars, sqvars, cqvars, chvars, cvars, fvars, ServerAt, ChildAt, ClientAt, Fault
<1>1. ASSUME cname' \in {cname, NoClient}, hurt \subseteq hurt',
             \A c \in Clients : clientId'[c] \in {clientId[c], cname},
             \A c \in Clients : clientId[c] # NoClient => clientId'[c] # NoClient,
             \A c \in Clients : clientId[c] # NoClient =>
                (cpc[c] \in {"connect", "receive", "unlink", "failed"} =>
                    cpc'[c] \in {"connect", "receive", "unlink", "failed"} \/ "kill_client" \in hurt')
      PROVE  NameIsUsed'
  <2> HIDE FunctionTypes
  <2> QED
    BY <1>1 DEF NameIsUsed
<1>2. ASSUME NEW s \in Servers, Server(s) \/ CreateServerQueue(s) \/ ForkFails(s)
                                \/ __clean_serverId(s) \/ ServerKilled(s)
      PROVE  NameIsUsed'
  <2>1. UNCHANGED <<cname, clientId, cpc>> /\ hurt \subseteq hurt'
    BY <1>2 DEF Server, OpenServerQueue, Receive, ReceiveFails, Fork, CreateServerQueue, ForkFails,
                __clean_serverId, ServerKilled
  <2> QED
    BY <1>1, <2>1
<1>3. ASSUME NEW c \in Clients, Child(c) \/ ReadFails(c) \/ ChildSigint(c) PROVE NameIsUsed'
  <2>1. UNCHANGED <<cname, clientId, cpc>> /\ hurt \subseteq hurt'
    BY <1>3 DEF Child, OpenFiles, SendFailure, SendChunk, EndOfFile, SendEnd, ReadFails, ChildSigint
  <2> QED
    BY <1>1, <2>1
<1>4. ASSUME NEW c \in Clients, OpenServer(c) \/ OpenQueue(c) PROVE NameIsUsed'
  <2>1. cname' = cname /\ hurt' = hurt
    BY <1>4 DEF OpenServer, OpenQueue
  <2>2. cpc[c] \in {"start", "reopen"}
    BY <1>4 DEF OpenServer, OpenQueue
  <2>3. \A d \in Clients \ {c} : cpc'[d] = cpc[d] /\ clientId'[d] = clientId[d]
    BY <1>4 DEF OpenServer, OpenQueue
  <2> HIDE FunctionTypes
  <2> QED
    BY <2>1, <2>2, <2>3 DEF NameIsUsed
<1>5. ASSUME NEW c \in Clients, CreateQueue(c) PROVE NameIsUsed'
  <2>1. CASE cname = NoClient
    <3>1. cpc'[c] = "connect" /\ clientId'[c] = c
      BY <1>5, <2>1 DEF CreateQueue
    <3> QED
      BY <3>1 DEF NameIsUsed
  <2>2. CASE cname # NoClient
    <3>1. UNCHANGED <<cname, clientId, hurt>> /\ cpc[c] = "create"
          /\ \A d \in Clients \ {c} : cpc'[d] = cpc[d]
      BY <1>5, <2>2 DEF CreateQueue
    <3> HIDE FunctionTypes
    <3> QED
      BY <3>1 DEF NameIsUsed
  <2> QED
    BY <2>1, <2>2
<1>6. ASSUME NEW c \in Clients, connect_server(c) \/ proc_resp(c) PROVE NameIsUsed'
  <2>1. \A t : After(t) \in {"receive", "unlink", "failed"}
    BY DEF After
  <2>2. UNCHANGED <<cname, clientId, hurt>> /\ (\A d \in Clients \ {c} : cpc'[d] = cpc[d])
        /\ cpc'[c] \in {"receive", "unlink", "failed"}
    BY <1>6, <2>1 DEF connect_server, proc_resp
  <2> QED
    BY <1>1, <2>2
<1>7. ASSUME NEW c \in Clients, ReceiveInterrupted(c) \/ ClientKilled(c) PROVE NameIsUsed'
  <2>1. UNCHANGED <<cname, clientId>> /\ hurt \subseteq hurt' /\ (cpc' = cpc \/ "kill_client" \in hurt')
    BY <1>7 DEF ReceiveInterrupted, ClientKilled
  <2> QED
    BY <1>1, <2>1
<1>8. ASSUME NEW c \in Clients, Unlink(c) \/ __clean_clientId(c) PROVE NameIsUsed'
  BY <1>8 DEF Unlink, __clean_clientId, NameIsUsed
<1>9. CASE UNCHANGED vars
  BY <1>1, <1>9 DEF vars
<1> QED
  BY <1>2, <1>3, <1>4, <1>5, <1>6, <1>7, <1>8, <1>9 DEF Next, System, Client

(* A step that neither sends nor receives a chunk.                           *)
LEMMA DataFrame ==
    ASSUME DataInv, hurt \subseteq hurt', pos' = pos,
           \A c \in Clients, i \in Nat, d \in Clients, k \in Nat :
                (Got(c, i, d, k)' <=> Got(c, i, d, k)) /\ (InQ(c, i, d, k)' <=> InQ(c, i, d, k)),
           \A d \in Clients : chpc'[d] = "data" =>
                (chpc[d] = "data" /\ chq'[d] = chq[d]) \/ pos[d] = 0
    PROVE  DataInv'
<1> SUFFICES ASSUME "sigchld_client" \notin hurt' PROVE (GotInv /\ QueueInv /\ SentInv)'
  BY DEF DataInv
<1>0. GotInv /\ QueueInv /\ SentInv
  BY DEF DataInv
<1>1. \A d \in Clients, k \in Nat : Received(d, k)' <=> Received(d, k)
  BY DEF Received
<1>2. GotInv'
  BY <1>0, <1>1 DEF GotInv
<1>3. QueueInv'
  <2>1. \A q \in Clients, i \in Nat, d \in Clients, k \in Nat : InQ(q, i, d, k)' =>
            /\ k \in 1..pos'[d]
            /\ \A h \in Nat : Received(d, h)' => h < k
            /\ \A h \in 1..(k - 1) : Received(d, h)' \/ \E j \in Nat : j < i /\ InQ(q, j, d, h)'
    <3> SUFFICES ASSUME NEW q \in Clients, NEW i \in Nat, NEW d \in Clients, NEW k \in Nat, InQ(q, i, d, k)'
                 PROVE  /\ k \in 1..pos'[d]
                        /\ \A h \in Nat : Received(d, h)' => h < k
                        /\ \A h \in 1..(k - 1) : Received(d, h)' \/ \E j \in Nat : j < i /\ InQ(q, j, d, h)'
      OBVIOUS
    <3>1. /\ k \in 1..pos[d]
          /\ \A h \in Nat : Received(d, h) => h < k
          /\ \A h \in 1..(k - 1) : Received(d, h) \/ \E j \in Nat : j < i /\ InQ(q, j, d, h)
      BY <1>0 DEF QueueInv
    <3>2. \A h \in 1..(k - 1) : h \in Nat
      OBVIOUS
    <3> QED
      BY <1>1, <3>1, <3>2
  <2>2. \A q, r \in Clients, i, j \in Nat, d \in Clients, k, h \in Nat :
            InQ(q, i, d, k)' /\ InQ(r, j, d, h)' => q = r /\ (i < j => k < h)
    BY <1>0 DEF QueueInv
  <2> QED
    BY <2>1, <2>2 DEF QueueInv
<1>4. SentInv'
  <2> SUFFICES ASSUME NEW d \in Clients, chpc'[d] = "data"
               PROVE  /\ \A q \in Clients, i \in Nat, k \in Nat : InQ(q, i, d, k)' => q = chq'[d]
                      /\ \A h \in 1..pos'[d] :
                            \/ Received(d, h)'
                            \/ \E q \in Clients, j \in Nat : q = chq'[d] /\ InQ(q, j, d, h)'
    BY DEF SentInv
  <2>1. CASE chpc[d] = "data" /\ chq'[d] = chq[d]
    <3>1. \A h \in 1..pos[d] :
            Received(d, h) \/ \E q \in Clients, j \in Nat : q = chq[d] /\ InQ(q, j, d, h)
      BY <1>0, <2>1 DEF SentInv
    <3>2. \A q \in Clients, i \in Nat, k \in Nat : InQ(q, i, d, k) => q = chq[d]
      BY <1>0, <2>1 DEF SentInv
    <3>3. \A h \in 1..pos[d] : h \in Nat
      OBVIOUS
    <3> QED
      BY <1>1, <2>1, <3>1, <3>2, <3>3
  <2>2. CASE pos[d] = 0
    <3>1. \A q \in Clients, i \in Nat, k \in Nat : ~InQ(q, i, d, k)
      BY <1>0, <2>2 DEF QueueInv
    <3> QED
      BY <2>2, <3>1
  <2> QED
    BY <2>1, <2>2
<1> QED
  BY <1>2, <1>3, <1>4

(* A message that is no chunk changes nothing that counts.                   *)
LEMMA SendOther ==
    ASSUME TypeOK, NEW c \in Clients, NEW mtype \in {MT_FAILURE, MT_END}, Send(c, mtype, 0)
    PROVE  \A q \in Clients, i \in Nat, d \in Clients, k \in Nat : InQ(q, i, d, k)' <=> InQ(q, i, d, k)
<1> USE FunctionTypes, Nobody
<1>1. CASE chq[c] = NoClient
  BY <1>1 DEF Send, InQ
<1>2. CASE chq[c] # NoClient
  <2> DEFINE p == chq[c]  m == <<c, mtype, 0>>
  <2>1. p \in Clients /\ cqueue[p] \in Seq(Msgs) /\ m \in Msgs
    BY <1>2 DEF Msgs
  <2>2. cqueue' = [cqueue EXCEPT ![p] = Append(cqueue[p], m)]
    BY <1>2 DEF Send
  <2>3. \A d, k : m # Chunk(d, k)
    BY ChunkIs
  <2> HIDE DEF p, m
  <2> TAKE q \in Clients, i \in Nat, d \in Clients, k \in Nat
  <2>4. CASE q = p
    <3>1. cqueue'[q] = Append(cqueue[p], m)
      BY <2>1, <2>2, <2>4
    <3> QED
      BY SMTT(40), <2>1, <2>3, <2>4, <3>1 DEF InQ
  <2>5. CASE q # p
    <3>1. cqueue'[q] = cqueue[q]
      BY <2>1, <2>2, <2>5
    <3> QED
      BY <3>1 DEF InQ
  <2> QED
    BY <2>4, <2>5
<1> QED
  BY <1>1, <1>2

(* A chunk goes to the end of the queue that the child has open.             *)
LEMMA SendData ==
    ASSUME TypeOK, NEW c \in Clients, NEW n \in Nat, Send(c, MT_DATA, n), chq[c] # NoClient
    PROVE  /\ Len(cqueue[chq[c]]) \in Nat
           /\ \A i \in Nat, d \in Clients, k \in Nat :
                InQ(chq[c], i, d, k) => i <= Len(cqueue[chq[c]])
           /\ \A q \in Clients, i \in Nat, d \in Clients, k \in Nat :
                InQ(q, i, d, k)' <=>
                    \/ InQ(q, i, d, k)
                    \/ q = chq[c] /\ i = Len(cqueue[chq[c]]) + 1 /\ d = c /\ k = n
<1> USE FunctionTypes, Nobody
<1> DEFINE p == chq[c]  m == Chunk(c, n)
<1>1. p \in Clients /\ cqueue[p] \in Seq(Msgs) /\ m \in Msgs
  BY ChunkIs
<1>2. cqueue' = [cqueue EXCEPT ![p] = Append(cqueue[p], m)]
  BY DEF Send, Chunk
<1>3. \A d, k : m = Chunk(d, k) <=> d = c /\ k = n
  BY ChunkIs
<1> HIDE DEF p, m
<1>4. Len(cqueue[p]) \in Nat /\ \A i \in Nat, d \in Clients, k \in Nat : InQ(p, i, d, k) => i <= Len(cqueue[p])
  BY <1>1 DEF InQ
<1>5. ASSUME NEW q \in Clients, NEW i \in Nat, NEW d \in Clients, NEW k \in Nat
      PROVE  InQ(q, i, d, k)' <=>
                InQ(q, i, d, k) \/ (q = p /\ i = Len(cqueue[p]) + 1 /\ d = c /\ k = n)
  <2>1. CASE q = p
    <3>1. cqueue'[q] = Append(cqueue[p], m)
      BY <1>1, <1>2, <2>1
    <3>2. Len(Append(cqueue[p], m)) = Len(cqueue[p]) + 1
          /\ Append(cqueue[p], m)[Len(cqueue[p]) + 1] = m
          /\ \A j \in 1..Len(cqueue[p]) : Append(cqueue[p], m)[j] = cqueue[p][j]
      BY <1>1
    <3>3. InQ(q, i, d, k)' <=> i \in 1..(Len(cqueue[p]) + 1) /\ Append(cqueue[p], m)[i] = Chunk(d, k)
      BY <3>1, <3>2 DEF InQ
    <3> HIDE FunctionTypes
    <3> QED
      BY <1>1, <1>3, <1>4, <2>1, <3>2, <3>3 DEF InQ
  <2>2. CASE q # p
    <3>1. cqueue'[q] = cqueue[q]
      BY <1>1, <1>2, <2>2
    <3> QED
      BY <2>2, <3>1 DEF InQ
  <2> QED
    BY <2>1, <2>2
<1> QED
  BY <1>4, <1>5 DEF p

(* The first message of the queue becomes the last one received.             *)
LEMMA TakeData ==
    ASSUME TypeOK, ChildInv, NEW c \in Clients, proc_resp(c)
    PROVE  /\ clientId[c] \in Clients /\ Len(got[c]) \in Nat \ {0}
           /\ \A i \in Nat, d \in Clients, k \in Nat : Got(c, i, d, k) => i <= Len(got[c])
           /\ \A q \in Clients, i \in Nat, d \in Clients, k \in Nat : InQ(q, i, d, k) => i >= 1
           /\ \A b \in Clients, i \in Nat, d \in Clients, k \in Nat :
                Got(b, i, d, k)' <=>
                    \/ Got(b, i, d, k)
                    \/ b = c /\ i = Len(got[c]) + 1 /\ InQ(clientId[c], 1, d, k)
           /\ \A q \in Clients, i \in Nat, d \in Clients, k \in Nat :
                InQ(q, i, d, k)' <=>
                    IF q = clientId[c] THEN i >= 1 /\ InQ(q, i + 1, d, k) ELSE InQ(q, i, d, k)
<1> USE FunctionTypes, Nobody
<1> DEFINE p == clientId[c]
<1>1. p \in Clients /\ cqueue[p] \in Seq(Msgs) /\ cqueue[p] # <<>> /\ got[c] \in Seq(Msgs)
  BY DEF proc_resp
<1>2. cqueue' = [cqueue EXCEPT ![p] = Tail(cqueue[p])] /\ got' = [got EXCEPT ![c] = Append(got[c], Head(cqueue[p]))]
  BY DEF proc_resp
<1> HIDE DEF p
<1>3. Head(cqueue[p]) \in Msgs /\ Head(cqueue[p]) = cqueue[p][1] /\ 1 \in 1..Len(cqueue[p])
  BY <1>1
<1>4. Len(got[c]) \in Nat \ {0} /\ \A i \in Nat, d \in Clients, k \in Nat : Got(c, i, d, k) => i <= Len(got[c])
  BY <1>1 DEF Got, ChildInv
<1>5. \A q \in Clients, i \in Nat, d \in Clients, k \in Nat : InQ(q, i, d, k) => i >= 1
  BY DEF InQ
<1>6. ASSUME NEW b \in Clients, NEW i \in Nat, NEW d \in Clients, NEW k \in Nat
      PROVE  Got(b, i, d, k)' <=>
                Got(b, i, d, k) \/ (b = c /\ i = Len(got[c]) + 1 /\ InQ(p, 1, d, k))
  <2>1. CASE b = c
    <3>1. got'[b] = Append(got[c], Head(cqueue[p]))
      BY <1>1, <1>2, <2>1
    <3>2. InQ(p, 1, d, k) <=> Head(cqueue[p]) = Chunk(d, k)
      BY <1>3 DEF InQ
    <3>3. Len(got'[b]) = Len(got[c]) + 1
          /\ got'[b][Len(got[c]) + 1] = Head(cqueue[p])
          /\ \A j \in 1..Len(got[c]) : got'[b][j] = got[c][j]
      BY <1>1, <1>3, <3>1
    <3>4. Got(b, i, d, k)' <=> i \in 2..(Len(got[c]) + 1) /\ got'[b][i] = Chunk(d, k)
      BY <3>3 DEF Got
    <3> HIDE FunctionTypes
    <3> QED
      BY SMTT(40), <1>4, <2>1, <3>2, <3>3, <3>4 DEF Got
  <2>2. CASE b # c
    <3>1. got'[b] = got[b]
      BY <1>1, <1>2, <2>2
    <3> QED
      BY <2>2, <3>1 DEF Got
  <2> QED
    BY <2>1, <2>2
<1>7. ASSUME NEW q \in Clients, NEW i \in Nat, NEW d \in Clients, NEW k \in Nat
      PROVE  InQ(q, i, d, k)' <=> IF q = p THEN i >= 1 /\ InQ(q, i + 1, d, k) ELSE InQ(q, i, d, k)
  <2>1. CASE q = p
    <3>1. cqueue'[q] = Tail(cqueue[p])
      BY <1>1, <1>2, <2>1
    <3>2. Len(Tail(cqueue[p])) = Len(cqueue[p]) - 1 /\ Len(cqueue[p]) \in Nat
          /\ \A j \in 1..(Len(cqueue[p]) - 1) : Tail(cqueue[p])[j] = cqueue[p][j + 1]
      BY <1>1
    <3>3. InQ(q, i, d, k)' <=> i \in 1..(Len(cqueue[p]) - 1) /\ Tail(cqueue[p])[i] = Chunk(d, k)
      BY <3>1, <3>2 DEF InQ
    <3> HIDE FunctionTypes
    <3> QED
      BY <2>1, <3>2, <3>3 DEF InQ
  <2>2. CASE q # p
    <3>1. cqueue'[q] = cqueue[q]
      BY <1>1, <1>2, <2>2
    <3> QED
      BY <2>2, <3>1 DEF InQ
  <2> QED
    BY <2>1, <2>2
<1> QED
  BY <1>1, <1>4, <1>5, <1>6, <1>7 DEF p

(* A chunk that is sent follows on all that was sent of its file.            *)
LEMMA ChunkStep ==
    ASSUME TypeOK, DataInv, NEW c \in Clients, SendChunk(c)
    PROVE  DataInv'
<1> USE FunctionTypes, Nobody
<1> SUFFICES ASSUME "sigchld_client" \notin hurt' PROVE (GotInv /\ QueueInv /\ SentInv)'
  BY DEF DataInv
<1>0. GotInv /\ QueueInv /\ SentInv
  BY DEF SendChunk, DataInv, fvars
<1>1. pos[c] \in Nat /\ chpc[c] = "data" /\ Send(c, MT_DATA, pos[c] + 1) /\ UNCHANGED <<got, chq>>
      /\ pos' = [pos EXCEPT ![c] = pos[c] + 1]
      /\ chpc' = [chpc EXCEPT ![c] = IF chq[c] = NoClient THEN "end" ELSE "data"]
  BY DEF SendChunk, ChildAt, cvars
<1>2. \A d \in Clients : pos'[d] = IF d = c THEN pos[c] + 1 ELSE pos[d]
  BY <1>1
<1>3. \A d \in Clients : d # c => chpc'[d] = chpc[d]
  BY <1>1
<1>4. chpc'[c] = IF chq[c] = NoClient THEN "end" ELSE "data"
  BY <1>1
<1>5. \A b \in Clients, i \in Nat, d \in Clients, k \in Nat : Got(b, i, d, k)' <=> Got(b, i, d, k)
  BY <1>1 DEF Got
<1>6. \A d \in Clients, k \in Nat : Received(d, k)' <=> Received(d, k)
  BY <1>5 DEF Received
<1>7. \A d \in Clients : pos[d] \in Nat /\ \A k \in 1..pos[d] : k \in Nat /\ k \in 1..pos'[d]
  <2>1. \A d \in Clients : pos[d] \in Nat /\ pos'[d] \in Nat /\ pos[d] <= pos'[d]
    BY <1>1, <1>2
  <2> HIDE FunctionTypes
  <2> QED
    BY <2>1
<1>8. GotInv'
  <2>1. \A b \in Clients, i \in Nat, d \in Clients, k \in Nat : Got(b, i, d, k) =>
            k \in 1..pos'[d] /\ \A h \in 1..k : h \in Nat /\ Received(d, h)
    BY <1>0, <1>7 DEF GotInv
  <2> HIDE FunctionTypes
  <2>2. \A b \in Clients, i \in Nat, d \in Clients, k \in Nat : Got(b, i, d, k)' =>
            k \in 1..pos'[d] /\ \A h \in 1..k : Received(d, h)'
    BY <1>5, <1>6, <2>1
  <2>3. \A b, e \in Clients, i, j \in Nat, d \in Clients, k \in Nat :
            Got(b, i, d, k)' /\ Got(e, j, d, k)' => b = e /\ i = j
    <3>1. \A b, e \in Clients, i, j \in Nat, d \in Clients, k \in Nat :
            Got(b, i, d, k) /\ Got(e, j, d, k) => b = e /\ i = j
      BY <1>0 DEF GotInv
    <3> QED
      BY <1>5, <3>1
  <2>4. \A b \in Clients, i, j \in Nat, d \in Clients, k, h \in Nat :
            Got(b, i, d, k)' /\ Got(b, j, d, h)' /\ i < j => k < h
    <3>1. \A b \in Clients, i, j \in Nat, d \in Clients, k, h \in Nat :
            Got(b, i, d, k) /\ Got(b, j, d, h) /\ i < j => k < h
      BY <1>0 DEF GotInv
    <3> QED
      BY <1>5, <3>1
  <2> QED
    BY <2>2, <2>3, <2>4 DEF GotInv
<1>9. \A q \in Clients, i \in Nat, d \in Clients, k \in Nat : InQ(q, i, d, k) =>
        /\ k \in 1..pos[d]
        /\ \A h \in Nat : Received(d, h) => h < k
        /\ \A h \in 1..(k - 1) : Received(d, h) \/ \E j \in Nat : j < i /\ InQ(q, j, d, h)
  BY <1>0 DEF QueueInv
<1>10. \A q, r \in Clients, i, j \in Nat, d \in Clients, k, h \in Nat :
        InQ(q, i, d, k) /\ InQ(r, j, d, h) => q = r /\ (i < j => k < h)
  BY <1>0 DEF QueueInv
<1>11. \A d \in Clients : chpc[d] = "data" =>
        /\ \A q \in Clients, i \in Nat, k \in Nat : InQ(q, i, d, k) => q = chq[d]
        /\ \A h \in 1..pos[d] :
            Received(d, h) \/ \E q \in Clients, j \in Nat : q = chq[d] /\ InQ(q, j, d, h)
  BY <1>0 DEF SentInv
<1>12. \A h \in Nat : Received(c, h) => h \in 1..pos[c]
  BY <1>0 DEF GotInv, Received
<1>13. chq[c] # NoClient => chq[c] \in Clients
  OBVIOUS
<1>14. CASE chq[c] = NoClient
  <2>1. \A q \in Clients, i \in Nat, d \in Clients, k \in Nat : InQ(q, i, d, k)' <=> InQ(q, i, d, k)
    BY <1>1, <1>14 DEF Send, InQ
  <2> HIDE FunctionTypes
  <2>2. QueueInv'
    <3>1. \A q \in Clients, i \in Nat, d \in Clients, k \in Nat : InQ(q, i, d, k) =>
            /\ k \in 1..pos'[d]
            /\ \A h \in Nat : Received(d, h)' => h < k
            /\ \A h \in 1..(k - 1) : Received(d, h)' \/ \E j \in Nat : j < i /\ InQ(q, j, d, h)'
      <4> TAKE q \in Clients, i \in Nat, d \in Clients, k \in Nat
      <4> HAVE InQ(q, i, d, k)
      <4>1. \A h \in 1..(k - 1) : h \in Nat
        OBVIOUS
      <4> QED
        BY <1>6, <1>7, <1>9, <2>1, <4>1
    <3>2. \A q \in Clients, i \in Nat, d \in Clients, k \in Nat : InQ(q, i, d, k)' =>
            /\ k \in 1..pos'[d]
            /\ \A h \in Nat : Received(d, h)' => h < k
            /\ \A h \in 1..(k - 1) : Received(d, h)' \/ \E j \in Nat : j < i /\ InQ(q, j, d, h)'
      BY <2>1, <3>1
    <3>3. \A q, r \in Clients, i, j \in Nat, d \in Clients, k, h \in Nat :
            InQ(q, i, d, k)' /\ InQ(r, j, d, h)' => q = r /\ (i < j => k < h)
      BY <1>10, <2>1
    <3> QED
      BY <3>2, <3>3 DEF QueueInv
  <2>3. \A d \in Clients : chpc'[d] = "data" => d # c /\ chpc[d] = "data" /\ pos'[d] = pos[d]
    BY <1>2, <1>3, <1>4, <1>14
  <2>4. SentInv'
    BY <1>1, <1>6, <1>7, <1>11, <2>1, <2>3 DEF SentInv
  <2> QED
    BY <1>8, <2>2, <2>4
<1>15. CASE chq[c] # NoClient
  <2> DEFINE p == chq[c]  end == Len(cqueue[p]) + 1
  <2>1. /\ end \in Nat \ {0}
        /\ \A i \in Nat, d \in Clients, k \in Nat : InQ(p, i, d, k) => i < end
        /\ \A q \in Clients, i \in Nat, d \in Clients, k \in Nat :
                InQ(q, i, d, k)' <=>
                    InQ(q, i, d, k) \/ (q = p /\ i = end /\ d = c /\ k = pos[c] + 1)
    <3>1. PICK n \in Nat : n = pos[c] + 1
      BY <1>1
    <3>2. /\ Len(cqueue[chq[c]]) \in Nat
          /\ \A i \in Nat, d \in Clients, k \in Nat :
                InQ(chq[c], i, d, k) => i <= Len(cqueue[chq[c]])
          /\ \A q \in Clients, i \in Nat, d \in Clients, k \in Nat :
                InQ(q, i, d, k)' <=>
                    \/ InQ(q, i, d, k)
                    \/ q = chq[c] /\ i = Len(cqueue[chq[c]]) + 1 /\ d = c /\ k = n
      <4> HIDE FunctionTypes
      <4>1. Send(c, MT_DATA, n)
        BY <1>1, <3>1
      <4> QED
        BY <1>15, <4>1, SendData
    <3> HIDE FunctionTypes
    <3> QED
      BY <3>1, <3>2
  <2>2. p \in Clients
    BY <1>13, <1>15
  <2> HIDE FunctionTypes
  <2> HIDE DEF p, end
  <2>3. /\ \A q \in Clients, i \in Nat, k \in Nat : InQ(q, i, c, k) => q = p
        /\ \A h \in 1..pos[c] :
            Received(c, h) \/ \E j \in Nat : InQ(p, j, c, h)
    BY <1>1, <1>11 DEF p
  <2>4. QueueInv'
    <3>1. \A q \in Clients, i \in Nat, d \in Clients, k \in Nat : InQ(q, i, d, k)' =>
            /\ k \in 1..pos'[d]
            /\ \A h \in Nat : Received(d, h)' => h < k
            /\ \A h \in 1..(k - 1) : Received(d, h)' \/ \E j \in Nat : j < i /\ InQ(q, j, d, h)'
      <4> SUFFICES ASSUME NEW q \in Clients, NEW i \in Nat, NEW d \in Clients, NEW k \in Nat, InQ(q, i, d, k)'
                   PROVE  /\ k \in 1..pos'[d]
                          /\ \A h \in Nat : Received(d, h)' => h < k
                          /\ \A h \in 1..(k - 1) : Received(d, h)' \/ \E j \in Nat : j < i /\ InQ(q, j, d, h)'
        OBVIOUS
      <4>0. \A h \in 1..(k - 1) : h \in Nat
        OBVIOUS
      <4>1. CASE InQ(q, i, d, k)
        BY <1>6, <1>7, <1>9, <2>1, <4>0, <4>1
      <4>2. CASE q = p /\ i = end /\ d = c /\ k = pos[c] + 1
        <5>1. k \in 1..pos'[d] /\ \A h \in 1..(k - 1) : h \in 1..pos[c]
          BY <1>1, <1>2, <4>2
        <5>2. \A h \in Nat : Received(d, h)' => h < k
          BY <1>1, <1>6, <1>12, <4>2
        <5>3. \A h \in 1..(k - 1) : Received(d, h)' \/ \E j \in Nat : j < i /\ InQ(q, j, d, h)'
          BY <1>6, <2>1, <2>2, <2>3, <4>0, <4>2, <5>1
        <5> QED
          BY <5>1, <5>2, <5>3
      <4> QED
        BY <2>1, <4>1, <4>2
    <3>2. \A q, r \in Clients, i, j \in Nat, d \in Clients, k, h \in Nat :
            InQ(q, i, d, k)' /\ InQ(r, j, d, h)' => q = r /\ (i < j => k < h)
      <4> SUFFICES ASSUME NEW q \in Clients, NEW r \in Clients, NEW i \in Nat, NEW j \in Nat,
                          NEW d \in Clients, NEW k \in Nat, NEW h \in Nat,
                          InQ(q, i, d, k)', InQ(r, j, d, h)'
                   PROVE  q = r /\ (i < j => k < h)
        OBVIOUS
      <4>1. CASE InQ(q, i, d, k) /\ InQ(r, j, d, h)
        BY <1>10, <4>1
      <4>2. CASE InQ(q, i, d, k) /\ r = p /\ j = end /\ d = c /\ h = pos[c] + 1
        <5>1. k \in 1..pos[c]
          BY <1>9, <4>2
        <5> QED
          BY <1>1, <2>3, <4>2, <5>1
      <4>3. CASE InQ(r, j, d, h) /\ q = p /\ i = end /\ d = c /\ k = pos[c] + 1
        <5>1. r = p /\ j < end
          BY <2>1, <2>3, <4>3
        <5> QED
          BY <2>1, <4>3, <5>1
      <4>4. CASE q = p /\ i = end /\ r = p /\ j = end
        BY <4>4
      <4> QED
        BY <2>1, <4>1, <4>2, <4>3, <4>4
    <3> QED
      BY <3>1, <3>2 DEF QueueInv
  <2>5. SentInv'
    <3> SUFFICES ASSUME NEW d \in Clients, chpc'[d] = "data"
                 PROVE  /\ \A q \in Clients, i \in Nat, k \in Nat : InQ(q, i, d, k)' => q = chq'[d]
                        /\ \A h \in 1..pos'[d] :
                            \/ Received(d, h)'
                            \/ \E q \in Clients, j \in Nat : q = chq'[d] /\ InQ(q, j, d, h)'
      BY DEF SentInv
    <3>1. CASE d = c
      <4>1. \A q \in Clients, i \in Nat, k \in Nat : InQ(q, i, d, k)' => q = p
        BY <2>1, <2>3, <3>1
      <4>2. \A h \in 1..pos'[d] : h \in Nat /\ (h \in 1..pos[c] \/ h = pos[c] + 1)
        BY <1>1, <1>2, <3>1
      <4>3. pos[c] + 1 \in Nat
        BY <1>1
      <4>4. \A h \in 1..pos'[d] :
                Received(d, h)' \/ \E q \in Clients, j \in Nat : q = p /\ InQ(q, j, d, h)'
        <5> TAKE h \in 1..pos'[d]
        <5>1. CASE h \in 1..pos[c]
          <6>1. h \in Nat /\ (Received(c, h) \/ \E j \in Nat : InQ(p, j, c, h))
            BY <2>3, <5>1
          <6>2. \A q \in Clients, j \in Nat : InQ(q, j, c, h) => InQ(q, j, c, h)'
            BY <2>1, <6>1
          <6> QED
            BY <1>6, <2>2, <3>1, <6>1, <6>2
        <5>2. CASE h = pos[c] + 1
          <6>1. \A q \in Clients, j \in Nat : q = p /\ j = end => InQ(q, j, c, h)'
            BY <2>1, <4>3, <5>2
          <6> QED
            BY <2>1, <2>2, <3>1, <6>1
        <5> QED
          BY <4>2, <5>1, <5>2
      <4>5. chq'[d] = p
        BY <1>1, <3>1 DEF p
      <4> QED
        BY <4>1, <4>4, <4>5
    <3>2. CASE d # c
      <4>1. chpc[d] = "data" /\ pos'[d] = pos[d] /\ chq'[d] = chq[d]
        BY <1>1, <1>2, <1>3, <3>2
      <4>2. \A q \in Clients, i \in Nat, k \in Nat : InQ(q, i, d, k)' <=> InQ(q, i, d, k)
        BY <2>1, <3>2
      <4> QED
        BY <1>6, <1>7, <1>11, <4>1, <4>2
    <3> QED
      BY <3>1, <3>2
  <2> QED
    BY <1>8, <2>4, <2>5
<1> QED
  BY <1>14, <1>15

(* The chunk that is received next follows on all that was received.         *)
LEMMA RespStep ==
    ASSUME TypeOK, ChildInv, DataInv, NEW c \in Clients, proc_resp(c)
    PROVE  DataInv'
<1> SUFFICES ASSUME "sigchld_client" \notin hurt' PROVE (GotInv /\ QueueInv /\ SentInv)'
  BY DEF DataInv
<1> DEFINE p == clientId[c]  end == Len(got[c]) + 1
<1>0. GotInv /\ QueueInv /\ SentInv
  BY DEF proc_resp, DataInv, fvars
<1>1. UNCHANGED <<pos, chpc, chq>>
  BY DEF proc_resp, chvars
<1>2. /\ p \in Clients /\ end \in Nat
      /\ \A i \in Nat, d \in Clients, k \in Nat : Got(c, i, d, k) => i < end
      /\ \A q \in Clients, i \in Nat, d \in Clients, k \in Nat : InQ(q, i, d, k) => i >= 1
      /\ \A b \in Clients, i \in Nat, d \in Clients, k \in Nat :
            Got(b, i, d, k)' <=> Got(b, i, d, k) \/ (b = c /\ i = end /\ InQ(p, 1, d, k))
      /\ \A q \in Clients, i \in Nat, d \in Clients, k \in Nat :
            InQ(q, i, d, k)' <=>
                IF q = p THEN i >= 1 /\ InQ(q, i + 1, d, k) ELSE InQ(q, i, d, k)
  <2> HIDE DEF InQ, Got
  <2> QED
    BY TakeData
<1> HIDE DEF p, end
<1>3. \A d \in Clients, k \in Nat : Received(d, k)' <=> Received(d, k) \/ InQ(p, 1, d, k)
  BY <1>2 DEF Received
<1>4. \A q \in Clients, i \in Nat, d \in Clients, k \in Nat : InQ(q, i, d, k) =>
        /\ k \in 1..pos[d]
        /\ \A h \in Nat : Received(d, h) => h < k
        /\ \A h \in 1..(k - 1) : Received(d, h) \/ \E j \in Nat : j < i /\ InQ(q, j, d, h)
  BY <1>0 DEF QueueInv
<1>5. \A q, r \in Clients, i, j \in Nat, d \in Clients, k, h \in Nat :
        InQ(q, i, d, k) /\ InQ(r, j, d, h) => q = r /\ (i < j => k < h)
  BY <1>0 DEF QueueInv
<1>6. \A b \in Clients, i \in Nat, d \in Clients, k \in Nat : Got(b, i, d, k) =>
        /\ k \in 1..pos[d]
        /\ \A h \in 1..k : Received(d, h)
  BY <1>0 DEF GotInv
<1>7. \A b \in Clients, i \in Nat, d \in Clients, k \in Nat : Got(b, i, d, k) => Received(d, k)
  BY DEF Received
<1>8. GotInv'
  <2>1. \A b \in Clients, i \in Nat, d \in Clients, k \in Nat : Got(b, i, d, k)' =>
            k \in 1..pos'[d] /\ \A h \in 1..k : Received(d, h)'
    <3> SUFFICES ASSUME NEW b \in Clients, NEW i \in Nat, NEW d \in Clients, NEW k \in Nat, Got(b, i, d, k)'
                 PROVE  k \in 1..pos'[d] /\ \A h \in 1..k : Received(d, h)'
      OBVIOUS
    <3>0. \A h \in 1..k : h \in Nat /\ (h \in 1..(k - 1) \/ h = k)
      OBVIOUS
    <3>1. CASE Got(b, i, d, k)
      BY <1>1, <1>3, <1>6, <3>0, <3>1
    <3>2. CASE InQ(p, 1, d, k)
      <4>1. \A j \in Nat : j < 1 => ~\E h \in Nat : InQ(p, j, d, h)
        BY <1>2
      <4>2. \A h \in 1..(k - 1) : Received(d, h)
        BY <1>2, <1>4, <3>0, <3>2, <4>1
      <4> QED
        BY <1>1, <1>2, <1>3, <1>4, <3>0, <3>2, <4>2
    <3> QED
      BY <1>2, <3>1, <3>2
  <2>2. \A b, e \in Clients, i, j \in Nat, d \in Clients, k \in Nat :
            Got(b, i, d, k)' /\ Got(e, j, d, k)' => b = e /\ i = j
    <3>1. \A b, e \in Clients, i, j \in Nat, d \in Clients, k \in Nat :
            Got(b, i, d, k) /\ Got(e, j, d, k) => b = e /\ i = j
      BY <1>0 DEF GotInv
    <3>2. \A d \in Clients, k \in Nat : InQ(p, 1, d, k) => ~Received(d, k)
      BY <1>2, <1>4
    <3> QED
      BY <1>2, <1>7, <3>1, <3>2
  <2>3. \A b \in Clients, i, j \in Nat, d \in Clients, k, h \in Nat :
            Got(b, i, d, k)' /\ Got(b, j, d, h)' /\ i < j => k < h
    <3>1. \A b \in Clients, i, j \in Nat, d \in Clients, k, h \in Nat :
            Got(b, i, d, k) /\ Got(b, j, d, h) /\ i < j => k < h
      BY <1>0 DEF GotInv
    <3>2. \A d \in Clients, k, h \in Nat : InQ(p, 1, d, k) /\ Received(d, h) => h < k
      BY <1>2, <1>4
    <3> SUFFICES ASSUME NEW b \in Clients, NEW i \in Nat, NEW j \in Nat, NEW d \in Clients,
                        NEW k \in Nat, NEW h \in Nat, Got(b, i, d, k)', Got(b, j, d, h)', i < j
                 PROVE  k < h
      OBVIOUS
    <3>3. Got(b, i, d, k)
      <4> SUFFICES ASSUME b = c, i = end PROVE FALSE
        BY <1>2
      <4>1. j <= end
        BY <1>2
      <4> QED
        BY <1>2, <4>1
    <3> QED
      BY <1>2, <1>7, <3>1, <3>2, <3>3
  <2> QED
    BY <2>1, <2>2, <2>3 DEF GotInv
<1>9. QueueInv'
  <2>1. \A q \in Clients, i \in Nat, d \in Clients, k \in Nat : InQ(q, i, d, k)' =>
            /\ k \in 1..pos'[d]
            /\ \A h \in Nat : Received(d, h)' => h < k
            /\ \A h \in 1..(k - 1) : Received(d, h)' \/ \E j \in Nat : j < i /\ InQ(q, j, d, h)'
    <3> SUFFICES ASSUME NEW q \in Clients, NEW i \in Nat, NEW d \in Clients, NEW k \in Nat, InQ(q, i, d, k)'
                 PROVE  /\ k \in 1..pos'[d]
                        /\ \A h \in Nat : Received(d, h)' => h < k
                        /\ \A h \in 1..(k - 1) : Received(d, h)' \/ \E j \in Nat : j < i /\ InQ(q, j, d, h)'
      OBVIOUS
    <3>0. \A h \in 1..(k - 1) : h \in Nat
      OBVIOUS
    <3>1. PICK n \in Nat : InQ(q, n, d, k) /\ (q = p => n = i + 1 /\ i >= 1) /\ (q # p => n = i)
      BY <1>2
    <3>2. k \in 1..pos'[d]
      BY <1>1, <1>4, <3>1
    <3>3. \A h \in Nat : Received(d, h)' => h < k
      <4>1. \A h \in Nat : InQ(p, 1, d, h) => q = p /\ h < k
        <5> SUFFICES ASSUME NEW h \in Nat, InQ(p, 1, d, h) PROVE q = p /\ h < k
          OBVIOUS
        <5>1. q = p
          BY <1>2, <1>5, <3>1
        <5> QED
          BY <1>2, <1>5, <3>1, <5>1
      <4> QED
        BY <1>3, <1>4, <3>1, <4>1
    <3>4. \A h \in 1..(k - 1) : Received(d, h)' \/ \E j \in Nat : j < i /\ InQ(q, j, d, h)'
      <4> SUFFICES ASSUME NEW h \in 1..(k - 1), ~Received(d, h)'
                   PROVE  \E j \in Nat : j < i /\ InQ(q, j, d, h)'
        OBVIOUS
      <4>1. PICK m \in Nat : m < n /\ InQ(q, m, d, h)
        BY <1>3, <1>4, <3>0, <3>1
      <4>2. CASE q = p
        <5>1. m >= 1 /\ m # 1
          BY <1>2, <1>3, <3>0, <4>1, <4>2
        <5>2. m - 1 \in Nat /\ m - 1 < i /\ m - 1 >= 1 /\ (m - 1) + 1 = m
          BY <3>1, <4>1, <4>2, <5>1
        <5>3. \A j \in Nat : j >= 1 /\ InQ(q, j + 1, d, h) => InQ(q, j, d, h)'
          BY <1>2, <3>0, <4>2
        <5>4. PICK j \in Nat : j = m - 1
          BY <5>2
        <5> QED
          BY <4>1, <5>2, <5>3, <5>4
      <4>3. CASE q # p
        BY <1>2, <3>0, <3>1, <4>1, <4>3
      <4> QED
        BY <4>2, <4>3
    <3> QED
      BY <3>2, <3>3, <3>4
  <2>2. \A q, r \in Clients, i, j \in Nat, d \in Clients, k, h \in Nat :
            InQ(q, i, d, k)' /\ InQ(r, j, d, h)' => q = r /\ (i < j => k < h)
    <3> SUFFICES ASSUME NEW q \in Clients, NEW r \in Clients, NEW i \in Nat, NEW j \in Nat,
                        NEW d \in Clients, NEW k \in Nat, NEW h \in Nat,
                        InQ(q, i, d, k)', InQ(r, j, d, h)'
                 PROVE  q = r /\ (i < j => k < h)
      OBVIOUS
    <3>1. PICK m \in Nat : InQ(q, m, d, k) /\ (q = p => m = i + 1) /\ (q # p => m = i)
      BY <1>2
    <3>2. PICK n \in Nat : InQ(r, n, d, h) /\ (r = p => n = j + 1) /\ (r # p => n = j)
      BY <1>2
    <3>3. q = r /\ (m < n => k < h)
      BY <1>5, <3>1, <3>2
    <3> QED
      BY <3>1, <3>2, <3>3
  <2> QED
    BY <2>1, <2>2 DEF QueueInv
<1>10. SentInv'
  <2> SUFFICES ASSUME NEW d \in Clients, chpc'[d] = "data"
               PROVE  /\ \A q \in Clients, i \in Nat, k \in Nat : InQ(q, i, d, k)' => q = chq'[d]
                      /\ \A h \in 1..pos'[d] :
                            \/ Received(d, h)'
                            \/ \E q \in Clients, j \in Nat : q = chq'[d] /\ InQ(q, j, d, h)'
    BY DEF SentInv
  <2>1. /\ \A q \in Clients, i \in Nat, k \in Nat : InQ(q, i, d, k) => q = chq[d]
        /\ \A h \in 1..pos[d] :
            Received(d, h) \/ \E q \in Clients, j \in Nat : q = chq[d] /\ InQ(q, j, d, h)
    BY <1>0, <1>1 DEF SentInv
  <2>2. \A q \in Clients, i \in Nat, k \in Nat : InQ(q, i, d, k)' => q = chq'[d]
    <3> TAKE q \in Clients, i \in Nat, k \in Nat
    <3>1. InQ(q, i, d, k)' => \E n \in Nat : InQ(q, n, d, k)
      BY <1>2
    <3> QED
      BY <1>1, <2>1, <3>1
  <2>3. ASSUME NEW h \in 1..pos'[d], ~Received(d, h)'
        PROVE  \E q \in Clients, j \in Nat : q = chq'[d] /\ InQ(q, j, d, h)'
    <3>0. h \in Nat /\ h \in 1..pos[d]
      BY <1>1
    <3>1. PICK q \in Clients, m \in Nat : q = chq[d] /\ InQ(q, m, d, h)
      BY <1>3, <2>1, <2>3, <3>0
    <3>2. CASE q = p
      <4>1. m >= 1 /\ m # 1
        BY <1>2, <1>3, <2>3, <3>0, <3>1, <3>2
      <4>2. PICK j \in Nat : j >= 1 /\ j + 1 = m
        <5>1. m - 1 \in Nat /\ m - 1 >= 1 /\ (m - 1) + 1 = m
          BY <4>1
        <5> QED
          BY <5>1
      <4> QED
        BY <1>1, <1>2, <3>0, <3>1, <3>2, <4>2
    <3>3. CASE q # p
      BY <1>1, <1>2, <3>0, <3>1, <3>3
    <3> QED
      BY <3>2, <3>3
  <2> QED
    BY <2>2, <2>3
<1> QED
  BY <1>8, <1>9, <1>10

(* No step disturbs what was received and what is on its way.                *)
LEMMA DataStep == ASSUME TypeOK, ChildInv, DataInv, [Next]_vars PROVE DataInv'
<1> USE FunctionTypes, Nobody DEF svars, sqvars, cqvars, chvars, cvars, fvars, ServerAt, ChildAt, ClientAt, Fault
<1>0. ASSUME UNCHANGED <<pos, got>>, hurt \subseteq hurt',
             \A c \in Clients, i \in Nat, d \in Clients, k \in Nat : InQ(c, i, d, k)' <=> InQ(c, i, d, k),
             \A d \in Clients : chpc'[d] = "data" => (chpc[d] = "data" /\ chq'[d] = chq[d]) \/ pos[d] = 0
      PROVE  DataInv'
  <2>1. \A c \in Clients, i \in Nat, d \in Clients, k \in Nat : Got(c, i, d, k)' <=> Got(c, i, d, k)
    BY <1>0 DEF Got
  <2> HIDE FunctionTypes
  <2> QED
    BY <1>0, <2>1, DataFrame
<1>1. ASSUME UNCHANGED cqueue
      PROVE  \A c \in Clients, i \in Nat, d \in Clients, k \in Nat : InQ(c, i, d, k)' <=> InQ(c, i, d, k)
  BY <1>1 DEF InQ
<1>2. ASSUME NEW s \in Servers, Server(s) \/ CreateServerQueue(s) \/ ForkFails(s)
                                \/ __clean_serverId(s) \/ ServerKilled(s)
      PROVE  DataInv'
  <2>1. UNCHANGED <<pos, got, cqueue, chq>> /\ hurt \subseteq hurt'
    BY <1>2 DEF Server, OpenServerQueue, Receive, ReceiveFails, Fork, CreateServerQueue, ForkFails,
                __clean_serverId, ServerKilled
  <2>2. chpc' = chpc \/ chpc' = [chpc EXCEPT ![req[s]] = "open"]
    BY <1>2 DEF Server, OpenServerQueue, Receive, ReceiveFails, Fork, CreateServerQueue, ForkFails,
                __clean_serverId, ServerKilled
  <2>3. \A d \in Clients : chpc'[d] = "data" => chpc[d] = "data"
    BY <2>2
  <2> QED
    BY <1>0, <1>1, <2>1, <2>3
<1>3. ASSUME NEW c \in Clients, \/ OpenServer(c) \/ CreateQueue(c) \/ OpenQueue(c) \/ connect_server(c)
                                \/ Unlink(c) \/ __clean_clientId(c) \/ ClientKilled(c)
      PROVE  DataInv'
  <2>1. UNCHANGED <<pos, got, cqueue, chpc, chq>> /\ hurt \subseteq hurt'
    BY <1>3 DEF OpenServer, CreateQueue, OpenQueue, connect_server, Unlink, __clean_clientId, ClientKilled
  <2> QED
    BY <1>0, <1>1, <2>1
<1>4. ASSUME NEW c \in Clients, ReceiveInterrupted(c) PROVE DataInv'
  BY <1>4 DEF ReceiveInterrupted, DataInv
<1>5. ASSUME NEW c \in Clients, EndOfFile(c) \/ ReadFails(c) \/ ChildSigint(c) PROVE DataInv'
  <2>1. UNCHANGED <<pos, got, cqueue>> /\ hurt \subseteq hurt'
    BY <1>5 DEF EndOfFile, ReadFails, ChildSigint
  <2>2. chpc'[c] # "data" /\ \A d \in Clients \ {c} : chpc'[d] = chpc[d] /\ chq'[d] = chq[d]
    BY <1>5 DEF EndOfFile, ReadFails, ChildSigint
  <2> QED
    BY <1>0, <1>1, <2>1, <2>2
<1>6. ASSUME NEW c \in Clients, OpenFiles(c) PROVE DataInv'
  <2>1. UNCHANGED <<pos, got, cqueue>> /\ hurt \subseteq hurt' /\ pos[c] = 0
        /\ \A d \in Clients \ {c} : chpc'[d] = chpc[d] /\ chq'[d] = chq[d]
    BY <1>6 DEF OpenFiles, ChildInv
  <2> QED
    BY <1>0, <1>1, <2>1
<1>7. ASSUME NEW c \in Clients, SendFailure(c) \/ SendEnd(c) PROVE DataInv'
  <2>1. UNCHANGED <<pos, got>> /\ hurt \subseteq hurt'
    BY <1>7 DEF SendFailure, SendEnd
  <2>2. chpc'[c] # "data" /\ \A d \in Clients \ {c} : chpc'[d] = chpc[d] /\ chq'[d] = chq[d]
    BY <1>7 DEF SendFailure, SendEnd
  <2>3. Send(c, MT_FAILURE, 0) \/ Send(c, MT_END, 0)
    BY <1>7 DEF SendFailure, SendEnd
  <2>4. \A b \in Clients, i \in Nat, d \in Clients, k \in Nat : InQ(b, i, d, k)' <=> InQ(b, i, d, k)
    <3> HIDE FunctionTypes
    <3> QED
      BY <2>3, SendOther
  <2> QED
    BY <1>0, <2>1, <2>2, <2>4
<1>8. CASE UNCHANGED vars
  BY <1>0, <1>1, <1>8 DEF vars
<1> HIDE FunctionTypes
<1> QED
  BY <1>2, <1>3, <1>4, <1>5, <1>6, <1>7, <1>8, ChunkStep, RespStep DEF Next, System, Child, Client

(* What ChunksOnce says follows.                                             *)
LEMMA OnceOnly == IInv => ChunksOnce
<1> SUFFICES ASSUME IInv, "sigchld_client" \notin hurt,
                    NEW d \in Clients, NEW c \in Clients, NEW i \in DOMAIN got[c],
                    i > 1, got[c][i][1] = d, got[c][i][2] = MT_DATA
             PROVE  LET m == got[c][i] IN
                /\ m[3] \in 1..size[d]
                /\ \A b \in Clients : Positions(b, d, m[3]) = IF b = c THEN {i} ELSE {}
                /\ m[3] > 1 => \E b \in Clients : Positions(b, d, m[3] - 1) # {}
                /\ \A j \in DOMAIN got[c] :
                    j > i /\ got[c][j][1] = d /\ got[c][j][2] = MT_DATA => got[c][j][3] > m[3]
  BY DEF ChunksOnce
<1> DEFINE k == got[c][i][3]
<1>0. TypeOK /\ GotInv /\ ChildInv
  BY DEF IInv, DataInv
<1>1. \A b \in Clients : \A j : j \in DOMAIN got[b] <=> j \in 1..Len(got[b])
  BY SMTT(40), <1>0, FunctionTypes
<1>2. \A j \in DOMAIN got[c] : got[c][j] \in Msgs /\ j \in Nat
  BY <1>0, FunctionTypes
<1>3. \A m \in Msgs : m[3] \in Nat /\ (m[1] = d /\ m[2] = MT_DATA => m = Chunk(d, m[3]))
  BY DEF Msgs, Chunk
<1>4. \A b \in Clients, j, h \in Nat : j \in Positions(b, d, h) <=> Got(b, j, d, h)
  <2>1. \A b \in Clients : Len(got[b]) \in Nat
    BY <1>0, FunctionTypes
  <2>2. \A b \in Clients, j \in Nat : j \in 2..Len(got[b]) <=> j \in 1..Len(got[b]) /\ j > 1
    BY <2>1
  <2> QED
    BY <1>1, <2>2 DEF Positions, Got, Chunk
<1>5. \A b \in Clients : \A h : Positions(b, d, h) \subseteq Nat
  BY <1>1 DEF Positions
<1>6. k \in Nat /\ Got(c, i, d, k) /\ i \in Nat
  <2>1. got[c][i] = Chunk(d, k) /\ k \in Nat /\ i \in Nat
    BY <1>2, <1>3
  <2>2. i \in Positions(c, d, k)
    BY <2>1 DEF Positions, Chunk
  <2> HIDE DEF k
  <2> QED
    BY <1>4, <2>1, <2>2
<1> HIDE DEF k
<1>7. k \in 1..size[d]
  <2>1. k \in 1..pos[d] /\ pos[d] \in Nat /\ size[d] \in Int
    BY <1>0, <1>6, FunctionTypes DEF GotInv, NoFile
  <2>2. pos[d] > 0 => pos[d] <= size[d]
    BY <1>0 DEF ChildInv
  <2> QED
    BY <2>1, <2>2
<1>8. \A b \in Clients : Positions(b, d, k) = IF b = c THEN {i} ELSE {}
  <2>1. \A b \in Clients, j \in Nat : Got(b, j, d, k) <=> b = c /\ j = i
    BY <1>0, <1>6 DEF GotInv
  <2> QED
    BY <1>4, <1>5, <1>6, <2>1
<1>9. k > 1 => \E b \in Clients : Positions(b, d, k - 1) # {}
  <2> SUFFICES ASSUME k > 1 PROVE \E b \in Clients : Positions(b, d, k - 1) # {}
    OBVIOUS
  <2>1. k - 1 \in 1..k /\ k - 1 \in Nat
    BY <1>6
  <2>2. Received(d, k - 1)
    BY <1>0, <1>6, <2>1 DEF GotInv
  <2>3. PICK b \in Clients, j \in Nat : Got(b, j, d, k - 1)
    BY <2>2 DEF Received
  <2>4. j \in Positions(b, d, k - 1)
    BY <1>4, <2>1, <2>3
  <2> QED
    BY <2>4
<1>10. ASSUME NEW j \in DOMAIN got[c], j > i, got[c][j][1] = d, got[c][j][2] = MT_DATA
       PROVE  got[c][j][3] > k
  <2> DEFINE h == got[c][j][3]
  <2>1. got[c][j] = Chunk(d, h) /\ h \in Nat /\ j \in Nat
    BY <1>2, <1>3, <1>10
  <2>2. j \in Positions(c, d, h)
    BY <1>6, <1>10, <2>1 DEF Positions, Chunk
  <2> HIDE DEF h
  <2>3. Got(c, j, d, h)
    BY <1>4, <2>1, <2>2
  <2>4. k < h
    BY <1>0, <1>6, <1>10, <2>1, <2>3 DEF GotInv
  <2> QED
    BY <1>6, <2>1, <2>4 DEF h
<1> QED
  BY <1>7, <1>8, <1>9, <1>10 DEF k

(***************************************************************************)
(* The theorems.                                                           *)
(***************************************************************************)

(* The inductive invariant holds in every behaviour of the system, however   *)
(* many servers, children and clients there are and whatever strikes them.   *)
THEOREM Invariance == Spec => []IInv
<1>1. IInv /\ [Next]_vars => IInv'
  BY TypeStep, OnceStep, ChildStep, DataStep, NameStep DEF IInv
<1> QED
  BY InitIInv, <1>1, PTL DEF Spec

(* The types, the queues that are never overfilled, and that a process that  *)
(* sends a request or waits for one has a queue open (pmsg_file_server.c,    *)
(* pmsg_file_client.c).                                                      *)
THEOREM TypeCorrect == Spec => []TypeOK
BY Invariance, PTL DEF IInv

(* However many clients share the queue FOO_PATH, the chunks of each file    *)
(* are received once, by one of them and in order (serve_request,            *)
(* proc_resp).                                                               *)
THEOREM ChunksReceivedOnce == Spec => []ChunksOnce
BY Invariance, OnceOnly, PTL

(* A queue under FOO_PATH always has a client that uses it and will take the *)
(* name away, but for files that cannot be opened and clients killed.        *)
THEOREM NameHasUser == Spec => []NameIsUsed
BY Invariance, PTL DEF IInv
=============================================================================
