------------------------------ MODULE PmsgFile ------------------------------
(***************************************************************************)
(* hw9/52-3: the file server of hw8/46-2 once more, with POSIX message     *)
(* queues.  Queues have names now, and lives of their own: a queue whose   *)
(* name was taken away goes on for those who have it open, and the next    *)
(* one who makes a queue of that name gets another.  All clients use the   *)
(* one name FOO_PATH, and everybody who ends takes a name away without     *)
(* knowing whose queue bears it now.                                       *)
(*                                                                         *)
(* Modelled: servers, started up to MaxStarts times and possibly several   *)
(* at a time, with their handlers; their children; the clients.  A queue   *)
(* is known by the process that created it.  A client asks once, so its    *)
(* request and the child that serves it are known by the client.  A file   *)
(* is known by the number of its chunks.                                   *)
(***************************************************************************)
EXTENDS Naturals, Integers, Sequences, FiniteSets

CONSTANTS
    Clients,        \* client processes
    Sizes,          \* chunks in the files that clients ask for
    QueueCap,       \* messages that fit into a queue
    MaxStarts,      \* bound: starts of the server
    Faults,         \* the kinds of fault that may strike
    MaxFaults       \* bound: how many strike

FaultKinds == {"sigint", "kill_server", "kill_client", "fork_error", "read_error",
               "sigchld_client"}

NoFile == -1        \* the size of a file that cannot be opened

ASSUME PmsgAssumption ==
    /\ Sizes \subseteq Nat \cup {NoFile}
    /\ QueueCap \in Nat \ {0}
    /\ MaxStarts \in Nat
    /\ Faults \subseteq FaultKinds
    /\ MaxFaults \in Nat
    /\ "none" \notin Clients

VARIABLES
    sname,      \* the queue of SERVER_KEY: the server that made it
    squeue,     \* the requests in the queue made by each server
    spc,        \* where each server is
    serverId,   \* the queue it has open
    req,        \* the client whose request it has received
    cname,      \* the queue of FOO_PATH: the client that made it
    cqueue,     \* the responses in the queue made by each client
    chpc,       \* where the child for each client is
    chq,        \* the client queue it has open
    pos,        \* chunks it has sent
    cpc,        \* where each client is
    csid,       \* the server queue it has open
    clientId,   \* the client queue it has open
    got,        \* the responses it has found in resp
    size,       \* the size of the file it asks for
    hurt, nfaults

svars  == <<spc, serverId, req>>
sqvars == <<sname, squeue>>
cqvars == <<cname, cqueue>>
chvars == <<chpc, chq, pos>>
cvars  == <<cpc, csid, clientId, got>>
fvars  == <<hurt, nfaults>>
vars   == <<sqvars, svars, cqvars, chvars, cvars, size, fvars>>

Servers  == 1..MaxStarts
NoServer == 0
NoClient == "none"      \* no client, and no queue of a client

MT_FAILURE == -1
MT_DATA    == 1
MT_END     == 0

(* resp at first: a block of zeroes, which is written like a chunk. *)
FirstResp(c) == <<c, MT_DATA, 0>>

Init ==
    /\ sname = NoServer /\ squeue = [s \in Servers |-> <<>>]
    /\ spc = [s \in Servers |-> "new"]
    /\ serverId = [s \in Servers |-> NoServer]
    /\ req = [s \in Servers |-> NoClient]
    /\ cname = NoClient /\ cqueue = [c \in Clients |-> <<>>]
    /\ chpc = [c \in Clients |-> "none"]
    /\ chq = [c \in Clients |-> NoClient]
    /\ pos = [c \in Clients |-> 0]
    /\ cpc = [c \in Clients |-> "start"]
    /\ csid = [c \in Clients |-> NoServer]
    /\ clientId = [c \in Clients |-> NoClient]
    /\ got = [c \in Clients |-> <<FirstResp(c)>>]
    /\ size \in [Clients -> Sizes]
    /\ hurt = {} /\ nfaults = 0

Fault(k) ==
    /\ k \in Faults
    /\ nfaults < MaxFaults
    /\ nfaults' = nfaults + 1
    /\ hurt' = hurt \cup {k}

ServerAt(s, from, to) == spc[s] = from /\ spc' = [spc EXCEPT ![s] = to]
ChildAt(c, from, to)  == chpc[c] = from /\ chpc' = [chpc EXCEPT ![c] = to]
ClientAt(c, from, to) == cpc[c] = from /\ cpc' = [cpc EXCEPT ![c] = to]

Serving == {"open", "fail", "data", "end"}

(***************************************************************************)
(* A server s.                                                             *)
(***************************************************************************)

(* mq_open with O_CREAT and O_EXCL. *)
CreateServerQueue(s) ==
    /\ \A r \in Servers : r < s => spc[r] # "new"
    /\ IF sname = NoServer
       THEN /\ ServerAt(s, "new", "receive")
            /\ sname' = s
            /\ serverId' = [serverId EXCEPT ![s] = s]
       ELSE ServerAt(s, "new", "reopen") /\ UNCHANGED <<sname, serverId>>
    /\ UNCHANGED <<squeue, req, cqvars, chvars, cvars, size, fvars>>

(* It existed, and is opened, unless it is gone by now; nobody looks. *)
OpenServerQueue(s) ==
    /\ ServerAt(s, "reopen", "receive")
    /\ serverId' = [serverId EXCEPT ![s] = sname]
    /\ UNCHANGED <<sqvars, req, cqvars, chvars, cvars, size, fvars>>

Receive(s) ==
    /\ ServerAt(s, "receive", "fork")
    /\ serverId[s] # NoServer
    /\ LET q == serverId[s] IN
        /\ squeue[q] # <<>>
        /\ req' = [req EXCEPT ![s] = Head(squeue[q])]
        /\ squeue' = [squeue EXCEPT ![q] = Tail(@)]
    /\ UNCHANGED <<sname, serverId, cqvars, chvars, cvars, size, fvars>>

(* Any error but EINTR ends the loop, and takes the name away. *)
ReceiveFails(s) ==
    /\ serverId[s] = NoServer
    /\ ServerAt(s, "receive", "down")
    /\ sname' = NoServer
    /\ UNCHANGED <<squeue, serverId, req, cqvars, chvars, cvars, size, fvars>>

Fork(s) ==
    /\ ServerAt(s, "fork", "receive")
    /\ chpc' = [chpc EXCEPT ![req[s]] = "open"]
    /\ req' = [req EXCEPT ![s] = NoClient]
    /\ UNCHANGED <<sqvars, serverId, cqvars, chq, pos, cvars, size, fvars>>

(* A failed fork() goes unnoticed: -1 is not 0. *)
ForkFails(s) ==
    /\ Fault("fork_error")
    /\ ServerAt(s, "fork", "receive")
    /\ req' = [req EXCEPT ![s] = NoClient]
    /\ UNCHANGED <<sqvars, serverId, cqvars, chvars, cvars, size>>

ServerGone(s) ==
    /\ spc[s] \notin {"new", "down"}
    /\ spc' = [spc EXCEPT ![s] = "down"]
    /\ serverId' = [serverId EXCEPT ![s] = NoServer]
    /\ req' = [req EXCEPT ![s] = NoClient]

(* The handler, at SIGINT.  At SIGCHLD it reaps children, and mq_receive() *)
(* is called again; SvmsgFile looks at that, and a child here is just gone. *)
__clean_serverId(s) ==
    /\ Fault("sigint")
    /\ ServerGone(s)
    /\ sname' = NoServer
    /\ UNCHANGED <<squeue, cqvars, chvars, cvars, size>>

ServerKilled(s) ==
    /\ Fault("kill_server")
    /\ ServerGone(s)
    /\ UNCHANGED <<sqvars, cqvars, chvars, cvars, size>>

(***************************************************************************)
(* The child that serves client c.                                         *)
(***************************************************************************)

(* The queue that bears the name now; -1, unless there is one. *)
OpenFiles(c) ==
    /\ ChildAt(c, "open", IF size[c] = NoFile THEN "fail" ELSE "data")
    /\ chq' = [chq EXCEPT ![c] = cname]
    /\ UNCHANGED <<sqvars, svars, cqvars, pos, cvars, size, fvars>>

(* mq_send() waits while the queue is full, also if nobody reads it any more. *)
Send(c, mtype, n) ==
    LET q == chq[c] IN
    IF q = NoClient
    THEN UNCHANGED cqueue
    ELSE /\ Len(cqueue[q]) < QueueCap
         /\ cqueue' = [cqueue EXCEPT ![q] = Append(@, <<c, mtype, n>>)]

SendFailure(c) ==
    /\ ChildAt(c, "fail", "gone")
    /\ Send(c, MT_FAILURE, 0)
    /\ chq' = [chq EXCEPT ![c] = NoClient]
    /\ UNCHANGED <<sqvars, svars, cname, pos, cvars, size, fvars>>

(* Mutant: read() goes to the buffer while an earlier chunk is sent from it. *)
Mut_SendChunk(c) ==
    /\ pos[c] < size[c]
    /\ ChildAt(c, "data", IF chq[c] = NoClient THEN "end" ELSE "data")
    /\ \E n \in pos[c]..(pos[c] + 1) : Send(c, MT_DATA, n)
    /\ pos' = [pos EXCEPT ![c] = @ + 1]
    /\ UNCHANGED <<sqvars, svars, cname, chq, cvars, size, fvars>>

(* A chunk is read and sent; an error of mq_send() ends the loop. *)
SendChunk(c) ==
    /\ pos[c] < size[c]
    /\ ChildAt(c, "data", IF chq[c] = NoClient THEN "end" ELSE "data")
    /\ Send(c, MT_DATA, pos[c] + 1)
    /\ pos' = [pos EXCEPT ![c] = @ + 1]
    /\ UNCHANGED <<sqvars, svars, cname, chq, cvars, size, fvars>>

EndOfFile(c) ==
    /\ pos[c] = size[c]
    /\ ChildAt(c, "data", "end")
    /\ UNCHANGED <<sqvars, svars, cqvars, chq, pos, cvars, size, fvars>>

(* An error of read() is the end of the file, too. *)
ReadFails(c) ==
    /\ Fault("read_error")
    /\ ChildAt(c, "data", "end")
    /\ UNCHANGED <<sqvars, svars, cqvars, chq, pos, cvars, size>>

(* Mutant: the queue is opened with O_NONBLOCK. *)
Mut_SendEnd(c) ==
    /\ ChildAt(c, "end", "gone")
    /\ IF chq[c] # NoClient /\ Len(cqueue[chq[c]]) = QueueCap
       THEN UNCHANGED cqueue
       ELSE Send(c, MT_END, 0)
    /\ chq' = [chq EXCEPT ![c] = NoClient]
    /\ UNCHANGED <<sqvars, svars, cname, pos, cvars, size, fvars>>

SendEnd(c) ==
    /\ ChildAt(c, "end", "gone")
    /\ Send(c, MT_END, 0)
    /\ UNCHANGED <<sqvars, svars, cname, chq, pos, cvars, size, fvars>>

(* The child has the server's handler, and takes the server's name away. *)
ChildSigint(c) ==
    /\ chpc[c] \in Serving
    /\ Fault("sigint")
    /\ chpc' = [chpc EXCEPT ![c] = "gone"]
    /\ chq' = [chq EXCEPT ![c] = NoClient]
    /\ sname' = NoServer
    /\ UNCHANGED <<squeue, svars, cqvars, pos, cvars, size>>

(***************************************************************************)
(* A client c.                                                             *)
(***************************************************************************)

OpenServer(c) ==
    /\ ClientAt(c, "start", IF sname = NoServer THEN "failed" ELSE "create")
    /\ csid' = [csid EXCEPT ![c] = sname]
    /\ UNCHANGED <<sqvars, svars, cqvars, chvars, clientId, got, size, fvars>>

CreateQueue(c) ==
    /\ IF cname = NoClient
       THEN /\ ClientAt(c, "create", "connect")
            /\ cname' = c
            /\ clientId' = [clientId EXCEPT ![c] = c]
       ELSE ClientAt(c, "create", "reopen") /\ UNCHANGED <<cname, clientId>>
    /\ UNCHANGED <<sqvars, svars, cqueue, chvars, csid, got, size, fvars>>

(* It existed, with whatever is in it; or it did, and clientId is -1. *)
OpenQueue(c) ==
    /\ ClientAt(c, "reopen", "connect")
    /\ clientId' = [clientId EXCEPT ![c] = cname]
    /\ UNCHANGED <<sqvars, svars, cqvars, chvars, csid, got, size, fvars>>

connect_server(c) ==
    /\ ClientAt(c, "connect", "receive")
    /\ Len(squeue[csid[c]]) < QueueCap
    /\ squeue' = [squeue EXCEPT ![csid[c]] = Append(@, c)]
    /\ csid' = [csid EXCEPT ![c] = NoServer]
    /\ UNCHANGED <<sname, svars, cqvars, chvars, clientId, got, size, fvars>>

(* MT_FAILURE exits at once, and leaves the name behind. *)
After(mtype) ==
    IF mtype = MT_DATA THEN "receive" ELSE IF mtype = MT_END THEN "unlink" ELSE "failed"

(* Without a queue the loop never ends: mq_receive() fails, resp stays. *)
proc_resp(c) ==
    LET q == clientId[c] IN
    /\ q # NoClient
    /\ cqueue[q] # <<>>
    /\ cqueue' = [cqueue EXCEPT ![q] = Tail(@)]
    /\ got' = [got EXCEPT ![c] = Append(@, Head(cqueue[q]))]
    /\ ClientAt(c, "receive", After(Head(cqueue[q])[2]))
    /\ UNCHANGED <<sqvars, svars, cname, chvars, csid, clientId, size, fvars>>

(* SIGCHLD interrupts mq_receive(): resp stays, and is written once more. *)
ReceiveInterrupted(c) ==
    /\ cpc[c] = "receive" /\ clientId[c] # NoClient
    /\ cqueue[clientId[c]] = <<>>
    /\ Fault("sigchld_client")
    /\ got' = [got EXCEPT ![c] = Append(@, @[Len(@)])]
    /\ UNCHANGED <<sqvars, svars, cqvars, chvars, cpc, csid, clientId, size>>

(* Mutant: the queue is left to whoever comes next. *)
Mut_Unlink(c) ==
    /\ ClientAt(c, "unlink", "done")
    /\ UNCHANGED <<sqvars, svars, cqvars, chvars, csid, clientId, got, size, fvars>>

Unlink(c) ==
    /\ ClientAt(c, "unlink", "done")
    /\ cname' = NoClient
    /\ UNCHANGED <<sqvars, svars, cqueue, chvars, csid, clientId, got, size, fvars>>

Over == {"failed", "done", "killed"}

__clean_clientId(c) ==
    /\ cpc[c] \notin Over
    /\ Fault("sigint")
    /\ cpc' = [cpc EXCEPT ![c] = "done"]
    /\ cname' = NoClient
    /\ UNCHANGED <<sqvars, svars, cqueue, chvars, csid, clientId, got, size>>

ClientKilled(c) ==
    /\ cpc[c] \notin Over
    /\ Fault("kill_client")
    /\ cpc' = [cpc EXCEPT ![c] = "killed"]
    /\ UNCHANGED <<sqvars, svars, cqvars, chvars, csid, clientId, got, size>>

(***************************************************************************)
(* The system.                                                             *)
(***************************************************************************)
Server(s) == OpenServerQueue(s) \/ Receive(s) \/ ReceiveFails(s) \/ Fork(s)

Child(c) == OpenFiles(c) \/ SendFailure(c) \/ SendChunk(c) \/ EndOfFile(c) \/ SendEnd(c)

Client(c) ==
    \/ OpenServer(c) \/ CreateQueue(c) \/ OpenQueue(c)
    \/ connect_server(c) \/ proc_resp(c) \/ Unlink(c)

(* What processes do of themselves, once they run. *)
System ==
    \/ \E s \in Servers : Server(s)
    \/ \E c \in Clients : Child(c) \/ Client(c)

Next ==
    \/ System
    \/ \E s \in Servers :
        \/ CreateServerQueue(s) \/ ForkFails(s) \/ __clean_serverId(s) \/ ServerKilled(s)
    \/ \E c \in Clients :
        \/ ReadFails(c) \/ ChildSigint(c)
        \/ ReceiveInterrupted(c) \/ __clean_clientId(c) \/ ClientKilled(c)

Spec == Init /\ [][Next]_vars

(* Something that can run does run; nobody has to start a server.  All that *)
(* runs ends or waits, so this is enough for each process.                  *)
FairSpec == Spec /\ WF_vars(System)

(***************************************************************************)
(* Properties.                                                             *)
(***************************************************************************)
Msgs == Clients \X {MT_FAILURE, MT_DATA, MT_END} \X Nat

(* Types; nobody sends to a full queue, and a process that waits for        *)
(* requests or answers has said which queue it waits at.                    *)
TypeOK ==
    /\ sname \in Servers \cup {NoServer}
    /\ squeue \in [Servers -> Seq(Clients)]
    /\ \A s \in Servers : Len(squeue[s]) <= QueueCap
    /\ spc \in [Servers -> {"new", "reopen", "receive", "fork", "down"}]
    /\ serverId \in [Servers -> Servers \cup {NoServer}]
    /\ req \in [Servers -> Clients \cup {NoClient}]
    /\ \A s \in Servers : spc[s] = "fork" <=> req[s] # NoClient
    /\ cname \in Clients \cup {NoClient}
    /\ cqueue \in [Clients -> Seq(Msgs)]
    /\ \A c \in Clients : Len(cqueue[c]) <= QueueCap
    /\ chpc \in [Clients -> Serving \cup {"none", "gone"}]
    /\ chq \in [Clients -> Clients \cup {NoClient}]
    /\ pos \in [Clients -> Nat]
    /\ \A c \in Clients : chpc[c] = "data" => pos[c] <= size[c]
    /\ cpc \in [Clients -> Over \cup {"start", "create", "reopen", "connect", "receive", "unlink"}]
    /\ csid \in [Clients -> Servers \cup {NoServer}]
    /\ \A c \in Clients : cpc[c] \in {"create", "reopen", "connect"} => csid[c] # NoServer
    /\ clientId \in [Clients -> Clients \cup {NoClient}]
    /\ got \in [Clients -> Seq(Msgs)]
    /\ size \in [Clients -> Sizes]
    /\ hurt \subseteq Faults /\ nfaults \in 0..MaxFaults

(* The chunks of d's file that c has received, in the order of its loop. *)
Positions(c, d, k) == {i \in DOMAIN got[c] : i > 1 /\ got[c][i] = <<d, MT_DATA, k>>}

(* However many clients share the queue, the chunks of a file are received  *)
(* once, by one of them, none before the one that precedes it in the file   *)
(* has been received by somebody, and nobody receives them out of order.    *)
(* Only a SIGCHLD sent to a client makes it take one twice.                 *)
ChunksOnce ==
    "sigchld_client" \notin hurt =>
        \A d \in Clients : \A c \in Clients : \A i \in DOMAIN got[c] :
            LET m == got[c][i] IN
            i > 1 /\ m[1] = d /\ m[2] = MT_DATA =>
                /\ m[3] \in 1..size[d]
                /\ \A b \in Clients : Positions(b, d, m[3]) = IF b = c THEN {i} ELSE {}
                /\ m[3] > 1 => \E b \in Clients : Positions(b, d, m[3] - 1) # {}
                /\ \A j \in DOMAIN got[c] :
                    j > i /\ got[c][j][1] = d /\ got[c][j][2] = MT_DATA => got[c][j][3] > m[3]

(* The name is somebody's: as long as nobody was told that its file cannot  *)
(* be opened, and nobody was killed, a queue under FOO_PATH has a client    *)
(* that will take the name away, though it may be another than its maker.   *)
NameIsUsed ==
    cname # NoClient =>
        \/ \E c \in Clients : cpc[c] \in {"connect", "receive", "unlink"} /\ clientId[c] # NoClient
        \/ \E c \in Clients : cpc[c] = "failed" /\ clientId[c] # NoClient
        \/ "kill_client" \in hurt

(* Nobody but c is about. *)
Alone(c) ==
    \A d \in Clients \ {c} :
        /\ cpc[d] \in Over \cup {"start"}
        /\ chpc[d] \notin Serving
        /\ \A s \in Servers :
            /\ req[s] # d
            /\ \A k \in DOMAIN squeue[s] : squeue[s][k] # d

Expected(c) ==
    IF size[c] = NoFile
    THEN <<FirstResp(c), <<c, MT_FAILURE, 0>>>>
    ELSE [k \in 1..(size[c] + 2) |->
            IF k = size[c] + 2 THEN <<c, MT_END, 0>> ELSE <<c, MT_DATA, k - 1>>]

(* A client that asks while no other is about gets its file, and ends,      *)
(* unless another one starts meanwhile or a fault strikes: also in a queue  *)
(* that an earlier client has left.                                         *)
AloneIsServed ==
    \A c \in Clients :
        cpc[c] = "create" /\ Alone(c)
            ~> \/ cpc[c] \in Over /\ got[c] = Expected(c)
               \/ ~Alone(c) \/ hurt # {}
=============================================================================
