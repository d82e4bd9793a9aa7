----------------------------- MODULE SvmsgFile ------------------------------
(***************************************************************************)
(* hw8/46-2: svmsg_file_server sends files to clients through System V     *)
(* message queues.  Requests come in on the server's queue; a child forked *)
(* for each request answers on a queue that the client made for itself.    *)
(* Modelled: the server with its SIGCHLD and SIGINT handlers, restarted up *)
(* to MaxStarts times (one server at a time), its children, the clients,   *)
(* and the queues, which outlive the processes.                            *)
(*                                                                         *)
(* A client asks once, so a request and the child that serves it are known *)
(* by the client.  A file is the sequence of its chunks.  Of a chunk only  *)
(* the sign of its first four bytes, as an int, is kept: the structure of  *)
(* a response begins with an int where the kernel reads a long, so these   *)
(* bytes are the upper half of the message type.                           *)
(***************************************************************************)
EXTENDS Naturals, Integers, Sequences, FiniteSets

CONSTANTS
    Clients,        \* client processes
    Files,          \* files that clients ask for
    QueueCap,       \* chunks that fit into a queue
    ServerCap,      \* requests that fit into the server's queue
    MaxStarts,      \* bound: starts of the server
    Faults,         \* the kinds of fault that may strike
    MaxFaults       \* bound: how many faults strike

FaultKinds == {"sigint", "kill_server", "kill_client", "fork_error", "read_error"}

NoFile == <<2>>     \* a path that cannot be opened

ASSUME SvmsgAssumption ==
    /\ Files \subseteq Seq({-1, 0, 1}) \cup {NoFile}
    /\ QueueCap \in Nat \ {0}
    /\ ServerCap \in Nat \ {0}
    /\ MaxStarts \in Nat
    /\ Faults \subseteq FaultKinds
    /\ MaxFaults \in Nat

VARIABLES
    spc,        \* where the server is
    serverId,   \* the queue its serverId stands for
    req,        \* the client whose request it has received
    life,       \* how often it was started
    sigchld,    \* SIGCHLD is pending
    handling,   \* the SIGCHLD handler runs
    sqid,       \* the queue of SERVER_KEY, 0 if there is none
    squeue,     \* the requests in it
    cqs,        \* clients whose queue exists
    cqueue,     \* the responses in each client's queue
    chpc,       \* where the child for each client is
    pos,        \* chunks it has read
    orphans,    \* children whose server is gone
    cpc,        \* where each client is
    csid,       \* the queue its serverId stands for
    got,        \* the responses it has received
    file,       \* the file it asks for
    hurt,       \* kinds of fault that have struck
    nfaults     \* how many

svars  == <<spc, serverId, req, life, sigchld, handling>>
qvars  == <<sqid, squeue>>
cqvars == <<cqs, cqueue>>
chvars == <<chpc, pos, orphans>>
cvars  == <<cpc, csid, got>>
fvars  == <<hurt, nfaults>>
vars   == <<svars, qvars, cqvars, chvars, cvars, file, fvars>>

NoClient == "none"

MT_FAILURE == -1
MT_DATA    == 1
MT_END     == 0

Init ==
    /\ spc = "down" /\ serverId = 0 /\ req = NoClient /\ life = 0
    /\ sigchld = FALSE /\ handling = FALSE
    /\ sqid = 0 /\ squeue = <<>>
    /\ cqs = {} /\ cqueue = [c \in Clients |-> <<>>]
    /\ chpc = [c \in Clients |-> "none"]
    /\ pos = [c \in Clients |-> 0]
    /\ orphans = {}
    /\ cpc = [c \in Clients |-> "get"]
    /\ csid = [c \in Clients |-> 0]
    /\ got = [c \in Clients |-> <<>>]
    /\ file \in [Clients -> Files]
    /\ hurt = {} /\ nfaults = 0

(* A fault of kind k strikes now. *)
Fault(k) ==
    /\ k \in Faults
    /\ nfaults < MaxFaults
    /\ nfaults' = nfaults + 1
    /\ hurt' = hurt \cup {k}

(* msgctl(id, IPC_RMID) on a server queue: nothing if it is gone already. *)
RemoveServerQueue(id) ==
    IF id = sqid THEN sqid' = 0 /\ squeue' = <<>> ELSE UNCHANGED qvars

Running == {"open", "fail", "read", "send", "end"}

(***************************************************************************)
(* The server.                                                             *)
(***************************************************************************)

(* A queue left by an earlier server is used again, with what is in it. *)
ServerStart ==
    /\ spc = "down"
    /\ life < MaxStarts
    /\ life' = life + 1
    /\ serverId' = IF sqid = 0 THEN life' ELSE sqid
    /\ sqid' = serverId'
    /\ spc' = "msgrcv" /\ req' = NoClient
    /\ sigchld' = FALSE /\ handling' = FALSE
    /\ UNCHANGED <<squeue, cqvars, chvars, cvars, file, fvars>>

(* The server is gone: init adopts its children and reaps the zombies. *)
ServerGone ==
    /\ spc' = "down"
    /\ orphans' = orphans \cup {c \in Clients : chpc[c] \in Running}
    /\ chpc' = [c \in Clients |-> IF chpc[c] = "zombie" THEN "gone" ELSE chpc[c]]
    /\ UNCHANGED <<serverId, req, life, sigchld, handling, cqvars, pos, cvars, file>>

Receive ==
    /\ spc = "msgrcv"
    /\ ~handling
    /\ serverId = sqid
    /\ squeue # <<>>
    /\ req' = Head(squeue)
    /\ squeue' = Tail(squeue)
    /\ spc' = "fork"
    /\ UNCHANGED <<serverId, life, sigchld, handling, sqid, cqvars, chvars, cvars, file, fvars>>

(* EIDRM or EINVAL, unlike EINTR, ends the loop. *)
ReceiveFails ==
    /\ spc = "msgrcv"
    /\ ~handling
    /\ serverId # sqid
    /\ ServerGone
    /\ UNCHANGED <<qvars, fvars>>

Fork ==
    /\ spc = "fork"
    /\ ~handling
    /\ chpc' = [chpc EXCEPT ![req] = "open"]
    /\ spc' = "msgrcv"
    /\ UNCHANGED <<serverId, req, life, sigchld, handling, qvars, cqvars, pos, orphans, cvars, file, fvars>>

(* A failed fork() goes unnoticed: -1 is not 0. *)
ForkFails ==
    /\ spc = "fork"
    /\ ~handling
    /\ Fault("fork_error")
    /\ spc' = "msgrcv"
    /\ UNCHANGED <<serverId, req, life, sigchld, handling, qvars, cqvars, chvars, cvars, file>>

(* The SIGCHLD handler; SIGCHLD is blocked, and so may be pending, in it. *)
EnterHandler ==
    /\ spc # "down"
    /\ sigchld /\ ~handling
    /\ sigchld' = FALSE /\ handling' = TRUE
    /\ UNCHANGED <<spc, serverId, req, life, qvars, cqvars, chvars, cvars, file, fvars>>

(* Mutant: one waitpid() per signal. *)
Mut_Reap(c) ==
    /\ spc # "down" /\ handling
    /\ chpc[c] = "zombie"
    /\ chpc' = [chpc EXCEPT ![c] = "gone"]
    /\ handling' = FALSE
    /\ UNCHANGED <<spc, serverId, req, life, sigchld, qvars, cqvars, pos, orphans, cvars, file, fvars>>

Reap(c) ==
    /\ spc # "down" /\ handling
    /\ chpc[c] = "zombie"
    /\ chpc' = [chpc EXCEPT ![c] = "gone"]
    /\ UNCHANGED <<svars, qvars, cqvars, pos, orphans, cvars, file, fvars>>

LeaveHandler ==
    /\ spc # "down" /\ handling
    /\ \A c \in Clients : chpc[c] # "zombie"
    /\ handling' = FALSE
    /\ UNCHANGED <<spc, serverId, req, life, sigchld, qvars, cqvars, chvars, cvars, file, fvars>>

(* SIGINT: the queue goes, with the requests in it. *)
ServerSigint ==
    /\ spc # "down"
    /\ Fault("sigint")
    /\ RemoveServerQueue(serverId)
    /\ ServerGone

(* Killed: the queue stays. *)
ServerKilled ==
    /\ spc # "down"
    /\ Fault("kill_server")
    /\ ServerGone
    /\ UNCHANGED qvars

(***************************************************************************)
(* The child that serves client c.                                         *)
(***************************************************************************)

(* The first four bytes of the buffer, which is zero-filled at first. *)
DataHead(c) == IF pos[c] = 0 THEN 0 ELSE file[c][pos[c]]

(* msgsnd refuses a type that is not positive; the text of MT_FAILURE       *)
(* begins with letters.                                                     *)
Sendable(mtype, head) == head > 0 \/ (head = 0 /\ mtype > 0)

ChildAt(c, from, to) ==
    /\ chpc[c] = from
    /\ chpc' = [chpc EXCEPT ![c] = to]

(* The child is gone: a zombie, or, as an orphan, reaped at once. *)
ChildExits(c) ==
    IF c \in orphans
    THEN chpc' = [chpc EXCEPT ![c] = "gone"] /\ UNCHANGED sigchld
    ELSE chpc' = [chpc EXCEPT ![c] = "zombie"] /\ sigchld' = TRUE

Put(c, msg) == cqueue' = [cqueue EXCEPT ![c] = Append(@, msg)]

OpenFile(c) ==
    /\ ChildAt(c, "open", IF file[c] = NoFile THEN "fail" ELSE "read")
    /\ UNCHANGED <<svars, qvars, cqvars, pos, orphans, cvars, file, fvars>>

(* Mutant: the client is not told. *)
Mut_SendFailure(c) ==
    /\ chpc[c] = "fail"
    /\ UNCHANGED cqueue
    /\ ChildExits(c)
    /\ UNCHANGED <<spc, serverId, req, life, handling, qvars, cqs, pos, orphans, cvars, file, fvars>>

SendFailure(c) ==
    /\ chpc[c] = "fail"
    /\ IF c \in cqs THEN Put(c, <<MT_FAILURE, 0>>) ELSE UNCHANGED cqueue
    /\ ChildExits(c)
    /\ UNCHANGED <<spc, serverId, req, life, handling, qvars, cqs, pos, orphans, cvars, file, fvars>>

ReadChunk(c) ==
    /\ IF pos[c] < Len(file[c])
       THEN ChildAt(c, "read", "send") /\ pos' = [pos EXCEPT ![c] = @ + 1]
       ELSE ChildAt(c, "read", "end") /\ UNCHANGED pos
    /\ UNCHANGED <<svars, qvars, cqvars, orphans, cvars, file, fvars>>

(* read() fails: taken for the end of the file. *)
ReadFails(c) ==
    /\ Fault("read_error")
    /\ ChildAt(c, "read", "end")
    /\ UNCHANGED <<svars, qvars, cqvars, pos, orphans, cvars, file>>

(* Mutant: a chunk that cannot be sent is skipped. *)
Mut_SendChunk(c) ==
    /\ IF Sendable(MT_DATA, DataHead(c)) /\ c \in cqs
       THEN Len(cqueue[c]) < QueueCap /\ Put(c, <<MT_DATA, pos[c]>>)
       ELSE UNCHANGED cqueue
    /\ ChildAt(c, "send", "read")
    /\ UNCHANGED <<svars, qvars, cqs, pos, orphans, cvars, file, fvars>>

(* msgsnd waits while the queue is full; any error ends the loop. *)
SendChunk(c) ==
    /\ IF Sendable(MT_DATA, DataHead(c)) /\ c \in cqs
       THEN /\ Len(cqueue[c]) < QueueCap
            /\ Put(c, <<MT_DATA, pos[c]>>)
            /\ ChildAt(c, "send", "read")
       ELSE ChildAt(c, "send", "end") /\ UNCHANGED cqueue
    /\ UNCHANGED <<svars, qvars, cqs, pos, orphans, cvars, file, fvars>>

(* MT_END, of length 0, fits into any queue, but its type has the upper     *)
(* half that the last chunk left in the buffer.                             *)
SendEnd(c) ==
    /\ chpc[c] = "end"
    /\ IF Sendable(MT_END, DataHead(c)) /\ c \in cqs
       THEN Put(c, <<MT_END, 0>>)
       ELSE UNCHANGED cqueue
    /\ ChildExits(c)
    /\ UNCHANGED <<spc, serverId, req, life, handling, qvars, cqs, pos, orphans, cvars, file, fvars>>

(* The child has inherited the SIGINT handler, and the server's queue id,   *)
(* which is that of the queue its client wrote to.                          *)
ChildSigint(c) ==
    /\ chpc[c] \in Running
    /\ Fault("sigint")
    /\ RemoveServerQueue(csid[c])
    /\ ChildExits(c)
    /\ UNCHANGED <<spc, serverId, req, life, handling, cqvars, pos, orphans, cvars, file>>

(***************************************************************************)
(* A client c.                                                             *)
(***************************************************************************)
ClientAt(c, from, to) ==
    /\ cpc[c] = from
    /\ cpc' = [cpc EXCEPT ![c] = to]

(* msgget of the server's queue, which must exist. *)
GetServerQueue(c) ==
    /\ ClientAt(c, "get", IF sqid = 0 THEN "failed" ELSE "create")
    /\ csid' = [csid EXCEPT ![c] = sqid]
    /\ UNCHANGED <<svars, qvars, cqvars, chvars, got, file, fvars>>

CreateQueue(c) ==
    /\ ClientAt(c, "create", "request")
    /\ cqs' = cqs \cup {c}
    /\ UNCHANGED <<svars, qvars, cqueue, chvars, csid, got, file, fvars>>

(* msgsnd waits while the server's queue is full, and fails without it. *)
SendRequest(c) ==
    /\ IF csid[c] = sqid
       THEN /\ Len(squeue) < ServerCap
            /\ squeue' = Append(squeue, c)
            /\ ClientAt(c, "request", "msgrcv")
       ELSE ClientAt(c, "request", "exit") /\ UNCHANGED squeue
    /\ UNCHANGED <<svars, sqid, cqvars, chvars, csid, got, file, fvars>>

(* The loop goes on until a response of type MT_END or MT_FAILURE. *)
ReceiveResponse(c) ==
    /\ cqueue[c] # <<>>
    /\ got' = [got EXCEPT ![c] = Append(@, Head(cqueue[c]))]
    /\ cqueue' = [cqueue EXCEPT ![c] = Tail(@)]
    /\ ClientAt(c, "msgrcv", IF Head(cqueue[c])[1] = MT_DATA THEN "msgrcv" ELSE "exit")
    /\ UNCHANGED <<svars, qvars, cqs, chvars, csid, file, fvars>>

(* The exit handler removes the client's queue. *)
removeQueue(c) ==
    /\ ClientAt(c, "exit", "done")
    /\ cqs' = cqs \ {c}
    /\ cqueue' = [cqueue EXCEPT ![c] = <<>>]
    /\ UNCHANGED <<svars, qvars, chvars, csid, got, file, fvars>>

Over == {"failed", "done", "killed"}

(* A signal ends the client without its exit handler: its queue stays. *)
ClientKilled(c) ==
    /\ cpc[c] \notin Over
    /\ Fault("kill_client")
    /\ cpc' = [cpc EXCEPT ![c] = "killed"]
    /\ UNCHANGED <<svars, qvars, cqvars, chvars, csid, got, file>>

(***************************************************************************)
(* The system.                                                             *)
(***************************************************************************)
Server ==
    \/ Receive \/ ReceiveFails \/ Fork
    \/ EnterHandler \/ LeaveHandler \/ \E c \in Clients : Reap(c)

Child(c) ==
    \/ OpenFile(c) \/ SendFailure(c) \/ ReadChunk(c) \/ SendChunk(c) \/ SendEnd(c)

Client(c) ==
    \/ GetServerQueue(c) \/ CreateQueue(c) \/ SendRequest(c)
    \/ ReceiveResponse(c) \/ removeQueue(c)

Next ==
    \/ ServerStart \/ Server \/ ForkFails \/ ServerSigint \/ ServerKilled
    \/ \E c \in Clients :
        \/ Child(c) \/ ReadFails(c) \/ ChildSigint(c)
        \/ Client(c) \/ ClientKilled(c)

Spec == Init /\ [][Next]_vars

(* Running processes are scheduled; nobody has to start a server. *)
FairSpec ==
    /\ Spec
    /\ WF_vars(Server)
    /\ \A c \in Clients : WF_vars(Child(c)) /\ WF_vars(Client(c))

(***************************************************************************)
(* Properties.                                                             *)
(***************************************************************************)
Msgs == {MT_FAILURE, MT_DATA, MT_END} \X Nat

(* Types; data messages fit into a queue, the empty MT_END on top of them,  *)
(* and a child stays inside its file.                                       *)
TypeOK ==
    /\ spc \in {"down", "msgrcv", "fork"}
    /\ serverId \in 0..MaxStarts
    /\ req \in Clients \cup {NoClient}
    /\ spc = "fork" => req \in Clients
    /\ life \in 0..MaxStarts
    /\ sigchld \in BOOLEAN /\ handling \in BOOLEAN
    /\ sqid \in 0..MaxStarts
    /\ squeue \in Seq(Clients) /\ Len(squeue) <= ServerCap
    /\ cqs \subseteq Clients
    /\ cqueue \in [Clients -> Seq(Msgs)]
    /\ \A c \in Clients : Len(cqueue[c]) <= QueueCap + 1
    /\ chpc \in [Clients -> Running \cup {"none", "zombie", "gone"}]
    /\ pos \in [Clients -> Nat] /\ \A c \in Clients : pos[c] <= Len(file[c])
    /\ orphans \subseteq Clients
    /\ cpc \in [Clients -> Over \cup {"get", "create", "request", "msgrcv", "exit"}]
    /\ csid \in [Clients -> 0..MaxStarts]
    /\ got \in [Clients -> Seq(Msgs)]
    /\ file \in [Clients -> Files]
    /\ hurt \subseteq Faults
    /\ nfaults \in 0..MaxFaults

(* What the client is to receive: "the contents of the requested file are   *)
(* sent in a series of messages", MT_END "to signify end-of-file", or       *)
(* MT_FAILURE alone.                                                        *)
Expected(c) ==
    IF file[c] = NoFile
    THEN <<<<MT_FAILURE, 0>>>>
    ELSE Append([k \in 1..Len(file[c]) |-> <<MT_DATA, k>>], <<MT_END, 0>>)

(* What a client has received is always the beginning of that, although the *)
(* child's loop ends at any error of msgsnd, children are interrupted and   *)
(* the server is restarted: a client that sees MT_END has the whole file.   *)
(* Only a read() error cuts a file short.                                   *)
AnswerIsPrefix ==
    "read_error" \notin hurt =>
        \A c \in Clients :
            /\ Len(got[c]) <= Len(Expected(c))
            /\ \A k \in 1..Len(got[c]) : got[c][k] = Expected(c)[k]

(* The files for which every msgsnd of the child is accepted. *)
Transmissible(c) ==
    \/ file[c] = NoFile
    \/ /\ \A k \in 1..Len(file[c]) : file[c][k] >= 0
       /\ file[c] # <<>> /\ file[c][Len(file[c])] > 0

Answered(c) == cqueue[c] # <<>> /\ cqueue[c][Len(cqueue[c])][1] # MT_DATA

(* A client that waits is in somebody's hands: its request is queued or     *)
(* received, its child runs, or its queue has the end of the answer.        *)
Accounted ==
    hurt \subseteq {"kill_client"} =>
        \A c \in Clients :
            cpc[c] = "msgrcv" /\ Transmissible(c) =>
                \/ \E k \in 1..Len(squeue) : squeue[k] = c
                \/ spc = "fork" /\ req = c
                \/ chpc[c] \in Running
                \/ Answered(c)

(* It comes to an end then. *)
ClientsFinish ==
    \A c \in Clients :
        cpc[c] = "msgrcv" /\ Transmissible(c)
            ~> (cpc[c] \in Over \/ ~(hurt \subseteq {"kill_client"}))

(* No child stays a zombie, though SIGCHLD is not queued and children may   *)
(* end while the handler runs.                                              *)
ZombiesReaped == \A c \in Clients : chpc[c] = "zombie" ~> chpc[c] = "gone"
=============================================================================
