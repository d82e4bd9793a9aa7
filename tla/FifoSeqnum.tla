----------------------------- MODULE FifoSeqnum -----------------------------
(***************************************************************************)
(* hw8/44-6: fifo_seqnum_server hands out ranges of numbers to clients.    *)
(* Requests come in through one well-known FIFO; each answer goes out      *)
(* through a FIFO that the client made for itself.  Some clients are       *)
(* dos_client, which never opens its FIFO.  Clients and server may be      *)
(* killed at any point, and the server may be started again.               *)
(*                                                                         *)
(* A request is known by its client, which sends only one.  Requests are   *)
(* shorter than PIPE_BUF, so none is ever read in part.                    *)
(***************************************************************************)
EXTENDS Naturals, Sequences, FiniteSets

CONSTANTS
    Clients,        \* client processes, fifo_seqnum_client or dos_client
    DosClients,     \* those that are dos_client
    Lengths,        \* sequence lengths that clients ask for
    Modulus,        \* number of values of an int
    MaxKills,       \* bound: clients that are killed
    MaxCrashes      \* bound: times the server is killed

ASSUME FifoAssumption ==
    /\ DosClients \subseteq Clients
    /\ Lengths \subseteq Nat \ {0}
    /\ Modulus \in Nat \ {0}
    /\ MaxKills \in Nat
    /\ MaxCrashes \in Nat

VARIABLES
    spc,        \* where the server is
    seqNum,     \* its next number
    given,      \* all it has given away, without overflow
    serving,    \* the client whose request it has read
    life,       \* how often it was started
    fifo,       \* requests in the server FIFO
    cpc,        \* where each client is
    len,        \* the length each client asks for
    linked,     \* clients whose FIFO is in the file system
    answer,     \* what is in the FIFO of each client
    got,        \* what each client printed: life of the server and number
    kills

svars == <<spc, seqNum, given, serving, life>>
cvars == <<cpc, len, linked, got>>
seqnumvars == <<svars, fifo, cvars, answer, kills>>

NoClient == "none"
Nothing  == <<0, 0, 0>>

SeqnumInit ==
    /\ spc = "down" /\ seqNum = 0 /\ given = 0 /\ serving = NoClient /\ life = 0
    /\ fifo = <<>>
    /\ cpc = [c \in Clients |-> "mkfifo"]
    /\ len \in [Clients -> Lengths]
    /\ linked = {}
    /\ answer = [c \in Clients |-> Nothing]
    /\ got = [c \in Clients |-> Nothing]
    /\ kills = 0

ServerUp == spc # "down"

(* Clients with a descriptor of the server FIFO, which they keep until they *)
(* are gone.                                                                *)
Holders == {c \in Clients : cpc[c] \in {"write", "open", "read", "exit"}}

(* What the FIFO contains is lost when nobody has it open any more.         *)
FifoOf(up, holders) == IF up \/ holders # {} THEN fifo ELSE <<>>

(***************************************************************************)
(* The server.                                                             *)
(***************************************************************************)
ServerStart ==
    /\ spc = "down"
    /\ life <= MaxCrashes
    /\ life' = life + 1
    /\ spc' = "read"
    /\ seqNum' = 0 /\ given' = 0 /\ serving' = NoClient
    /\ UNCHANGED <<fifo, cvars, answer, kills>>

(* A signal ends the server. *)
ServerKilled ==
    /\ ServerUp
    /\ life <= MaxCrashes
    /\ spc' = "down"
    /\ fifo' = FifoOf(FALSE, Holders)
    /\ UNCHANGED <<seqNum, given, serving, life, cvars, answer, kills>>

(* Whole requests come in the order they were sent. *)
ReadRequest ==
    /\ spc = "read"
    /\ fifo # <<>>
    /\ serving' = Head(fifo)
    /\ fifo' = Tail(fifo)
    /\ spc' = "open"
    /\ UNCHANGED <<seqNum, given, life, cvars, answer, kills>>

(* The client's FIFO is not there: "give up on client". *)
OpenFails ==
    /\ spc = "open"
    /\ serving \notin linked
    /\ spc' = "read"
    /\ UNCHANGED <<seqNum, given, serving, life, fifo, cvars, answer, kills>>

(* The FIFO is there, and open() blocks until the client opens it too.      *)
OpenBlocks ==
    /\ spc = "open"
    /\ serving \in linked
    /\ spc' = "connect"
    /\ UNCHANGED <<seqNum, given, serving, life, fifo, cvars, answer, kills>>

(* Both opens return.  Setting O_NONBLOCK afterwards and looking at the     *)
(* flags once more changes nothing here.                                    *)
Connect(c) ==
    /\ spc = "connect"
    /\ serving = c
    /\ cpc[c] = "open"
    /\ spc' = "write"
    /\ cpc' = [cpc EXCEPT ![c] = "read"]
    /\ UNCHANGED <<seqNum, given, serving, life, fifo, len, linked, got, answer, kills>>

(* A client that is gone makes write() fail with EPIPE, which only gets a   *)
(* message.                                                                 *)
WriteAnswer ==
    /\ spc = "write"
    /\ answer' = IF cpc[serving] = "read"
                 THEN [answer EXCEPT ![serving] = <<life, seqNum, given>>]
                 ELSE answer
    /\ spc' = "update"
    /\ UNCHANGED <<seqNum, given, serving, life, fifo, cvars, kills>>

(* Mutant: a client that was not answered keeps its number for the next.    *)
Mut_Update ==
    /\ spc = "update"
    /\ IF cpc[serving] \in {"read", "killed"}
       THEN UNCHANGED <<seqNum, given>>
       ELSE /\ seqNum' = (seqNum + len[serving]) % Modulus
            /\ given' = given + len[serving]
    /\ spc' = "read"
    /\ UNCHANGED <<serving, life, fifo, cvars, answer, kills>>

Update ==
    /\ spc = "update"
    /\ seqNum' = (seqNum + len[serving]) % Modulus
    /\ given' = given + len[serving]
    /\ spc' = "read"
    /\ UNCHANGED <<serving, life, fifo, cvars, answer, kills>>

(***************************************************************************)
(* A client c.                                                             *)
(***************************************************************************)
MakeFifo(c) ==
    /\ cpc[c] = "mkfifo"
    /\ linked' = linked \cup {c}
    /\ cpc' = [cpc EXCEPT ![c] = "open_server"]
    /\ UNCHANGED <<svars, fifo, len, got, answer, kills>>

(* Mutant: the request is sent before the client's FIFO exists. *)
Mut_OpenServer(c) ==
    /\ cpc[c] = "open_server"
    /\ ServerUp
    /\ cpc' = [cpc EXCEPT ![c] = "write"]
    /\ linked' = linked \ {c}
    /\ UNCHANGED <<svars, fifo, len, got, answer, kills>>

(* Without a server FIFO, which only a first server makes, the client gives *)
(* up and its exit handler removes its own; with one, open() waits for a    *)
(* server.                                                                  *)
OpenServer(c) ==
    /\ cpc[c] = "open_server"
    /\ \/ life = 0 /\ cpc' = [cpc EXCEPT ![c] = "failed"] /\ linked' = linked \ {c}
       \/ ServerUp /\ cpc' = [cpc EXCEPT ![c] = "write"] /\ UNCHANGED linked
    /\ UNCHANGED <<svars, fifo, len, got, answer, kills>>

(* Without a reader SIGPIPE kills the client, and its FIFO stays.  A        *)
(* dos_client exits at once, and its FIFO goes.                             *)
SendRequest(c) ==
    /\ cpc[c] = "write"
    /\ IF ServerUp
       THEN /\ fifo' = Append(fifo, c)
            /\ cpc' = [cpc EXCEPT ![c] = IF c \in DosClients THEN "exit" ELSE "open"]
       ELSE /\ cpc' = [cpc EXCEPT ![c] = "killed"]
            /\ fifo' = FifoOf(FALSE, Holders \ {c})
    /\ UNCHANGED <<svars, len, linked, got, answer, kills>>

(* read() waits while the server has the FIFO open and has not written.     *)
ReadAnswer(c) ==
    /\ cpc[c] = "read"
    /\ \/ /\ answer[c] # Nothing
          /\ got' = [got EXCEPT ![c] = answer[c]]
       \/ /\ answer[c] = Nothing
          /\ ~(spc \in {"write", "update"} /\ serving = c)
          /\ UNCHANGED got
    /\ cpc' = [cpc EXCEPT ![c] = "exit"]
    /\ UNCHANGED <<svars, fifo, len, linked, answer, kills>>

(* The exit handler removes the client's FIFO, and the client is gone. *)
removeFifo(c) ==
    /\ cpc[c] = "exit"
    /\ linked' = linked \ {c}
    /\ cpc' = [cpc EXCEPT ![c] = "done"]
    /\ fifo' = FifoOf(ServerUp, Holders \ {c})
    /\ UNCHANGED <<svars, len, got, answer, kills>>

Gone == {"done", "failed", "killed"}

(* A signal ends the client without its exit handler. *)
ClientKilled(c) ==
    /\ cpc[c] \notin Gone
    /\ kills < MaxKills
    /\ kills' = kills + 1
    /\ cpc' = [cpc EXCEPT ![c] = "killed"]
    /\ fifo' = FifoOf(ServerUp, Holders \ {c})
    /\ UNCHANGED <<svars, len, linked, got, answer>>

(***************************************************************************)
(* The system.                                                             *)
(***************************************************************************)
Server ==
    \/ ReadRequest \/ OpenFails \/ OpenBlocks
    \/ \E c \in Clients : Connect(c)
    \/ WriteAnswer \/ Update

Client(c) ==
    MakeFifo(c) \/ OpenServer(c) \/ SendRequest(c) \/ ReadAnswer(c) \/ removeFifo(c)

SeqnumNext ==
    \/ ServerStart \/ ServerKilled \/ Server
    \/ \E c \in Clients : Client(c) \/ ClientKilled(c)

SeqnumSpec == SeqnumInit /\ [][SeqnumNext]_seqnumvars

(* Running processes are scheduled; nobody has to start a server. *)
SeqnumFairSpec == SeqnumSpec /\ WF_seqnumvars(Server) /\ \A c \in Clients : WF_seqnumvars(Client(c))

(***************************************************************************)
(* Properties.                                                             *)
(***************************************************************************)
Answers == {Nothing} \cup ((1..MaxCrashes + 1) \X (0..Modulus - 1) \X Nat)

SeqnumTypeOK ==
    /\ spc \in {"down", "read", "open", "connect", "write", "update"}
    /\ seqNum \in 0..(Modulus - 1)
    /\ given \in Nat
    /\ serving \in Clients \cup {NoClient}
    /\ spc \in {"open", "connect", "write", "update"} => serving \in Clients
    /\ life \in 0..(MaxCrashes + 1)
    /\ fifo \in Seq(Clients)
    /\ cpc \in [Clients -> {"mkfifo", "open_server", "write", "open", "read", "exit"} \cup Gone]
    /\ len \in [Clients -> Lengths]
    /\ linked \subseteq Clients
    /\ answer \in [Clients -> Answers]
    /\ got \in [Clients -> Answers]
    /\ kills \in 0..MaxKills

(* The numbers that client c takes for its own. *)
Allotted(c) == {(got[c][2] + k) % Modulus : k \in 0..(len[c] - 1)}

(* "The allocation of unique sequential numbers": clients of one life of    *)
(* the server get disjoint ranges, whoever is killed, gives up or never     *)
(* reads in between, as long as the int has not overflowed.                 *)
RangesDisjoint ==
    \A c, d \in Clients :
        /\ c # d /\ got[c] # Nothing /\ got[d] # Nothing
        /\ got[c][1] = got[d][1]
        /\ got[c][3] + len[c] <= Modulus /\ got[d][3] + len[d] <= Modulus
        => Allotted(c) \cap Allotted(d) = {}

(* The FIFO is made before the request is sent, "to avoid a race": a        *)
(* request is never given up while its client waits for the answer.         *)
NotGivenUpOn ==
    \A c \in Clients \ DosClients :
        spc = "open" /\ serving = c /\ cpc[c] \in {"open", "read"} => c \in linked

(* A client whose request was sent gets its answer, unless it is killed,    *)
(* the server died, or the server waits for a client that will never come.  *)
ServerStuck == spc = "connect" /\ cpc[serving] \in Gone

ClientServed ==
    \A c \in Clients :
        cpc[c] = "open" ~>
            \/ cpc[c] \in {"done", "killed"}
            \/ ServerStuck
            \/ spc = "down" \/ life > 1
=============================================================================
