----------------------------- MODULE DictServer -----------------------------
(***************************************************************************)
(* hw11: a dictionary behind a socket, in three versions that share their  *)
(* client's main(): a UNIX stream server (part1) and an Internet one       *)
(* (part2) that fork a child per connection, and a datagram server (part3).*)
(* `proto' says which of them a behaviour is of.                           *)
(*                                                                         *)
(* Modelled: the server, restarted up to MaxStarts times, its handler, its *)
(* children, the clients with theirs, the listening socket with its queue, *)
(* the path it is bound to, and the two streams of a connection, from      *)
(* which a read() takes whatever has come.  An answer is known by the word *)
(* it is the answer to, if the dictionary has it.                          *)
(***************************************************************************)
EXTENDS Naturals, Sequences, FiniteSets

CONSTANTS
    Clients,        \* client processes
    words,          \* the words typed to each client
    Dict,           \* the words of the dictionary
    DictSizes,      \* how many records its file may have
    MapRecs,        \* how many fit into the mapping of the file
    Backlog,        \* connections that wait to be accepted, at most
    MaxStarts,      \* bound: starts of the server
    Faults,         \* the kinds of fault that may strike
    MaxFaults       \* bound: how many strike

FaultKinds == {"sigint_server", "kill_server", "sigint_child", "fork_error",
               "sigint_client", "lose"}

Empty    == "empty"         \* the word "", and the text ""
NotFound == "not found"
Garbage  == "garbage"       \* a text that was never written
NoServer == 0
NoClient == "none"

ASSUME DictAssumption ==
    /\ NoClient \notin Clients
    /\ words \in [Clients -> Seq(Dict \cup {NotFound, Empty})]
    /\ DictSizes \subseteq Nat /\ MapRecs \in Nat
    /\ Backlog \in Nat \ {0} /\ MaxStarts \in Nat
    /\ Faults \subseteq FaultKinds /\ MaxFaults \in Nat

VARIABLES
    proto,      \* "unix", "inet" or "udp"
    size,       \* records in the dictionary
    buffered,   \* the clients' words come from a file, not from a terminal
    spc,        \* where each server is
    sd,         \* its listening socket is open
    acc,        \* the client it has accepted, or whose datagram it has
    path,       \* the server that the path, or the port, belongs to
    queue,      \* connections (udp: requests) that wait at each server
    chpc,       \* where the child for each client is
    chword,     \* the word it has read
    rst,        \* its connection was reset
    c2s, s2c,   \* what is on its way in each connection
    cpc,        \* where each client is
    line,       \* words it has read from its input
    stdin,      \* what its descriptor 0 is
    text,       \* what try_it.text holds
    out,        \* the rows it has printed: word, text, and how read() ended
    hurt, nfaults

cfgvars == <<proto, size, buffered>>
svars   == <<spc, sd, acc>>
qvars   == <<path, queue>>
chvars  == <<chpc, chword, rst>>
cvars   == <<cpc, line, stdin, text, out>>
fvars   == <<hurt, nfaults>>
vars    == <<cfgvars, svars, qvars, chvars, c2s, s2c, cvars, fvars>>

Servers  == 1..MaxStarts
Request  == Clients \X Nat          \* udp: a client and the number of its word

Init ==
    /\ proto \in {"unix", "inet", "udp"}
    /\ size \in DictSizes
    /\ buffered \in BOOLEAN
    /\ spc = [s \in Servers |-> "new"]
    /\ sd = [s \in Servers |-> FALSE]
    /\ acc = [s \in Servers |-> <<NoClient, 0>>]
    /\ path = NoServer
    /\ queue = [s \in Servers |-> <<>>]
    /\ chpc = [c \in Clients |-> "none"]
    /\ chword = [c \in Clients |-> Empty]
    /\ rst = [c \in Clients |-> FALSE]
    /\ c2s = [c \in Clients |-> <<>>] /\ s2c = [c \in Clients |-> <<>>]
    /\ cpc = [c \in Clients |-> "connect"]
    /\ line = [c \in Clients |-> 0]
    /\ stdin = [c \in Clients |-> "open"]
    /\ text = [c \in Clients |-> Garbage]
    /\ out = [c \in Clients |-> <<>>]
    /\ hurt = {} /\ nfaults = 0

Stream == proto # "udp"

Fault(k) ==
    /\ k \in Faults
    /\ nfaults < MaxFaults
    /\ nfaults' = nfaults + 1
    /\ hurt' = hurt \cup {k}

ServerAt(s, from, to) == spc[s] = from /\ spc' = [spc EXCEPT ![s] = to]
ChildAt(c, from, to)  == chpc[c] = from /\ chpc' = [chpc EXCEPT ![c] = to]
ClientAt(c, from, to) == cpc[c] = from /\ cpc' = [cpc EXCEPT ![c] = to]

(* Who holds the two ends of the connection of c. *)
Serving == {"dict", "read", "write"}
ServerEnd(c) ==
    \/ chpc[c] \in Serving
    \/ \E s \in Servers :
        \/ acc[s][1] = c
        \/ \E k \in 1..Len(queue[s]) : queue[s][k][1] = c
ClientEnd(c) == cpc[c] \in {"fgets", "write", "read", "stuck"}

(* The mapped file is searched up to, and with, the first empty record, as  *)
(* dict_len starts at 1: the empty word is found there.                     *)
Text(w) == IF w \in Dict \cup {Empty} THEN w ELSE NotFound

(* A dictionary that fills the mapping: the count of its records runs out of it. *)
TooBig == size >= MapRecs

(***************************************************************************)
(* The stream servers.                                                     *)
(***************************************************************************)

(* bind() needs a path that is not there, or a port that nobody uses. *)
Free ==
    /\ path = NoServer
    /\ proto = "inet" => \A c \in Clients : ~ServerEnd(c)

Start(s) ==
    /\ Stream
    /\ ServerAt(s, "new", "accept")
    /\ \A r \in Servers : r < s => spc[r] # "new"
    /\ Free
    /\ path' = s
    /\ sd' = [sd EXCEPT ![s] = TRUE]
    /\ UNCHANGED <<cfgvars, acc, queue, chvars, c2s, s2c, cvars, fvars>>

Accept(s) ==
    /\ Stream
    /\ ServerAt(s, "accept", "fork")
    /\ queue[s] # <<>>
    /\ acc' = [acc EXCEPT ![s] = Head(queue[s])]
    /\ queue' = [queue EXCEPT ![s] = Tail(@)]
    /\ UNCHANGED <<cfgvars, sd, path, chvars, c2s, s2c, cvars, fvars>>

(* The handler has closed the socket under the main program. *)
AcceptFails(s) ==
    /\ Stream
    /\ ~sd[s]
    /\ ServerAt(s, "accept", "clean")
    /\ UNCHANGED <<cfgvars, sd, acc, qvars, chvars, c2s, s2c, cvars, fvars>>

ForkChild(s) ==
    /\ ServerAt(s, "fork", "close")
    /\ chpc' = [chpc EXCEPT ![acc[s][1]] = "dict"]
    /\ UNCHANGED <<cfgvars, sd, acc, qvars, chword, rst, c2s, s2c, cvars, fvars>>

(* -1 is taken for the pid of a child. *)
ForkFails(s) ==
    /\ Fault("fork_error")
    /\ ServerAt(s, "fork", "close")
    /\ UNCHANGED <<cfgvars, sd, acc, qvars, chvars, c2s, s2c, cvars>>

(* Mutant: the parent keeps its descriptor of the connection. *)
Mut_CloseConn(s) ==
    /\ ServerAt(s, "close", "accept")
    /\ UNCHANGED <<cfgvars, sd, acc, qvars, chvars, c2s, s2c, cvars, fvars>>

CloseConn(s) ==
    /\ ServerAt(s, "close", "accept")
    /\ acc' = [acc EXCEPT ![s] = <<NoClient, 0>>]
    /\ UNCHANGED <<cfgvars, sd, qvars, chvars, c2s, s2c, cvars, fvars>>

(* unlink() takes the path away whoever is bound to it; a port goes with    *)
(* its socket.                                                              *)
Unbind(s) == path' = IF proto = "unix" \/ path = s THEN NoServer ELSE path

(* The handler; accept() is interrupted, other calls go on. *)
__clean_serverId(s) ==
    /\ Stream
    /\ spc[s] \in {"accept", "fork", "close"}
    /\ Fault("sigint_server")
    /\ spc' = [spc EXCEPT ![s] = IF @ = "accept" THEN "clean" ELSE @]
    /\ sd' = [sd EXCEPT ![s] = FALSE]
    /\ queue' = [queue EXCEPT ![s] = <<>>]
    /\ Unbind(s)
    /\ UNCHANGED <<cfgvars, acc, chvars, c2s, s2c, cvars>>

(* main() calls it once more. *)
CleanAgain(s) ==
    /\ ServerAt(s, "clean", "down")
    /\ Unbind(s)
    /\ UNCHANGED <<cfgvars, sd, acc, queue, chvars, c2s, s2c, cvars, fvars>>

(* Killed: a path stays, and no server can be started again. *)
KillServer(s) ==
    /\ spc[s] \notin {"new", "down"}
    /\ Fault("kill_server")
    /\ spc' = [spc EXCEPT ![s] = "down"]
    /\ sd' = [sd EXCEPT ![s] = FALSE]
    /\ acc' = [acc EXCEPT ![s] = <<NoClient, 0>>]
    /\ queue' = [queue EXCEPT ![s] = <<>>]
    /\ path' = IF proto = "unix" \/ path # s THEN path ELSE NoServer
    /\ UNCHANGED <<cfgvars, chvars, c2s, s2c, cvars>>

(***************************************************************************)
(* The child for c.                                                        *)
(***************************************************************************)
init_dict_table(c) ==
    /\ ChildAt(c, "dict", IF TooBig THEN "gone" ELSE "read")
    /\ UNCHANGED <<cfgvars, svars, qvars, chword, rst, c2s, s2c, cvars, fvars>>

(* read() takes all that has come, and strcpy() the first word of it.  The  *)
(* end of the stream is not EOF, but the empty word; a reset is EOF.        *)
ReadWord(c) ==
    /\ IF c2s[c] # <<>>
       THEN /\ ChildAt(c, "read", "write")
            /\ chword' = [chword EXCEPT ![c] = Head(c2s[c])]
       ELSE /\ ~ClientEnd(c)
            /\ ChildAt(c, "read", IF rst[c] THEN "gone" ELSE "write")
            /\ chword' = [chword EXCEPT ![c] = Empty]
    /\ c2s' = [c2s EXCEPT ![c] = <<>>]
    /\ UNCHANGED <<cfgvars, svars, qvars, rst, s2c, cvars, fvars>>

(* Mutant: SIGPIPE is ignored. *)
Mut_WriteAnswer(c) ==
    /\ ChildAt(c, "write", "read")
    /\ s2c' = IF ClientEnd(c) THEN [s2c EXCEPT ![c] = Append(@, Text(chword[c]))] ELSE s2c
    /\ UNCHANGED <<cfgvars, svars, qvars, chword, rst, c2s, cvars, fvars>>

(* Mutant: a word that is not there is not answered. *)
Mut_NoAnswer(c) ==
    /\ ChildAt(c, "write", IF ClientEnd(c) THEN "read" ELSE "gone")
    /\ s2c' = IF Text(chword[c]) = NotFound THEN s2c ELSE [s2c EXCEPT ![c] = Append(@, Text(chword[c]))]
    /\ UNCHANGED <<cfgvars, svars, qvars, chword, rst, c2s, cvars, fvars>>

(* Without a reader, write() raises SIGPIPE: at once on a UNIX socket, and  *)
(* after the answer of the other host, a reset, on an Internet one.         *)
WriteAnswer(c) ==
    /\ IF ClientEnd(c)
       THEN /\ ChildAt(c, "write", "read")
            /\ s2c' = [s2c EXCEPT ![c] = Append(@, Text(chword[c]))]
            /\ UNCHANGED rst
       ELSE /\ ChildAt(c, "write", IF proto = "unix" \/ rst[c] THEN "gone" ELSE "read")
            /\ rst' = [rst EXCEPT ![c] = TRUE]
            /\ UNCHANGED s2c
    /\ UNCHANGED <<cfgvars, svars, qvars, chword, c2s, cvars, fvars>>

(* The child has the handler of its parent, with the path.  It ends if a    *)
(* read() is interrupted, or if the handler closes the dictionary's file,   *)
(* whose descriptor has the number that the socket had.                     *)
ChildSigint(c) ==
    /\ chpc[c] \in Serving
    /\ Fault("sigint_child")
    /\ chpc' \in {chpc, [chpc EXCEPT ![c] = IF @ = "write" THEN @ ELSE "gone"]}
    /\ path' = IF proto = "unix" THEN NoServer ELSE path
    /\ UNCHANGED <<cfgvars, svars, queue, chword, rst, c2s, s2c, cvars>>

(***************************************************************************)
(* The datagram server.                                                    *)
(***************************************************************************)
StartUdp(s) ==
    /\ ~Stream
    /\ ServerAt(s, "new", IF TooBig THEN "down" ELSE "recv")
    /\ \A r \in Servers : r < s => spc[r] # "new"
    /\ path = NoServer
    /\ path' = IF TooBig THEN NoServer ELSE s
    /\ UNCHANGED <<cfgvars, sd, acc, queue, chvars, c2s, s2c, cvars, fvars>>

RecvFrom(s) ==
    /\ ServerAt(s, "recv", "send")
    /\ queue[s] # <<>>
    /\ acc' = [acc EXCEPT ![s] = Head(queue[s])]
    /\ queue' = [queue EXCEPT ![s] = Tail(@)]
    /\ UNCHANGED <<cfgvars, sd, path, chvars, c2s, s2c, cvars, fvars>>

(* Mutant: the client has one socket for all its words. *)
Mut_SendTo(s) ==
    /\ ServerAt(s, "send", "recv")
    /\ LET c == acc[s][1]  n == acc[s][2] IN
       s2c' = IF cpc[c] = "read" THEN [s2c EXCEPT ![c] = Append(@, Text(words[c][n]))] ELSE s2c
    /\ acc' = [acc EXCEPT ![s] = <<NoClient, 0>>]
    /\ UNCHANGED <<cfgvars, sd, qvars, chvars, c2s, cvars, fvars>>

(* The answer goes to the socket that the request came from. *)
SendTo(s) ==
    /\ ServerAt(s, "send", "recv")
    /\ LET c == acc[s][1]  n == acc[s][2] IN
       s2c' = IF cpc[c] = "read" /\ line[c] = n
              THEN [s2c EXCEPT ![c] = Append(@, Text(words[c][n]))] ELSE s2c
    /\ acc' = [acc EXCEPT ![s] = <<NoClient, 0>>]
    /\ UNCHANGED <<cfgvars, sd, qvars, chvars, c2s, cvars, fvars>>

ExitUdp(s) ==
    /\ spc[s] \in {"recv", "send"}
    /\ Fault("sigint_server")
    /\ spc' = [spc EXCEPT ![s] = "down"]
    /\ acc' = [acc EXCEPT ![s] = <<NoClient, 0>>]
    /\ path' = NoServer
    /\ queue' = [queue EXCEPT ![s] = <<>>]
    /\ UNCHANGED <<cfgvars, sd, chvars, c2s, s2c, cvars>>

(* A request or an answer is lost. *)
Lose ==
    /\ ~Stream
    /\ Fault("lose")
    /\ \/ \E s \in Servers : queue[s] # <<>> /\ queue' = [queue EXCEPT ![s] = Tail(@)] /\ UNCHANGED s2c
       \/ \E c \in Clients : s2c[c] # <<>> /\ s2c' = [s2c EXCEPT ![c] = <<>>] /\ UNCHANGED queue
    /\ UNCHANGED <<cfgvars, svars, path, chvars, c2s, cvars>>

(***************************************************************************)
(* A client c.                                                             *)
(***************************************************************************)
my_connect(c) ==
    /\ IF ~Stream
       THEN ClientAt(c, "connect", "fgets") /\ UNCHANGED queue
       ELSE IF path # NoServer /\ sd[path]
       THEN /\ Len(queue[path]) < Backlog
            /\ ClientAt(c, "connect", "fgets")
            /\ queue' = [queue EXCEPT ![path] = Append(@, <<c, 0>>)]
       ELSE ClientAt(c, "connect", "failed") /\ UNCHANGED queue
    /\ UNCHANGED <<cfgvars, svars, path, chvars, c2s, s2c, line, stdin, text, out, fvars>>

(* Closed with something unread, a connection is reset. *)
Disconnect(c) == rst' = [rst EXCEPT ![c] = @ \/ s2c[c] # <<>>]

(* The words that are left: all of them are in the buffer of stdin, if they *)
(* come from a file; a descriptor 0 that is a socket again has no more.     *)
Fgets(c) ==
    LET more == line[c] < Len(words[c]) /\ (stdin[c] = "open" \/ (buffered /\ line[c] > 0)) IN
    /\ ClientAt(c, "fgets", IF more THEN "write" ELSE IF stdin[c] = "socket" THEN "stuck" ELSE "done")
    /\ line' = IF more THEN [line EXCEPT ![c] = @ + 1] ELSE line
    /\ IF more THEN UNCHANGED rst ELSE Disconnect(c)
    /\ UNCHANGED <<cfgvars, svars, qvars, chpc, chword, c2s, s2c, stdin, text, out, fvars>>

Word(c) == words[c][line[c]]

WriteWord(c) ==
    /\ Stream
    /\ IF ServerEnd(c)
       THEN ClientAt(c, "write", "read") /\ c2s' = [c2s EXCEPT ![c] = Append(@, Word(c))]
       ELSE \/ ClientAt(c, "write", "killed") /\ UNCHANGED c2s
            \/ proto = "inet" /\ ClientAt(c, "write", "read") /\ UNCHANGED c2s
    /\ UNCHANGED <<cfgvars, svars, qvars, chvars, s2c, line, stdin, text, out, fvars>>

Printed(c, t, how) ==
    /\ ClientAt(c, "read", "fgets")
    /\ text' = [text EXCEPT ![c] = t]
    /\ out' = [out EXCEPT ![c] = Append(@, <<Word(c), t, how>>)]

(* read() takes all that has come, and printf() the first text of it.       *)
ReadText(c) ==
    /\ IF s2c[c] # <<>>
       THEN Printed(c, Head(s2c[c]), "answer")
       ELSE Stream /\ ~ServerEnd(c) /\ Printed(c, text[c], "eof")
    /\ s2c' = [s2c EXCEPT ![c] = <<>>]
    /\ UNCHANGED <<cfgvars, svars, qvars, chvars, c2s, line, stdin, fvars>>

(* Each word has a socket of its own, which is never closed. *)
SendWord(c) ==
    /\ ~Stream
    /\ ClientAt(c, "write", "read")
    /\ queue' = IF path = NoServer THEN queue
                ELSE [queue EXCEPT ![path] = Append(@, <<c, line[c]>>)]
    /\ s2c' = [s2c EXCEPT ![c] = <<>>]
    /\ stdin' = [stdin EXCEPT ![c] = IF @ = "closed" THEN "socket" ELSE @]
    /\ UNCHANGED <<cfgvars, svars, path, chvars, c2s, line, text, out, fvars>>

(* The handler closes clientId, which is nowhere set: descriptor 0.  A read *)
(* of the answer is interrupted, and so is one of the terminal.             *)
__clean_clientId(c) ==
    /\ ClientEnd(c)
    /\ Fault("sigint_client")
    /\ \/ /\ cpc[c] = "read" /\ s2c[c] = <<>>
          /\ Printed(c, text[c], "eintr")
          /\ UNCHANGED rst
       \/ /\ cpc[c] = "stuck" \/ (cpc[c] = "fgets" /\ ~buffered)
          /\ cpc' = [cpc EXCEPT ![c] = "done"]
          /\ Disconnect(c)
          /\ UNCHANGED <<text, out>>
       \/ UNCHANGED <<cpc, text, out, rst>>
    /\ stdin' = [stdin EXCEPT ![c] = "closed"]
    /\ UNCHANGED <<cfgvars, svars, qvars, chpc, chword, c2s, s2c, line>>

(***************************************************************************)
(* The system.                                                             *)
(***************************************************************************)
Server(s) ==
    \/ Accept(s) \/ AcceptFails(s) \/ ForkChild(s) \/ CloseConn(s) \/ CleanAgain(s)
    \/ RecvFrom(s) \/ SendTo(s)

Child(c) == init_dict_table(c) \/ ReadWord(c) \/ WriteAnswer(c)

Client(c) ==
    my_connect(c) \/ Fgets(c) \/ WriteWord(c) \/ ReadText(c) \/ SendWord(c)

(* What processes do of themselves, once they run. *)
System ==
    \/ \E s \in Servers : Server(s)
    \/ \E c \in Clients : Child(c) \/ Client(c)

Next ==
    \/ System
    \/ \E s \in Servers :
        \/ Start(s) \/ StartUdp(s)
        \/ ForkFails(s) \/ __clean_serverId(s) \/ KillServer(s) \/ ExitUdp(s)
    \/ \E c \in Clients :
        ChildSigint(c) \/ __clean_clientId(c)
    \/ Lose

Spec == Init /\ [][Next]_vars

(* Something that can run does run, people go on typing; nobody has to     *)
(* start a server.  No process runs for ever, so this is enough for each.   *)
FairSpec == Spec /\ WF_vars(System)

(***************************************************************************)
(* Properties.                                                             *)
(***************************************************************************)
Words == Dict \cup {NotFound, Empty}
Texts == Words \cup {Garbage}
Over  == {"done", "failed", "killed"}

(* Types; a server holds a connection no longer than it takes to fork for   *)
(* it, and the queue of a listening socket is bounded.                      *)
TypeOK ==
    /\ proto \in {"unix", "inet", "udp"} /\ size \in DictSizes /\ buffered \in BOOLEAN
    /\ spc \in [Servers -> {"new", "accept", "fork", "close", "clean", "recv", "send", "down"}]
    /\ sd \in [Servers -> BOOLEAN]
    /\ acc \in [Servers -> (Clients \cup {NoClient}) \X Nat]
    /\ \A s \in Servers : (acc[s][1] # NoClient) <=> spc[s] \in {"fork", "close", "send"}
    /\ path \in Servers \cup {NoServer}
    /\ queue \in [Servers -> Seq(Request)]
    /\ Stream => \A s \in Servers : Len(queue[s]) <= Backlog
    /\ chpc \in [Clients -> Serving \cup {"none", "gone"}]
    /\ chword \in [Clients -> Words] /\ rst \in [Clients -> BOOLEAN]
    /\ c2s \in [Clients -> Seq(Words)] /\ s2c \in [Clients -> Seq(Words)]
    /\ cpc \in [Clients -> Over \cup {"connect", "fgets", "write", "read", "stuck"}]
    /\ line \in [Clients -> Nat] /\ \A c \in Clients : line[c] <= Len(words[c])
    /\ stdin \in [Clients -> {"open", "closed", "socket"}]
    /\ text \in [Clients -> Texts]
    /\ out \in [Clients -> Seq(Words \X Texts \X {"answer", "eof", "eintr"})]
    /\ hurt \subseteq Faults /\ nfaults \in 0..MaxFaults

(* A text that a client has received is the answer to the word it printed   *)
(* with it, whatever happens to servers and children.  The one way to get   *)
(* out of step is an interrupted read() on a stream with more words in the  *)
(* buffer; and then it is still the answer to an earlier word of its own.   *)
OwnAnswer ==
    \A c \in Clients : \A k \in DOMAIN out[c] :
        out[c][k][3] = "answer" =>
            \/ out[c][k][2] = Text(out[c][k][1])
            \/ /\ Stream /\ buffered
               /\ \E j \in 1..(k - 1) : out[c][j][3] = "eintr"
               /\ \E j \in 1..(k - 1) : out[c][k][2] = Text(out[c][j][1])

(* A child ends once its client has gone, though it takes the end of the    *)
(* stream for one more word.                                                *)
ChildrenEnd ==
    \A c \in Clients : (chpc[c] \in Serving /\ ~ClientEnd(c)) ~> chpc[c] = "gone"

(* udp: the request or the answer of c is on its way. *)
InHand(c) ==
    \/ s2c[c] # <<>>
    \/ \E s \in Servers :
        \/ acc[s] = <<c, line[c]>>
        \/ \E k \in 1..Len(queue[s]) : queue[s][k] = <<c, line[c]>>

(* A client of a stream server always ends, whatever strikes it, its server *)
(* or the child: nothing leaves it waiting.  A client of the datagram       *)
(* server gets over a read() if its datagram met a server and neither got   *)
(* lost.                                                                    *)
ClientsEnd ==
    \A c \in Clients :
        /\ Stream /\ ClientEnd(c) ~> cpc[c] \in Over
        /\ ~Stream /\ cpc[c] = "read" /\ InHand(c)
            ~> (cpc[c] # "read" \/ hurt \cap {"lose", "sigint_server", "kill_server"} # {})
=============================================================================
