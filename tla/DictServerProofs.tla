-------------------------- MODULE DictServerProofs --------------------------
(***************************************************************************)
(* TLAPS proofs about DictServer, for any clients, words, dictionary and   *)
(* faults: a text that a client receives is the answer to its own word.    *)
(***************************************************************************)
EXTENDS DictServer, TLAPS

ServerPcs == {"new", "accept", "fork", "close", "clean", "recv", "send", "down"}
ChildPcs  == Serving \cup {"none", "gone"}
ClientPcs == Over \cup {"connect", "fgets", "write", "read", "stuck"}
Rows      == Words \X Texts \X {"answer", "eof", "eintr"}

(* A server, and a client, lives in one of two worlds: the datagram server   *)
(* accepts no connection and forks no child.                                 *)
ProtoInv ==
    /\ Stream => \A s \in Servers : spc[s] \notin {"recv", "send"}
    /\ ~Stream => /\ \A s \in Servers : spc[s] \in {"new", "recv", "send", "down"}
                  /\ \A c \in Clients : chpc[c] = "none"

(* A client has a word while it writes or reads, and no connection before it *)
(* connects.                                                                 *)
HasWord(c) ==
    /\ cpc[c] \in {"write", "read"} => line[c] \in 1..Len(words[c])
    /\ Stream /\ cpc[c] = "connect" => ~ServerEnd(c) /\ c2s[c] = <<>> /\ s2c[c] = <<>>

WordInv == \A c \in Clients : HasWord(c)

(* The words that c has sent: those it has printed, and the one it waits on. *)
Sent(c) ==
    {out[c][j][1] : j \in 1..Len(out[c])} \cup (IF cpc[c] = "read" THEN {Word(c)} ELSE {})

(* Whatever is on its way in a connection is a word that was sent or the     *)
(* answer to one.                                                            *)
FlightInv(c) ==
    /\ ClientEnd(c) /\ chpc[c] = "write" => chword[c] \in Sent(c)
    /\ \A k \in 1..Len(c2s[c]) : c2s[c][k] \in Sent(c)
    /\ \A k \in 1..Len(s2c[c]) : \E w \in Sent(c) : s2c[c][k] = Text(w)

Interrupted(c) == \E j \in 1..Len(out[c]) : out[c][j][3] = "eintr"

(* An interrupted client has lost its descriptor 0: it goes on with what is  *)
(* in the buffer of stdin, or not at all.                                    *)
StdinInv(c) ==
    Interrupted(c) => stdin[c] # "open" /\ (cpc[c] \in {"write", "read"} => buffered)

(* As long as no read() was interrupted, one thing is on its way at most,    *)
(* and only while the client waits for it.                                   *)
InStep(c) ==
    /\ ClientEnd(c) /\ cpc[c] # "read" =>
        /\ s2c[c] = <<>>
        /\ ServerEnd(c) => c2s[c] = <<>> /\ chpc[c] # "write"
    /\ cpc[c] = "read" =>
        /\ \A k \in 1..Len(s2c[c]) : s2c[c][k] = Text(Word(c))
        /\ ServerEnd(c) => \A k \in 1..Len(c2s[c]) : c2s[c][k] = Word(c)
        /\ chpc[c] = "write" => chword[c] = Word(c)
        /\ ServerEnd(c) /\ s2c[c] # <<>> => c2s[c] = <<>> /\ chpc[c] # "write"
        /\ ServerEnd(c) /\ c2s[c] # <<>> => chpc[c] # "write"

(* A datagram reaches the socket of its own word or none.                    *)
UdpInv(c) ==
    cpc[c] = "read" => \A k \in 1..Len(s2c[c]) : s2c[c][k] = Text(Word(c))

(* What OwnAnswer says of the k-th row of one client.                        *)
OwnRow(c, k) ==
    out[c][k][3] = "answer" =>
        \/ out[c][k][2] = Text(out[c][k][1])
        \/ /\ Stream /\ buffered
           /\ \E j \in 1..(k - 1) : out[c][j][3] = "eintr"
           /\ \E j \in 1..(k - 1) : out[c][k][2] = Text(out[c][j][1])

ClientInv(c) ==
    /\ Stream => FlightInv(c) /\ StdinInv(c) /\ (~Interrupted(c) => InStep(c))
    /\ ~Stream => UdpInv(c)
    /\ \A k \in 1..Len(out[c]) : OwnRow(c, k)

AnswerInv == \A c \in Clients : ClientInv(c)

IInv == TypeOK /\ ProtoInv /\ WordInv /\ AnswerInv

(***************************************************************************)
(* Types.                                                                  *)
(***************************************************************************)

(* The types of the servers, their queues, the children, what is on its way, *)
(* the clients and the faults.                                               *)
ServerPart ==
    /\ spc \in [Servers -> ServerPcs] /\ sd \in [Servers -> BOOLEAN]
    /\ acc \in [Servers -> (Clients \cup {NoClient}) \X Nat]
    /\ \A s \in Servers : (acc[s][1] # NoClient) <=> spc[s] \in {"fork", "close", "send"}
QueuePart ==
    /\ path \in Servers \cup {NoServer}
    /\ queue \in [Servers -> Seq(Request)]
    /\ Stream => \A s \in Servers : Len(queue[s]) <= Backlog
ChildPart ==
    chpc \in [Clients -> ChildPcs] /\ chword \in [Clients -> Words] /\ rst \in [Clients -> BOOLEAN]
FlightPart == c2s \in [Clients -> Seq(Words)] /\ s2c \in [Clients -> Seq(Words)]
ClientPart ==
    /\ cpc \in [Clients -> ClientPcs]
    /\ line \in [Clients -> Nat] /\ \A c \in Clients : line[c] <= Len(words[c])
    /\ stdin \in [Clients -> {"open", "closed", "socket"}]
    /\ text \in [Clients -> Texts] /\ out \in [Clients -> Seq(Rows)]
FaultPart == hurt \subseteq Faults /\ nfaults \in 0..MaxFaults
CfgPart   == proto \in {"unix", "inet", "udp"} /\ size \in DictSizes /\ buffered \in BOOLEAN

LEMMA Parts ==
    TypeOK <=> /\ ServerPart /\ QueuePart /\ ChildPart /\ FlightPart
               /\ ClientPart /\ FaultPart /\ CfgPart
BY DEF TypeOK, ServerPart, QueuePart, ChildPart, FlightPart, ClientPart, FaultPart, CfgPart,
       ServerPcs, ChildPcs, ClientPcs, Rows

LEMMA NextParts ==
    ASSUME ServerPart', QueuePart', ChildPart', FlightPart', ClientPart', FaultPart', CfgPart'
    PROVE  TypeOK'
BY DEF TypeOK, ServerPart, QueuePart, ChildPart, FlightPart, ClientPart, FaultPart, CfgPart,
       ServerPcs, ChildPcs, ClientPcs, Rows

(* A part whose variables stay keeps its types.                              *)
LEMMA Frame ==
    ASSUME TypeOK
    PROVE  /\ UNCHANGED svars => ServerPart'
           /\ UNCHANGED <<qvars, proto>> => QueuePart'
           /\ UNCHANGED chvars => ChildPart'
           /\ UNCHANGED <<c2s, s2c>> => FlightPart'
           /\ UNCHANGED cvars => ClientPart'
           /\ UNCHANGED fvars => FaultPart'
           /\ \A k : Fault(k) => FaultPart'
           /\ UNCHANGED cfgvars => CfgPart'
<1>1. UNCHANGED svars => ServerPart'
  BY Parts DEF ServerPart, svars
<1>2. UNCHANGED <<qvars, proto>> => QueuePart'
  BY Parts DEF QueuePart, qvars, Stream
<1>3. UNCHANGED chvars => ChildPart'
  BY Parts DEF ChildPart, chvars
<1>4. UNCHANGED <<c2s, s2c>> => FlightPart'
  BY Parts DEF FlightPart
<1>5. UNCHANGED cvars => ClientPart'
  BY Parts DEF ClientPart, cvars
<1>6. UNCHANGED fvars => FaultPart'
  BY Parts DEF FaultPart, fvars
<1>7. \A k : Fault(k) => FaultPart'
  BY Parts, DictAssumption DEF FaultPart, Fault
<1>8. UNCHANGED cfgvars => CfgPart'
  BY Parts DEF CfgPart, cfgvars
<1> QED
  BY <1>1, <1>2, <1>3, <1>4, <1>5, <1>6, <1>7, <1>8

(* What is no server; the words, and the texts that answer them.             *)
LEMMA Nobody == NoServer \notin Servers /\ NoClient \notin Clients
BY DictAssumption DEF NoServer, Servers

LEMMA TextIs == \A w : Text(w) \in Words
BY DEF Text, Words

LEMMA WordIs ==
    ASSUME NEW c \in Clients, NEW n \in 1..Len(words[c])
    PROVE  words[c][n] \in Words
<1>1. words[c] \in Seq(Words)
  BY DictAssumption DEF Words
<1> QED
  BY <1>1

(* Taking the first of a queue, and joining it.                              *)
LEMMA QueueTail ==
    ASSUME QueuePart, NEW s \in Servers, queue[s] # <<>>, UNCHANGED <<proto, path>>,
           queue' = [queue EXCEPT ![s] = Tail(@)]
    PROVE  /\ QueuePart'
           /\ Head(queue[s]) \in Request /\ Head(queue[s]) = queue[s][1] /\ Len(queue[s]) >= 1
           /\ \A k \in 1..Len(queue'[s]) : k + 1 \in 1..Len(queue[s]) /\ queue'[s][k] = queue[s][k + 1]
           /\ \A r \in Servers \ {s} : queue'[r] = queue[r]
<1>1. queue \in [Servers -> Seq(Request)] /\ queue[s] \in Seq(Request)
  BY DEF QueuePart
<1>2. Head(queue[s]) \in Request /\ Head(queue[s]) = queue[s][1] /\ Tail(queue[s]) \in Seq(Request)
      /\ Len(Tail(queue[s])) = Len(queue[s]) - 1 /\ Len(queue[s]) \in Nat /\ Len(queue[s]) >= 1
      /\ \A k \in 1..Len(Tail(queue[s])) :
            k + 1 \in 1..Len(queue[s]) /\ Tail(queue[s])[k] = queue[s][k + 1]
  BY <1>1
<1>3. queue'[s] = Tail(queue[s]) /\ (\A r \in Servers \ {s} : queue'[r] = queue[r])
      /\ queue' \in [Servers -> Seq(Request)]
  BY <1>1, <1>2
<1>4. Stream' = Stream
  BY DEF Stream
<1>5. ASSUME Stream, NEW r \in Servers PROVE Len(queue'[r]) <= Backlog
  <2>1. Len(queue[s]) <= Backlog /\ Len(queue[r]) <= Backlog /\ Backlog \in Nat
    BY <1>5, DictAssumption DEF QueuePart
  <2> QED
    BY <2>1, <1>2, <1>3
<1> QED
  BY <1>2, <1>3, <1>4, <1>5 DEF QueuePart

LEMMA QueueAppend ==
    ASSUME QueuePart, NEW s \in Servers, NEW m \in Request, UNCHANGED <<proto, path>>,
           Stream => Len(queue[s]) < Backlog, queue' = [queue EXCEPT ![s] = Append(@, m)]
    PROVE  /\ QueuePart'
           /\ \A k \in 1..Len(queue'[s]) :
                queue'[s][k] = m \/ (k \in 1..Len(queue[s]) /\ queue'[s][k] = queue[s][k])
           /\ \A r \in Servers \ {s} : queue'[r] = queue[r]
<1>1. queue \in [Servers -> Seq(Request)] /\ queue[s] \in Seq(Request)
  BY DEF QueuePart
<1>2. Append(queue[s], m) \in Seq(Request) /\ Len(Append(queue[s], m)) = Len(queue[s]) + 1
      /\ Len(queue[s]) \in Nat
      /\ \A k \in 1..Len(Append(queue[s], m)) :
            Append(queue[s], m)[k] = IF k = Len(queue[s]) + 1 THEN m ELSE queue[s][k]
  BY <1>1
<1>3. queue'[s] = Append(queue[s], m) /\ (\A r \in Servers \ {s} : queue'[r] = queue[r])
      /\ queue' \in [Servers -> Seq(Request)]
  BY <1>1, <1>2
<1>4. Stream' = Stream
  BY DEF Stream
<1>5. ASSUME Stream, NEW r \in Servers PROVE Len(queue'[r]) <= Backlog
  <2>1. Len(queue[s]) < Backlog /\ Len(queue[r]) <= Backlog /\ Backlog \in Nat
    BY <1>5, DictAssumption DEF QueuePart
  <2> QED
    BY <2>1, <1>2, <1>3
<1>6. \A k \in 1..Len(queue'[s]) :
        queue'[s][k] = m \/ (k \in 1..Len(queue[s]) /\ queue'[s][k] = queue[s][k])
  BY <1>2, <1>3
<1> QED
  BY <1>3, <1>4, <1>5, <1>6 DEF QueuePart

(* A server whose queue is emptied.                                          *)
LEMMA QueueEmpty ==
    ASSUME QueuePart, NEW s \in Servers, UNCHANGED proto, path' \in Servers \cup {NoServer},
           queue' = [queue EXCEPT ![s] = <<>>]
    PROVE  /\ QueuePart' /\ queue'[s] = <<>>
           /\ \A r \in Servers \ {s} : queue'[r] = queue[r]
<1>1. queue \in [Servers -> Seq(Request)] /\ <<>> \in Seq(Request) /\ Len(<<>>) = 0
  BY DEF QueuePart
<1>2. queue'[s] = <<>> /\ (\A r \in Servers \ {s} : queue'[r] = queue[r])
      /\ queue' \in [Servers -> Seq(Request)]
  BY <1>1
<1>3. Stream' = Stream /\ Backlog \in Nat
  BY DictAssumption DEF Stream
<1> QED
  BY <1>1, <1>2, <1>3 DEF QueuePart

(* Initially nothing has been asked.                                         *)
LEMMA InitIInv == Init => IInv
<1> SUFFICES ASSUME Init PROVE IInv
  OBVIOUS
<1> USE DictAssumption, Nobody DEF Init
<1>0. /\ \A c \in Clients : out[c] = <<>> /\ cpc[c] = "connect" /\ chpc[c] = "none"
                            /\ c2s[c] = <<>> /\ s2c[c] = <<>>
      /\ \A s \in Servers : spc[s] = "new" /\ queue[s] = <<>> /\ acc[s] = <<NoClient, 0>>
      /\ Len(<<>>) = 0
  OBVIOUS
<1>1. TypeOK
  <2>1. \A c \in Clients : Len(words[c]) \in Nat
    OBVIOUS
  <2>2. ServerPart /\ QueuePart
    BY <1>0 DEF ServerPart, QueuePart, ServerPcs
  <2>3. ChildPart /\ FlightPart /\ ClientPart /\ FaultPart /\ CfgPart
    BY <2>1 DEF ChildPart, FlightPart, ClientPart, FaultPart, CfgPart, ChildPcs, ClientPcs,
                Words, Texts
  <2> QED
    BY <2>2, <2>3, Parts
<1>2. ProtoInv
  BY <1>0 DEF ProtoInv
<1>3. \A c \in Clients : ~ServerEnd(c)
  BY <1>0 DEF ServerEnd, Serving
<1>4. WordInv
  BY <1>0, <1>3 DEF WordInv, HasWord
<1>5. AnswerInv
  BY <1>0, <1>3 DEF AnswerInv, ClientInv, FlightInv, StdinInv, InStep, UdpInv, Interrupted, ClientEnd
<1> QED
  BY <1>1, <1>2, <1>4, <1>5 DEF IInv

(***************************************************************************)
(* Each step keeps the types.                                              *)
(***************************************************************************)
LEMMA ServerTypes ==
    ASSUME TypeOK, ProtoInv, WordInv, NEW s \in Servers,
           \/ Server(s) \/ Start(s) \/ StartUdp(s) \/ ForkFails(s)
           \/ __clean_serverId(s) \/ KillServer(s) \/ ExitUdp(s)
    PROVE  TypeOK'
<1>0. ServerPart /\ QueuePart /\ ChildPart /\ FlightPart /\ ClientPart
  BY Parts
<1> USE Nobody DEF ServerAt, ServerPcs
<1>1. CASE Start(s)
  <2>1. ServerPart'
    BY <1>0, <1>1 DEF Start, ServerPart
  <2>2. QueuePart'
    BY <1>0, <1>1 DEF Start, QueuePart, Stream, cfgvars
  <2> QED
    BY <1>1, <2>1, <2>2, NextParts, Frame DEF Start
<1>2. CASE StartUdp(s)
  <2>1. ServerPart'
    BY <1>0, <1>2 DEF StartUdp, ServerPart
  <2>2. QueuePart'
    BY <1>0, <1>2 DEF StartUdp, QueuePart, Stream, cfgvars
  <2> QED
    BY <1>2, <2>1, <2>2, NextParts, Frame DEF StartUdp
<1>3. CASE Accept(s)
  <2>1. queue[s] # <<>> /\ UNCHANGED <<proto, path>> /\ queue' = [queue EXCEPT ![s] = Tail(@)]
    BY <1>3 DEF Accept, cfgvars
  <2>2. QueuePart' /\ Head(queue[s]) \in Request
    BY <1>0, <2>1, QueueTail
  <2>3. ServerPart'
    BY <1>0, <1>3, <2>2 DEF Accept, ServerPart, Request
  <2> QED
    BY <1>3, <2>2, <2>3, NextParts, Frame DEF Accept
<1>4. CASE AcceptFails(s)
  <2>1. ServerPart'
    BY <1>0, <1>4 DEF AcceptFails, ServerPart
  <2> QED
    BY <1>4, <2>1, NextParts, Frame DEF AcceptFails, cfgvars
<1>5. CASE ForkChild(s)
  <2>1. ServerPart'
    BY <1>0, <1>5 DEF ForkChild, ServerPart
  <2>2. ChildPart'
    BY <1>0, <1>5 DEF ForkChild, ChildPart, ChildPcs, Serving
  <2> QED
    BY <1>5, <2>1, <2>2, NextParts, Frame DEF ForkChild, cfgvars
<1>6. CASE ForkFails(s)
  <2>1. ServerPart'
    BY <1>0, <1>6 DEF ForkFails, ServerPart
  <2> QED
    BY <1>6, <2>1, NextParts, Frame DEF ForkFails, cfgvars
<1>7. CASE CloseConn(s)
  <2>1. ServerPart'
    BY <1>0, <1>7 DEF CloseConn, ServerPart
  <2> QED
    BY <1>7, <2>1, NextParts, Frame DEF CloseConn, cfgvars
<1>8. CASE __clean_serverId(s)
  <2>1. ServerPart'
    BY <1>0, <1>8 DEF __clean_serverId, ServerPart
  <2>2. UNCHANGED proto /\ path' \in Servers \cup {NoServer} /\ queue' = [queue EXCEPT ![s] = <<>>]
    BY <1>0, <1>8 DEF __clean_serverId, Unbind, QueuePart, cfgvars
  <2>3. QueuePart'
    BY <1>0, <2>2, QueueEmpty
  <2> QED
    BY <1>8, <2>1, <2>3, NextParts, Frame DEF __clean_serverId
<1>9. CASE CleanAgain(s)
  <2>1. ServerPart'
    BY <1>0, <1>9 DEF CleanAgain, ServerPart
  <2>2. QueuePart'
    BY <1>0, <1>9 DEF CleanAgain, Unbind, QueuePart, Stream, cfgvars
  <2> QED
    BY <1>9, <2>1, <2>2, NextParts, Frame DEF CleanAgain
<1>10. CASE KillServer(s)
  <2>1. ServerPart'
    BY <1>0, <1>10 DEF KillServer, ServerPart
  <2>2. UNCHANGED proto /\ path' \in Servers \cup {NoServer} /\ queue' = [queue EXCEPT ![s] = <<>>]
    BY <1>0, <1>10 DEF KillServer, QueuePart, cfgvars
  <2>3. QueuePart'
    BY <1>0, <2>2, QueueEmpty
  <2> QED
    BY <1>10, <2>1, <2>3, NextParts, Frame DEF KillServer
<1>11. CASE RecvFrom(s)
  <2>1. queue[s] # <<>> /\ UNCHANGED <<proto, path>> /\ queue' = [queue EXCEPT ![s] = Tail(@)]
    BY <1>11 DEF RecvFrom, cfgvars
  <2>2. QueuePart' /\ Head(queue[s]) \in Request
    BY <1>0, <2>1, QueueTail
  <2>3. ServerPart'
    BY <1>0, <1>11, <2>2 DEF RecvFrom, ServerPart, Request
  <2> QED
    BY <1>11, <2>2, <2>3, NextParts, Frame DEF RecvFrom
<1>12. CASE SendTo(s)
  <2>1. ServerPart'
    BY <1>0, <1>12 DEF SendTo, ServerPart
  <2>2. PICK c \in Clients, n \in Nat : acc[s] = <<c, n>>
    <3>1. spc[s] \in {"fork", "close", "send"} /\ acc[s] \in (Clients \cup {NoClient}) \X Nat
      BY <1>0, <1>12 DEF SendTo, ServerPart
    <3>2. acc[s][1] \in Clients /\ acc[s][2] \in Nat /\ acc[s] = <<acc[s][1], acc[s][2]>>
      BY <1>0, <3>1 DEF ServerPart
    <3> QED
      BY <3>2
  <2>3. UNCHANGED c2s /\ s2c' = IF cpc[c] = "read" /\ line[c] = n
                                THEN [s2c EXCEPT ![c] = Append(@, Text(words[c][n]))] ELSE s2c
    BY <1>12, <2>2 DEF SendTo
  <2>4. Append(s2c[c], Text(words[c][n])) \in Seq(Words)
    BY <1>0, <2>2, TextIs DEF FlightPart
  <2>5. FlightPart'
    BY <1>0, <2>3, <2>4 DEF FlightPart
  <2> QED
    BY <1>12, <2>1, <2>5, NextParts, Frame DEF SendTo, cfgvars
<1>13. CASE ExitUdp(s)
  <2>1. ServerPart'
    BY <1>0, <1>13 DEF ExitUdp, ServerPart
  <2>2. UNCHANGED proto /\ path' \in Servers \cup {NoServer} /\ queue' = [queue EXCEPT ![s] = <<>>]
    BY <1>0, <1>13 DEF ExitUdp, QueuePart, cfgvars
  <2>3. QueuePart'
    BY <1>0, <2>2, QueueEmpty
  <2> QED
    BY <1>13, <2>1, <2>3, NextParts, Frame DEF ExitUdp
<1> QED
  BY <1>1, <1>2, <1>3, <1>4, <1>5, <1>6, <1>7, <1>8, <1>9, <1>10, <1>11, <1>12, <1>13 DEF Server

LEMMA ChildTypes ==
    ASSUME TypeOK, NEW c \in Clients, Child(c) \/ ChildSigint(c)
    PROVE  TypeOK'
<1>0. ServerPart /\ QueuePart /\ ChildPart /\ FlightPart
  BY Parts
<1> USE DEF ChildAt, ChildPcs, Serving
<1>1. CASE init_dict_table(c)
  <2>1. ChildPart'
    BY <1>0, <1>1 DEF init_dict_table, ChildPart
  <2> QED
    BY <1>1, <2>1, NextParts, Frame DEF init_dict_table, cfgvars
<1>2. CASE ReadWord(c)
  <2>1. c2s[c] \in Seq(Words) /\ (c2s[c] # <<>> => Head(c2s[c]) \in Words) /\ Empty \in Words
        /\ <<>> \in Seq(Words)
    BY <1>0 DEF FlightPart, Words
  <2>2. ChildPart'
    BY <1>0, <1>2, <2>1 DEF ReadWord, ChildPart
  <2>3. FlightPart'
    BY <1>0, <1>2, <2>1 DEF ReadWord, FlightPart
  <2> QED
    BY <1>2, <2>2, <2>3, NextParts, Frame DEF ReadWord, cfgvars
<1>3. CASE WriteAnswer(c)
  <2>1. Append(s2c[c], Text(chword[c])) \in Seq(Words)
    BY <1>0, TextIs DEF FlightPart
  <2>2. ChildPart'
    BY <1>0, <1>3 DEF WriteAnswer, ChildPart
  <2>3. FlightPart'
    BY <1>0, <1>3, <2>1 DEF WriteAnswer, FlightPart
  <2> QED
    BY <1>3, <2>2, <2>3, NextParts, Frame DEF WriteAnswer, cfgvars
<1>4. CASE ChildSigint(c)
  <2>1. ChildPart'
    BY <1>0, <1>4 DEF ChildSigint, ChildPart
  <2>2. QueuePart'
    BY <1>0, <1>4 DEF ChildSigint, QueuePart, Stream, cfgvars
  <2> QED
    BY <1>4, <2>1, <2>2, NextParts, Frame DEF ChildSigint
<1> QED
  BY <1>1, <1>2, <1>3, <1>4 DEF Child

(* A row is printed.                                                         *)
LEMMA PrintedTypes ==
    ASSUME TypeOK, WordInv, NEW c \in Clients, NEW t \in Texts, NEW how \in {"answer", "eof", "eintr"},
           Printed(c, t, how), UNCHANGED line, stdin' \in [Clients -> {"open", "closed", "socket"}]
    PROVE  ClientPart'
<1>0. ClientPart /\ cpc[c] = "read"
  BY Parts DEF Printed, ClientAt
<1>1. Word(c) \in Words
  BY <1>0, WordIs DEF WordInv, HasWord, Word
<1>2. out[c] \in Seq(Rows) /\ <<Word(c), t, how>> \in Rows
  BY <1>0, <1>1 DEF ClientPart, Rows
<1> HIDE DEF Rows
<1>3. Append(out[c], <<Word(c), t, how>>) \in Seq(Rows)
  BY <1>2
<1>4. out' \in [Clients -> Seq(Rows)]
  BY <1>0, <1>3 DEF Printed, ClientPart
<1>5. cpc' \in [Clients -> ClientPcs] /\ text' \in [Clients -> Texts]
  BY <1>0 DEF Printed, ClientAt, ClientPart, ClientPcs
<1> QED
  BY <1>0, <1>4, <1>5 DEF ClientPart

LEMMA ClientTypes ==
    ASSUME TypeOK, WordInv, NEW c \in Clients, Client(c) \/ __clean_clientId(c)
    PROVE  TypeOK'
<1>0. QueuePart /\ ChildPart /\ FlightPart /\ ClientPart
  BY Parts
<1>a. stdin \in [Clients -> {"open", "closed", "socket"}]
      /\ [stdin EXCEPT ![c] = "closed"] \in [Clients -> {"open", "closed", "socket"}]
      /\ text[c] \in Texts
  BY <1>0 DEF ClientPart
<1>b. Disconnect(c) /\ UNCHANGED <<chpc, chword>> => ChildPart'
  BY <1>0 DEF Disconnect, ChildPart
<1> USE DEF ClientAt, ClientPcs, Over
<1>1. CASE my_connect(c)
  <2>1. ClientPart'
    BY <1>0, <1>1 DEF my_connect, ClientPart
  <2>2. QueuePart'
    <3>1. CASE UNCHANGED queue
      BY <1>0, <1>1, <3>1 DEF my_connect, QueuePart, Stream, cfgvars
    <3>2. CASE ~UNCHANGED queue
      <4>1. path # NoServer /\ Len(queue[path]) < Backlog /\ UNCHANGED <<proto, path>>
            /\ queue' = [queue EXCEPT ![path] = Append(@, <<c, 0>>)]
        BY <1>1, <3>2 DEF my_connect, cfgvars
      <4>2. path \in Servers /\ <<c, 0>> \in Request
        BY <1>0, <4>1 DEF QueuePart, Request
      <4> QED
        BY <1>0, <4>1, <4>2, QueueAppend
    <3> QED
      BY <3>1, <3>2
  <2> QED
    BY <1>1, <2>1, <2>2, NextParts, Frame DEF my_connect
<1>2. CASE Fgets(c)
  <2>1. Len(words[c]) \in Nat
    BY DictAssumption
  <2>2. ClientPart'
    BY <1>0, <1>2, <2>1 DEF Fgets, ClientPart
  <2>3. ChildPart'
    BY <1>0, <1>2, <1>b DEF Fgets, ChildPart
  <2> QED
    BY <1>2, <2>2, <2>3, NextParts, Frame DEF Fgets, cfgvars
<1>3. CASE WriteWord(c)
  <2>1. Word(c) \in Words
    BY <1>3, WordIs DEF WriteWord, WordInv, HasWord, Word
  <2>2. Append(c2s[c], Word(c)) \in Seq(Words)
    BY <1>0, <2>1 DEF FlightPart
  <2>3. FlightPart'
    BY <1>0, <1>3, <2>2 DEF WriteWord, FlightPart
  <2>4. ClientPart'
    BY <1>0, <1>3 DEF WriteWord, ClientPart
  <2> QED
    BY <1>3, <2>3, <2>4, NextParts, Frame DEF WriteWord, cfgvars
<1>4. CASE ReadText(c)
  <2>1. <<>> \in Seq(Words) /\ s2c[c] \in Seq(Words) /\ (s2c[c] # <<>> => Head(s2c[c]) \in Texts)
    BY <1>0 DEF FlightPart, Texts
  <2>2. FlightPart'
    BY <1>0, <1>4, <2>1 DEF ReadText, FlightPart
  <2>3. ClientPart'
    BY <1>4, <1>a, <2>1, PrintedTypes DEF ReadText
  <2> QED
    BY <1>4, <2>2, <2>3, NextParts, Frame DEF ReadText, cfgvars
<1>5. CASE SendWord(c)
  <2>1. FlightPart'
    BY <1>0, <1>5 DEF SendWord, FlightPart
  <2>2. ClientPart'
    BY <1>0, <1>5 DEF SendWord, ClientPart
  <2>3. QueuePart'
    <3>1. CASE path = NoServer
      BY <1>0, <1>5, <3>1 DEF SendWord, QueuePart, Stream, cfgvars
    <3>2. CASE path # NoServer
      <4>1. UNCHANGED <<proto, path>> /\ ~Stream
            /\ queue' = [queue EXCEPT ![path] = Append(@, <<c, line[c]>>)]
        BY <1>5, <3>2 DEF SendWord, cfgvars
      <4>2. path \in Servers /\ <<c, line[c]>> \in Request
        BY <1>0, <3>2 DEF QueuePart, ClientPart, Request
      <4> QED
        BY <1>0, <4>1, <4>2, QueueAppend
    <3> QED
      BY <3>1, <3>2
  <2> QED
    BY <1>5, <2>1, <2>2, <2>3, NextParts, Frame DEF SendWord
<1>6. CASE __clean_clientId(c)
  <2>1. ClientPart' /\ ChildPart'
    <3>1. CASE Printed(c, text[c], "eintr") /\ UNCHANGED rst
      <4>1. ClientPart'
        BY <1>6, <1>a, <3>1, PrintedTypes DEF __clean_clientId
      <4> QED
        BY <1>0, <1>6, <3>1, <4>1 DEF __clean_clientId, ChildPart
    <3>2. CASE cpc' = [cpc EXCEPT ![c] = "done"] /\ Disconnect(c) /\ UNCHANGED <<text, out>>
      BY <1>0, <1>6, <1>a, <1>b, <3>2 DEF __clean_clientId, ClientPart
    <3>3. CASE UNCHANGED <<cpc, text, out, rst>>
      BY <1>0, <1>6, <1>a, <3>3 DEF __clean_clientId, ClientPart, ChildPart
    <3> QED
      BY <1>6, <3>1, <3>2, <3>3 DEF __clean_clientId
  <2> QED
    BY <1>6, <2>1, NextParts, Frame DEF __clean_clientId, cfgvars
<1> QED
  BY <1>1, <1>2, <1>3, <1>4, <1>5, <1>6 DEF Client

LEMMA LoseTypes == TypeOK /\ Lose => TypeOK'
<1> SUFFICES ASSUME TypeOK, Lose PROVE TypeOK'
  OBVIOUS
<1>0. QueuePart /\ FlightPart
  BY Parts
<1>1. QueuePart' /\ FlightPart'
  <2>1. CASE \E s \in Servers : queue[s] # <<>> /\ queue' = [queue EXCEPT ![s] = Tail(@)] /\ UNCHANGED s2c
    <3>1. PICK s \in Servers : queue[s] # <<>> /\ queue' = [queue EXCEPT ![s] = Tail(@)] /\ UNCHANGED s2c
      BY <2>1
    <3>2. QueuePart'
      BY <1>0, <3>1, QueueTail DEF Lose, cfgvars
    <3> QED
      BY <1>0, <3>1, <3>2 DEF Lose, FlightPart
  <2>2. CASE \E c \in Clients : s2c[c] # <<>> /\ s2c' = [s2c EXCEPT ![c] = <<>>] /\ UNCHANGED queue
    BY <1>0, <2>2 DEF Lose, FlightPart, QueuePart, Stream, cfgvars
  <2> QED
    BY <2>1, <2>2 DEF Lose
<1> QED
  BY <1>1, NextParts, Frame DEF Lose

LEMMA TypeStep == TypeOK /\ ProtoInv /\ WordInv /\ [Next]_vars => TypeOK'
<1> SUFFICES ASSUME TypeOK, ProtoInv, WordInv, [Next]_vars PROVE TypeOK'
  OBVIOUS
<1>1. CASE UNCHANGED vars
  BY <1>1, NextParts, Frame DEF vars, cfgvars
<1>2. CASE Next
  BY <1>2, ServerTypes, ChildTypes, ClientTypes, LoseTypes DEF Next, System
<1> QED
  BY <1>1, <1>2

(***************************************************************************)
(* What a step leaves alone.                                               *)
(***************************************************************************)

(* A step of another process changes nothing that the invariant says of d:   *)
(* at the most, its connection loses the server's end, and its child ends.   *)
Calm(d) ==
    /\ UNCHANGED <<cfgvars, cpc[d], line[d], stdin[d], out[d], c2s[d], s2c[d], chword[d]>>
    /\ chpc'[d] = "write" => chpc[d] = "write"
    /\ Stream /\ ServerEnd(d)' => ServerEnd(d)

LEMMA CalmKeeps ==
    ASSUME NEW d \in Clients, Calm(d), HasWord(d), ClientInv(d)
    PROVE  HasWord(d)' /\ ClientInv(d)'
<1>1. /\ Stream' = Stream /\ buffered' = buffered /\ ClientEnd(d)' = ClientEnd(d) /\ Word(d)' = Word(d)
      /\ cpc'[d] = cpc[d] /\ line'[d] = line[d] /\ stdin'[d] = stdin[d] /\ out'[d] = out[d]
      /\ c2s'[d] = c2s[d] /\ s2c'[d] = s2c[d] /\ chword'[d] = chword[d]
  BY DEF Calm, Stream, cfgvars, ClientEnd, Word
<1>2. Sent(d)' = Sent(d) /\ Interrupted(d)' = Interrupted(d)
  BY <1>1 DEF Sent, Interrupted
<1>3. HasWord(d)'
  BY <1>1 DEF HasWord, Calm
<1>4. \A k \in 1..Len(out'[d]) : OwnRow(d, k)'
  BY <1>1 DEF ClientInv, OwnRow
<1>5. ASSUME Stream PROVE FlightInv(d)' /\ StdinInv(d)' /\ (~Interrupted(d)' => InStep(d)')
  <2>1. FlightInv(d) /\ StdinInv(d) /\ (~Interrupted(d) => InStep(d))
    BY <1>5 DEF ClientInv
  <2>2. FlightInv(d)'
    BY <1>1, <1>2, <2>1 DEF FlightInv, Calm
  <2>3. StdinInv(d)'
    BY <1>1, <1>2, <2>1 DEF StdinInv
  <2>4. InStep(d) => InStep(d)'
    BY <1>1, <1>5 DEF InStep, Calm
  <2> QED
    BY <1>2, <2>1, <2>2, <2>3, <2>4
<1>6. ASSUME ~Stream PROVE UdpInv(d)'
  BY <1>1, <1>6 DEF ClientInv, UdpInv
<1> QED
  BY <1>1, <1>3, <1>4, <1>5, <1>6 DEF ClientInv

(* The server's end of a connection is where it was.                         *)
LEMMA EndFrame ==
    ASSUME NEW d \in Clients,
           chpc'[d] \in Serving => ServerEnd(d),
           \A s \in Servers : acc'[s][1] = d => ServerEnd(d),
           \A s \in Servers : \A k \in 1..Len(queue'[s]) : queue'[s][k][1] = d => ServerEnd(d)
    PROVE  ServerEnd(d)' => ServerEnd(d)
BY DEF ServerEnd

LEMMA HasEnd ==
    ASSUME NEW d \in Clients
    PROVE  /\ chpc[d] \in Serving => ServerEnd(d)
           /\ \A s \in Servers : acc[s][1] = d => ServerEnd(d)
           /\ \A s \in Servers : \A k \in 1..Len(queue[s]) : queue[s][k][1] = d => ServerEnd(d)
BY DEF ServerEnd

(* A server hands a connection on, or drops it.                              *)
LEMMA ServerEndStep ==
    ASSUME TypeOK, NEW s \in Servers, NEW d \in Clients,
           \/ Server(s) \/ Start(s) \/ StartUdp(s) \/ ForkFails(s)
           \/ __clean_serverId(s) \/ KillServer(s) \/ ExitUdp(s)
    PROVE  ServerEnd(d)' => ServerEnd(d)
<1>0. ServerPart /\ QueuePart /\ ChildPart
  BY Parts
<1>1. CASE Accept(s) \/ RecvFrom(s)
  <2>1. queue[s] # <<>> /\ UNCHANGED <<proto, path>> /\ queue' = [queue EXCEPT ![s] = Tail(@)]
        /\ acc' = [acc EXCEPT ![s] = Head(queue[s])] /\ UNCHANGED chpc
    BY <1>1 DEF Accept, RecvFrom, cfgvars, chvars
  <2>2. /\ Head(queue[s]) = queue[s][1] /\ Len(queue[s]) >= 1
        /\ \A k \in 1..Len(queue'[s]) : k + 1 \in 1..Len(queue[s]) /\ queue'[s][k] = queue[s][k + 1]
        /\ \A r \in Servers \ {s} : queue'[r] = queue[r]
    BY <1>0, <2>1, QueueTail
  <2>3. Len(queue[s]) \in Nat
    BY <1>0 DEF QueuePart
  <2>4. queue[s][1][1] = d => ServerEnd(d)
    BY <2>2, <2>3, HasEnd
  <2>5. \A r \in Servers : acc'[r][1] = d => ServerEnd(d)
    BY <1>0, <2>1, <2>2, <2>4, HasEnd DEF ServerPart
  <2>6. \A r \in Servers : \A k \in 1..Len(queue'[r]) : queue'[r][k][1] = d => ServerEnd(d)
    <3> SUFFICES ASSUME NEW r \in Servers, NEW k \in 1..Len(queue'[r]), queue'[r][k][1] = d
                 PROVE  ServerEnd(d)
      OBVIOUS
    <3>1. CASE r = s
      BY <2>2, <3>1, HasEnd
    <3>2. CASE r # s
      BY <2>2, <3>2, HasEnd
    <3> QED
      BY <3>1, <3>2
  <2> QED
    BY <2>1, <2>5, <2>6, HasEnd, EndFrame
<1>2. CASE ForkChild(s)
  <2>1. chpc' = [chpc EXCEPT ![acc[s][1]] = "dict"] /\ UNCHANGED <<acc, queue>>
    BY <1>2 DEF ForkChild, svars, qvars
  <2>2. chpc'[d] \in Serving => chpc[d] \in Serving \/ acc[s][1] = d
    BY <1>0, <2>1 DEF ChildPart
  <2> QED
    BY <2>1, <2>2, HasEnd, EndFrame
<1>3. CASE CloseConn(s) \/ SendTo(s)
  <2>1. acc' = [acc EXCEPT ![s] = <<NoClient, 0>>] /\ UNCHANGED <<queue, chpc>>
    BY <1>3 DEF CloseConn, SendTo, qvars, chvars
  <2>2. \A r \in Servers : acc'[r][1] = d => acc[r][1] = d
    BY <1>0, <2>1, Nobody DEF ServerPart
  <2> QED
    BY <2>1, <2>2, HasEnd, EndFrame
<1>4. CASE __clean_serverId(s) \/ KillServer(s) \/ ExitUdp(s)
  <2>1. queue' = [queue EXCEPT ![s] = <<>>] /\ UNCHANGED <<chpc, proto>>
        /\ (acc' = acc \/ acc' = [acc EXCEPT ![s] = <<NoClient, 0>>])
        /\ path' \in Servers \cup {NoServer}
    BY <1>0, <1>4 DEF __clean_serverId, KillServer, ExitUdp, Unbind, chvars, cfgvars, QueuePart
  <2>2. queue'[s] = <<>> /\ \A r \in Servers \ {s} : queue'[r] = queue[r]
    BY <1>0, <2>1, QueueEmpty
  <2>3. \A r \in Servers : acc'[r][1] = d => acc[r][1] = d
    <3>1. CASE acc' = acc
      BY <3>1
    <3>2. CASE acc' = [acc EXCEPT ![s] = <<NoClient, 0>>]
      BY <1>0, <3>2, Nobody DEF ServerPart
    <3> QED
      BY <2>1, <3>1, <3>2
  <2>4. \A r \in Servers : \A k \in 1..Len(queue'[r]) : r # s /\ queue'[r][k] = queue[r][k] /\ k \in 1..Len(queue[r])
    BY <2>2
  <2> QED
    BY <2>1, <2>3, <2>4, HasEnd, EndFrame
<1>5. CASE Start(s) \/ StartUdp(s) \/ AcceptFails(s) \/ ForkFails(s) \/ CleanAgain(s)
  <2>1. UNCHANGED <<chpc, acc, queue>>
    BY <1>5 DEF Start, StartUdp, AcceptFails, ForkFails, CleanAgain, svars, qvars, chvars
  <2> QED
    BY <2>1, HasEnd, EndFrame
<1> QED
  BY <1>1, <1>2, <1>3, <1>4, <1>5 DEF Server

(* What a server's step means for the clients: nothing but a datagram.       *)
LEMMA ServerCalm ==
    ASSUME TypeOK, NEW s \in Servers, NEW d \in Clients,
           \/ (Server(s) /\ ~SendTo(s)) \/ Start(s) \/ StartUdp(s) \/ ForkFails(s)
           \/ __clean_serverId(s) \/ KillServer(s) \/ ExitUdp(s)
    PROVE  Calm(d)
<1>1. ServerEnd(d)' => ServerEnd(d)
  BY ServerEndStep
<1>2. UNCHANGED <<cfgvars, cvars, c2s, s2c, chword>>
  BY DEF Server, Accept, AcceptFails, ForkChild, CloseConn, CleanAgain, RecvFrom, Start, StartUdp,
         ForkFails, __clean_serverId, KillServer, ExitUdp, chvars
<1>3. UNCHANGED chpc \/ ForkChild(s)
  BY DEF Server, Accept, AcceptFails, CloseConn, CleanAgain, RecvFrom, Start, StartUdp,
         ForkFails, __clean_serverId, KillServer, ExitUdp, chvars
<1>4. chpc'[d] = "write" => chpc[d] = "write"
  BY <1>3, Parts DEF ForkChild, ChildPart
<1> QED
  BY <1>1, <1>2, <1>4 DEF Calm, cvars

(* The child of c, and c itself, mean nothing for other clients.             *)
LEMMA OtherCalm ==
    ASSUME TypeOK, NEW c \in Clients, NEW d \in Clients \ {c},
           Child(c) \/ ChildSigint(c) \/ Client(c) \/ __clean_clientId(c)
    PROVE  Calm(d)
<1>0. QueuePart /\ ChildPart /\ FlightPart /\ ClientPart
  BY Parts
<1>1. UNCHANGED <<cfgvars, acc>>
  BY DEF Child, ChildSigint, Client, __clean_clientId, init_dict_table, ReadWord, WriteAnswer,
         my_connect, Fgets, WriteWord, ReadText, SendWord, svars
<1>2. CASE Child(c) \/ ChildSigint(c)
  <2>1. UNCHANGED <<cvars, queue>>
    BY <1>2 DEF Child, ChildSigint, init_dict_table, ReadWord, WriteAnswer, qvars
  <2>2. chpc'[d] = chpc[d]
    BY <1>0, <1>2 DEF Child, ChildSigint, init_dict_table, ReadWord, WriteAnswer, ChildAt, ChildPart
  <2>3. chword'[d] = chword[d]
    BY <1>0, <1>2 DEF Child, ChildSigint, init_dict_table, ReadWord, WriteAnswer, ChildPart
  <2>4. c2s'[d] = c2s[d] /\ s2c'[d] = s2c[d]
    BY <1>0, <1>2 DEF Child, ChildSigint, init_dict_table, ReadWord, WriteAnswer, FlightPart
  <2> QED
    BY <1>1, <2>1, <2>2, <2>3, <2>4, HasEnd, EndFrame DEF Calm, cvars
<1>3. CASE Client(c) \/ __clean_clientId(c)
  <2>1. UNCHANGED <<chpc, chword>>
    BY <1>3 DEF Client, __clean_clientId, my_connect, Fgets, WriteWord, ReadText, SendWord, chvars
  <2>2. cpc'[d] = cpc[d] /\ line'[d] = line[d] /\ stdin'[d] = stdin[d] /\ out'[d] = out[d]
    BY <1>0, <1>3 DEF Client, __clean_clientId, my_connect, Fgets, WriteWord, ReadText, SendWord,
                      Printed, ClientAt, ClientPart
  <2>3. c2s'[d] = c2s[d] /\ s2c'[d] = s2c[d]
    BY <1>0, <1>3 DEF Client, __clean_clientId, my_connect, Fgets, WriteWord, ReadText, SendWord, FlightPart
  <2>4. ASSUME Stream, NEW s \in Servers, NEW k \in 1..Len(queue'[s]), queue'[s][k][1] = d
        PROVE  ServerEnd(d)
    <3>1. CASE UNCHANGED queue
      BY <2>4, <3>1, HasEnd
    <3>2. CASE ~UNCHANGED queue
      <4>1. path # NoServer /\ Len(queue[path]) < Backlog /\ UNCHANGED <<proto, path>>
            /\ queue' = [queue EXCEPT ![path] = Append(@, <<c, 0>>)]
        BY <1>3, <2>4, <3>2 DEF Client, __clean_clientId, my_connect, Fgets, WriteWord, ReadText,
                                SendWord, cfgvars, qvars
      <4>2. path \in Servers /\ <<c, 0>> \in Request
        BY <1>0, <4>1 DEF QueuePart, Request
      <4>3. /\ \A h \in 1..Len(queue'[path]) :
                 queue'[path][h] = <<c, 0>> \/ (h \in 1..Len(queue[path]) /\ queue'[path][h] = queue[path][h])
            /\ \A r \in Servers \ {path} : queue'[r] = queue[r]
        BY <1>0, <4>1, <4>2, QueueAppend
      <4>4. <<c, 0>>[1] # d
        OBVIOUS
      <4>5. k \in 1..Len(queue[s]) /\ queue'[s][k] = queue[s][k]
        BY <2>4, <4>3, <4>4
      <4> QED
        BY <2>4, <4>5, HasEnd
    <3> QED
      BY <3>1, <3>2
  <2> QED
    BY <1>1, <2>1, <2>2, <2>3, <2>4, HasEnd, EndFrame DEF Calm
<1> QED
  BY <1>2, <1>3

(***************************************************************************)
(* Each step keeps the rest of the invariant.                              *)
(***************************************************************************)
LEMMA ProtoStep == TypeOK /\ ProtoInv /\ [Next]_vars => ProtoInv'
<1> SUFFICES ASSUME TypeOK, ProtoInv, [Next]_vars PROVE ProtoInv'
  OBVIOUS
<1>0. ServerPart /\ ChildPart
  BY Parts
<1>1. Stream' = Stream
  BY DEF Next, System, Server, Child, Client, Start, StartUdp, Accept, AcceptFails, ForkChild,
         ForkFails, CloseConn, __clean_serverId, CleanAgain, KillServer, RecvFrom, SendTo, ExitUdp,
         init_dict_table, ReadWord, WriteAnswer, ChildSigint, my_connect, Fgets, WriteWord, ReadText,
         SendWord, __clean_clientId, Lose, vars, cfgvars, Stream
<1>2. CASE UNCHANGED <<spc, chpc>>
  BY <1>1, <1>2 DEF ProtoInv
<1>3. ASSUME NEW s \in Servers,
             \/ Server(s) \/ Start(s) \/ StartUdp(s) \/ ForkFails(s)
             \/ __clean_serverId(s) \/ KillServer(s) \/ ExitUdp(s)
      PROVE  ProtoInv'
  <2>1. \A r \in Servers \ {s} : spc'[r] = spc[r]
    BY <1>0, <1>3 DEF Server, Start, StartUdp, Accept, AcceptFails, ForkChild, ForkFails, CloseConn,
         __clean_serverId, CleanAgain, KillServer, RecvFrom, SendTo, ExitUdp, ServerAt, ServerPart
  <2>2. Stream => spc'[s] \notin {"recv", "send"}
    BY <1>0, <1>3 DEF Server, Start, StartUdp, Accept, AcceptFails, ForkChild, ForkFails, CloseConn,
         __clean_serverId, CleanAgain, KillServer, RecvFrom, SendTo, ExitUdp, ServerAt, ServerPart, ProtoInv
  <2>3. ~Stream => spc'[s] \in {"new", "recv", "send", "down"}
    BY <1>0, <1>3 DEF Server, Start, StartUdp, Accept, AcceptFails, ForkChild, ForkFails, CloseConn,
         __clean_serverId, CleanAgain, KillServer, RecvFrom, SendTo, ExitUdp, ServerAt, ServerPart, ProtoInv
  <2>4. ~Stream => UNCHANGED chpc
    BY <1>3 DEF Server, Start, StartUdp, Accept, AcceptFails, ForkChild, ForkFails, CloseConn,
         __clean_serverId, CleanAgain, KillServer, RecvFrom, SendTo, ExitUdp, ServerAt, ProtoInv, chvars
  <2> QED
    BY <1>1, <2>1, <2>2, <2>3, <2>4 DEF ProtoInv
<1>4. ASSUME NEW c \in Clients, Child(c) \/ ChildSigint(c) PROVE ProtoInv'
  <2>1. UNCHANGED spc /\ Stream
    BY <1>4 DEF Child, init_dict_table, ReadWord, WriteAnswer, ChildSigint, ChildAt, Serving, ProtoInv, svars
  <2> QED
    BY <1>1, <2>1 DEF ProtoInv
<1>5. (Lose \/ \E c \in Clients : Client(c) \/ __clean_clientId(c)) => UNCHANGED <<spc, chpc>>
  BY DEF Client, my_connect, Fgets, WriteWord, ReadText, SendWord, __clean_clientId, Lose, svars, chvars
<1> QED
  BY <1>2, <1>3, <1>4, <1>5 DEF Next, System, vars, svars, chvars

(* The words that c has sent are not forgotten.                              *)
LEMMA SentMore ==
    ASSUME NEW c \in Clients, UNCHANGED <<out[c], line[c]>>, cpc[c] # "read" \/ cpc'[c] = "read"
    PROVE  /\ Sent(c) \subseteq Sent(c)' /\ Interrupted(c)' = Interrupted(c) /\ Word(c)' = Word(c)
           /\ cpc'[c] = "read" => Word(c) \in Sent(c)'
BY DEF Sent, Interrupted, Word

LEMMA RowsSame ==
    ASSUME NEW c \in Clients, UNCHANGED <<out[c], cfgvars>>, ClientInv(c)
    PROVE  \A k \in 1..Len(out'[c]) : OwnRow(c, k)'
<1>1. Stream' = Stream /\ buffered' = buffered /\ out'[c] = out[c]
  BY DEF Stream, cfgvars
<1> QED
  BY <1>1 DEF ClientInv, OwnRow

(* After a row is printed, the word is one that was printed.                 *)
LEMMA PrintedIs ==
    ASSUME TypeOK, WordInv, NEW c \in Clients, NEW t \in Texts, NEW how \in {"answer", "eof", "eintr"},
           Printed(c, t, how), UNCHANGED line
    PROVE  /\ cpc[c] = "read" /\ cpc'[c] = "fgets" /\ Len(out[c]) \in Nat
           /\ Len(out'[c]) = Len(out[c]) + 1
           /\ out'[c][Len(out[c]) + 1] = <<Word(c), t, how>>
           /\ \A j \in 1..Len(out[c]) : out'[c][j] = out[c][j]
           /\ Sent(c) \subseteq Sent(c)'
           /\ Interrupted(c)' <=> Interrupted(c) \/ how = "eintr"
<1>1. ClientPart
  BY Parts
<1>2. cpc[c] = "read" /\ cpc'[c] = "fgets" /\ out'[c] = Append(out[c], <<Word(c), t, how>>)
  BY <1>1 DEF Printed, ClientAt, ClientPart
<1>3. Word(c) \in Words
  BY <1>2, WordIs DEF WordInv, HasWord, Word
<1>4. out[c] \in Seq(Rows) /\ <<Word(c), t, how>> \in Rows
  BY <1>1, <1>3 DEF ClientPart, Rows
<1> DEFINE row == <<Word(c), t, how>>
<1> HIDE DEF Rows, row
<1>5. /\ Len(out[c]) \in Nat /\ Len(out'[c]) = Len(out[c]) + 1 /\ out'[c][Len(out[c]) + 1] = row
      /\ \A j \in 1..Len(out[c]) : out'[c][j] = out[c][j]
  BY <1>2, <1>4 DEF row
<1>6. row[1] = Word(c) /\ row[3] = how
  BY DEF row
<1>7. Sent(c) \subseteq Sent(c)'
  <2> SUFFICES ASSUME NEW w \in Sent(c) PROVE \E j \in 1..Len(out'[c]) : out'[c][j][1] = w
    BY DEF Sent
  <2>1. w = Word(c) \/ \E j \in 1..Len(out[c]) : out[c][j][1] = w
    BY <1>2 DEF Sent
  <2>2. CASE w = Word(c)
    <3>1. Len(out[c]) + 1 \in 1..Len(out'[c])
      BY <1>5
    <3> QED
      BY <1>5, <1>6, <2>2, <3>1
  <2>3. CASE \E j \in 1..Len(out[c]) : out[c][j][1] = w
    <3>1. PICK j \in 1..Len(out[c]) : out[c][j][1] = w
      BY <2>3
    <3>2. j \in 1..Len(out'[c]) /\ out'[c][j] = out[c][j]
      BY <1>5
    <3> QED
      BY <3>1, <3>2
  <2> QED
    BY <2>1, <2>2, <2>3
<1>8. Interrupted(c)' <=> Interrupted(c) \/ how = "eintr"
  <2>1. \A j \in 1..Len(out'[c]) : j \in 1..Len(out[c]) \/ j = Len(out[c]) + 1
    BY <1>5
  <2>2. \A j \in 1..Len(out[c]) : j \in 1..Len(out'[c])
    BY <1>5
  <2>3. Len(out[c]) + 1 \in 1..Len(out'[c])
    BY <1>5
  <2> QED
    BY <1>5, <1>6, <2>1, <2>2, <2>3 DEF Interrupted
<1> QED
  BY <1>2, <1>5, <1>7, <1>8 DEF row

(* A row is added to the rows of c.                                          *)
LEMMA PrintedRows ==
    ASSUME TypeOK, WordInv, NEW c \in Clients, NEW t \in Texts, NEW how \in {"answer", "eof", "eintr"},
           Printed(c, t, how), UNCHANGED <<line, cfgvars>>, ClientInv(c),
           how = "answer" =>
             \/ t = Text(Word(c))
             \/ /\ Stream /\ buffered /\ Interrupted(c)
                /\ \E j \in 1..Len(out[c]) : t = Text(out[c][j][1])
    PROVE  \A k \in 1..Len(out'[c]) : OwnRow(c, k)'
<1> DEFINE n == Len(out[c])
<1>1. /\ n \in Nat /\ Len(out'[c]) = n + 1 /\ out'[c][n + 1] = <<Word(c), t, how>>
      /\ \A j \in 1..n : out'[c][j] = out[c][j]
  BY PrintedIs
<1>2. Stream' = Stream /\ buffered' = buffered
  BY DEF Stream, cfgvars
<1>3. how = "answer" =>
        \/ t = Text(Word(c))
        \/ /\ Stream /\ buffered /\ \E j \in 1..n : out[c][j][3] = "eintr"
           /\ \E j \in 1..n : t = Text(out[c][j][1])
  BY DEF Interrupted
<1>4. \A k \in 1..n : OwnRow(c, k)
  BY DEF ClientInv
<1> HIDE DEF n
<1>5. ASSUME NEW k \in 1..Len(out'[c]) PROVE OwnRow(c, k)'
  <2>1. CASE k = n + 1
    <3>1. out'[c][k][1] = Word(c) /\ out'[c][k][2] = t /\ out'[c][k][3] = how /\ k - 1 = n
      BY <1>1, <2>1
    <3>2. \A j \in 1..n : out'[c][j] = out[c][j]
      BY <1>1
    <3> QED
      BY <1>2, <1>3, <3>1, <3>2 DEF OwnRow
  <2>2. CASE k \in 1..n
    <3>1. out'[c][k] = out[c][k] /\ \A j \in 1..(k - 1) : out'[c][j] = out[c][j]
      BY <1>1, <2>2
    <3>2. OwnRow(c, k)
      BY <1>4, <2>2
    <3> QED
      BY <1>2, <3>1, <3>2 DEF OwnRow
  <2> QED
    BY <1>1, <1>5, <2>1, <2>2
<1> QED
  BY <1>5

LEMMA FirstOf ==
    ASSUME NEW S, NEW q \in Seq(S), q # <<>>
    PROVE  1 \in 1..Len(q) /\ Head(q) = q[1]
OBVIOUS

LEMMA LastOf ==
    ASSUME NEW S, NEW q \in Seq(S), NEW m \in S
    PROVE  /\ Append(q, m) # <<>>
           /\ \A k \in 1..Len(Append(q, m)) :
                Append(q, m)[k] = m \/ (k \in 1..Len(q) /\ Append(q, m)[k] = q[k])
OBVIOUS

(* The child takes a word, or the end of the stream, and answers it.         *)
LEMMA ChildStep ==
    ASSUME IInv, NEW c \in Clients, Child(c) \/ ChildSigint(c)
    PROVE  HasWord(c)' /\ ClientInv(c)'
<1>0. ChildPart /\ FlightPart /\ ClientPart /\ TypeOK
  BY Parts DEF IInv
<1>1. chpc[c] \in Serving /\ ServerEnd(c) /\ Stream
  BY HasEnd DEF IInv, ProtoInv, Child, init_dict_table, ReadWord, WriteAnswer, ChildSigint, ChildAt, Serving
<1>2. HasWord(c) /\ ClientInv(c)
  BY DEF IInv, WordInv, AnswerInv
<1>3. FlightInv(c) /\ StdinInv(c) /\ (~Interrupted(c) => InStep(c))
  BY <1>1, <1>2 DEF ClientInv
<1>4. UNCHANGED <<cfgvars, cvars>>
  BY DEF Child, init_dict_table, ReadWord, WriteAnswer, ChildSigint
<1>5. /\ Stream' = Stream /\ buffered' = buffered /\ ClientEnd(c)' = ClientEnd(c) /\ Word(c)' = Word(c)
      /\ Sent(c)' = Sent(c) /\ Interrupted(c)' = Interrupted(c)
      /\ cpc'[c] = cpc[c] /\ line'[c] = line[c] /\ stdin'[c] = stdin[c] /\ out'[c] = out[c]
  BY <1>4 DEF Stream, cfgvars, cvars, ClientEnd, Word, Sent, Interrupted
<1>6. cpc[c] # "connect"
  BY <1>1, <1>2 DEF HasWord
<1>7. HasWord(c)' /\ StdinInv(c)' /\ \A k \in 1..Len(out'[c]) : OwnRow(c, k)'
  BY <1>2, <1>3, <1>4, <1>5, <1>6, RowsSame DEF HasWord, StdinInv
<1>8. CASE init_dict_table(c) \/ ChildSigint(c)
  <2>1. UNCHANGED <<cfgvars, cvars, c2s, s2c, chword>>
    BY <1>8 DEF init_dict_table, ChildSigint
  <2>2. chpc'[c] = "write" => chpc[c] = "write"
    BY <1>0, <1>8 DEF init_dict_table, ChildSigint, ChildAt, ChildPart
  <2>3. Calm(c)
    BY <1>1, <2>1, <2>2 DEF Calm, cvars
  <2> QED
    BY <1>2, <2>3, CalmKeeps
<1>9. CASE ReadWord(c) /\ c2s[c] # <<>>
  <2>1. /\ chpc[c] = "read" /\ chpc'[c] = "write" /\ chword'[c] = Head(c2s[c])
        /\ c2s'[c] = <<>> /\ s2c'[c] = s2c[c]
    BY <1>0, <1>9 DEF ReadWord, ChildAt, ChildPart, FlightPart
  <2>2. 1 \in 1..Len(c2s[c]) /\ Head(c2s[c]) = c2s[c][1] /\ Len(<<>>) = 0
    BY <1>0, <1>9, FirstOf DEF FlightPart
  <2>3. FlightInv(c)'
    BY <1>3, <1>5, <2>1, <2>2 DEF FlightInv
  <2>4. ASSUME InStep(c) PROVE InStep(c)'
    <3>1. ClientEnd(c) => cpc[c] = "read"
      BY <1>1, <1>9, <2>4 DEF InStep
    <3>2. cpc[c] = "read" => chword'[c] = Word(c) /\ s2c[c] = <<>>
      BY <1>1, <1>9, <2>1, <2>2, <2>4 DEF InStep
    <3> QED
      BY <1>5, <2>1, <2>2, <3>1, <3>2 DEF InStep
  <2> QED
    BY <1>1, <1>3, <1>5, <1>7, <2>3, <2>4 DEF ClientInv
<1>10. CASE ReadWord(c) /\ c2s[c] = <<>>
  <2>1. ~ClientEnd(c) /\ c2s'[c] = <<>> /\ s2c'[c] = s2c[c]
    BY <1>0, <1>10 DEF ReadWord, FlightPart
  <2>2. cpc[c] # "read" /\ Len(<<>>) = 0
    BY <2>1 DEF ClientEnd
  <2>3. FlightInv(c)' /\ InStep(c)'
    BY <1>3, <1>5, <2>1, <2>2 DEF FlightInv, InStep
  <2> QED
    BY <1>1, <1>5, <1>7, <2>3 DEF ClientInv
<1>11. CASE WriteAnswer(c) /\ ClientEnd(c)
  <2> DEFINE t == Text(chword[c])
  <2>1. /\ chpc[c] = "write" /\ chpc'[c] = "read" /\ c2s'[c] = c2s[c]
        /\ s2c'[c] = Append(s2c[c], t)
    BY <1>0, <1>11 DEF WriteAnswer, ChildAt, ChildPart, FlightPart
  <2>2. /\ s2c'[c] # <<>>
        /\ \A k \in 1..Len(s2c'[c]) : s2c'[c][k] = t \/ (k \in 1..Len(s2c[c]) /\ s2c'[c][k] = s2c[c][k])
    BY <1>0, <2>1, TextIs, LastOf DEF FlightPart
  <2>3. chword[c] \in Sent(c)
    BY <1>3, <1>11, <2>1 DEF FlightInv
  <2>4. FlightInv(c)'
    BY <1>3, <1>5, <2>1, <2>2, <2>3 DEF FlightInv
  <2>5. ASSUME InStep(c) PROVE InStep(c)'
    <3>1. cpc[c] = "read" /\ chword[c] = Word(c) /\ s2c[c] = <<>> /\ c2s[c] = <<>>
      BY <1>1, <1>11, <2>1, <2>5 DEF InStep
    <3>2. \A k \in 1..Len(s2c'[c]) : s2c'[c][k] = t
      BY <2>2, <3>1
    <3> QED
      BY <1>5, <2>1, <3>1, <3>2 DEF InStep
  <2> QED
    BY <1>1, <1>3, <1>5, <1>7, <2>4, <2>5 DEF ClientInv
<1>12. CASE WriteAnswer(c) /\ ~ClientEnd(c)
  <2>1. UNCHANGED <<c2s, s2c, chword>> /\ chpc'[c] # "write"
    BY <1>0, <1>12 DEF WriteAnswer, ChildAt, ChildPart
  <2>2. Calm(c)
    BY <1>1, <1>4, <2>1 DEF Calm, cvars
  <2> QED
    BY <1>2, <2>2, CalmKeeps
<1> QED
  BY <1>8, <1>9, <1>10, <1>11, <1>12 DEF Child

(* A client says nothing new while it neither reads nor prints.              *)
LEMMA QuietClient ==
    ASSUME IInv, NEW c \in Clients, my_connect(c) \/ Fgets(c)
    PROVE  HasWord(c)' /\ ClientInv(c)'
<1>0. ChildPart /\ FlightPart /\ ClientPart /\ TypeOK /\ QueuePart
  BY Parts DEF IInv
<1>1. HasWord(c) /\ ClientInv(c)
  BY DEF IInv, WordInv, AnswerInv
<1>2. UNCHANGED <<cfgvars, c2s, s2c, chpc, chword, stdin, out>>
  BY DEF my_connect, Fgets, chvars
<1>3. Stream' = Stream /\ buffered' = buffered /\ out'[c] = out[c] /\ s2c'[c] = s2c[c] /\ c2s'[c] = c2s[c]
      /\ chpc'[c] = chpc[c] /\ chword'[c] = chword[c] /\ stdin'[c] = stdin[c]
  BY <1>2 DEF Stream, cfgvars
<1>4. \A k \in 1..Len(out'[c]) : OwnRow(c, k)'
  BY <1>1, <1>2, RowsSame
<1>5. cpc[c] # "read" /\ cpc'[c] # "read" /\ cpc'[c] # "connect"
  BY <1>0 DEF my_connect, Fgets, ClientAt, ClientPart
<1>6. Sent(c)' = Sent(c) /\ Interrupted(c)' = Interrupted(c)
  BY <1>3, <1>5 DEF Sent, Interrupted
<1>7. UdpInv(c)'
  BY <1>5 DEF UdpInv
<1>8. CASE my_connect(c)
  <2>1. cpc[c] = "connect" /\ cpc'[c] \in {"fgets", "failed"}
    BY <1>0, <1>8 DEF my_connect, ClientAt, ClientPart
  <2>2. HasWord(c)'
    BY <2>1 DEF HasWord
  <2>3. ASSUME Stream PROVE FlightInv(c)' /\ StdinInv(c)' /\ InStep(c)'
    <3>1. ~ServerEnd(c) /\ c2s[c] = <<>> /\ s2c[c] = <<>>
      BY <1>1, <2>1, <2>3 DEF HasWord
    <3>2. chpc[c] # "write"
      BY <3>1, HasEnd DEF Serving
    <3>3. FlightInv(c) /\ StdinInv(c)
      BY <1>1, <2>3 DEF ClientInv
    <3> QED
      BY <1>3, <1>5, <1>6, <2>1, <3>1, <3>2, <3>3 DEF FlightInv, StdinInv, InStep
  <2> QED
    BY <1>3, <1>4, <1>7, <2>2, <2>3 DEF ClientInv
<1>9. CASE Fgets(c)
  <2>1. /\ cpc[c] = "fgets" /\ cpc'[c] \in {"write", "stuck", "done"}
        /\ cpc'[c] = "write" => /\ line[c] < Len(words[c]) /\ line'[c] = line[c] + 1
                                /\ stdin[c] = "open" \/ buffered
    BY <1>0, <1>9 DEF Fgets, ClientAt, ClientPart
  <2>2. line[c] \in Nat /\ Len(words[c]) \in Nat
    BY <1>0, DictAssumption DEF ClientPart
  <2>3. HasWord(c)'
    BY <2>1, <2>2 DEF HasWord
  <2>4. ClientEnd(c) /\ (ServerEnd(c)' = ServerEnd(c))
    BY <2>1, <1>9 DEF ClientEnd, ServerEnd, Fgets, svars, qvars
  <2>5. ASSUME Stream PROVE FlightInv(c)' /\ StdinInv(c)' /\ (~Interrupted(c)' => InStep(c)')
    <3>1. FlightInv(c) /\ StdinInv(c) /\ (~Interrupted(c) => InStep(c))
      BY <1>1, <2>5 DEF ClientInv
    <3>2. FlightInv(c)'
      BY <1>3, <1>6, <2>4, <3>1 DEF FlightInv
    <3>3. StdinInv(c)'
      BY <1>3, <1>5, <1>6, <2>1, <3>1 DEF StdinInv
    <3>4. InStep(c) => InStep(c)'
      BY <1>3, <1>5, <2>4 DEF InStep
    <3> QED
      BY <1>6, <3>1, <3>2, <3>3, <3>4
  <2> QED
    BY <1>3, <1>4, <1>7, <2>3, <2>5 DEF ClientInv
<1> QED
  BY <1>8, <1>9

(* A word goes out.                                                          *)
LEMMA WordOut ==
    ASSUME IInv, NEW c \in Clients, WriteWord(c) \/ SendWord(c)
    PROVE  HasWord(c)' /\ ClientInv(c)'
<1>0. ChildPart /\ FlightPart /\ ClientPart /\ TypeOK
  BY Parts DEF IInv
<1>1. HasWord(c) /\ ClientInv(c)
  BY DEF IInv, WordInv, AnswerInv
<1>2. UNCHANGED <<cfgvars, chpc, chword, line, out>>
  BY DEF WriteWord, SendWord, chvars
<1>3. Stream' = Stream /\ buffered' = buffered /\ out'[c] = out[c] /\ chpc'[c] = chpc[c]
      /\ chword'[c] = chword[c] /\ line'[c] = line[c]
  BY <1>2 DEF Stream, cfgvars
<1>4. \A k \in 1..Len(out'[c]) : OwnRow(c, k)'
  BY <1>1, <1>2, RowsSame
<1>5. cpc[c] = "write" /\ cpc'[c] \in {"read", "killed"}
  BY <1>0 DEF WriteWord, SendWord, ClientAt, ClientPart
<1>6. HasWord(c)'
  BY <1>1, <1>3, <1>5 DEF HasWord
<1>7. Word(c) \in Words
  BY <1>1, <1>5, WordIs DEF HasWord, Word
<1>8. CASE SendWord(c)
  <2>1. ~Stream /\ s2c'[c] = <<>> /\ Len(<<>>) = 0
    BY <1>0, <1>8 DEF SendWord, FlightPart
  <2> QED
    BY <1>3, <1>4, <1>6, <2>1 DEF ClientInv, UdpInv
<1>9. CASE WriteWord(c)
  <2>1. /\ Stream /\ stdin'[c] = stdin[c] /\ s2c'[c] = s2c[c]
        /\ IF ServerEnd(c) THEN cpc'[c] = "read" /\ c2s'[c] = Append(c2s[c], Word(c)) ELSE c2s'[c] = c2s[c]
    BY <1>0, <1>9 DEF WriteWord, ClientAt, ClientPart, FlightPart
  <2>2. FlightInv(c) /\ StdinInv(c) /\ (~Interrupted(c) => InStep(c))
    BY <1>1, <2>1 DEF ClientInv
  <2>3. ServerEnd(c)' = ServerEnd(c) /\ ClientEnd(c)
    BY <1>5, <1>9 DEF ServerEnd, ClientEnd, WriteWord, svars, qvars, chvars
  <2>4. /\ Sent(c) \subseteq Sent(c)' /\ Interrupted(c)' = Interrupted(c) /\ Word(c)' = Word(c)
        /\ cpc'[c] = "read" => Word(c) \in Sent(c)'
    BY <1>3, <1>5, SentMore
  <2>5. ServerEnd(c) => \A k \in 1..Len(c2s'[c]) :
            c2s'[c][k] = Word(c) \/ (k \in 1..Len(c2s[c]) /\ c2s'[c][k] = c2s[c][k])
    BY <1>0, <1>7, <2>1, LastOf DEF FlightPart
  <2>6. FlightInv(c)'
    BY <1>3, <2>1, <2>2, <2>3, <2>4, <2>5 DEF FlightInv
  <2>7. StdinInv(c)'
    BY <1>3, <1>5, <2>1, <2>2, <2>4 DEF StdinInv
  <2>8. ASSUME InStep(c) PROVE InStep(c)'
    <3>1. s2c[c] = <<>> /\ (ServerEnd(c) => c2s[c] = <<>> /\ chpc[c] # "write") /\ Len(<<>>) = 0
      BY <1>5, <2>3, <2>8 DEF InStep
    <3>2. chpc[c] # "write"
      BY <3>1, HasEnd DEF Serving
    <3>3. ServerEnd(c) => \A k \in 1..Len(c2s'[c]) : c2s'[c][k] = Word(c)
      BY <2>5, <3>1
    <3>4. ClientEnd(c)' /\ cpc'[c] # "read" => FALSE
      BY <1>5 DEF ClientEnd
    <3> QED
      BY <1>3, <2>1, <2>3, <2>4, <3>1, <3>2, <3>3, <3>4 DEF InStep
  <2> QED
    BY <1>3, <1>4, <1>6, <2>1, <2>2, <2>4, <2>6, <2>7, <2>8 DEF ClientInv
<1> QED
  BY <1>8, <1>9

(* A text comes in, or the end of the stream.                                *)
LEMMA TextIn ==
    ASSUME IInv, NEW c \in Clients, ReadText(c)
    PROVE  HasWord(c)' /\ ClientInv(c)'
<1>0. ChildPart /\ FlightPart /\ ClientPart /\ TypeOK /\ WordInv
  BY Parts DEF IInv
<1>1. HasWord(c) /\ ClientInv(c)
  BY DEF IInv, WordInv, AnswerInv
<1>2. UNCHANGED <<cfgvars, chpc, chword, line, stdin, c2s>> /\ s2c'[c] = <<>> /\ Len(<<>>) = 0
  BY <1>0 DEF ReadText, chvars, FlightPart
<1>3. Stream' = Stream /\ buffered' = buffered /\ chpc'[c] = chpc[c]
      /\ chword'[c] = chword[c] /\ stdin'[c] = stdin[c] /\ c2s'[c] = c2s[c]
      /\ ServerEnd(c)' = ServerEnd(c)
  BY <1>2 DEF Stream, cfgvars, ServerEnd, ReadText, svars, qvars
<1>4. PICK t \in Texts, how \in {"answer", "eof"} :
        /\ Printed(c, t, how)
        /\ \/ how = "answer" /\ s2c[c] # <<>> /\ t = Head(s2c[c])
           \/ how = "eof" /\ Stream /\ ~ServerEnd(c)
  <2>1. text[c] \in Texts /\ (s2c[c] # <<>> => Head(s2c[c]) \in Texts)
    BY <1>0 DEF ClientPart, FlightPart, Texts
  <2> QED
    BY <2>1 DEF ReadText
<1>5. /\ cpc[c] = "read" /\ cpc'[c] = "fgets" /\ Sent(c) \subseteq Sent(c)'
      /\ Interrupted(c)' <=> Interrupted(c)
  BY <1>0, <1>2, <1>4, PrintedIs
<1>6. s2c[c] # <<>> => 1 \in 1..Len(s2c[c]) /\ Head(s2c[c]) = s2c[c][1]
  BY <1>0, FirstOf DEF FlightPart
<1>7. how = "answer" =>
        \/ t = Text(Word(c))
        \/ /\ Stream /\ buffered /\ Interrupted(c)
           /\ \E j \in 1..Len(out[c]) : t = Text(out[c][j][1])
  <2> SUFFICES ASSUME how = "answer", t # Text(Word(c))
               PROVE  /\ Stream /\ buffered /\ Interrupted(c)
                      /\ \E j \in 1..Len(out[c]) : t = Text(out[c][j][1])
    OBVIOUS
  <2>1. s2c[c] # <<>> /\ t = s2c[c][1] /\ 1 \in 1..Len(s2c[c])
    BY <1>4, <1>6
  <2>2. Stream
    BY <1>1, <1>5, <2>1 DEF ClientInv, UdpInv
  <2>3. Interrupted(c)
    BY <1>1, <1>5, <2>1, <2>2 DEF ClientInv, InStep
  <2>4. buffered
    BY <1>1, <1>5, <2>2, <2>3 DEF ClientInv, StdinInv
  <2>5. PICK w \in Sent(c) : t = Text(w)
    BY <1>1, <2>1, <2>2 DEF ClientInv, FlightInv
  <2>6. \E j \in 1..Len(out[c]) : w = out[c][j][1]
    BY <2>5 DEF Sent
  <2> QED
    BY <2>2, <2>3, <2>4, <2>5, <2>6
<1>8. \A k \in 1..Len(out'[c]) : OwnRow(c, k)'
  BY <1>0, <1>1, <1>2, <1>4, <1>7, PrintedRows
<1>9. HasWord(c)' /\ UdpInv(c)'
  BY <1>5 DEF HasWord, UdpInv
<1>10. ASSUME Stream PROVE FlightInv(c)' /\ StdinInv(c)' /\ (~Interrupted(c)' => InStep(c)')
  <2>1. FlightInv(c) /\ StdinInv(c) /\ (~Interrupted(c) => InStep(c))
    BY <1>1, <1>10 DEF ClientInv
  <2>2. FlightInv(c)'
    BY <1>2, <1>3, <1>5, <2>1 DEF FlightInv, ClientEnd
  <2>3. StdinInv(c)'
    BY <1>3, <1>5, <2>1 DEF StdinInv
  <2>4. ASSUME InStep(c) PROVE InStep(c)'
    <3>1. ServerEnd(c) => c2s[c] = <<>> /\ chpc[c] # "write"
      BY <1>4, <1>5, <2>4 DEF InStep
    <3> QED
      BY <1>2, <1>3, <1>5, <3>1 DEF InStep
  <2> QED
    BY <1>5, <2>1, <2>2, <2>3, <2>4
<1> QED
  BY <1>3, <1>8, <1>9, <1>10 DEF ClientInv

(* The handler of a client interrupts the read() it is in, or not.           *)
LEMMA HandlerStep ==
    ASSUME IInv, NEW c \in Clients, __clean_clientId(c)
    PROVE  HasWord(c)' /\ ClientInv(c)'
<1>0. ChildPart /\ FlightPart /\ ClientPart /\ TypeOK /\ WordInv
  BY Parts DEF IInv
<1>1. HasWord(c) /\ ClientInv(c)
  BY DEF IInv, WordInv, AnswerInv
<1>2. UNCHANGED <<cfgvars, chpc, chword, line, c2s, s2c>> /\ stdin'[c] = "closed" /\ ClientEnd(c)
  BY <1>0 DEF __clean_clientId, ClientPart
<1>3. Stream' = Stream /\ buffered' = buffered /\ chpc'[c] = chpc[c] /\ chword'[c] = chword[c]
      /\ c2s'[c] = c2s[c] /\ s2c'[c] = s2c[c] /\ line'[c] = line[c] /\ ServerEnd(c)' = ServerEnd(c)
  BY <1>2 DEF Stream, cfgvars, ServerEnd, __clean_clientId, svars, qvars
<1>4. CASE Printed(c, text[c], "eintr") /\ s2c[c] = <<>>
  <2>1. text[c] \in Texts
    BY <1>0 DEF ClientPart
  <2>2. /\ cpc[c] = "read" /\ cpc'[c] = "fgets" /\ Sent(c) \subseteq Sent(c)' /\ Interrupted(c)'
    BY <1>0, <1>2, <1>4, <2>1, PrintedIs
  <2>3. \A k \in 1..Len(out'[c]) : OwnRow(c, k)'
    BY <1>0, <1>1, <1>2, <1>4, <2>1, PrintedRows
  <2>4. HasWord(c)' /\ UdpInv(c)'
    BY <2>2 DEF HasWord, UdpInv
  <2>5. ASSUME Stream PROVE FlightInv(c)' /\ StdinInv(c)'
    <3>1. FlightInv(c)
      BY <1>1, <2>5 DEF ClientInv
    <3> QED
      BY <1>2, <1>3, <2>2, <3>1 DEF FlightInv, StdinInv
  <2> QED
    BY <1>3, <2>2, <2>3, <2>4, <2>5 DEF ClientInv
<1>5. CASE UNCHANGED out /\ (UNCHANGED cpc \/ (cpc[c] \in {"stuck", "fgets"} /\ ~buffered /\ cpc'[c] = "done")
                             \/ (cpc[c] = "stuck" /\ cpc'[c] = "done"))
  <2>1. out'[c] = out[c] /\ (cpc'[c] = cpc[c] \/ (cpc[c] # "read" /\ cpc'[c] = "done"))
    BY <1>5
  <2>2. Sent(c)' = Sent(c) /\ Interrupted(c)' = Interrupted(c) /\ Word(c)' = Word(c)
    BY <1>3, <2>1 DEF Sent, Interrupted, Word
  <2>3. \A k \in 1..Len(out'[c]) : OwnRow(c, k)'
    BY <1>1, <1>2, <2>1, RowsSame
  <2>4. HasWord(c)'
    BY <1>1, <1>3, <2>1 DEF HasWord
  <2>5. ~Stream => UdpInv(c)'
    BY <1>1, <1>3, <2>1, <2>2 DEF ClientInv, UdpInv
  <2>6. ASSUME Stream PROVE FlightInv(c)' /\ StdinInv(c)' /\ (~Interrupted(c)' => InStep(c)')
    <3>1. FlightInv(c) /\ StdinInv(c) /\ (~Interrupted(c) => InStep(c))
      BY <1>1, <2>6 DEF ClientInv
    <3>2. FlightInv(c)'
      BY <1>2, <1>3, <2>2, <3>1 DEF FlightInv
    <3>3. StdinInv(c)'
      BY <1>2, <1>3, <2>1, <2>2, <3>1 DEF StdinInv
    <3>4. ASSUME InStep(c) PROVE InStep(c)'
      <4>1. CASE cpc'[c] = cpc[c]
        BY <1>2, <1>3, <2>2, <3>4, <4>1 DEF InStep, ClientEnd
      <4>2. CASE cpc'[c] = "done"
        BY <4>2 DEF InStep, ClientEnd
      <4> QED
        BY <2>1, <4>1, <4>2
    <3> QED
      BY <2>2, <3>1, <3>2, <3>3, <3>4
  <2> QED
    BY <1>3, <2>3, <2>4, <2>5, <2>6 DEF ClientInv
<1> QED
  BY <1>0, <1>4, <1>5 DEF __clean_clientId, ClientPart

(* A datagram reaches its own socket or none, or is lost.                    *)
LEMMA DatagramStep ==
    ASSUME IInv, Lose \/ (\E s \in Servers : SendTo(s)), NEW d \in Clients
    PROVE  HasWord(d)' /\ ClientInv(d)'
<1>0. ServerPart /\ FlightPart /\ ClientPart /\ TypeOK
  BY Parts DEF IInv
<1>1. HasWord(d) /\ ClientInv(d)
  BY DEF IInv, WordInv, AnswerInv
<1>2. UNCHANGED <<cfgvars, chvars, c2s, cvars>> /\ ~Stream
  BY DEF Lose, SendTo, ServerAt, IInv, ProtoInv
<1>3. Stream' = Stream /\ out'[d] = out[d] /\ cpc'[d] = cpc[d] /\ line'[d] = line[d] /\ Word(d)' = Word(d)
  BY <1>2 DEF Stream, cfgvars, cvars, Word
<1>4. HasWord(d)' /\ \A k \in 1..Len(out'[d]) : OwnRow(d, k)'
  BY <1>1, <1>2, <1>3, RowsSame DEF HasWord
<1>5. UdpInv(d)'
  <2>1. UdpInv(d)
    BY <1>1, <1>2 DEF ClientInv
  <2>2. CASE Lose
    <3>1. s2c'[d] = s2c[d] \/ (s2c'[d] = <<>> /\ Len(<<>>) = 0)
      BY <1>0, <2>2 DEF Lose, FlightPart
    <3> QED
      BY <1>3, <2>1, <3>1 DEF UdpInv
  <2>3. ASSUME NEW s \in Servers, SendTo(s) PROVE UdpInv(d)'
    <3>1. CASE acc[s][1] = d /\ cpc[d] = "read" /\ line[d] = acc[s][2]
      <4> DEFINE t == Text(Word(d))
      <4>1. s2c'[d] = Append(s2c[d], t)
        BY <1>0, <2>3, <3>1 DEF SendTo, FlightPart, Word
      <4>2. \A k \in 1..Len(s2c'[d]) : s2c'[d][k] = t \/ (k \in 1..Len(s2c[d]) /\ s2c'[d][k] = s2c[d][k])
        BY <1>0, <4>1, TextIs, LastOf DEF FlightPart
      <4> QED
        BY <1>3, <2>1, <4>2 DEF UdpInv
    <3>2. CASE ~(acc[s][1] = d /\ cpc[d] = "read" /\ line[d] = acc[s][2])
      <4>1. s2c'[d] = s2c[d]
        BY <1>0, <2>3, <3>2 DEF SendTo, FlightPart
      <4> QED
        BY <1>3, <2>1, <4>1 DEF UdpInv
    <3> QED
      BY <3>1, <3>2
  <2> QED
    BY <2>2, <2>3
<1> QED
  BY <1>2, <1>3, <1>4, <1>5 DEF ClientInv

(***************************************************************************)
(* The theorems.                                                           *)
(***************************************************************************)
LEMMA ClientsStep == IInv /\ [Next]_vars => WordInv' /\ AnswerInv'
<1> SUFFICES ASSUME IInv, [Next]_vars, NEW d \in Clients PROVE HasWord(d)' /\ ClientInv(d)'
  BY DEF WordInv, AnswerInv
<1>1. TypeOK /\ HasWord(d) /\ ClientInv(d)
  BY DEF IInv, WordInv, AnswerInv
<1>2. CASE UNCHANGED vars
  <2>1. Calm(d)
    BY <1>2 DEF Calm, vars, svars, qvars, chvars, cvars, ServerEnd
  <2> QED
    BY <1>1, <2>1, CalmKeeps
<1>3. ASSUME NEW s \in Servers,
             \/ Server(s) \/ Start(s) \/ StartUdp(s) \/ ForkFails(s)
             \/ __clean_serverId(s) \/ KillServer(s) \/ ExitUdp(s)
      PROVE  HasWord(d)' /\ ClientInv(d)'
  <2>1. CASE SendTo(s)
    BY <2>1, DatagramStep
  <2>2. CASE ~SendTo(s)
    BY <1>1, <1>3, <2>2, ServerCalm, CalmKeeps
  <2> QED
    BY <2>1, <2>2
<1>4. ASSUME NEW c \in Clients, Child(c) \/ ChildSigint(c) \/ Client(c) \/ __clean_clientId(c)
      PROVE  HasWord(d)' /\ ClientInv(d)'
  <2>1. CASE c = d
    BY <1>4, <2>1, ChildStep, QuietClient, WordOut, TextIn, HandlerStep DEF Client
  <2>2. CASE c # d
    <3>1. Calm(d)
      BY <1>1, <1>4, <2>2, OtherCalm
    <3> QED
      BY <1>1, <3>1, CalmKeeps
  <2> QED
    BY <2>1, <2>2
<1>5. CASE Lose
  BY <1>5, DatagramStep
<1> QED
  BY <1>2, <1>3, <1>4, <1>5 DEF Next, System

LEMMA IndStep == IInv /\ [Next]_vars => IInv'
BY TypeStep, ProtoStep, ClientsStep DEF IInv

LEMMA Invariance == Spec => []IInv
<1>1. Init => IInv
  BY InitIInv
<1>2. IInv /\ [Next]_vars => IInv'
  BY IndStep
<1> QED
  BY <1>1, <1>2, PTL DEF Spec

(* Every variable keeps its type; a server holds a connection no longer than *)
(* it takes to fork for it, and the queue of a listening socket is bounded.  *)
THEOREM TypeCorrect == Spec => []TypeOK
<1>1. IInv => TypeOK
  BY DEF IInv
<1> QED
  BY <1>1, Invariance, PTL

(* A text that a client has received is the answer to the word it printed    *)
(* with it, whatever happens to servers and children; after an interrupted   *)
(* read() with more words in the buffer, to an earlier word of its own.      *)
THEOREM AnswersMatch == Spec => []OwnAnswer
<1>1. IInv => OwnAnswer
  <2> SUFFICES ASSUME IInv, NEW c \in Clients, NEW k \in DOMAIN out[c] PROVE OwnRow(c, k)
    BY DEF OwnAnswer, OwnRow
  <2>1. DOMAIN out[c] = 1..Len(out[c])
    BY Parts DEF IInv, ClientPart
  <2> QED
    BY <2>1 DEF IInv, AnswerInv, ClientInv
<1> QED
  BY <1>1, Invariance, PTL
=============================================================================
