# A TLA+ verification of the NSYSU system programming repository

The repository is a course's collection of homeworks and tests in C (with a
little C++). There is no single program. What it has is a set of small
concurrent systems: processes that share memory, FIFOs, message queues, signals
and sockets, and one kernel module. Each of these is a component here, with a
TLA+ module of its own. The modules do not call each other, because the programs
do not. Inside each module the processes of that system are composed: a server
and its clients, a writer and its readers, a driver and its users.

Contents

1. Inventory of the system
2. Plan
3. The modules and how they correspond to the code
4. Runs: what each one checks and shows, with its bounds
5. Fairness and deadlock
6. Proofs
7. Disagreements and faults in the code
8. What is not modelled
9. How to run everything

## 1. Inventory

### A. Shared-memory stream transfer, `hw9/54-1`

*Parts*: `svshm_xfr_writer.c`, `svshm_xfr_reader.c`, `binary_sems.c`.
*State*: a System V set of two semaphores, a POSIX segment with `cnt` and `buf`,
both of which outlive the processes; the transfer and byte counters of each side.
*Operations*: start, create or find set and segment, take turns (`reserveSem`,
`releaseSem`), read, store, write, the last turn, clean-up, a SIGINT handler on
each side, the error exits of `read` and `write`.
*Hard*: the order of create, initialise and find; a second reader; a writer that
is started again under readers of an earlier run; handlers that run in the
middle of somebody's turn; failing `write` inside a turn; the `int` byte counter.
*Correct if*: turns exclude each other; the output is the input, in order;
clean-up removes nothing that a reader in its turn still needs, and comes only
after everything was delivered; readers end.

### B. Broadcast through a ring, `hw10`

*Parts*: `main.c` (parent), `Producer.c`, `Consumer.c`.
*State*: a ring of slots in shared memory with no lock, the position and count
of each consumer, the parent's pending signals and its sum.
*Operations*: fork of consumers and producer, one scan step, one message, the
final -1, `sigqueue` of the loss, `sigtimedwait`, timeout, report.
*Hard*: reading slots that are being overwritten; zeroed slots that look like
message 0; reports that arrive before the signals are blocked, merge, or come
late; failing `fork`.
*Correct if*: nothing is counted twice or from the future; a consumer leaves only
after everything was sent; the printed number never understates what was
received; all processes end.

### C. FIFO sequence-number service, `hw8/44-6`

*Parts*: `fifo_seqnum_server.c`, `fifo_seqnum_client.c`, `dos_client.c`.
*State*: the server's counter, the server FIFO and its content, one FIFO per
client.
*Operations*: request, open of the client's FIFO (which blocks, or fails),
answer, update of the counter, removal of the client's FIFO; kills and restarts.
*Hard*: who has which FIFO open when; a client that is gone between request and
answer; a restart that starts numbers again; overflow of the counter.
*Correct if*: clients get disjoint ranges; a request of a waiting client is not
given up; a request is answered.

### D. System V message-queue file server, `hw8/46-2`

*Parts*: `svmsg_file_server.c`, `svmsg_file_client.c`.
*State*: the server's queue (which outlives it), a queue per client, the children
of the server, zombies, pending SIGCHLD.
*Operations*: receive, fork, open, read and send chunk by chunk, end or failure
message, SIGCHLD and SIGINT handlers, client start, request, receive, removal.
*Hard*: unqueued SIGCHLD; full queues; SIGINT inherited by the children; queues
removed under their users; message types that `msgsnd` refuses.
*Correct if*: what a client gets is the beginning of the right answer, and all of
it once it sees the end; a waiting client is in somebody's hands; no zombie stays.

### E. POSIX message-queue file server, `hw9/52-3`

*Parts*: `pmsg_file_server.c`, `pmsg_file_client.c`.
*State*: queues, which have names and live on without them; the one name of the
server's queue and the one name `FOO_PATH` of all clients; the children; `resp` of each
client, which stays what it was when a receive fails.
*Operations*: create or find a queue, request, fork, send chunk by chunk, receive, remove a
name; the handlers of server, child and client.
*Hard*: clients that share a queue and take each other's chunks; everybody who ends
removes a name without knowing whose queue bears it now; an interrupted receive.
*Correct if*: every chunk reaches somebody once and in order; a name that stays has
a client that will remove it; a client that is alone gets its whole file.

### F. Signal ping-pong, `hw7/22-3`

*Parts*: `sig_speed_sigsuspend.c`, and `hook.c`, which replaces `sigsuspend` by
`sigwaitinfo`. *State*: two processes, masks, one pending signal each.
*Hard*: a signal sent before the other side waits; EINTR from `sigwaitinfo`.
*Correct if*: no signal is lost, the two stay in step, both end.

### G. System V signal API over POSIX, `hw7/22-4/systemv.c`

`sigset`, `sighold`, `sigrelse`, `sigpause` on top of `sigaction` and
`sigprocmask`. *State*: mask and disposition. *Correct if*: each behaves as the
System V call it replaces. `sigset` unblocks the whole current mask.

### H. Directory watcher, `hw6/1`

Two maps (watch descriptor to path and back), filled by a recursive walk and by
events of inotify. *Hard*: directories made or removed between walk and watch;
descriptors that are used again. *Correct if*: an event is reported under the
path it happened at.

### I. toupper over two pipes, `hw5/1`; J. popen, `hw5/2`

*Parts*: I `main.c`; J `popen.c`, `dict.cpp` (the map from streams to children), `driver.c`.
*State*: pipes with their contents and who has which end open; in J also the buffers of
streams, which `fork` copies.
*Operations*: read a block, write it, read the answer; `my_popen`, `fwrite`, `fread`, `my_pclose`.
*Hard*: writes that are torn; answers in pieces; ends that children inherit, and that keep
other readers from seeing an end of file; buffers that are written twice; a wait that is interrupted.
*Correct if*: the answers are printed in order, block by block; a command gets what was written
to its stream; `my_pclose` waits for its own command; all processes end.

### K. Reader and writer threads, `test/3`

A reader and a writer thread share one semaphore that they poll before they wait for it.
*Correct if*: a block is not overwritten before it is written out.

### L. Exclusive-open character device, `hw12`

*Parts*: `demo.c`, a kernel module, and `client.c`. *State*: `already_open`, the
message and its number, the module's reference count, open files.
*Operations*: `open`, `read`, `release`, load, removal in the kernel's steps.
*Hard*: opens that race each other, `release` that frees the flag before the
reference, removal between the call of `device_open` and `try_module_get`.
*Correct if*: one process at a time has the device and reads one message; the
count is the number of users; the module is not freed with a process in it.

### M. Dictionary servers, `hw11`

*Parts*: `usock_server.c`, `isock_server.c`, `udp_server.c`; the clients `main.c` with
`lookup7.c`, `lookup8.c`, `lookup9.c`; `lookup5.c`, the dictionary itself.
*State*: listening sockets and the path or port they are bound to, connections and what is on its
way in them, a child per connection; the client's `try_it.text`, which stays when a read fails.
*Operations*: start, accept, fork, look up, answer; datagram and answer; handlers of all; end of input.
*Hard*: end of stream is not `EOF`; resets and SIGPIPE; lost and late datagrams; a second
`unlink` of a path that is another server's by now; a dictionary as large as its mapping.
*Correct if*: a client prints with a word the answer to that word; clients end; the child
of a gone client ends.

### N. Shells, `hw2` and `hw4/part2`

*State*: the processes of each line, their descriptors, what is in the pipes.
*Operations*: read a line, builtins, fork, `pipe` and `dup2` from the right end of the
pipeline to the left, redirection, wait, background.
*Hard*: the shell knows only the last command; every process inherits the pipe ends of its
parent; `waitpid` also returns for a stop; `fork` and `pipe` fail halfway through a pipeline.
*Correct if*: a pipe has its two neighbours and nobody else; the prompt comes back after the last command,
with all output shown; all commands end.

### O. Process tree and listings, `hw3`

*Parts*: `part2.c` (pstree), `part1.c` (processes of a user), `part3.c` (open files).
*State*: the process table of the kernel, which changes while `/proc` is read; the table `P` with
its links and marks.
*Operations*: read an entry, `uid2user`, `MakeTree`, `MarkProcs`, `DropProcs`, `PrintTree`.
*Hard*: processes that exit, are adopted, or whose pid is used again between two reads; names with a
space, whose entries are wrong; pruning of links while they are followed; options that hide and cut.
*Correct if*: the parents in the table form no circle; what is printed is a tree that has every
process below the root that was asked for, once and under its ancestors. The root is process 1 unless
pids are given. Other processes may have no parent in the table (kernel threads and their parent, processes
that entered a container); pstree does not print them, and part1 and part3 list them like the others.

### Others

P: shared-memory copy (`hw9/49-1`, `test/2`). Q: support code of a textbook, copied
into five directories. R: small utilities (`hw1`, `hw4/part1`, `hw4/part3`,
`hw8/44-7`). S: `test/1/my_alarm.c`.

## 2. Plan

Order: first the systems in which several processes share state without a kernel
object that serialises them for them (A, B, L), then those where the order of kernel
calls matters (C, D, F), then the variations and the small ones.

| Step | Modules | State |
|---|---|---|
| 1 | `XfrStream`, `SvshmXfr` and proofs | done |
| 2 | `Broadcast` and proofs | done |
| 3 | `DemoDevice` and proofs | done |
| 4 | `FifoSeqnum` and proofs | done |
| 5 | `SvmsgFile` and proofs | done |
| 6 | `SigSpeed` and proofs | done |
| 7 | `PmsgFile` (E) and proofs: one queue name for all clients, unlink by the first that ends | done |
| 8 | `DictServer` (M) and proofs: fork per connection, `read` at end of file, lost datagrams | done |
| 9 | `Shells` (N) and `Pipes` (I, J) and proofs: pipe ends over fork, end of file, who waits for whom | done |
| 10 | `ProcessTree` (O) and proofs: reading under change, the tree against its definition by parents | done |
| 11 | `TwoThreads` (K), `SysvSignals` (G), `DirWatcher` (H) | planned, in this order |

Abstract specifications: `XfrStream` (done) for A. What the servers D, E and M promise is stated as
properties that relate what a client has received to what it asked for (`AnswerIsPrefix`,
`ChunksOnce`, `OwnAnswer`) instead of as a specification of its own.

Runs: one safety and liveness run per component; A has two, because its refinement takes fewer faults
than its safety.

Every safety property of the runs has a theorem (section 6); the liveness properties stay with TLC.

## 3. Modules and code

A *location* variable (`wpc`, `rpc`, `spc`, `cpc`, `pc`) says which system call or
shared-memory access a process does next; one action is one such access, with the
local statements that follow it. Faults are actions guarded by a set `Faults` and a
bound `MaxFaults` (in the modules that have several kinds), and `hurt` remembers the
kinds that struck, so that a property can say which of them it tolerates.

| Module | Models | State and actions |
|---|---|---|
| `XfrStream` | what A promises its user | `out` grows by the next block of the `input` of this `session`; `Close` only when all is out |
| `SvshmXfr` | `hw9/54-1` | Sets and segments are known by the session that made them, so a reader may hold an old one. `W...` actions are the writer's calls from line 46 to its clean-up, `R...` the reader's; `initSemInUse` etc. are `binary_sems.c`. `WSigint`, `WCleanup`, `RSigint` are the handlers. A block is `<<session, position>>`; blocks are full, and `bytes` counts them modulo `Wrap` |
| `Broadcast` | `hw10` | `slot` is `data_in` of the ring; `Scan` is one round of `read_message`'s loop, `SendMessage` and `SendFinal` one store each; `pending` has one place for each of the two signals, which is what becomes of a signal that is not a real-time one; `Collect`, `Timeout` and `AllCollected` are the rounds of `collect_child` |
| `DemoDevice` | `hw12/demo.c`, `client.c` | `Lookup` is the kernel finding the device, `EnterOpen` the call of `device_open`, then one action for each access to a shared word: `Cmpxchg`, `Sprintf`, `TryModuleGet`; `ReleaseFlag`, `ModulePut`, `Leave` for `device_release`. Removal is `Rmmod`, `DestroyNode`, `Unregister`, `FreeModule` |
| `FifoSeqnum` | `hw8/44-6` | `fifo` is the content of the server FIFO and is lost when its last holder leaves; `OpenBlocks`, `OpenFails`, `Connect` are the outcomes of line 71; `given` shadows the counter without overflow |
| `SvmsgFile` | `hw8/46-2` | Children are known by the client they serve. A file is the sequence of the signs of the first `int` of each chunk, because these bytes are the upper half of the message type (`Sendable`). A handler is entered only while SIGCHLD is pending and blocks the main program until `LeaveHandler` |
| `SigSpeed` | `hw7/22-3` | `hook` chooses the build; `Stopped` is a SIGSTOP with its SIGCONT, which only `sigwaitinfo` notices |
| `PmsgFile` | `hw9/52-3` | A queue is known by who made it, `sname` and `cname` are whose queue bears each name; a client's `got` is every content of `resp` that its loop has written, the zeroes at first included; `size` is the number of chunks of its file, and a message is `<<whose, type, chunk>>`. `CreateQueue`, `OpenQueue` are the two `mq_open` calls with what may happen between them |
| `DictServer` | `hw11`, all three versions (`proto`) | `ServerEnd(c)`, `ClientEnd(c)` say who still holds a connection; a `read` takes all that has come and uses the first word of it; `WriteAnswer` without a reader is SIGPIPE or a reset; `Text` is the dictionary with its empty record; `stdin` and `buffered` are for the client's handler, which closes descriptor 0 |
| `ProcessTree` | `hw3/part1.c`, `part2.c`, `part3.c` (`prog`) | The kernel's table (`alive`, `ppid`, `born`) is any forest (`Forest`) and changes by `Fork` and `Exit`, with process 1 or a subreaper among the ancestors as the new parent, while the program is in one of the `Reading` locations; `Mine` is what `/proc` lets the program see of other users; `slot` is the element of `P` that is being filled and is not cleared when an entry is skipped; one round of the loops over `me` is one step; `PrintTree` yields rows of pid and indentation |
| `Shells` | `hw4/part2` and `hw2` (`prog`) | A process is `<<line, place>>`, and the pipe to its right has the same name; `in`, `out`, `ends` are its descriptors. `MakePipe` to `BecomeWriter` are the rounds of `run_command`'s loop, right to left. What commands do is external: `source`, `filter`, `quit` and so on |
| `Pipes` | `hw5/1`, `hw5/2` (`prog`) | `rd`, `wr` are who has the ends of each pipe open, an item is a byte; `Write` is torn above `PipeBuf`. In the second part the user calls `my_popen`, `Fwrite`, `Fread`, `my_pclose` in any order, `copy` is what a child has in its copies of the streams that `drop` closes |
| `MC...` | instances for TLC | model values, symmetry, sets of files, sessions and options |
| `...Proofs` | theorems | section 6 |

Where one proof module is about several systems (`SharedMemoryProofs`, `SmallSystemsProofs`), their
modules are read together, so names they would share carry a prefix: `SigInit`, `SigNext`, `SigSpec` in `SigSpeed`,
`Seqnum...` in `FifoSeqnum`, `Dev...` in `DemoDevice`, `Ring...` in `Broadcast`; and the location is `at` in
`DemoDevice`, the number of messages sent `produced` in `Broadcast`.

A definition `Mut_X` stands before `X` and is never used. It is `X` with a mistake that a
programmer might make there, and is kept as evidence that the properties notice it:
with `X` replaced by `Mut_X` TLC finds the property named for it in `PROJECT.json` violated.

## 4. Runs

| Run | Question | Bounds, and why they are enough |
|---|---|---|
| `svshm_xfr` | `ImplementsStream`: does the protocol implement `XfrStream`? `TransferEnds`: do attached readers end, and does a served writer? | 2 readers, since a third can only do what the second does; inputs of 0 to 2 blocks, so that the first, a middle and the end-of-file transfer differ; 2 writer runs, so that readers of run 1 meet the set of run 2; one failing `read` or `write` |
| `svshm_signals` | `TurnsExclude`, `DeliveredInOrder`, `CleanUpIsComplete` with every kind of fault | The same, 2 faults, and `Wrap` = 2, so that the byte counter is 0 in the middle of an input. The readers are symmetric (no liveness here) |
| `broadcast` | `NothingCountedTwice`, `NoEarlyLeave`, `NeverUnderstated`, `EverybodyEnds`: what consumers count, when they leave, what the parent prints, who ends | All M ≤ 3, N ≤ 3, B ≤ 2, chosen in `Init`: more messages than slots, slots that are overwritten once and twice, more reports than signal numbers, so that reports merge; one failing `fork` |
| `demo_device` | `ExclusiveOpen`, `CountIsUsers` | 2 processes (the loser of `cmpxchg` leaves again, so a third adds no new kind of step), messages of 2 pieces, 3 opens per load, 2 loads: a process may sleep over a removal and a reload |
| `fifo_seqnum` | `RangesDisjoint`, `ClientServed` | 2 clients and a `dos_client`, ranges of 1 and 2 of 4 numbers, so that the counter overflows; one client killed, the server killed and restarted once |
| `svmsg_file` | `AnswerIsPrefix`, `Accounted`, `ClientsFinish`, `ZombiesReaped` | 2 clients, so that two children can end at once; a file that does not exist, an empty one, one longer than a queue, one with a chunk that cannot be sent; queues of 1, so that they are full; 2 starts of the server; one fault of any of five kinds |
| `sig_speed` | `InStep`, `BothEnd` | both builds, 5 rounds, 2 interrupted waits |
| `process_tree` | `ParentsOlder`, `EndsWell`, `RowsAreBranches`, `OutputIsTrue` | Every forest on up to 4 pids, which has chains of four, sisters and both together, also beside process 1, as kernel threads are; 2 events, since a pid that is used again takes an exit and a fork; `NUMUN` = 1, so that a second user is not remembered and a remembered name is cut; each option by itself and those combinations that hide or cut at different places; with no name with a space, with a space in the name of process 1 or of process 2, and `hidepid` |
| `dict_server` | `TypeOK`, `OwnAnswer`, `ChildrenEnd`, `ClientsEnd` | 2 clients, one with a word that is there and one that is not, the other with an empty line; a dictionary that fits and one that fills its mapping of 3 records; a backlog of 1, so that it is full; 2 servers, so that one may be started while the other cleans up; one fault of any of six kinds |
| `pmsg_file` | `ChunksOnce`, `NameIsUsed`, `AloneIsServed` | 2 clients that share the name; no file, and one of 2 chunks with queues of 1 message, so that a child waits for room; 2 servers, also at the same time; one fault of any of six kinds |
| `shells` | `TypeOK`, `Plumbing`, `PromptAfterCommand`, `Delivered`, `PipelinesEnd` | 22 sessions: pipelines of 3 and 4 commands with every kind of command in some place, and two lines of which the first runs in the background; 2 items over pipes of 1, so that writers wait; 2 faults, so that a `fork` fails while another command is stopped |
| `pipes` | `TypeOK`, `BlockByBlock`, `StreamsCarry`, `PcloseWaits`, `EveryoneEnds` | Pages of 2 and of 3 items with `PIPE_BUF` 2, so that a write is whole and is torn; 3 items, so that a block is followed by another; 2 streams of all four kinds, opened, used and closed in any order; stream buffers and pipes of 2, so that both are full; one fault of any of four kinds |

What the passing runs show beyond "no error":

* A second reader is not foreseen by the comments of A but does no harm: blocks are
  shared out, none is lost, and the second reader ends because the set goes away
  (`TransferEnds`). A `write` error inside a turn leaves everybody waiting, but never
  wrong output.
* In B the ring needs no lock for what is claimed of it: whatever overwriting goes on
  under a scan, counts increase and end at the right place. The only message a
  consumer can take before it was sent is the zeroed number 0.
* In C a killed client costs its number range only; ranges given out later are still
  disjoint.
* In D a client whose file can be transmitted is never forgotten while only clients are
  killed: the child that waits for room in the queue of a killed client waits for ever,
  but no other client notices.

* In E the shared name loses nothing: two clients get a mixture of two files, but every chunk is
  received by exactly one of them, none before its predecessor, and each client's share is in order. A client that is
  alone is served even if it finds the queue of an earlier one.
* In M clients and children come to an end although the server takes the end of a stream for a
  word. A client gets out of step with its answers only after a read that was interrupted while more words waited in its buffer.
* In N the wiring is right at every length: once a command runs, its pipe has its two neighbours and no
  third, except for the neighbour's neighbour that was just forked and replaces its end at its next step.
* In O the table has no circle although it is no snapshot: entries are read from the last to the first,
  a parent is older than its child, and process 1, which adopts, is older than all. The tree that is printed is right
  for any table without circles and any options, wherever the table comes from.
* In J two streams at once work because a child closes its copies of the earlier ones; what it pays for
  this is that unwritten buffers are written by it, too (section 7).

## 5. Fairness and deadlock

Weak fairness is the only fairness there is. In A to D and F it is assumed for the steps of each running process
(`Writer`, `Reader(r)`, `Parent`, `Server`, `Child(c)`, ...): the scheduler runs every runnable process.
In `DictServer`, `PmsgFile`, `Shells` and `Pipes` it is assumed of `System`, all that processes do of themselves, as one
action: some process that can run does run. This is a weaker assumption, and enough there, because
no process of these systems runs for ever without waiting: whatever is left undone is reached once the others have
ended or wait. Fairness is never assumed for starting a process, for faults, signals or kills, for waking a stopped
process, or for the administrator of the module. A process that waits for a kernel object has no enabled step, so
fairness says nothing of who gets a semaphore; no liveness property here depends on it. `DemoDevice` and
`ProcessTree` have no liveness property: the first is driven by its users, and that the programs of the second come to
an end, in whatever way, follows from loops over tables that do not grow, so the question is `EndsWell`.

`CHECK_DEADLOCK FALSE` is in every configuration, because these systems do stop: all
programs end (B, C, D, F, I, J, M, N, O), the bounds on starts and loads are used up (A, E, L, M), and
some faults leave everybody waiting (A after a failed `write`, C after `dos_client`, D after
a lost request, E when two clients have one queue, M after a lost datagram). Waiting that is not meant is the
business of the liveness properties.

## 6. Proofs

All theorems hold for every value of the constants that satisfies the named
assumption of the module (`XfrAssumption` and so on, which only say that bounds are natural
numbers, sets of faults are known kinds, and a modulus is not 0). Each proof has the same
shape: an inductive invariant `IInv` that includes `TypeOK`, a lemma for
`Init => IInv`, lemmas that each step keeps each conjunct, and one that concludes
`Spec => []IInv`. The properties the runs check then follow from `IInv`.

Two assumptions say a little more than that, because the program does: in `DictServer` no client is
the mark for nobody, and in `Shells` there is a longest one among the sessions that may be typed (an unbounded
set of sessions would need an unbounded number of processes in the model; any one session is finite).

| Module | Theorems | Why the invariant has to be stronger |
|---|---|---|
| `SharedMemoryProofs`: `SvshmXfr` | `TypeCorrect`, `Exclusion`, `InOrderDelivery`, `SetOutlivesTurn`, `CompleteDelivery`, `StreamRefinement` | Exclusion needs the place of the one turn: `TurnInv` says that it is in WRITE_SEM, in READ_SEM, at the writer or at one reader whose set exists, by the writer's location. Order needs `DataInv`: what is in the segment at each place of the turn. `AttachInv` says that a reader of the current set maps the current segment, `ObjectsInv` which objects exist when, `CountInv` relates the counters to the input. Outside `TypeOK` and `MappedInv` all is under the condition that no SIGINT handler has run |
| `SharedMemoryProofs`: `Broadcast` | `RingTypeCorrect`, `CountsOnce`, `CountsWhatWasSent`, `StaysToTheEnd`, `KilledLate`, `LossNotOverstated` | `RingInv`: slots hold sent numbers or 0, and -1 only after the end; `FamilyInv`: who exists when. `NeverUnderstated` compares a number the parent prints with a sum over all consumers: `ReportInv` says that what the parent has subtracted so far is the sum of what is missing in the reports it has collected; that a sum grows by what one term grows by is proved by induction on the number of terms |
| `SmallSystemsProofs`: `DemoDevice` | `DevTypeCorrect`, `OneHolder`, `OneMessage`, `FreshNumbers`, `ExactCount` | `FlagInv`: the flag is up while anybody has the device, and it is one process; `LoadInv`: a module that was freed without harm has nobody in it, so fresh variables are safe; `MsgInv`, `NumberInv`; `UsersInv`: the users are a finite set, so that their number changes by one |
| `SmallSystemsProofs`: `FifoSeqnum` | `SeqnumTypeCorrect`, `WaitersLinked`, `UniqueRanges` | `OnceInv`: a client is answered at most once; `LinkInv`: it has its FIFO from before its request to after its answer; `CounterInv` and `BelowInv`: what was given lies below `given`, which is the counter while it has not overflowed; `ApartInv`: pairs of given ranges |
| `SmallSystemsProofs`: `SigSpeed` | `SigTypeCorrect`, `NoLoss`, `StayInStep` | `TokenInv`: the one signal is with the child, pending for the parent, with the parent or pending for the child; `RoundsInv` |
| `SvmsgFileProofs` | `TypeCorrect`, `AnswersInOrder`, `NobodyForgotten` | `OnceInv`: a client has one request and it gets one child; `QueueInv`: when a client's queue exists and how full it is; `ChildInv` and `SentInv`: the messages sent, received or not, are as many as the chunks read and written, and a child ends early only after a chunk that cannot be sent; `PrefixInv`: received and queued messages together are the beginning of the answer; `ServerInv`: while only clients are killed, the server's id is that of the existing queue |
| `PmsgFileProofs` | `TypeCorrect`, `ChunksReceivedOnce`, `NameHasUser` | `OnceInv`: a client has one request, in one queue or with one server, or one child; `ChildInv`: where a child is and what it has open. `ChunksOnce` speaks of what was received, but a chunk can be broken while it is still queued: `DataInv` says, of received chunks, queued chunks and what the child has sent, that each number up to `pos` is in exactly one place and that lower numbers were received, or are ahead in the same queue, before higher ones. It is under the condition that no SIGCHLD reached a client. `NameIsUsed` is inductive by itself, given the types |
| `DictServerProofs` | `TypeCorrect`, `AnswersMatch` | `FlightInv`: whatever is in a connection, either way, was sent by this client or answers what it sent; `InStep`: as long as no `read` was interrupted there is at most one thing in it, for the word the client waits on, so the next text is that word's answer; `StdinInv`: an interrupted client has closed its descriptor 0, so it goes on only with buffered words; `UdpInv`: a late datagram does not reach the socket of the next word |
| `ShellsProofs` | `TypeCorrect`, `NoEndIsKept`, `PromptWaits`, `AllDelivered` | `TreeInv`: which processes of a pipeline exist; `DescInv`: the descriptors of a process at each place of `run_command`, from which who has an end of which pipe follows; `WaitInv`: the last command of a line is reaped or waited for. `AllDelivered` needs books: `BooksInv` says there is a number `w[p]` for each command, what it has written, such that the next one has read it, or it is in the pipe, and who has ended has written all. A command that copies ends when nobody can write to it any more, and by `DescInv` that is when its left neighbour has ended. `ForkInv`: with no failed `fork`, there is always a left neighbour |
| `PipesProofs` | `TypeCorrect`, `AnsweredInOrder`, `StreamsKeepOrder`, `WaitsForItsOwn` | Part 1: `OrderInv` says that what was printed, pipe 2, the child's block, pipe 1 and the parent's block together are the input, in order and with capitals from the child on; `BlockInv` that, with whole writes and both processes there, the block is in one of these places only. Part 2: `EndsInv` says who has the ends of each pipe (the program, the command, and children that have not come so far to close their copies), `CopyInv` what is in those copies. From these, `WriteInv`: what was written to a stream is with the command, in the pipe or in the buffer, in order, and a command that has read to the end leaves nothing; `ReadInv`: what a command wrote is printed, in the page or in the pipe, until the last page. `WaitInv`: each stream is open with its own command, being opened or closed, or its command is waited for; `StreamInv`: what is true of a stream by its mode |
| `ProcessTreeProofs` | `TypeCorrect`, `ParentsAreOlder`, `ProgramsEndWell`, `TreeInvariance`, `RowsAreRight`, `OutputInvariance`, `OutputIsRight` | `FamilyInv`: the parent of a process that is alive, if it has one, is alive and older, which adoption and pids that are used again keep (whoever adopts is an ancestor, and `EldersAreOlder`); `TableInv`: what was true of an entry, of a name without a space, when it was read stays true of its times of birth as long as no pid is given out twice, even after the processes are gone; it holds of the slot that is being filled, too, because a slot that is skipped keeps a parent. `ProgramsEndWell`: `PlaceInv`: where each program can be; `FirstInv`: process 1 is among the names, in the slot or in the table from the first entry on, so the root is found; `LinkInv`: a link to a parent is to the element with the parent's pid, which is older, so that a loop over the parents that makes as many rounds as there are elements would have met one of them twice (pigeonhole), older than itself. `RowsAreRight`: `ShapeInv`: no pid is in the table twice, `child` and `sister` give the children of an element in order, and those that are marked as far as `DropProcs` has come; `MarkInv`: with an element its parent is marked, and `out` is what the equation of `PrintTree` gives. That this equation has a solution is shown by induction on the steps that are left; that the rows it gives are in their places, by induction from the last sister and the deepest child upward, over the elements whose chain of parents ends; the others, in circles, are not below the root, which has no parent. `OutputIsRight`: `LastInv`: process 1 lasts, and while nothing happens everything does; `ReadInv`: a process that lasts is at every moment among the names, in the slot or in the table, and its entry has its present parent if it was not adopted and its name has no space, so that where a whole line of descent lasts, the line in the table is that descent (`SteadyLine`), whatever has become of other entries; `ExactInv`: marked are exactly the elements in line with one that the options want, for which `MarkChildren` has to mark all that is below an element and nothing else (`MarksBelow`); `ListInv`: what part1 and part3 have shown up to the cursor |

`StreamRefinement` is the refinement that `svshm_xfr` checks: initial states map to initial
states, every step to a step of `XfrStream` or a stutter. It assumes that neither SIGINT is among `Faults`.

Some theorems are about properties that no run checks any more: the type invariants, except those of
`DictServer`, `Shells` and `Pipes`, which say more than types; and
`NoTurnOnRemovedSet`, `NothingFromTheFuture`, `KilledAfterFork`, `OneMessagePerOpen`, `NumbersDiffer`,
`NotGivenUpOn` and `NothingLost`. All other safety properties with a theorem
are also checked, on the instances of section 4.

The library's induction theorems take an operator and cannot be used with the installed provers. Where a number
of terms has to be gone through (the sum of B), induction is over a *set* of numbers instead: `SetInduction`
says that a set that has 0, and with each number the next, has all, which follows from the
well-foundedness of the natural numbers. The function that the sum is defined by, and those that follow the parents, mark the children and print the tree in O, are shown to
exist in the same way (tlapm has no functions of several arguments, so the rows of `PrintTree` are a function of the depth that gives functions).

Only model-checked: all liveness (`TransferEnds`, `EverybodyEnds`, `ClientServed`, `ClientsFinish`, `ZombiesReaped`,
`BothEnd`, `AloneIsServed`, `ChildrenEnd`, `ClientsEnd`, `PipelinesEnd`, `EveryoneEnds`), which is out of reach of the
prover with fairness and ENABLED. The modules with theorems have no RECURSIVE operator.

## 7. Disagreements and faults in the code

The modules have the code as it is. Where that is not what a comment says or what a user would expect, a
property names the condition under which it holds, and this is what lies outside:

* `svshm_xfr_reader.c:25` and `svshm_xfr_writer.c:41`: the SIGINT handlers release
  WRITE_SEM whether or not the process has the turn, against "exclusive, alternating access" of
  `svshm_xfr_writer.c:16`.
* `hw10/main.c:41`: the timeout of the collection is 0 for one consumer, so the number printed
  at line 136 is not "Sum of received messages by all consumers".
* `hw12/demo.c:87`: `try_module_get` inside `device_open` is too late for what the comment of line 83
  wants, as `demo_fops` has no owner.
* `fifo_seqnum_server.c:71`: the `open` blocks, so the check that lines 79 to 81 describe for an
  application that "did not open the fifo pipe" is not reached.
* `svmsg_file_server.c:70`: the END message is not sent when the last chunk in the buffer begins with
  zeroes, or with a negative `int`, or when the file is empty; the client waits for ever. The
  client's comment at line 61 looks for the reason in glibc.
* `pmsg_file_client.c:21`: one queue name for all clients. A client that is told that its file cannot be opened leaves the
  name behind (line 61); every other end, of clients and of servers, removes a name that may be that of another's queue.
  The first round of `proc_resp` writes a block of zeroes.
* `hw3/part2.c:152`: a space in the name of a process ends `fscanf`, so its parent is 0 or what the slot had.
  Only such entries can close a circle (`ParentsOlder`), and no other process is lost by it as long as none of its
  ancestors has a space in its name (`OutputIsTrue`). If it is process 1, that may make a circle through the root,
  which is printed again and again down to the last level (`RowsAreBranches` leaves this out).
  The usage text of lines 415 and 416 says that the pid 0 on the command line "also show[s] kernel processes": no
  element of the table has pid 0, so `get_pid_index` finds none and nothing is printed for it (`PrintAll`; the
  run has such a command line).
  `uid2user` gives a name in full the first time and 8 characters of it later, so `-u` misses processes
  (line 307). `-f` never works, against the usage text of line 401: the stream is not opened unless it is `-`,
  and the test of `realloc` at line 203 is the wrong way round. With `hidepid`, no root is found and `P[-1]` is used.
* `hw3/part1.c:48`: a process that is gone between `readdir` and `fopen` makes the program crash.
* `usock_server.c:30`: the end of the stream is not `EOF`; a child ends by SIGPIPE when it answers the empty
  word. Line 23: a handler and the end of `main` both unlink the path, the second time possibly a new server's.
  `lookup5.c:45`: a dictionary that fills its mapping is read past its end. The children become zombies.
* `hw11/part1/main.c:22`: the client's handler closes `clientId`, which nobody sets: descriptor 0.
* `hw4/part2/shell.c:10`: the end of the input is taken for an empty line, for ever. A line of bars alone crashes.
  A failed `fork` makes the shell wait for any child.
* `hw5/2/popen.c:22`: `drop()` closes with `fclose`, so what was in a buffer is written by the child and by the parent. Line 50: after EINTR,
  and after a failed `fork`, `waitpid(-1)` takes any child. `driver.c` prints a whole page whatever `fread`
  returned. `hw5/1/main.c`: above `PIPE_BUF` an answer may come in two pieces, and the last one is not printed.

## 8. What is not modelled

Planned: G, H, K (section 2). Not planned: P, which is a sequential copy; Q, which is vendored; R and S, which
read input and print. In the modelled components: failing
`malloc`, `mmap`, `shmget`, `sigaction`, `pipe` (outside the shells) and the like, which end the program with a message or lead to
descriptors that were never set; usage errors; the text of messages and the layout of reports; permissions; builtins of
the shells other than `echo` and `exit`, of which `cd` and the rest change nothing that another command's pipe or
process depends on. The reaping of children is modelled in D and left out in E, where it is the same code. The
memory model is sequentially consistent: the shared words of A are protected by
semaphores, those of L are atomics, and in B each slot is one aligned word and
the properties do not depend on the order in which other words become visible.

## 9. Running

    tlc -workers 2 -config svshm_xfr.cfg MCSvshmXfr     # any run: see PROJECT.json
    tlapm PipesProofs.tla                               # any ...Proofs module

`PROJECT.json` lists components, runs, mutants, the source lines of each definition,
hazards and theorems.
