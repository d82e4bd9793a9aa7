----------------------------- MODULE Broadcast -----------------------------
(***************************************************************************)
(* hw10: a producer process broadcasts numbered messages through a ring of *)
(* slots in shared memory; consumer processes scan the ring without any    *)
(* synchronisation and report how many messages they missed to the parent  *)
(* with a signal that carries the number.                                  *)
(*                                                                         *)
(* The command line (M messages, N consumers, B slots) is chosen in Init.  *)
(* The delay R between messages is the freedom of the scheduler, and the   *)
(* text in a slot, which no consumer looks at, is left out.                *)
(***************************************************************************)
EXTENDS Naturals, Integers

CONSTANTS
    MaxMessages,    \* bound on M
    MaxConsumers,   \* bound on N
    MaxSlots,       \* bound on B
    ForkFailures    \* bound: how many of the parent's fork() calls fail

ASSUME BroadcastAssumption ==
    /\ MaxMessages \in Nat
    /\ MaxConsumers \in Nat
    /\ MaxSlots \in Nat \ {0}
    /\ ForkFailures \in Nat

WorkIds == 0..(MaxConsumers - 1)
AVA_SIG == {"SIGUSR1", "SIGUSR2"}
None    == -1

VARIABLES
    data_num, consumer_num, buffer_num,     \* the command line
    slot,       \* data_in of every slot of the ring
    ppc,        \* where the producer is
    produced,   \* messages it has put into the ring
    cpc,        \* where each consumer is
    pos,        \* the slot each consumer looks at next
    prev,       \* the last message it counted
    counter,    \* how many it counted
    mpc,        \* where the parent is
    n,          \* consumers it has still to fork
    pending,    \* the consumer whose signal is pending, per signal
    i,          \* reports it has taken
    collected,  \* the consumers they came from
    failed_sum, \* the parent's sum of missed messages
    failures    \* fork() calls that failed

argv  == <<data_num, consumer_num, buffer_num>>
pvars == <<ppc, produced, slot>>
cvars == <<pos, prev, counter>>
mvars == <<mpc, n, i, collected, failed_sum, failures>>
ringvars == <<argv, pvars, cpc, cvars, mvars, pending>>

Slots == 0..(buffer_num - 1)

(* memset leaves 0 in every slot, which is also the number of the first     *)
(* message.                                                                 *)
RingInit ==
    /\ data_num \in 0..MaxMessages
    /\ consumer_num \in 0..MaxConsumers
    /\ buffer_num \in 1..MaxSlots
    /\ slot = [s \in 0..(MaxSlots - 1) |-> 0]
    /\ ppc = "unborn" /\ produced = 0
    /\ cpc = [c \in WorkIds |-> "unborn"]
    /\ pos = [c \in WorkIds |-> 0]
    /\ prev = [c \in WorkIds |-> -1]
    /\ counter = [c \in WorkIds |-> 0]
    /\ mpc = "fork" /\ n = consumer_num
    /\ pending = [s \in AVA_SIG |-> None]
    /\ i = 0 /\ collected = {} /\ failed_sum = 0 /\ failures = 0

(***************************************************************************)
(* The parent.                                                             *)
(***************************************************************************)

(* fork() may fail; the parent takes its -1 for the number of a child.      *)
ForkConsumer ==
    /\ mpc = "fork"
    /\ n > 0
    /\ n' = n - 1
    /\ \/ cpc' = [cpc EXCEPT ![n - 1] = "run"] /\ UNCHANGED failures
       \/ /\ failures < ForkFailures
          /\ failures' = failures + 1
          /\ cpc' = [cpc EXCEPT ![n - 1] = "failed"]
    /\ UNCHANGED <<argv, pvars, cvars, mpc, i, collected, failed_sum, pending>>

ForkProducer ==
    /\ mpc = "fork"
    /\ n = 0
    /\ \/ ppc' = "run" /\ UNCHANGED failures
       \/ /\ failures < ForkFailures
          /\ failures' = failures + 1
          /\ ppc' = "failed"
    /\ mpc' = "mask"
    /\ UNCHANGED <<argv, produced, slot, cpc, cvars, n, i, collected, failed_sum, pending>>

(* sigprocmask(SIG_BLOCK): only now does a report not kill the parent. *)
BlockSignals ==
    /\ mpc = "mask"
    /\ mpc' = "collect"
    /\ UNCHANGED <<argv, pvars, cpc, cvars, n, i, collected, failed_sum, failures, pending>>

(* What consumer c returns: data_num - counter. *)
Missed(c) == data_num - counter[c]

(* Mutant: a report is looked at but stays pending. *)
Mut_Collect(s) ==
    /\ mpc = "collect"
    /\ i < consumer_num
    /\ pending[s] # None
    /\ i' = i + 1
    /\ failed_sum' = failed_sum + Missed(pending[s])
    /\ collected' = collected \cup {pending[s]}
    /\ UNCHANGED <<argv, pvars, cpc, cvars, mpc, n, failures, pending>>

(* sigtimedwait takes the pending signal with the lower number. *)
Collect(s) ==
    /\ mpc = "collect"
    /\ i < consumer_num
    /\ pending[s] # None
    /\ s = "SIGUSR2" => pending["SIGUSR1"] = None
    /\ i' = i + 1
    /\ failed_sum' = failed_sum + Missed(pending[s])
    /\ collected' = collected \cup {pending[s]}
    /\ pending' = [pending EXCEPT ![s] = None]
    /\ UNCHANGED <<argv, pvars, cpc, cvars, mpc, n, failures>>

(* EAGAIN: nothing pending within the timeout, which is whole seconds and   *)
(* often 0.  The parent gives up on all the reports still to come.          *)
Timeout ==
    /\ mpc = "collect"
    /\ i < consumer_num
    /\ \A s \in AVA_SIG : pending[s] = None
    /\ mpc' = "report"
    /\ UNCHANGED <<argv, pvars, cpc, cvars, n, i, collected, failed_sum, failures, pending>>

AllCollected ==
    /\ mpc = "collect"
    /\ i = consumer_num
    /\ mpc' = "report"
    /\ UNCHANGED <<argv, pvars, cpc, cvars, n, i, collected, failed_sum, failures, pending>>

(* shm_unlink, munmap, the statistics, and exit. *)
PrintResult ==
    /\ mpc = "report"
    /\ mpc' = "exited"
    /\ UNCHANGED <<argv, pvars, cpc, cvars, n, i, collected, failed_sum, failures, pending>>

(***************************************************************************)
(* The producer.                                                           *)
(***************************************************************************)
write_msg(s, v) == slot' = [slot EXCEPT ![s] = v]

SendMessage ==
    /\ ppc = "run"
    /\ produced < data_num
    /\ write_msg(produced % buffer_num, produced)
    /\ produced' = produced + 1
    /\ UNCHANGED <<argv, ppc, cpc, cvars, mvars, pending>>

(* Mutant: there is no final chunk. *)
Mut_SendFinal ==
    /\ ppc = "run"
    /\ produced = data_num
    /\ ppc' = "exited"
    /\ UNCHANGED <<argv, produced, slot, cpc, cvars, mvars, pending>>

(* The "final chunk", -1, goes into the slot after the last message. *)
SendFinal ==
    /\ ppc = "run"
    /\ produced = data_num
    /\ write_msg(data_num % buffer_num, -1)
    /\ ppc' = "exited"
    /\ UNCHANGED <<argv, produced, cpc, cvars, mvars, pending>>

(***************************************************************************)
(* A consumer c.                                                           *)
(***************************************************************************)

(* The loop with a given test for a new message, test for the end and wrap. *)
ScanWith(c, new, end, last) ==
    /\ cpc[c] = "run"
    /\ IF new
       THEN /\ counter' = [counter EXCEPT ![c] = @ + 1]
            /\ prev' = [prev EXCEPT ![c] = slot[pos[c]]]
       ELSE UNCHANGED <<counter, prev>>
    /\ IF end
       THEN cpc' = [cpc EXCEPT ![c] = "send"] /\ UNCHANGED pos
       ELSE /\ pos' = [pos EXCEPT ![c] = IF @ = last THEN 0 ELSE @ + 1]
            /\ UNCHANGED cpc
    /\ UNCHANGED <<argv, pvars, mvars, pending>>

(* Mutants: a new message is one that differs; a consumer that meets an old *)
(* message leaves.                                                          *)
Mut_ScanDiffers(c) ==
    ScanWith(c, slot[pos[c]] \notin {prev[c], -1}, slot[pos[c]] = -1, buffer_num - 1)

Mut_ScanLeaves(c) ==
    ScanWith(c, slot[pos[c]] > prev[c], slot[pos[c]] <= prev[c], buffer_num - 1)

(* One turn of the loop: one atomic load, and what follows from it. *)
Scan(c) ==
    ScanWith(c, slot[pos[c]] > prev[c], slot[pos[c]] = -1, buffer_num - 1)

SigOf(c) == IF c % 2 = 0 THEN "SIGUSR1" ELSE "SIGUSR2"

(* sigqueue to the parent, then exit.  Not yet blocked, the signal kills    *)
(* the parent; already pending, a standard signal is dropped; and a parent  *)
(* that is gone has been replaced by a process that is not concerned.       *)
Report(c) ==
    /\ cpc[c] = "send"
    /\ cpc' = [cpc EXCEPT ![c] = "exited"]
    /\ mpc' = IF mpc \in {"fork", "mask"} THEN "killed" ELSE mpc
    /\ pending' = IF mpc \in {"collect", "report"} /\ pending[SigOf(c)] = None
                  THEN [pending EXCEPT ![SigOf(c)] = c]
                  ELSE pending
    /\ UNCHANGED <<argv, pvars, cvars, n, i, collected, failed_sum, failures>>

(***************************************************************************)
(* The system.                                                             *)
(***************************************************************************)
Parent ==
    \/ ForkConsumer \/ ForkProducer \/ BlockSignals
    \/ \E s \in AVA_SIG : Collect(s)
    \/ Timeout \/ AllCollected \/ PrintResult

Producer == SendMessage \/ SendFinal

Consumer(c) == Scan(c) \/ Report(c)

RingNext == Parent \/ Producer \/ \E c \in WorkIds : Consumer(c)

RingSpec == RingInit /\ [][RingNext]_ringvars

(* The scheduler runs every process; no lock or wait can starve one. *)
RingFairSpec ==
    /\ RingSpec
    /\ WF_ringvars(Parent) /\ WF_ringvars(Producer)
    /\ \A c \in WorkIds : WF_ringvars(Consumer(c))

(***************************************************************************)
(* Properties.                                                             *)
(***************************************************************************)
RingTypeOK ==
    /\ data_num \in 0..MaxMessages
    /\ consumer_num \in 0..MaxConsumers
    /\ buffer_num \in 1..MaxSlots
    /\ slot \in [0..(MaxSlots - 1) -> -1..MaxMessages]
    /\ ppc \in {"unborn", "failed", "run", "exited"}
    /\ produced \in 0..data_num
    /\ cpc \in [WorkIds -> {"unborn", "failed", "run", "send", "exited"}]
    /\ pos \in [WorkIds -> Slots]
    /\ prev \in [WorkIds -> -1..MaxMessages]
    /\ counter \in [WorkIds -> Nat]
    /\ mpc \in {"fork", "mask", "collect", "report", "exited", "killed"}
    /\ n \in 0..consumer_num
    /\ pending \in [AVA_SIG -> WorkIds \cup {None}]
    /\ i \in 0..consumer_num
    /\ collected \subseteq WorkIds
    /\ failed_sum \in Int
    /\ failures \in 0..ForkFailures

(* However the unsynchronised scans and the producer's overwriting          *)
(* interleave, no consumer counts a message twice or counts more messages   *)
(* than there are: it never reports a negative loss.  With M = 0 it counts  *)
(* the 0 that memset left.                                                  *)
NothingCountedTwice ==
    \A c \in WorkIds :
        /\ counter[c] <= prev[c] + 1
        /\ data_num > 0 => Missed(c) >= 0

(* A consumer never gets ahead of the producer, apart from the zero-filled  *)
(* slots, which it takes for message 0.                                     *)
NothingFromTheFuture ==
    \A c \in WorkIds : prev[c] < produced \/ prev[c] <= 0

(* A consumer leaves its loop only after the producer has sent everything,  *)
(* so what it reports as missed it will never be able to see again.         *)
NoEarlyLeave ==
    \A c \in WorkIds : cpc[c] \in {"send", "exited"} => ppc = "exited" /\ produced = data_num

(* A report kills a parent that has not blocked the signals yet, but never  *)
(* before the producer exists: the family of processes still ends.          *)
KilledAfterFork == mpc = "killed" => ppc = "exited" /\ n = 0

(* The number printed as received is never below the number of messages the *)
(* consumers counted: a report that is dropped, late, or never sent because *)
(* fork() failed only makes the printed loss smaller (for M > 0).           *)
PrintedReceived == data_num * consumer_num - failed_sum

(* What the first k consumers have counted. *)
Received[k \in 0..MaxConsumers] ==
    IF k = 0 THEN 0 ELSE Received[k - 1] + counter[k - 1]

NeverUnderstated ==
    mpc = "exited" /\ data_num > 0 => PrintedReceived >= Received[consumer_num]

(* Every consumer that was forked leaves its busy loop and every parent     *)
(* ends, unless the fork of the producer failed.                            *)
EverybodyEnds ==
    ppc = "run" ~>
        /\ mpc \in {"exited", "killed"}
        /\ \A c \in WorkIds : cpc[c] \notin {"run", "send"}
=============================================================================
