----------------------------- MODULE DemoDevice -----------------------------
(***************************************************************************)
(* hw12/demo.c: a character device that one process at a time may open.    *)
(* Every successful open prepares a new message, which reads of the file   *)
(* return piece by piece.  Modelled: processes that open, read and close   *)
(* the device concurrently, and the module being loaded and removed while  *)
(* they do.  device_write only returns -EINVAL and has no action.          *)
(*                                                                         *)
(* demo_fops names no .owner, so the kernel takes no reference for a file  *)
(* of the device: the reference count is the driver's own.                 *)
(***************************************************************************)
EXTENDS Naturals, FiniteSets

CONSTANTS
    Procs,      \* processes that use the device
    MsgLen,     \* the length of a message, in pieces
    MaxOpens,   \* bound: successful opens per load of the module
    MaxLoads    \* bound: loads of the module

ASSUME DemoAssumption ==
    /\ MsgLen \in Nat \ {0}
    /\ MaxOpens \in Nat
    /\ MaxLoads \in Nat

VARIABLES
    module,         \* "absent", "live", "going", or "unregistered" but loaded
    loads,          \* how often it was loaded
    node,           \* /dev/demo exists
    refcnt,         \* the module's reference count
    already_open,   \* the driver's flag
    counter,        \* messages prepared in this load
    msg,            \* the message in the buffer, known by its number
    at,             \* where each process is
    offset,         \* the offset in each process's open file
    told,           \* <<load, number>> of the message its last open prepared
    seen,           \* messages it has read pieces of since that open
    oops            \* the module was freed with a process in it

mvars == <<module, loads, node>>
fvars == <<offset, told, seen>>
devvars == <<mvars, refcnt, already_open, counter, msg, at, fvars, oops>>

(* Locations inside the module's code. *)
InCode == {"cmpxchg", "sprintf", "get", "set", "put", "leaving"}

DevInit ==
    /\ module = "absent" /\ loads = 0 /\ node = FALSE
    /\ refcnt = 0 /\ already_open = 0 /\ counter = 0 /\ msg = 0
    /\ at = [p \in Procs |-> "idle"]
    /\ offset = [p \in Procs |-> 0]
    /\ told = [p \in Procs |-> <<0, 0>>]
    /\ seen = [p \in Procs |-> {}]
    /\ oops = FALSE

(***************************************************************************)
(* Loading and removing the module.                                        *)
(***************************************************************************)

(* insmod runs demo_init: all static variables are fresh.  A failure of     *)
(* class_create or device_create goes unnoticed and leaves no node.         *)
demo_init ==
    /\ ~oops
    /\ module = "absent"
    /\ loads < MaxLoads
    /\ loads' = loads + 1
    /\ module' = "live"
    /\ node' \in BOOLEAN
    /\ refcnt' = 0 /\ already_open' = 0 /\ counter' = 0 /\ msg' = 0
    /\ UNCHANGED <<at, fvars, oops>>

(* rmmod refuses a module that is referenced, and from now on no reference  *)
(* can be taken.                                                            *)
Rmmod ==
    /\ ~oops
    /\ module = "live"
    /\ refcnt = 0
    /\ module' = "going"
    /\ UNCHANGED <<loads, node, refcnt, already_open, counter, msg, at, fvars, oops>>

DestroyNode ==
    /\ ~oops
    /\ module = "going"
    /\ node
    /\ node' = FALSE
    /\ UNCHANGED <<module, loads, refcnt, already_open, counter, msg, at, fvars, oops>>

Unregister ==
    /\ ~oops
    /\ module = "going"
    /\ ~node
    /\ module' = "unregistered"
    /\ UNCHANGED <<loads, node, refcnt, already_open, counter, msg, at, fvars, oops>>

(* The kernel frees the module's code and data. *)
FreeModule ==
    /\ ~oops
    /\ module = "unregistered"
    /\ module' = "absent"
    /\ oops' = \E p \in Procs : at[p] \in InCode \cup {"open"}
    /\ UNCHANGED <<loads, node, refcnt, already_open, counter, msg, at, fvars>>

(***************************************************************************)
(* A process p.                                                            *)
(***************************************************************************)
Goto(p, from, to) ==
    /\ ~oops
    /\ at[p] = from
    /\ at' = [at EXCEPT ![p] = to]

(* open() finds the node ... *)
Lookup(p) ==
    /\ node
    /\ Goto(p, "idle", "lookup")
    /\ UNCHANGED <<mvars, refcnt, already_open, counter, msg, fvars, oops>>

(* ... and calls device_open, unless the device was unregistered meanwhile. *)
EnterOpen(p) ==
    /\ Goto(p, "lookup", IF module \in {"live", "going"} THEN "cmpxchg" ELSE "idle")
    /\ UNCHANGED <<mvars, refcnt, already_open, counter, msg, fvars, oops>>

(* Mutant: the flag is tested here and set by a later statement. *)
Mut_Cmpxchg(p) ==
    /\ IF already_open = 0
       THEN Goto(p, "cmpxchg", "sprintf")
       ELSE Goto(p, "cmpxchg", "leaving")
    /\ UNCHANGED <<mvars, refcnt, already_open, counter, msg, fvars, oops>>

(* atomic_cmpxchg: a second opener gets -EBUSY. *)
Cmpxchg(p) ==
    /\ IF already_open = 0
       THEN Goto(p, "cmpxchg", "sprintf") /\ already_open' = 1
       ELSE Goto(p, "cmpxchg", "leaving") /\ UNCHANGED already_open
    /\ UNCHANGED <<mvars, refcnt, counter, msg, fvars, oops>>

(* The message with the number of the earlier ones. *)
Sprintf(p) ==
    /\ counter < MaxOpens
    /\ Goto(p, "sprintf", "get")
    /\ msg' = counter
    /\ counter' = counter + 1
    /\ offset' = [offset EXCEPT ![p] = 0]
    /\ told' = [told EXCEPT ![p] = <<loads, counter>>]
    /\ seen' = [seen EXCEPT ![p] = {}]
    /\ UNCHANGED <<mvars, refcnt, already_open, oops>>

(* try_module_get fails for a module that is going; the result is ignored.  *)
TryModuleGet(p) ==
    /\ Goto(p, "get", "open")
    /\ refcnt' = IF module = "live" THEN refcnt + 1 ELSE refcnt
    /\ UNCHANGED <<mvars, already_open, counter, msg, fvars, oops>>

(* device_read returns some of the rest of the message, or, at its end,     *)
(* 0 and starts over.                                                       *)
device_read(p) ==
    /\ Goto(p, "open", "open")
    /\ IF offset[p] = MsgLen
       THEN offset' = [offset EXCEPT ![p] = 0] /\ UNCHANGED seen
       ELSE /\ \E k \in 1..(MsgLen - offset[p]) : offset' = [offset EXCEPT ![p] = @ + k]
            /\ seen' = [seen EXCEPT ![p] = @ \cup {msg}]
    /\ UNCHANGED <<mvars, refcnt, already_open, counter, msg, told, oops>>

(* close() calls device_release. *)
Close(p) ==
    /\ Goto(p, "open", "set")
    /\ UNCHANGED <<mvars, refcnt, already_open, counter, msg, fvars, oops>>

(* "We're now ready for our next caller". *)
ReleaseFlag(p) ==
    /\ Goto(p, "set", "put")
    /\ already_open' = 0
    /\ UNCHANGED <<mvars, refcnt, counter, msg, fvars, oops>>

(* Mutant: the usage count is not decremented. *)
Mut_ModulePut(p) ==
    /\ Goto(p, "put", "leaving")
    /\ UNCHANGED <<mvars, refcnt, already_open, counter, msg, fvars, oops>>

(* module_put: a count of 0 stays, with a kernel warning. *)
ModulePut(p) ==
    /\ Goto(p, "put", "leaving")
    /\ refcnt' = IF refcnt > 0 THEN refcnt - 1 ELSE 0
    /\ UNCHANGED <<mvars, already_open, counter, msg, fvars, oops>>

(* The return from device_open with -EBUSY, or from device_release. *)
Leave(p) ==
    /\ Goto(p, "leaving", "idle")
    /\ UNCHANGED <<mvars, refcnt, already_open, counter, msg, fvars, oops>>

(***************************************************************************)
(* The system.                                                             *)
(***************************************************************************)
Admin == demo_init \/ Rmmod \/ DestroyNode \/ Unregister \/ FreeModule

(* What a process goes on to do once it has called open(); it closes what   *)
(* it has opened, as client.c does.                                         *)
Finish(p) ==
    \/ EnterOpen(p) \/ Cmpxchg(p) \/ Sprintf(p) \/ TryModuleGet(p)
    \/ Close(p) \/ ReleaseFlag(p) \/ ModulePut(p) \/ Leave(p)

DevNext == Admin \/ \E p \in Procs : Lookup(p) \/ Finish(p) \/ device_read(p)

DevSpec == DevInit /\ [][DevNext]_devvars

(***************************************************************************)
(* Properties.                                                             *)
(***************************************************************************)
Pcs == {"idle", "lookup", "open"} \cup InCode

DevTypeOK ==
    /\ module \in {"absent", "live", "going", "unregistered"}
    /\ loads \in 0..MaxLoads
    /\ node \in BOOLEAN
    /\ refcnt \in Nat
    /\ already_open \in {0, 1}
    /\ counter \in 0..MaxOpens
    /\ msg \in 0..MaxOpens
    /\ at \in [Procs -> Pcs]
    /\ offset \in [Procs -> 0..MsgLen]
    /\ told \in [Procs -> (0..MaxLoads) \X (0..MaxOpens)]
    /\ seen \in [Procs -> SUBSET (0..MaxOpens)]
    /\ oops \in BOOLEAN

(* p has the device: from its cmpxchg to its atomic_set. *)
HasDevice(p) == at[p] \in {"sprintf", "get", "open", "set"}

(* "Used to prevent multiple access to device": never two holders, however  *)
(* opens, closes and a removal of the module interleave.                    *)
ExclusiveOpen ==
    ~oops => \A p, q \in Procs : HasDevice(p) /\ HasDevice(q) => p = q

(* All a process reads while it has the file open, over any number of       *)
(* partial reads and passes, is of the one message its open prepared.       *)
OneMessagePerOpen ==
    ~oops => \A p \in Procs : at[p] = "open" => seen[p] \subseteq {told[p][2]}

(* No two opens of one load of the module are told the same number; an open *)
(* that got -EBUSY uses none up.                                            *)
NumbersDiffer ==
    \A p, q \in Procs : p # q /\ told[p][1] > 0 => told[p] # told[q]

(* While the module can be removed at all, its count is the number of       *)
(* processes between try_module_get and module_put: none is missed, and     *)
(* "never get rid of the module" does not happen.                           *)
CountIsUsers ==
    module = "live" /\ ~oops =>
        refcnt = Cardinality({p \in Procs : at[p] \in {"open", "set", "put"}})
=============================================================================
