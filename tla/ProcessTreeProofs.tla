------------------------- MODULE ProcessTreeProofs --------------------------
(***************************************************************************)
(* TLAPS proofs about ProcessTree, for any number of processes, forks and  *)
(* exits while /proc is read: the types of the system and of the table     *)
(* that is read, that the parents in that table are the older ones, that   *)
(* no program ends badly, that pstree prints the tree of its table, and    *)
(* that what the three programs print is what there is.                    *)
(***************************************************************************)
EXTENDS ProcessTree, FiniteSetTheorems, WellFoundedInduction, TLAPS

Entry == [pid : Pids, ppid : Procs, full : BOOLEAN]

(* The processes form a forest in which parents are older, also when        *)
(* children are adopted and pids are used again.                            *)
FamilyInv ==
    /\ alive \subseteq ever /\ born[1] = 0 /\ ppid[1] = NoPid
    /\ \A p \in alive : ppid[p] = NoPid \/ (ppid[p] \in alive /\ born[ppid[p]] < born[p])

(* What was once read of p remains true of the times when the pids were     *)
(* given out, as long as they are given out once.                           *)
OlderThan(q, p) == q = NoPid \/ (q \in ever /\ born[q] < born[p])

ReadRight(e) == e.pid \in ever /\ (e.pid \notin spaced => OlderThan(e.ppid, e.pid))

TableInv ==
    ~reused =>
        /\ pc = "cmdline" => ReadRight(slot)
        /\ \A i \in Idx : ReadRight(tab[i])

(* The inductive invariant of what is read.                                 *)
IInv == TypeOK /\ FamilyInv /\ TableInv

(* Where each program can be.                                               *)
TreePcs == {"tree", "mark", "drop", "print"}

PlaceInv ==
    /\ prog = "part1" => /\ pc \in {"list", "show", "done", "crash"}
                         /\ pc = "crash" => nevents > 0
    /\ prog = "part3" => pc \in {"list", "show", "done"}
    /\ prog = "part2" /\ input = "none" =>
        pc \in {"glob", "stat", "cmdline", "done", "loops", "crash"} \cup TreePcs
    /\ pc = "show" /\ nevents = 0 => cursor \in alive

(* pstree that sees process 1 finds it and keeps it, so it has a root.      *)
HasFirst == \E i \in Idx : tab[i].pid = 1

FirstInv ==
    prog = "part2" /\ input = "none" /\ ~hidepid =>
        /\ pc = "glob" => cursor = NoPid \/ 1 \in names
        /\ pc = "stat" => 1 \in names \/ HasFirst
        /\ pc = "cmdline" => 1 \in names \/ slot.pid = 1 \/ HasFirst
        /\ pc \in TreePcs => HasFirst
        /\ pc # "crash"

(* A link to a parent is to an element with the pid of the parent.          *)
LinkInv ==
    prog = "part2" /\ input = "none" =>
        /\ pc \in {"tree", "mark"} =>
             /\ parent \in [Idx -> Idx \cup {NoIdx}]
             /\ \A i \in Idx : parent[i] # NoIdx => tab[parent[i]].pid = tab[i].ppid
        /\ pc = "loops" => reused \/ spaced # {}

EndInv == PlaceInv /\ FirstInv /\ LinkInv

(***************************************************************************)
(* Sets of pids, and the table.                                            *)
(***************************************************************************)

(* Pids are positive numbers, and both programs have one.                   *)
LEMMA PidFacts == /\ Pids \subseteq Nat \ {0} /\ 1 \in Pids /\ MyPid \in Pids /\ MyPid # 1
                  /\ Pids \subseteq Procs /\ NoPid \in Procs /\ NoPid \notin Pids
BY ProcAssumption DEF Pids, Procs, NoPid

(* A set of natural numbers has a least one, which Least picks.             *)
LEMMA LeastIsIn == ASSUME NEW S, S \subseteq Nat, S # {} PROVE Least(S) \in S /\ \A y \in S : Least(S) <= y
<1> DEFINE R == OpToRel(<, Nat)
<1>1. IsWellFoundedOn(R, Nat)
  BY NatLessThanWellFounded
<1>2. \A x, y \in Nat : x < y => <<x, y>> \in R
  BY DEF OpToRel
<1> HIDE DEF R
<1>3. PICK x \in S : \A y \in S : ~ (<<y, x>> \in R)
  BY <1>1, WFMin
<1>4. \A y \in S : ~(y < x)
  BY <1>2, <1>3
<1>5. \A y \in S : x <= y
  BY <1>4
<1> QED
  BY <1>5 DEF Least

(* A set of numbers up to m has a greatest one: the least number that none   *)
(* exceeds.                                                                *)
LEMMA GreatestOf ==
    ASSUME NEW top \in Nat, NEW S, S \subseteq 1..top, S # {}
    PROVE  Greatest(S) \in S /\ \A y \in S : y <= Greatest(S)
<1> DEFINE T == {x \in Nat : \A y \in S : y <= x}
<1>1. top \in T /\ T \subseteq Nat
  OBVIOUS
<1> DEFINE m == Least(T)
<1>2. m \in T /\ \A x \in T : m <= x
  BY <1>1, LeastIsIn
<1>3. PICK z \in S : z \in Nat /\ z >= 1
  <2>1. \A z \in S : z \in Nat /\ z >= 1
    OBVIOUS
  <2> QED
    BY <2>1
<1>4. m \in Nat /\ (\A y \in S : y <= m) /\ m >= 1
  BY <1>2, <1>3
<1>5. ~(m - 1 \in T)
  <2> HIDE DEF T, m
  <2> QED
    BY <1>2, <1>4
<1>6. m \in S
  <2> SUFFICES ASSUME m \notin S PROVE FALSE
    OBVIOUS
  <2>1. \A y \in S : y \in Nat /\ y <= m /\ y # m
    BY <1>4
  <2> HIDE DEF m
  <2>2. m - 1 \in T
    BY <1>4, <2>1
  <2> QED
    BY <1>5, <2>2
<1> HIDE DEF m
<1>7. \E x \in S : \A y \in S : x >= y
  <2>1. \A y \in S : y \in Nat
    OBVIOUS
  <2> QED
    BY <1>4, <1>6, <2>1
<1>8. Greatest(S) \in S /\ \A y \in S : Greatest(S) >= y
  BY <1>7 DEF Greatest
<1>9. \A y \in S : y \in Nat
  OBVIOUS
<1> QED
  BY <1>8, <1>9

(* The same, without the order.                                             *)
LEMMA GreatestIsIn == ASSUME NEW top \in Nat, NEW S, S \subseteq 1..top, S # {} PROVE Greatest(S) \in S
BY GreatestOf

(* Induction over a set of natural numbers: a number that is missing from   *)
(* it would be a least one.                                                 *)
LEMMA SetInduction ==
    ASSUME NEW A, 0 \in A, \A k \in Nat : k \in A => k + 1 \in A
    PROVE  \A k \in Nat : k \in A
<1> SUFFICES ASSUME Nat \ A # {} PROVE FALSE
  OBVIOUS
<1>1. PICK x \in Nat \ A : \A y \in Nat \ A : x <= y
  <2>1. Nat \ A \subseteq Nat
    OBVIOUS
  <2> QED
    BY <2>1, LeastIsIn
<1>2. x - 1 \in Nat /\ x = (x - 1) + 1
  BY <1>1
<1>3. x - 1 \in A
  BY <1>1, <1>2
<1> QED
  BY <1>1, <1>2, <1>3

(***************************************************************************)
(* The initial states.                                                     *)
(***************************************************************************)
LEMMA InitIInv == Init => IInv
<1> SUFFICES ASSUME Init PROVE IInv
  OBVIOUS
<1> USE PidFacts
<1>1. alive \subseteq Pids /\ 1 \in alive /\ MyPid \in alive /\ IsFiniteSet(alive)
  <2>1. alive \subseteq Pids /\ {1, MyPid} \subseteq alive
    BY DEF Init, Forest
  <2>2. IsFiniteSet(Pids)
    BY ProcAssumption, FS_Interval DEF Pids
  <2> QED
    BY <2>1, <2>2, FS_Subset
<1>2. clock \in Nat
  <2>1. Cardinality(alive) \in Nat /\ Cardinality(alive) # 0
    BY <1>1, FS_CardinalityType, FS_EmptySet
  <2> QED
    BY <2>1 DEF Init, Forest
<1>3. born \in [Pids -> 0..clock] /\ ppid \in [Pids -> alive \cup {NoPid}] /\ born[1] = 0 /\ ppid[1] = NoPid
      /\ \A p \in alive : ppid[p] # NoPid => born[ppid[p]] < born[p]
  BY DEF Init, Forest
<1>4. FamilyInv
  BY <1>1, <1>3 DEF FamilyInv, Init
<1>5. <<spaced, hidepid>> \in Settings /\ opt \in Options \cup {Default}
  <2>1. PICK s \in Settings : spaced = s[1] /\ hidepid = s[2]
    BY DEF Init
  <2>2. s = <<s[1], s[2]>>
    BY ProcAssumption
  <2> QED
    BY <2>1, <2>2 DEF Init
<1>6. IsFiniteSet(un) /\ Cardinality(un) <= NUMUN /\ un = {}
  BY FS_EmptySet, ProcAssumption DEF Init
<1>7. alive = ever /\ lasting = alive /\ adopted = {} /\ reused = FALSE /\ nevents = 0
      /\ cursor = NoPid /\ names = {} /\ slot = Fresh /\ tab = <<>> /\ me = 1
      /\ pc \in {"list", "glob", "input"}
      /\ prog \in {"part1", "part2", "part3"} /\ input \in {"none", "dash", "file"}
  BY DEF Init
<1>8. TypeOK
  <2>1. ppid \in [Pids -> Procs]
    BY <1>1, <1>3
  <2>2. Fresh \in [pid : Procs, ppid : Procs]
    BY DEF Fresh
  <2>3. reused \in BOOLEAN /\ nevents \in 0..MaxEvents
    <3>1. MaxEvents \in Nat
      BY ProcAssumption
    <3>2. nevents = 0
      BY <1>7
    <3>3. nevents \in 0..MaxEvents
      BY <3>1, <3>2
    <3>4. reused = FALSE
      BY <1>7
    <3> QED
      BY <3>3, <3>4
  <2>6. slot \in [pid : Procs, ppid : Procs]
    BY <1>7, <2>2
  <2>4. pc \in Reading \cup {"input", "tree", "mark", "drop", "print", "done", "loops", "crash", "exit1"}
        /\ pc # "cmdline"
    BY <1>7 DEF Reading
  <2>5. tab \in Seq([pid : Pids, ppid : Procs, full : BOOLEAN]) /\ me \in Nat \ {0}
    BY <1>7
  <2> QED
    BY <1>1, <1>2, <1>3, <1>5, <1>6, <1>7, <2>1, <2>3, <2>4, <2>5, <2>6 DEF TypeOK
<1>9. TableInv
  BY <1>7 DEF TableInv, Idx
<1> QED
  BY <1>4, <1>8, <1>9 DEF IInv

(***************************************************************************)
(* What happens in the system.                                             *)
(***************************************************************************)

(* What the types say of the system.                                        *)
LEMMA KernelTypes ==
    ASSUME TypeOK
    PROVE  /\ ppid \in [Pids -> Procs] /\ clock \in Nat /\ born \in [Pids -> 0..clock]
           /\ alive \subseteq Pids /\ {1, MyPid} \subseteq alive /\ ever \subseteq Pids
           /\ lasting \subseteq alive /\ adopted \subseteq Pids
           /\ nevents \in 0..MaxEvents /\ MaxEvents \in Nat /\ reused \in BOOLEAN
           /\ \A r \in Pids : born[r] \in Nat /\ born[r] <= clock
<1>1. ppid \in [Pids -> Procs] /\ clock \in Nat /\ born \in [Pids -> 0..clock]
  BY DEF TypeOK
<1>2. alive \subseteq Pids /\ {1, MyPid} \subseteq alive /\ ever \subseteq Pids
      /\ lasting \subseteq alive /\ adopted \subseteq Pids
  BY DEF TypeOK
<1>3. nevents \in 0..MaxEvents /\ MaxEvents \in Nat /\ reused \in BOOLEAN
  BY ProcAssumption DEF TypeOK
<1>4. \A r \in Pids : born[r] \in Nat /\ born[r] <= clock
  BY <1>1
<1> QED
  BY <1>1, <1>2, <1>3, <1>4

(* What a step of the system leaves alone.                                  *)
Unmoved == <<spaced, hidepid, prog, input, opt, pc, cursor, names, slot, un, tab, me>>

(* A fork.                                                                  *)
LEMMA ForkStep == ASSUME IInv, NEW p \in Pids, NEW q \in Pids, Fork(p, q) PROVE IInv'
<1> USE PidFacts
<1>0. TypeOK /\ FamilyInv /\ TableInv
  BY DEF IInv
<1>1. /\ p \in alive /\ q \in Pids \ alive /\ alive' = alive \cup {q}
      /\ ppid' = [ppid EXCEPT ![q] = p] /\ clock' = clock + 1
      /\ born' = [born EXCEPT ![q] = clock + 1] /\ ever' = ever \cup {q}
      /\ reused' = (reused \/ q \in ever) /\ UNCHANGED <<lasting, adopted>>
      /\ nevents < MaxEvents /\ nevents' = nevents + 1
      /\ UNCHANGED Unmoved
  BY DEF Fork, Event, Unmoved, cvars, rvars
<1>2. /\ ppid \in [Pids -> Procs] /\ clock \in Nat /\ born \in [Pids -> 0..clock]
      /\ alive \subseteq Pids /\ {1, MyPid} \subseteq alive /\ ever \subseteq Pids
      /\ nevents \in 0..MaxEvents /\ MaxEvents \in Nat /\ reused \in BOOLEAN
      /\ \A r \in Pids : born[r] \in Nat /\ born[r] <= clock
  BY <1>0, KernelTypes
<1>3. \A r \in Pids : ppid'[r] = (IF r = q THEN p ELSE ppid[r])
                      /\ born'[r] = (IF r = q THEN clock + 1 ELSE born[r])
  BY <1>1, <1>2
<1>4. ppid' \in [Pids -> Procs] /\ born' \in [Pids -> 0..clock']
  <2>1. \A r \in Pids : (IF r = q THEN clock + 1 ELSE born[r]) \in 0..(clock + 1)
    BY <1>2
  <2>2. born' = [r \in Pids |-> IF r = q THEN clock + 1 ELSE born[r]]
    BY <1>1, <1>2
  <2> QED
    BY <1>1, <1>2, <2>1, <2>2
<1>5. TypeOK'
  <2>1. clock' \in Nat /\ nevents' \in 0..MaxEvents /\ reused' \in BOOLEAN
    BY <1>1, <1>2
  <2>2. alive' \subseteq Pids /\ {1, MyPid} \subseteq alive' /\ ever' \subseteq Pids
        /\ lasting' \subseteq alive' /\ adopted' \subseteq Pids
    BY <1>0, <1>1, <1>2, KernelTypes
  <2> QED
    BY <1>0, <1>1, <1>4, <2>1, <2>2 DEF TypeOK, Unmoved
<1>6. FamilyInv'
  <2>1. alive' \subseteq ever' /\ born'[1] = 0 /\ ppid'[1] = NoPid
    BY <1>0, <1>1, <1>2, <1>3 DEF FamilyInv
  <2>2. ASSUME NEW r \in alive' PROVE ppid'[r] = NoPid \/ (ppid'[r] \in alive' /\ born'[ppid'[r]] < born'[r])
    <3>1. CASE r = q
      BY <1>1, <1>2, <1>3, <3>1
    <3>2. CASE r # q
      <4>1. r \in alive /\ r \in Pids
        BY <1>1, <1>2, <2>2, <3>2
      <4>2. ppid[r] = NoPid \/ (ppid[r] \in alive /\ ppid[r] \in Pids /\ ppid[r] # q /\ born[ppid[r]] < born[r])
        BY <1>0, <1>1, <1>2, <4>1 DEF FamilyInv
      <4> QED
        BY <1>1, <1>3, <3>2, <4>1, <4>2
    <3> QED
      BY <3>1, <3>2
  <2> QED
    BY <2>1, <2>2 DEF FamilyInv
<1>7. TableInv'
  <2> SUFFICES ASSUME ~reused'
               PROVE  /\ pc' = "cmdline" => ReadRight(slot)'
                      /\ \A i \in Idx' : ReadRight(tab[i])'
    BY DEF TableInv
  <2>1. ~reused /\ q \notin ever
    BY <1>1, <1>2
  <2>2. \A x, y : y \in ever /\ OlderThan(x, y) => (x = NoPid \/ (x \in ever' /\ born'[x] < born'[y]))
    BY <1>1, <1>2, <1>3, <2>1 DEF OlderThan
  <2>3. pc = "cmdline" => ReadRight(slot)
    BY <1>0, <2>1 DEF TableInv
  <2>4. \A i \in Idx : ReadRight(tab[i])
    BY <1>0, <2>1 DEF TableInv
  <2>5. pc' = pc /\ slot' = slot /\ tab' = tab /\ spaced' = spaced /\ ever \subseteq ever'
    BY <1>1 DEF Unmoved
  <2>6. pc' = "cmdline" => ReadRight(slot)'
    BY <2>2, <2>3, <2>5 DEF ReadRight, OlderThan
  <2>7. \A i \in Idx' : ReadRight(tab[i])'
    BY <2>2, <2>4, <2>5 DEF ReadRight, OlderThan, Idx
  <2> QED
    BY <2>6, <2>7
<1> QED
  BY <1>5, <1>6, <1>7 DEF IInv

(* Elders are older: the older processes hold their own parents.            *)
LEMMA EldersAreOlder ==
    ASSUME TypeOK, FamilyInv, NEW p \in alive, NEW q \in Elders(p)
    PROVE  q \in alive /\ born[q] < born[p]
<1> DEFINE S == {s \in alive : born[s] < born[p]}
<1>1. \A r \in alive : born[r] \in Nat
  BY KernelTypes
<1>2. \A s \in S \cup {p} : ppid[s] \in S \cup {NoPid}
  <2>1. ASSUME NEW s \in S \cup {p} PROVE ppid[s] \in S \cup {NoPid}
    <3>1. s \in alive /\ born[s] <= born[p]
      BY <1>1, <2>1
    <3>2. ppid[s] = NoPid \/ (ppid[s] \in alive /\ born[ppid[s]] < born[s])
      BY <3>1 DEF FamilyInv
    <3> QED
      BY <1>1, <3>1, <3>2
  <2> QED
    BY <2>1
<1>3. S \in SUBSET alive
  OBVIOUS
<1> HIDE DEF S
<1>4. q \in alive /\ q \in S
  BY <1>2, <1>3 DEF Elders
<1> QED
  BY <1>4 DEF S

(* An exit: whoever adopts the children is older than p, which is older     *)
(* than they are.                                                           *)
LEMMA ExitStep == ASSUME IInv, NEW p \in Pids, NEW reaper \in Pids, Exit(p, reaper) PROVE IInv'
<1> USE PidFacts
<1>0. TypeOK /\ FamilyInv /\ TableInv
  BY DEF IInv
<1>1. /\ p \in alive \ {1, MyPid} /\ alive' = alive \ {p} /\ lasting' = lasting \ {p}
      /\ adopted' = adopted \cup {q \in alive : ppid[q] = p}
      /\ ppid' = [q \in Pids |-> IF q # p /\ ppid[q] = p THEN reaper ELSE ppid[q]]
      /\ reaper \in Elders(p) \cup {1}
      /\ UNCHANGED <<born, clock, ever, reused>>
      /\ nevents < MaxEvents /\ nevents' = nevents + 1
      /\ UNCHANGED Unmoved
  BY DEF Exit, Event, Unmoved, cvars, rvars
<1>2. /\ ppid \in [Pids -> Procs] /\ clock \in Nat /\ born \in [Pids -> 0..clock]
      /\ alive \subseteq Pids /\ {1, MyPid} \subseteq alive
      /\ nevents \in 0..MaxEvents /\ MaxEvents \in Nat
      /\ \A r \in Pids : born[r] \in Nat
  BY <1>0, KernelTypes
<1>3. TypeOK'
  <2>1. ppid' \in [Pids -> Procs]
    BY <1>1, <1>2
  <2>2. alive' \subseteq Pids /\ {1, MyPid} \subseteq alive'
        /\ lasting' \subseteq alive' /\ adopted' \subseteq Pids
    BY <1>0, <1>1, <1>2, KernelTypes
  <2>3. nevents' \in 0..MaxEvents
    BY <1>1, <1>2
  <2> QED
    BY <1>0, <1>1, <2>1, <2>2, <2>3 DEF TypeOK, Unmoved
<1>4. FamilyInv'
  <2>1. alive' \subseteq ever' /\ born'[1] = 0 /\ ppid'[1] = NoPid
    BY <1>0, <1>1, <1>2 DEF FamilyInv
  <2>2. reaper \in alive' /\ (reaper = 1 \/ born[reaper] < born[p])
    <3>1. reaper = 1 \/ (reaper \in alive /\ born[reaper] < born[p])
      BY <1>0, <1>1, EldersAreOlder
    <3>2. born[p] \in Nat
      BY <1>2
    <3>3. reaper \in alive /\ reaper # p
      BY <1>1, <1>2, <3>1, <3>2
    <3> QED
      BY <1>1, <3>1, <3>3
  <2>3. ASSUME NEW r \in alive' PROVE ppid'[r] = NoPid \/ (ppid'[r] \in alive' /\ born'[ppid'[r]] < born'[r])
    <3>1. r \in alive /\ r \in Pids /\ r # p
      BY <1>1, <1>2, <2>3
    <3>2. ppid[r] = NoPid \/ (ppid[r] \in alive /\ ppid[r] \in Pids /\ born[ppid[r]] < born[r])
      BY <1>0, <1>2, <3>1 DEF FamilyInv
    <3>3. ppid'[r] = IF ppid[r] = p THEN reaper ELSE ppid[r]
      BY <1>1, <3>1
    <3>4. CASE ppid[r] = p
      <4>1. born[p] < born[r] /\ ppid'[r] = reaper
        BY <3>2, <3>3, <3>4
      <4>2. born[reaper] \in Nat /\ born[p] \in Nat /\ born[r] \in Nat /\ born[1] = 0 /\ born' = born
        BY <1>0, <1>1, <1>2, <3>1 DEF FamilyInv
      <4>3. born[reaper] < born[r]
        BY <2>2, <4>1, <4>2
      <4> QED
        BY <2>2, <4>1, <4>2, <4>3
    <3>5. CASE ppid[r] # p
      BY <1>1, <3>2, <3>3, <3>5
    <3> QED
      BY <3>4, <3>5
  <2> QED
    BY <2>1, <2>3 DEF FamilyInv
<1>5. TableInv'
  BY <1>0, <1>1 DEF TableInv, ReadRight, OlderThan, Unmoved, Idx
<1> QED
  BY <1>3, <1>4, <1>5 DEF IInv

(***************************************************************************)
(* What the programs do.                                                   *)
(***************************************************************************)

(* A step that does not read the table changes nothing of the above.        *)
LEMMA Elsewhere ==
    ASSUME IInv, UNCHANGED <<kvars, spaced, hidepid, prog, input, names, slot, un, tab>>,
           opt' \in Options \cup {Default}, cursor' \in Procs, me' \in Nat \ {0},
           pc' \in Reading \cup {"input", "tree", "mark", "drop", "print",
                                 "done", "loops", "crash", "exit1"},
           pc' # "cmdline"
    PROVE  IInv'
<1>0. TypeOK /\ FamilyInv /\ TableInv
  BY DEF IInv
<1>1. UNCHANGED <<alive, ppid, born, clock, ever, lasting, adopted, reused, nevents>>
  BY DEF kvars
<1>2. TypeOK'
  BY <1>0, <1>1 DEF TypeOK
<1>3. FamilyInv'
  BY <1>0, <1>1 DEF FamilyInv
<1>4. TableInv'
  BY <1>0, <1>1 DEF TableInv, ReadRight, OlderThan, Idx
<1> QED
  BY <1>2, <1>3, <1>4 DEF IInv

(* The next entry of /proc is that of a process.                            *)
LEMMA NextEntry == ASSUME TypeOK, Next_entries # {} PROVE Least(Next_entries) \in Pids
<1>1. Next_entries \subseteq Pids /\ Next_entries \subseteq Nat
  BY PidFacts DEF Next_entries
<1> QED
  BY <1>1, LeastIsIn

(* glob() only collects names.                                              *)
LEMMA GlobStep == ASSUME IInv, Glob PROVE IInv'
<1>0. TypeOK /\ FamilyInv /\ TableInv
  BY DEF IInv
<1>1. UNCHANGED <<alive, ppid, born, clock, ever, lasting, adopted, reused, nevents,
                  spaced, hidepid, prog, input, opt, slot, un, tab, me>>
  BY DEF Glob, kvars, cvars
<1>2. pc' \in {"glob", "stat"} /\ cursor' \in Procs /\ names' \subseteq Pids
  <2>1. CASE Next_entries = {}
    BY <1>0, <2>1 DEF Glob, Goto, TypeOK
  <2>2. CASE Next_entries # {}
    BY <1>0, <2>2, NextEntry, PidFacts DEF Glob, Goto, TypeOK
  <2> QED
    BY <2>1, <2>2
<1>3. TypeOK'
  BY <1>0, <1>1, <1>2 DEF TypeOK, Reading
<1>4. FamilyInv'
  BY <1>0, <1>1 DEF FamilyInv
<1>5. TableInv'
  BY <1>0, <1>1, <1>2 DEF TableInv, ReadRight, OlderThan, Idx
<1> QED
  BY <1>3, <1>4, <1>5 DEF IInv

(* The parent that is read is older than the process.                       *)
LEMMA ReadStatStep == ASSUME IInv, ReadStat PROVE IInv'
<1> USE PidFacts
<1>0. TypeOK /\ FamilyInv /\ TableInv
  BY DEF IInv
<1>1. UNCHANGED <<alive, ppid, born, clock, ever, lasting, adopted, reused, nevents,
                  spaced, hidepid, prog, input, opt, cursor, un, tab, me>>
  BY DEF ReadStat, kvars, cvars
<1> DEFINE p == Greatest(names)
<1>2. names \subseteq Pids /\ names # {} /\ p \in Pids
  <2>1. names \subseteq Pids /\ names # {}
    BY <1>0 DEF TypeOK, ReadStat
  <2> QED
    BY <2>1, GreatestIsIn, ProcAssumption DEF Pids
<1>3. names' = names \ {p}
      /\ \/ /\ p \in alive /\ pc' = "cmdline"
            /\ slot' = [pid |-> p, ppid |-> IF p \in spaced THEN slot.ppid ELSE ppid[p]]
         \/ pc' = "stat" /\ slot' = slot
  BY DEF ReadStat, Goto
<1> HIDE DEF p
<1>4. slot \in [pid : Procs, ppid : Procs] /\ ppid \in [Pids -> Procs]
  BY <1>0 DEF TypeOK
<1>5. slot' \in [pid : Procs, ppid : Procs] /\ (pc' = "cmdline" => slot'.pid \in Pids)
  <2>1. CASE pc' = "cmdline"
    <3>1. slot' = [pid |-> p, ppid |-> IF p \in spaced THEN slot.ppid ELSE ppid[p]]
      BY <1>3, <2>1
    <3>2. (IF p \in spaced THEN slot.ppid ELSE ppid[p]) \in Procs
      BY <1>2, <1>4
    <3> QED
      BY <1>2, <3>1, <3>2
  <2>2. CASE pc' # "cmdline"
    BY <1>3, <1>4, <2>2
  <2> QED
    BY <2>1, <2>2
<1>6. TypeOK'
  <2>1. pc' \in {"cmdline", "stat"} /\ names' \subseteq Pids
    BY <1>2, <1>3
  <2> QED
    BY <1>0, <1>1, <1>5, <2>1 DEF TypeOK, Reading
<1>7. FamilyInv'
  BY <1>0, <1>1 DEF FamilyInv
<1>8. TableInv'
  <2> SUFFICES ASSUME ~reused
               PROVE  /\ pc' = "cmdline" =>
                             slot'.pid \in ever /\ (slot'.pid \notin spaced => OlderThan(slot'.ppid, slot'.pid))
                      /\ \A i \in Idx : ReadRight(tab[i])
    BY <1>1 DEF TableInv, ReadRight, OlderThan, Idx
  <2>1. \A i \in Idx : ReadRight(tab[i])
    BY <1>0 DEF TableInv
  <2>2. ASSUME pc' = "cmdline"
        PROVE  slot'.pid \in ever /\ (slot'.pid \notin spaced => OlderThan(slot'.ppid, slot'.pid))
    <3>1. p \in alive /\ slot'.pid = p /\ (p \notin spaced => slot'.ppid = ppid[p])
      BY <1>3, <2>2
    <3>2. p \in ever /\ (ppid[p] = NoPid \/ (ppid[p] \in ever /\ born[ppid[p]] < born[p]))
      BY <1>0, <3>1 DEF FamilyInv
    <3> QED
      BY <3>1, <3>2 DEF OlderThan
  <2> QED
    BY <2>1, <2>2
<1> QED
  BY <1>6, <1>7, <1>8 DEF IInv

(* A table to which an entry is added.                                      *)
LEMMA TableGrows ==
    ASSUME NEW E, NEW t \in Seq(E), NEW e \in E
    PROVE  /\ Append(t, e) \in Seq(E) /\ Len(Append(t, e)) = Len(t) + 1 /\ Len(t) \in Nat
           /\ Append(t, e)[Len(t) + 1] = e
           /\ \A i \in 1..Len(t) : Append(t, e)[i] = t[i]
OBVIOUS

(* The entry that is filled joins the table, and uid2user may remember a    *)
(* name more.                                                               *)
LEMMA ReadCmdlineStep == ASSUME IInv, ReadCmdline PROVE IInv'
<1> USE PidFacts
<1>0. TypeOK /\ FamilyInv /\ TableInv
  BY DEF IInv
<1>1. UNCHANGED <<alive, ppid, born, clock, ever, lasting, adopted, reused, nevents,
                  spaced, hidepid, prog, input, opt, cursor, names, me>>
      /\ pc = "cmdline" /\ pc' = "stat"
  BY DEF ReadCmdline, kvars, cvars, Goto
<1>2. CASE slot.pid \notin alive
  <2>1. UNCHANGED <<tab, un, slot>>
    BY <1>2 DEF ReadCmdline
  <2> QED
    BY <1>0, <1>1, <2>1, Elsewhere DEF TypeOK, Reading, kvars
<1>3. CASE slot.pid \in alive
  <2> DEFINE e == [pid |-> slot.pid, ppid |-> slot.ppid, full |-> UserOf[slot.pid] \notin un]
             uid == UserOf[slot.pid]
  <2>1. tab' = Append(tab, e) /\ slot' = Fresh
        /\ un' = IF uid \notin un /\ Cardinality(un) < NUMUN THEN un \cup {uid} ELSE un
    BY <1>3 DEF ReadCmdline, uid2user
  <2>2. slot \in [pid : Procs, ppid : Procs] /\ slot.pid \in Pids /\ tab \in Seq(Entry)
    BY <1>0, <1>1 DEF TypeOK, Entry
  <2>3. e \in Entry
    BY <2>2 DEF Entry
  <2>4. /\ tab' \in Seq(Entry) /\ Len(tab') = Len(tab) + 1 /\ Len(tab) \in Nat
        /\ tab'[Len(tab) + 1] = e /\ \A i \in 1..Len(tab) : tab'[i] = tab[i]
    <3> HIDE DEF e
    <3> QED
      BY <2>1, <2>2, <2>3, TableGrows
  <2>5. un' \subseteq {UserOf[p] : p \in Pids} /\ IsFiniteSet(un') /\ Cardinality(un') <= NUMUN
    <3>1. un \subseteq {UserOf[p] : p \in Pids} /\ IsFiniteSet(un) /\ Cardinality(un) <= NUMUN
      BY <1>0 DEF TypeOK
    <3>2. Cardinality(un) \in Nat /\ NUMUN \in Nat
      BY <3>1, FS_CardinalityType, ProcAssumption
    <3>3. IsFiniteSet(un \cup {uid}) /\ (uid \notin un => Cardinality(un \cup {uid}) = Cardinality(un) + 1)
      BY <3>1, FS_AddElement
    <3>4. uid \in {UserOf[p] : p \in Pids}
      BY <2>2
    <3> HIDE DEF uid
    <3> QED
      BY <2>1, <3>1, <3>2, <3>3, <3>4
  <2>6. TypeOK'
    <3>1. slot' \in [pid : Procs, ppid : Procs]
      BY <2>1 DEF Fresh
    <3> HIDE DEF e, uid
    <3> QED
      BY <1>0, <1>1, <2>4, <2>5, <3>1 DEF TypeOK, Reading, Entry
  <2>7. FamilyInv'
    BY <1>0, <1>1 DEF FamilyInv
  <2>8. TableInv'
    <3> SUFFICES ASSUME ~reused, NEW i \in 1..Len(tab')
                 PROVE  tab'[i].pid \in ever /\ (tab'[i].pid \notin spaced => OlderThan(tab'[i].ppid, tab'[i].pid))
      BY <1>1 DEF TableInv, ReadRight, OlderThan, Idx
    <3>1. CASE i = Len(tab) + 1
      <4>1. ReadRight(slot)
        BY <1>0, <1>1 DEF TableInv
      <4>2. tab'[i].pid = slot.pid /\ tab'[i].ppid = slot.ppid
        BY <2>4, <3>1
      <4> QED
        BY <4>1, <4>2 DEF ReadRight
    <3>2. CASE i # Len(tab) + 1
      <4>1. i \in 1..Len(tab)
        BY <2>4, <3>2
      <4>2. ReadRight(tab[i])
        BY <1>0, <4>1 DEF TableInv, Idx
      <4> QED
        BY <2>4, <4>1, <4>2 DEF ReadRight
    <3> QED
      BY <3>1, <3>2
  <2> QED
    BY <2>6, <2>7, <2>8 DEF IInv
<1> QED
  BY <1>2, <1>3

(* All the other steps of the programs read nothing into the table.         *)
LEMMA OtherSteps ==
    ASSUME IInv, \/ ReadEnds \/ GetProcesses \/ MakeTree \/ MarkProcs \/ DropProcs \/ PrintAll
                 \/ ReadDir \/ show_name_id \/ show_fd_link
    PROVE  IInv'
<1>0. TypeOK
  BY DEF IInv
<1>1. opt \in Options \cup {Default} /\ cursor \in Procs /\ me \in Nat \ {0} /\ me + 1 \in Nat \ {0}
  BY <1>0 DEF TypeOK
<1>2. ASSUME NEW at \in {"tree", "mark", "drop"}, NEW next \in {"mark", "drop", "print"}, Loop(at, next)
      PROVE  me' \in Nat \ {0} /\ pc' \in {"tree", "mark", "drop", "print"}
             /\ UNCHANGED <<kvars, spaced, hidepid, prog, input, cursor, names, slot, un, tab>>
  BY <1>1, <1>2 DEF Loop, Goto, cvars, rvars
<1>3. CASE ReadEnds
  BY <1>1, <1>3, Elsewhere DEF ReadEnds, Goto, cvars, rvars
<1>4. CASE GetProcesses
  BY <1>1, <1>4, Elsewhere DEF GetProcesses, cvars, rvars
<1>5. CASE MakeTree
  <2>1. Loop("tree", "mark") /\ opt' \in Options \cup {opt}
    BY <1>5 DEF MakeTree, ParseOptions
  <2> QED
    BY <1>1, <1>2, <2>1, Elsewhere
<1>6. CASE MarkProcs
  <2>1. CASE MarkSelected /\ UNCHANGED <<kvars, cvars, opt, rvars, out>> /\ pc = "mark"
    <3>1. me' \in Nat \ {0} /\ pc' \in {"mark", "loops"}
      BY <1>1, <2>1 DEF MarkSelected
    <3> QED
      BY <1>1, <2>1, <3>1, Elsewhere DEF cvars, rvars
  <2>2. CASE Loop("mark", "drop") /\ UNCHANGED opt
    BY <1>1, <1>2, <2>2, Elsewhere
  <2> QED
    BY <1>6, <2>1, <2>2 DEF MarkProcs
<1>7. CASE DropProcs
  <2>1. Loop("drop", "print") /\ UNCHANGED opt
    BY <1>7 DEF DropProcs
  <2> QED
    BY <1>1, <1>2, <2>1, Elsewhere
<1>8. CASE PrintAll
  <2>1. pc' \in {"done", "crash"} /\ UNCHANGED <<kvars, cvars, opt, rvars, me>>
    BY <1>8 DEF PrintAll, Goto
  <2> QED
    BY <1>1, <2>1, Elsewhere DEF cvars, rvars
<1>9. CASE ReadDir
  <2>1. pc' \in {"done", "show"} /\ cursor' \in Procs
        /\ UNCHANGED <<kvars, cvars, opt, names, slot, un, tab, me>>
    BY <1>0, <1>1, <1>9, NextEntry, PidFacts DEF ReadDir, Goto
  <2> QED
    BY <1>1, <2>1, Elsewhere DEF cvars, Reading
<1>10. CASE show_name_id
  <2>1. pc' \in {"list", "crash"} /\ UNCHANGED <<kvars, cvars, opt, rvars, me>>
    BY <1>10 DEF show_name_id, Goto
  <2> QED
    BY <1>1, <2>1, Elsewhere DEF cvars, rvars, Reading
<1>11. CASE show_fd_link
  <2>1. pc' = "list" /\ UNCHANGED <<kvars, cvars, opt, rvars, me>>
    BY <1>11 DEF show_fd_link, Goto
  <2> QED
    BY <1>1, <2>1, Elsewhere DEF cvars, rvars, Reading
<1> QED
  BY <1>3, <1>4, <1>5, <1>6, <1>7, <1>8, <1>9, <1>10, <1>11

(***************************************************************************)
(* The theorems.                                                           *)
(***************************************************************************)

(* No step leaves the invariant.                                            *)
LEMMA InvStep == ASSUME IInv, [Next]_vars PROVE IInv'
<1>1. CASE UNCHANGED vars
  <2>1. UNCHANGED <<kvars, spaced, hidepid, prog, input, opt, pc, cursor, names, slot, un, tab, me>>
    BY <1>1 DEF vars, cvars, rvars
  <2>2. UNCHANGED <<alive, ppid, born, clock, ever, lasting, adopted, reused, nevents>>
    BY <2>1 DEF kvars
  <2> QED
    BY <2>1, <2>2 DEF IInv, TypeOK, FamilyInv, TableInv, ReadRight, OlderThan, Idx
<1> QED
  BY <1>1, ForkStep, ExitStep, GlobStep, ReadStatStep, ReadCmdlineStep, OtherSteps DEF Next, Program

(* The inductive invariant holds whatever is forked and exits meanwhile.    *)
THEOREM Invariance == Spec => []IInv
<1>1. IInv /\ [Next]_vars => IInv'
  BY InvStep
<1> QED
  BY InitIInv, <1>1, PTL DEF Spec

(* The types of the process table and of what is read of it, and that       *)
(* uid2user stays within its array (part2.c, uid2user).                     *)
THEOREM TypeCorrect == Spec => []TypeOK
BY Invariance, PTL DEF IInv

(* The parents in the table are the older ones.                             *)
LEMMA OlderInTable == IInv => ParentsOlder
<1> SUFFICES ASSUME IInv, ~reused, NEW i \in Idx, NEW j \in Idx, tab[i].pid \notin spaced, tab[i].ppid = tab[j].pid
             PROVE  born[tab[j].pid] < born[tab[i].pid]
  BY DEF ParentsOlder
<1>1. OlderThan(tab[i].ppid, tab[i].pid) /\ tab[j].pid \in ever
  BY DEF IInv, TableInv, ReadRight
<1>2. ever \subseteq Pids
  BY DEF IInv, TypeOK
<1> QED
  BY <1>1, <1>2, PidFacts DEF OlderThan

(* In the table that pstree reads while processes come and go, parents are  *)
(* older than their children, wherever the name has no space, for any       *)
(* number of processes and as long as no pid is used again: a chain of such *)
(* parents is never a circle (part2.c, GetProcessesDirect).                 *)
THEOREM ParentsAreOlder == Spec => []ParentsOlder
BY Invariance, OlderInTable, PTL

(***************************************************************************)
(* Looking things up in the table.                                         *)
(***************************************************************************)

(* get_pid_index() finds an element with the pid, when there is one.        *)
LEMMA IndexFound ==
    ASSUME TypeOK, NEW p
    PROVE  LET i == get_pid_index(p) IN
           /\ i \in Idx \cup {NoIdx} /\ NoIdx \notin Idx
           /\ i # NoIdx => tab[i].pid = p
           /\ \A j \in Idx : tab[j].pid = p => i # NoIdx
<1> DEFINE found == {i \in Idx : tab[i].pid = p}
<1>1. Len(tab) \in Nat
  BY DEF TypeOK
<1>2. NoIdx \notin Idx /\ found \subseteq 1..Len(tab)
  BY <1>1 DEF Idx, NoIdx
<1>3. found # {} => Greatest(found) \in found
  BY <1>1, <1>2, GreatestIsIn
<1>4. get_pid_index(p) = IF found = {} THEN NoIdx ELSE Greatest(found)
  BY DEF get_pid_index
<1> QED
  BY <1>2, <1>3, <1>4

(* A table with process 1 has a root that is found.                         *)
LEMMA RootFound == ASSUME TypeOK, HasFirst PROVE get_pid_index(GetRootPid) # NoIdx /\ GetRootPid = 1
<1> DEFINE marks == <<{i \in Idx : tab[i].pid = 1}, {i \in Idx : tab[i].ppid = 0},
                      {i \in Idx : tab[i].ppid = 1}, {i \in Idx : tab[i].pid = tab[i].ppid}>>
           found == {k \in 1..4 : marks[k] # {}}
           first == {i \in Idx : tab[i].pid = 1}
<1>1. GetRootPid = IF found = {} THEN NoPid ELSE tab[Least(marks[Least(found)])].pid
  BY DEF GetRootPid
<1>2. first # {} /\ first \subseteq Nat
  <2>1. Len(tab) \in Nat
    BY DEF TypeOK
  <2> QED
    BY <2>1 DEF HasFirst, Idx
<1>3. marks[1] = first
  OBVIOUS
<1>4. 1 \in found /\ found \subseteq 1..4
  BY <1>2, <1>3
<1> HIDE DEF marks, found, first
<1>5. Least(found) = 1
  <2>1. found \subseteq Nat /\ found # {}
    BY <1>4
  <2>2. Least(found) \in found /\ Least(found) <= 1
    BY <1>4, <2>1, LeastIsIn
  <2>3. PICK k \in 1..4 : k = Least(found)
    BY <1>4, <2>2
  <2> QED
    BY <2>2, <2>3
<1>6. Least(first) \in first
  BY <1>2, LeastIsIn
<1>7. GetRootPid = tab[Least(first)].pid
  BY <1>1, <1>3, <1>4, <1>5
<1> QED
  BY <1>6, <1>7, IndexFound DEF first

(* The loop over the parents of an element.                                 *)
LEMMA UpIs ==
    ASSUME TypeOK, NEW i \in Idx, parent \in [Idx -> Idx \cup {NoIdx}]
    PROVE  /\ Up(i) \in [0..Len(tab) -> Idx \cup {NoIdx}]
           /\ Up(i)[0] = parent[i]
           /\ \A n \in 0..(Len(tab) - 1) :
                Up(i)[n + 1] = IF Up(i)[n] = NoIdx THEN NoIdx ELSE parent[Up(i)[n]]
<1>1. PICK top \in Nat : top = Len(tab)
  BY DEF TypeOK
<1> DEFINE To == Idx \cup {NoIdx}
           over(k) == IF k = NoIdx THEN NoIdx ELSE parent[k]
           Steps(f, m) == f \in [0..top -> To] /\ f[0] = parent[i] /\ \A n \in 1..m : f[n] = over(f[n - 1])
           A == {m \in Nat : m <= top => \E f : Steps(f, m)}
<1>2. \A k \in To : over(k) \in To
  OBVIOUS
<1>3. parent[i] \in To
  OBVIOUS
<1> HIDE DEF To, over
<1>4. 0 \in A
  <2>1. Steps([n \in 0..top |-> parent[i]], 0)
    BY <1>3
  <2> QED
    BY <2>1
<1>5. ASSUME NEW m \in Nat, m \in A PROVE m + 1 \in A
  <2> SUFFICES ASSUME m + 1 <= top PROVE \E f : Steps(f, m + 1)
    OBVIOUS
  <2>1. PICK f : Steps(f, m)
    BY <1>5
  <2> DEFINE h == [f EXCEPT ![m + 1] = over(f[m])]
  <2>2. over(f[m]) \in To
    BY <1>2, <2>1
  <2>3. h \in [0..top -> To] /\ h[0] = parent[i]
    BY <2>1, <2>2
  <2>4. ASSUME NEW n \in 1..(m + 1) PROVE h[n] = over(h[n - 1])
    <3>1. CASE n = m + 1
      <4>1. h[n] = over(f[m]) /\ h[m] = f[m]
        BY <2>1, <3>1
      <4> QED
        BY <3>1, <4>1
    <3>2. CASE n \in 1..m
      <4>1. n - 1 # m + 1 /\ n # m + 1 /\ n \in 0..top /\ n - 1 \in 0..top
        BY <3>2
      <4>2. h[n] = f[n] /\ h[n - 1] = f[n - 1]
        BY <2>1, <4>1
      <4> QED
        BY <2>1, <3>2, <4>2
    <3> QED
      BY <3>1, <3>2
  <2> QED
    BY <2>3, <2>4
<1> HIDE DEF A
<1>6. top \in A
  BY <1>4, <1>5, SetInduction
<1>7. PICK f : Steps(f, top)
  BY <1>6 DEF A
<1>8. f = [n \in 0..Len(tab) |-> IF n = 0 THEN parent[i] ELSE IF f[n - 1] = NoIdx THEN NoIdx ELSE parent[f[n - 1]]]
  BY <1>1, <1>7 DEF over
<1> DEFINE G == Up(i)
<1>9. Up(i) = [n \in 0..Len(tab) |-> IF n = 0 THEN parent[i] ELSE IF Up(i)[n - 1] = NoIdx THEN NoIdx ELSE parent[Up(i)[n - 1]]]
  BY <1>8 DEF Up
<1> HIDE DEF G
<1>10. G = [n \in 0..top |-> IF n = 0 THEN parent[i] ELSE over(G[n - 1])]
  BY <1>1, <1>9 DEF G, over
<1>11. /\ G = [n \in 0..top |-> G[n]] /\ G[0] = parent[i]
       /\ \A n \in 0..(top - 1) : G[n + 1] = over(G[n])
  <2>1. ASSUME NEW n \in 0..top PROVE G[n] = IF n = 0 THEN parent[i] ELSE over(G[n - 1])
    BY <1>10
  <2>2. ASSUME NEW n \in 0..(top - 1) PROVE G[n + 1] = over(G[n])
    <3>1. n + 1 \in 0..top /\ n + 1 # 0 /\ (n + 1) - 1 = n
      OBVIOUS
    <3> QED
      BY <2>1, <3>1
  <2>3. G[0] = parent[i]
    BY <2>1
  <2>4. G = [n \in 0..top |-> G[n]]
    BY <1>10
  <2> QED
    BY <2>2, <2>3, <2>4
<1> DEFINE B == {m \in Nat : m <= top => G[m] \in To}
<1>12. \A m \in Nat : m \in B => m + 1 \in B
  <2> SUFFICES ASSUME NEW m \in Nat, m + 1 <= top, G[m] \in To PROVE G[m + 1] \in To
    OBVIOUS
  <2>1. m \in 0..(top - 1)
    OBVIOUS
  <2> QED
    BY <1>2, <1>11, <2>1
<1>13. 0 \in B
  BY <1>3, <1>11
<1> HIDE DEF B
<1>14. \A m \in Nat : m \in B
  BY <1>12, <1>13, SetInduction
<1>15. \A m \in 0..top : G[m] \in To
  BY <1>14 DEF B
<1>16. G \in [0..top -> To]
  BY <1>11, <1>15
<1> QED
  BY <1>1, <1>11, <1>16 DEF G, over, To

(* Where parents are older, the loop over the parents of an element ends:    *)
(* if it did not, it would have visited one element twice, which is then     *)
(* older than itself.                                                       *)
LEMMA ChainEnds ==
    ASSUME TypeOK, NEW C, C \subseteq Idx, NEW i \in C,
           parent \in [Idx -> Idx \cup {NoIdx}],
           \A j \in C : parent[j] # NoIdx => parent[j] \in C /\ born[tab[parent[j]].pid] < born[tab[j].pid]
    PROVE  ~Endless(i)
<1> SUFFICES ASSUME Endless(i) PROVE FALSE
  OBVIOUS
<1>1. TypeOK /\ i \in Idx
  OBVIOUS
<1>2. PICK top \in Nat : top = Len(tab)
  BY <1>1 DEF TypeOK
<1> DEFINE G == Up(i)
           age(k) == born[tab[k].pid]
<1>3. /\ G \in [0..top -> Idx \cup {NoIdx}]
      /\ \A n \in 0..(top - 1) : G[n + 1] = IF G[n] = NoIdx THEN NoIdx ELSE parent[G[n]]
      /\ G[top] # NoIdx /\ G[0] = parent[i]
  BY <1>1, <1>2, UpIs DEF Endless
<1>4. Idx = 1..top /\ NoIdx \notin Idx
  BY <1>2 DEF Idx, NoIdx
<1>5. \A k \in Idx : age(k) \in Nat
  <2>1. \A k \in Idx : tab[k].pid \in Pids
    <3> SUFFICES ASSUME NEW k \in 1..Len(tab) PROVE tab[k].pid \in Pids
      BY DEF Idx
    <3>1. tab \in Seq(Entry)
      BY <1>1 DEF TypeOK, Entry
    <3>2. tab[k] \in Entry
      BY <3>1
    <3> QED
      BY <3>2 DEF Entry
  <2>2. \A r \in Pids : born[r] \in Nat
    BY <1>1, KernelTypes
  <2> QED
    BY <2>1, <2>2
<1>6. \A k \in C : parent[k] # NoIdx => parent[k] \in C /\ age(parent[k]) < age(k)
  OBVIOUS
<1> HIDE DEF G, age
<1> DEFINE A == {m \in Nat : m <= top => G[top - m] # NoIdx}
<1>12. \A n \in 0..top : G[n] \in Idx
  <2>1. 0 \in A
    BY <1>3
  <2>2. ASSUME NEW m \in Nat, m \in A PROVE m + 1 \in A
    <3> SUFFICES ASSUME m + 1 <= top, G[top - (m + 1)] = NoIdx PROVE FALSE
      OBVIOUS
    <3>1. PICK n \in 0..(top - 1) : n = top - (m + 1) /\ n + 1 = top - m
      OBVIOUS
    <3>2. G[n + 1] = NoIdx
      BY <1>3, <3>1
    <3> QED
      BY <2>2, <3>1, <3>2
  <2> HIDE DEF A
  <2>3. \A m \in Nat : m \in A
    BY <2>1, <2>2, SetInduction
  <2>4. ASSUME NEW n \in 0..top PROVE G[n] # NoIdx
    <3>1. top - n \in Nat /\ top - n <= top /\ top - (top - n) = n
      OBVIOUS
    <3>2. top - n \in A
      BY <2>3, <3>1
    <3> QED
      BY <3>1, <3>2 DEF A
  <2> QED
    BY <1>3, <2>4
<1>7. \A n \in 0..top : G[n] \in C /\ G[n] \in Idx
  <2> DEFINE B == {n \in Nat : n <= top => G[n] \in C}
  <2>1. 0 \in B
    <3>1. G[0] # NoIdx
      BY <1>4, <1>12
    <3> QED
      BY <1>3, <1>6, <3>1
  <2>2. ASSUME NEW n \in Nat, n \in B PROVE n + 1 \in B
    <3> SUFFICES ASSUME n + 1 <= top PROVE G[n + 1] \in C
      OBVIOUS
    <3>1. n \in 0..(top - 1) /\ n \in 0..top /\ n + 1 \in 0..top /\ G[n] \in C
      BY <2>2
    <3>2. G[n] # NoIdx /\ G[n + 1] # NoIdx
      BY <1>4, <1>12, <3>1
    <3> QED
      BY <1>3, <1>6, <3>1, <3>2
  <2> HIDE DEF B
  <2>3. \A n \in Nat : n \in B
    BY <2>1, <2>2, SetInduction
  <2> QED
    BY <1>12, <2>3 DEF B
<1>8. \A n \in 0..(top - 1) : age(G[n + 1]) < age(G[n])
  <2> SUFFICES ASSUME NEW n \in 0..(top - 1) PROVE age(G[n + 1]) < age(G[n])
    OBVIOUS
  <2>1. n \in 0..top /\ n + 1 \in 0..top
    OBVIOUS
  <2>2. G[n] \in C /\ G[n] \in Idx /\ G[n + 1] \in Idx /\ G[n + 1] = parent[G[n]]
    BY <1>3, <1>4, <1>7, <2>1
  <2> QED
    BY <1>4, <1>6, <2>2
<1>9. ASSUME NEW x \in 0..top, NEW y \in 0..top, x < y PROVE age(G[y]) < age(G[x])
  <2> DEFINE B == {m \in Nat : x + m + 1 <= top => age(G[x + m + 1]) < age(G[x])}
  <2>1. 0 \in B
    <3> SUFFICES ASSUME x + 1 <= top PROVE age(G[x + 0 + 1]) < age(G[x])
      OBVIOUS
    <3>1. x \in 0..(top - 1) /\ x + 0 + 1 = x + 1
      OBVIOUS
    <3> QED
      BY <1>8, <3>1
  <2>2. ASSUME NEW m \in Nat, m \in B PROVE m + 1 \in B
    <3> SUFFICES ASSUME x + (m + 1) + 1 <= top PROVE age(G[x + (m + 1) + 1]) < age(G[x])
      OBVIOUS
    <3>1. PICK n \in 0..(top - 1) : n = x + m + 1 /\ n + 1 = x + (m + 1) + 1 /\ n \in 0..top /\ n + 1 \in 0..top
      OBVIOUS
    <3>2. age(G[n + 1]) < age(G[n]) /\ age(G[n]) < age(G[x])
      BY <1>8, <2>2, <3>1
    <3>3. age(G[n + 1]) \in Nat /\ age(G[n]) \in Nat /\ age(G[x]) \in Nat
      BY <1>5, <1>7, <3>1
    <3>4. age(G[n + 1]) < age(G[x])
      BY <3>2, <3>3
    <3> QED
      BY <3>1, <3>4
  <2> HIDE DEF B
  <2>3. \A m \in Nat : m \in B
    BY <2>1, <2>2, SetInduction
  <2>4. y - x - 1 \in Nat /\ x + (y - x - 1) + 1 = y
    BY <1>9
  <2>5. y - x - 1 \in B
    BY <2>3, <2>4
  <2> QED
    BY <2>4, <2>5 DEF B
<1>10. PICK x \in 0..top, y \in 0..top : x # y /\ G[x] = G[y]
  <2> DEFINE rounds == 0..top  elements == 1..top
  <2>1. IsFiniteSet(rounds) /\ Cardinality(rounds) = top + 1
    BY FS_Interval
  <2>2. IsFiniteSet(elements) /\ Cardinality(elements) = top
    BY FS_Interval
  <2>3. G \in [rounds -> elements]
    BY <1>3, <1>4, <1>7
  <2>4. Cardinality(elements) < Cardinality(rounds)
    BY <2>1, <2>2
  <2> HIDE DEF rounds, elements
  <2>5. \E x, y \in rounds : x # y /\ G[x] = G[y]
    BY <2>1, <2>2, <2>3, <2>4, FS_PigeonHole
  <2> QED
    BY <2>5 DEF rounds
<1>11. x < y \/ y < x
  BY <1>10
<1> QED
  BY <1>5, <1>7, <1>9, <1>10, <1>11

(* So it does for every element where the parents in the table are older.   *)
LEMMA LoopEnds ==
    ASSUME IInv, ~reused, spaced = {}, NEW i \in Idx,
           parent \in [Idx -> Idx \cup {NoIdx}],
           \A j \in Idx : parent[j] # NoIdx => tab[parent[j]].pid = tab[j].ppid
    PROVE  ~Endless(i)
<1>1. TypeOK /\ ParentsOlder
  BY OlderInTable DEF IInv
<1>2. \A j \in Idx : parent[j] # NoIdx => parent[j] \in Idx /\ born[tab[parent[j]].pid] < born[tab[j].pid]
  BY <1>1 DEF ParentsOlder
<1> QED
  BY <1>1, <1>2, ChainEnds

(***************************************************************************)
(* How the programs end.                                                   *)
(***************************************************************************)
LEMMA InitEnd == Init => EndInv
<1> SUFFICES ASSUME Init PROVE EndInv
  OBVIOUS
<1>1. PlaceInv
  <2>1. prog # "part2" => pc = "list"
    BY DEF Init
  <2>2. prog = "part2" /\ input = "none" => pc = "glob"
    BY DEF Init
  <2>3. pc \in {"list", "glob", "input"}
    BY DEF Init
  <2> QED
    BY <2>1, <2>2, <2>3 DEF PlaceInv
<1>2. FirstInv /\ LinkInv
  BY DEF Init, FirstInv, LinkInv, TreePcs
<1> QED
  BY <1>1, <1>2 DEF EndInv

(* A fork or an exit moves no program, and counts.                          *)
LEMMA EventEnd ==
    ASSUME IInv, EndInv, NEW p \in Pids, \E q \in Pids : Exit(p, q) \/ Fork(p, q)
    PROVE  EndInv'
<1>1. UNCHANGED Unmoved /\ UNCHANGED parent /\ nevents' = nevents + 1
  BY DEF Exit, Fork, Event, Unmoved, cvars, rvars, lvars
<1>2. nevents \in Nat /\ nevents' > 0 /\ nevents' # 0
  <2>1. nevents \in Nat
    BY KernelTypes DEF IInv
  <2> QED
    BY <1>1, <2>1
<1>3. reused => reused'
  BY DEF Exit, Fork
<1>4. PlaceInv'
  BY <1>1, <1>2 DEF EndInv, PlaceInv, Unmoved
<1>5. FirstInv'
  BY <1>1 DEF EndInv, FirstInv, HasFirst, Idx, Unmoved
<1>6. LinkInv'
  BY <1>1, <1>3 DEF EndInv, LinkInv, Idx, Unmoved
<1> QED
  BY <1>4, <1>5, <1>6 DEF EndInv

(* Where a step of a program leads, and when to a crash or a loop.          *)
LEMMA PlaceStep == ASSUME IInv, PlaceInv, Program PROVE PlaceInv'
<1>0. UNCHANGED <<prog, input, nevents, alive>>
  BY DEF Program, Glob, ReadStat, ReadCmdline, ReadEnds, GetProcesses, MakeTree, MarkProcs, DropProcs,
         PrintAll, ReadDir, show_name_id, show_fd_link, Loop, cvars, kvars
<1>1. CASE Glob \/ ReadStat \/ ReadCmdline \/ ReadEnds
  <2>1. pc \in {"glob", "stat", "cmdline"} /\ pc' \in {"glob", "stat", "cmdline", "tree"}
    BY <1>1 DEF Glob, ReadStat, ReadCmdline, ReadEnds, Goto
  <2> QED
    BY <1>0, <2>1 DEF PlaceInv, TreePcs
<1>2. CASE GetProcesses
  <2>1. pc = "input" /\ pc' \in {"exit1", "crash", "tree"}
    BY <1>2 DEF GetProcesses
  <2> QED
    BY <1>0, <2>1 DEF PlaceInv, TreePcs
<1>3. CASE MakeTree \/ MarkProcs \/ DropProcs
  <2>1. pc \in TreePcs /\ pc' \in TreePcs \cup {"loops"}
    BY <1>3 DEF MakeTree, MarkProcs, MarkSelected, DropProcs, Loop, Goto, TreePcs
  <2> QED
    BY <1>0, <2>1 DEF PlaceInv, TreePcs
<1>4. CASE PrintAll
  <2>1. pc = "print" /\ pc' \in {"done", "crash"}
    BY <1>4 DEF PrintAll, Goto
  <2> QED
    BY <1>0, <2>1 DEF PlaceInv, TreePcs
<1>5. CASE ReadDir
  <2>1. pc = "list" /\ pc' \in {"show", "done"} /\ (pc' = "show" => cursor' = Least(Next_entries) /\ Next_entries # {})
    BY <1>5 DEF ReadDir, Goto
  <2>2. Next_entries # {} => Least(Next_entries) \in alive
    <3>1. Next_entries \subseteq Nat /\ Next_entries \subseteq alive
      BY PidFacts DEF Next_entries, Visible
    <3> QED
      BY <3>1, LeastIsIn
  <2> QED
    BY <1>0, <2>1, <2>2 DEF PlaceInv, TreePcs
<1>6. CASE show_name_id
  <2>1. prog = "part1" /\ pc = "show" /\ pc' \in {"list", "crash"} /\ (pc' = "crash" => cursor \notin alive)
    BY <1>6 DEF show_name_id, Goto
  <2>2. nevents = 0 \/ nevents > 0
    <3>1. nevents \in Nat
      BY KernelTypes DEF IInv
    <3> QED
      BY <3>1
  <2> QED
    BY <1>0, <2>1, <2>2 DEF PlaceInv
<1>7. CASE show_fd_link
  <2>1. prog = "part3" /\ pc = "show" /\ pc' = "list"
    BY <1>7 DEF show_fd_link, Goto
  <2> QED
    BY <1>0, <2>1 DEF PlaceInv
<1> QED
  BY <1>1, <1>2, <1>3, <1>4, <1>5, <1>6, <1>7 DEF Program

(* Process 1 is seen first, read last, and stays in the table.              *)
LEMMA FirstStep == ASSUME IInv, PlaceInv, FirstInv, Program PROVE FirstInv'
<1>0. TypeOK /\ UNCHANGED <<prog, input, hidepid, alive>> /\ 1 \in alive /\ 1 \in Pids
  <2>1. UNCHANGED <<prog, input, hidepid, alive>>
    BY DEF Program, Glob, ReadStat, ReadCmdline, ReadEnds, GetProcesses, MakeTree, MarkProcs, DropProcs,
           PrintAll, ReadDir, show_name_id, show_fd_link, Loop, cvars, kvars
  <2> QED
    BY <2>1, KernelTypes, PidFacts DEF IInv
<1> SUFFICES ASSUME prog = "part2", input = "none", ~hidepid PROVE FirstInv'
  BY <1>0 DEF FirstInv
<1>1. CASE Glob
  <2>1. UNCHANGED tab /\ pc = "glob" /\ pc' \in {"glob", "stat"}
    BY <1>1 DEF Glob, Goto
  <2>2. cursor = NoPid => 1 \in Next_entries /\ Least(Next_entries) = 1
    <3> SUFFICES ASSUME cursor = NoPid PROVE 1 \in Next_entries /\ Least(Next_entries) = 1
      OBVIOUS
    <3>1. 1 \in Next_entries
      BY <1>0 DEF Next_entries, Visible, NoPid
    <3>2. Next_entries \subseteq Nat \ {0}
      BY PidFacts DEF Next_entries
    <3>3. Least(Next_entries) \in Next_entries /\ Least(Next_entries) <= 1
      BY <3>1, <3>2, LeastIsIn
    <3>4. PICK k \in Nat \ {0} : k = Least(Next_entries)
      BY <3>2, <3>3
    <3> QED
      BY <3>1, <3>3, <3>4
  <2>3. \/ Next_entries = {} /\ pc' = "stat" /\ UNCHANGED names
        \/ pc' = "glob" /\ cursor' = Least(Next_entries) /\ names' = names \cup {cursor'}
    BY <1>1 DEF Glob, Goto
  <2>4. pc' = "glob" => 1 \in names'
    BY <2>1, <2>2, <2>3 DEF FirstInv
  <2>5. pc' = "stat" => 1 \in names'
    BY <2>1, <2>2, <2>3 DEF FirstInv
  <2> QED
    BY <2>1, <2>4, <2>5 DEF FirstInv, TreePcs
<1>2. CASE ReadStat
  <2>1. UNCHANGED tab /\ pc = "stat" /\ pc' \in {"stat", "cmdline"}
    BY <1>2 DEF ReadStat, Goto
  <2> DEFINE p == Greatest(names)
  <2>2. names' = names \ {p} /\ (IF p \in alive THEN pc' = "cmdline" /\ slot'.pid = p ELSE pc' = "stat")
    BY <1>2 DEF ReadStat, Goto
  <2> HIDE DEF p
  <2> QED
    BY <1>0, <2>1, <2>2 DEF FirstInv, HasFirst, Idx, TreePcs
<1>3. CASE ReadCmdline
  <2>1. pc = "cmdline" /\ pc' = "stat" /\ UNCHANGED names
    BY <1>3 DEF ReadCmdline, Goto
  <2>2. CASE slot.pid \notin alive
    <3>1. UNCHANGED tab
      BY <1>3, <2>2 DEF ReadCmdline
    <3> QED
      BY <1>0, <2>1, <2>2, <3>1 DEF FirstInv, HasFirst, Idx, TreePcs
  <2>3. CASE slot.pid \in alive
    <3> DEFINE e == [pid |-> slot.pid, ppid |-> slot.ppid, full |-> UserOf[slot.pid] \notin un]
    <3>1. tab' = Append(tab, e)
      BY <1>3, <2>3 DEF ReadCmdline
    <3>2. e \in Entry /\ tab \in Seq(Entry)
      BY <1>0, <2>1 DEF TypeOK, Entry
    <3>3. e.pid = slot.pid
      OBVIOUS
    <3> HIDE DEF e
    <3>4. /\ Len(tab') = Len(tab) + 1 /\ Len(tab) \in Nat
          /\ tab'[Len(tab) + 1] = e /\ \A i \in 1..Len(tab) : tab'[i] = tab[i]
      BY <3>1, <3>2, TableGrows
    <3>5. HasFirst => HasFirst'
      BY <3>4 DEF HasFirst, Idx
    <3>6. slot.pid = 1 => HasFirst'
      BY <3>3, <3>4 DEF HasFirst, Idx
    <3> QED
      BY <2>1, <3>5, <3>6 DEF FirstInv, TreePcs
  <2> QED
    BY <2>2, <2>3
<1>4. CASE ReadEnds
  <2>1. UNCHANGED tab /\ pc = "stat" /\ pc' = "tree" /\ names = {}
    BY <1>4 DEF ReadEnds, Goto, rvars
  <2> QED
    BY <2>1 DEF FirstInv, HasFirst, Idx, TreePcs
<1>5. CASE MakeTree \/ MarkProcs \/ DropProcs
  <2>1. UNCHANGED tab /\ pc \in TreePcs /\ pc' \in TreePcs \cup {"loops"}
    BY <1>5 DEF MakeTree, MarkProcs, MarkSelected, DropProcs, Loop, Goto, TreePcs, rvars
  <2> QED
    BY <2>1 DEF FirstInv, HasFirst, Idx, TreePcs
<1>6. CASE PrintAll
  <2>1. UNCHANGED tab /\ pc = "print" /\ pc' \in {"done", "crash"}
        /\ (pc' = "crash" => get_pid_index(GetRootPid) = NoIdx)
    BY <1>6 DEF PrintAll, Goto, rvars
  <2>2. HasFirst
    BY <2>1 DEF FirstInv, TreePcs
  <2>3. pc' = "done"
    BY <1>0, <2>1, <2>2, RootFound
  <2> QED
    BY <2>3 DEF FirstInv, TreePcs
<1>7. CASE GetProcesses \/ ReadDir \/ show_name_id \/ show_fd_link
  <2>1. pc \in {"input", "list", "show"}
    BY <1>7 DEF GetProcesses, ReadDir, show_name_id, show_fd_link, Goto
  <2> QED
    BY <2>1 DEF PlaceInv, TreePcs
<1> QED
  BY <1>1, <1>2, <1>3, <1>4, <1>5, <1>6, <1>7 DEF Program

(* Every link that MakeTree makes is to the parent.                         *)
LEMMA LinkStep == ASSUME IInv, PlaceInv, LinkInv, Program PROVE LinkInv'
<1>0. TypeOK /\ UNCHANGED <<prog, input, reused, spaced>>
  <2>1. UNCHANGED <<prog, input, reused, spaced>>
    BY DEF Program, Glob, ReadStat, ReadCmdline, ReadEnds, GetProcesses, MakeTree, MarkProcs, DropProcs,
           PrintAll, ReadDir, show_name_id, show_fd_link, Loop, cvars, kvars
  <2> QED
    BY <2>1 DEF IInv
<1> SUFFICES ASSUME prog = "part2", input = "none" PROVE LinkInv'
  BY <1>0 DEF LinkInv
<1>1. CASE Glob \/ ReadStat \/ ReadCmdline \/ DropProcs \/ PrintAll
  <2>1. pc' \in {"glob", "stat", "cmdline", "drop", "print", "done", "crash"}
    BY <1>1 DEF Glob, ReadStat, ReadCmdline, DropProcs, PrintAll, Loop, Goto
  <2> QED
    BY <2>1 DEF LinkInv
<1>2. CASE ReadEnds
  <2>1. UNCHANGED tab /\ pc' = "tree" /\ parent' = [i \in Idx |-> NoIdx]
    BY <1>2 DEF ReadEnds, Goto, rvars
  <2> QED
    BY <2>1 DEF LinkInv, Idx
<1>3. CASE MakeTree
  <2>1. UNCHANGED tab /\ pc = "tree" /\ pc' \in {"tree", "mark"}
    BY <1>3 DEF MakeTree, Loop, Goto, rvars
  <2>2. /\ parent \in [Idx -> Idx \cup {NoIdx}]
        /\ \A i \in Idx : parent[i] # NoIdx => tab[parent[i]].pid = tab[i].ppid
    BY <2>1 DEF LinkInv
  <2> DEFINE p == get_pid_index(tab[me].ppid)
  <2>3. \/ UNCHANGED parent
        \/ me \in Idx /\ p # NoIdx /\ parent' = [parent EXCEPT ![me] = p]
    BY <1>3 DEF MakeTree, lvars
  <2>4. p \in Idx \cup {NoIdx} /\ (p # NoIdx => tab[p].pid = tab[me].ppid)
    BY <1>0, IndexFound
  <2> HIDE DEF p
  <2>5. /\ parent' \in [Idx -> Idx \cup {NoIdx}]
        /\ \A i \in Idx : parent'[i] # NoIdx => tab[parent'[i]].pid = tab[i].ppid
    BY <2>2, <2>3, <2>4
  <2> QED
    BY <2>1, <2>5 DEF LinkInv, Idx
<1>4. CASE MarkProcs
  <2>1. UNCHANGED <<tab, parent>> /\ pc = "mark" /\ pc' \in {"mark", "drop", "loops"}
        /\ (pc' = "loops" => me \in Idx /\ Endless(me))
    BY <1>4 DEF MarkProcs, MarkSelected, Loop, Goto, rvars, lvars
  <2>2. pc' = "loops" => reused \/ spaced # {}
    BY <2>1, LoopEnds DEF LinkInv
  <2> QED
    BY <1>0, <2>1, <2>2 DEF LinkInv, Idx
<1>5. CASE GetProcesses \/ ReadDir \/ show_name_id \/ show_fd_link
  <2>1. pc \in {"input", "list", "show"}
    BY <1>5 DEF GetProcesses, ReadDir, show_name_id, show_fd_link, Goto
  <2> QED
    BY <2>1 DEF PlaceInv, TreePcs
<1> QED
  BY <1>1, <1>2, <1>3, <1>4, <1>5 DEF Program

(* Neither the programs nor the system change where they can be.            *)
LEMMA EndStep == ASSUME IInv, EndInv, [Next]_vars PROVE EndInv'
<1>1. CASE UNCHANGED vars
  BY <1>1 DEF vars, kvars, cvars, rvars, lvars, EndInv, PlaceInv, FirstInv, HasFirst, LinkInv, Idx
<1>2. CASE Program
  BY <1>2, PlaceStep, FirstStep, LinkStep DEF EndInv
<1> QED
  BY <1>1, <1>2, EventEnd DEF Next

(* No program ends in a loop or a crash, for any number of processes, forks *)
(* and exits: part3 never, part1 only where something has happened, and     *)
(* pstree, which finds the root and comes to the end of every chain of      *)
(* parents, only where it cannot see process 1 or a pid was used again or a *)
(* name has a space.                                                        *)
THEOREM ProgramsEndWell == Spec => []EndsWell
<1>1. IInv /\ EndInv /\ [Next]_vars => EndInv'
  BY EndStep
<1>2. IInv /\ EndInv => EndsWell
  <2> SUFFICES ASSUME IInv, EndInv, pc \in {"loops", "crash", "exit1"}, input = "none" \/ prog # "part2" PROVE EndsWell
    BY DEF EndsWell
  <2>1. prog \in {"part1", "part2", "part3"}
    BY DEF IInv, TypeOK
  <2> QED
    BY <2>1 DEF EndInv, PlaceInv, FirstInv, LinkInv, EndsWell, TreePcs
<1> QED
  BY Invariance, InitEnd, <1>1, <1>2, PTL DEF Spec

(***************************************************************************)
(* The lists of children.                                                  *)
(***************************************************************************)
Kids(p) == {i \in Idx : parent[i] = p}
(* The elements with the parent of i, those that are marked, and the parent *)
(* that the table gives an element.                                          *)
Sibs(i) == IF parent[i] = NoIdx THEN {i} ELSE Kids(parent[i])
Printed(S) == {i \in S : print[i]}

(* n is the next element of S after i, if there is one.                     *)
IsNext(S, i, n) ==
    \/ n = NoIdx /\ \A j \in S : j <= i
    \/ n \in S /\ n > i /\ \A j \in S : j > i => n <= j

ParentOf(i) == LET p == get_pid_index(tab[i].ppid) IN IF p = i THEN NoIdx ELSE p

Links(S) == [S -> S \cup {NoIdx}]
LinkTypes == parent \in Links(Idx) /\ child \in Links(Idx) /\ sister \in Links(Idx)

(* The links give the elements with the same parent one after the other.    *)
Linked ==
    LinkTypes /\ \A i \in Idx : IsNext(Kids(i), 0, child[i]) /\ IsNext(Sibs(i), i, sister[i])

(* The same where DropProcs has come to m.                                  *)
Dropped(m) ==
    /\ LinkTypes
    /\ \A i \in Idx :
        IF i < m /\ print[i]
        THEN IsNext(Printed(Kids(i)), 0, child[i]) /\ IsNext(Printed(Sibs(i)), i, sister[i])
        ELSE IsNext(Kids(i), 0, child[i]) /\ IsNext(Sibs(i), i, sister[i])

(* No pid is in the table twice, and process 1 has no parent in it.         *)
UniqueInv ==
    prog = "part2" =>
        /\ pc = "glob" => tab = <<>>
        /\ pc \in {"stat", "cmdline"} => \A i \in Idx : tab[i].pid \notin names
        /\ pc = "cmdline" => slot.pid \notin names /\ \A i \in Idx : tab[i].pid # slot.pid
        /\ \A i, j \in Idx : tab[i].pid = tab[j].pid => i = j
        /\ 1 \notin spaced => /\ pc = "cmdline" /\ slot.pid = 1 => slot.ppid = NoPid
                              /\ \A i \in Idx : tab[i].pid = 1 => tab[i].ppid = NoPid
        /\ input # "none" => tab = <<>> /\ pc \notin {"glob", "stat", "cmdline"}

(* The links and the parents, as far as each loop has come.                 *)
TreeInv ==
    prog = "part2" /\ input = "none" =>
        /\ pc \in {"glob", "stat", "cmdline"} => me = 1
        /\ pc = "tree" => Linked /\ \A i \in Idx : parent[i] = IF i < me THEN ParentOf(i) ELSE NoIdx
        /\ pc = "mark" => Linked
        /\ pc = "drop" => Dropped(me)
        /\ pc \in {"print", "done"} => Dropped(Len(tab) + 1)
        /\ pc \in {"mark", "drop", "print", "done"} => \A i \in Idx : parent[i] = ParentOf(i)

(* The three marks of each element are Booleans.                            *)
FlagInv ==
    prog = "part2" /\ input = "none" /\ pc \in TreePcs \cup {"done"} =>
        print \in [Idx -> BOOLEAN] /\ selected \in [Idx -> BOOLEAN] /\ hidden \in [Idx -> BOOLEAN]

(* Indices are numbers, in order.                                           *)
LEMMA IndexFacts ==
    ASSUME TypeOK
    PROVE  \E top \in Nat : top = Len(tab) /\ Idx = 1..top /\ NoIdx = 0 /\ NoIdx \notin Idx
<1>1. Len(tab) \in Nat
  BY DEF TypeOK
<1> QED
  BY <1>1 DEF Idx, NoIdx

(* There is one next element.                                               *)
LEMMA NextIs ==
    ASSUME NEW S, S \subseteq Nat \ {0}, NEW i \in Nat
    PROVE  /\ \E n \in S \cup {NoIdx} : IsNext(S, i, n)
           /\ \A n, m : IsNext(S, i, n) /\ IsNext(S, i, m) => n = m
<1> DEFINE T == {j \in S : j > i}
<1>1. ASSUME T = {} PROVE \E n \in S \cup {NoIdx} : IsNext(S, i, n)
  <2>1. \A j \in S : j \in Nat /\ ~(j > i)
    BY <1>1
  <2>2. \A j \in S : j <= i
    BY <2>1
  <2>3. IsNext(S, i, NoIdx)
    BY <2>2 DEF IsNext
  <2> QED
    BY <2>3
<1>2. ASSUME T # {} PROVE \E n \in S \cup {NoIdx} : IsNext(S, i, n)
  <2>1. T \subseteq Nat
    OBVIOUS
  <2>2. PICK n \in T : \A y \in T : n <= y
    BY <1>2, <2>1, LeastIsIn
  <2>3. IsNext(S, i, n)
    BY <2>2 DEF IsNext
  <2> QED
    BY <2>2, <2>3
<1>3. ASSUME NEW n, NEW m, IsNext(S, i, n), IsNext(S, i, m) PROVE n = m
  <2>1. CASE n \in S /\ m \in S
    BY <1>3, <2>1 DEF IsNext, NoIdx
  <2>2. CASE n = NoIdx /\ m \in S
    BY <1>3, <2>2 DEF IsNext, NoIdx
  <2>3. CASE m = NoIdx /\ n \in S
    BY <1>3, <2>3 DEF IsNext, NoIdx
  <2> QED
    BY <1>3, <2>1, <2>2, <2>3 DEF IsNext
<1> QED
  BY <1>1, <1>2, <1>3

(* The loop over the sisters ends with the last of them.                    *)
LEMMA LastSisterIs ==
    ASSUME TypeOK, Linked, NEW i \in Idx
    PROVE  LastSister(i) \in Sibs(i) /\ \A j \in Sibs(i) : j <= LastSister(i)
<1>1. PICK top \in Nat : top = Len(tab) /\ Idx = 1..top /\ NoIdx = 0 /\ NoIdx \notin Idx
  BY IndexFacts
<1>2. /\ parent \in [Idx -> Idx \cup {NoIdx}] /\ sister \in [Idx -> Idx \cup {NoIdx}]
      /\ \A k \in Idx : IsNext(Sibs(k), k, sister[k])
  BY DEF Linked, LinkTypes, Links
<1>3. \A k \in Idx : k \in Sibs(k) /\ Sibs(k) \subseteq Idx
  BY <1>2 DEF Sibs, Kids
<1>4. \A k \in Idx : sister[k] # NoIdx =>
        sister[k] \in Idx /\ sister[k] > k /\ Sibs(sister[k]) = Sibs(k)
  <2> SUFFICES ASSUME NEW k \in Idx, sister[k] # NoIdx
               PROVE  sister[k] \in Idx /\ sister[k] > k /\ Sibs(sister[k]) = Sibs(k)
    OBVIOUS
  <2>1. sister[k] \in Sibs(k) /\ sister[k] > k
    BY <1>2 DEF IsNext
  <2>2. k \in Nat /\ sister[k] \in Idx
    BY <1>1, <1>3, <2>1
  <2>3. parent[k] # NoIdx /\ parent[sister[k]] = parent[k]
    BY <1>1, <2>1, <2>2 DEF Sibs, Kids
  <2> QED
    BY <2>1, <2>2, <2>3 DEF Sibs
<1>5. \A k \in Idx : sister[k] = NoIdx => \A j \in Sibs(k) : j <= k
  BY <1>1, <1>2 DEF IsNext
<1> DEFINE g == [k \in Idx |-> Greatest(Sibs(k))]
           last == CHOOSE f : f = [k \in Idx |-> IF sister[k] = NoIdx THEN k ELSE f[sister[k]]]
<1> HIDE DEF last
<1>6. \A k \in Idx : g[k] \in Sibs(k) /\ \A j \in Sibs(k) : j <= g[k]
  <2> SUFFICES ASSUME NEW k \in Idx PROVE Greatest(Sibs(k)) \in Sibs(k) /\ \A j \in Sibs(k) : j <= Greatest(Sibs(k))
    OBVIOUS
  <2>1. Sibs(k) \subseteq 1..top /\ Sibs(k) # {}
    BY <1>1, <1>3
  <2> QED
    BY <2>1, GreatestOf
<1>7. g = [k \in Idx |-> IF sister[k] = NoIdx THEN k ELSE g[sister[k]]]
  <2>1. ASSUME NEW k \in Idx PROVE g[k] = IF sister[k] = NoIdx THEN k ELSE g[sister[k]]
    <3>1. CASE sister[k] = NoIdx
      <4>1. g[k] \in Nat /\ k \in Nat /\ g[k] <= k /\ k <= g[k]
        BY <1>1, <1>3, <1>5, <1>6, <3>1
      <4> QED
        BY <3>1, <4>1
    <3>2. CASE sister[k] # NoIdx
      BY <1>4, <3>2
    <3> QED
      BY <3>1, <3>2
  <2> HIDE DEF g
  <2>2. g = [k \in Idx |-> g[k]]
    BY DEF g
  <2> QED
    BY <2>1, <2>2
<1> HIDE DEF g
<1>8. last = [k \in Idx |-> IF sister[k] = NoIdx THEN k ELSE last[sister[k]]]
  BY <1>7 DEF last
<1>9. LastSister(i) = last[i]
  BY DEF LastSister, last
<1> DEFINE A == {m \in Nat : \A k \in Idx : k + m > top => last[k] = g[k]}
<1>10. 0 \in A
  BY <1>1
<1>11. ASSUME NEW m \in Nat, m \in A PROVE m + 1 \in A
  <2> SUFFICES ASSUME NEW k \in Idx, k + (m + 1) > top PROVE last[k] = g[k]
    OBVIOUS
  <2>1. CASE sister[k] = NoIdx
    BY <1>7, <1>8, <2>1
  <2>2. CASE sister[k] # NoIdx
    <3>1. sister[k] \in Idx /\ sister[k] + m > top
      BY <1>1, <1>4, <2>2
    <3>2. last[sister[k]] = g[sister[k]]
      BY <1>11, <3>1
    <3> QED
      BY <1>7, <1>8, <2>2, <3>2
  <2> QED
    BY <2>1, <2>2
<1> HIDE DEF A
<1>12. top \in A
  BY <1>10, <1>11, SetInduction
<1>13. i + top > top
  BY <1>1
<1>14. last[i] = g[i]
  BY <1>12, <1>13 DEF A
<1> QED
  BY <1>6, <1>9, <1>14

(***************************************************************************)
(* Reading, and making the tree.                                           *)
(***************************************************************************)

(* What no step of pstree does to the system and to what is chosen.         *)
LEMMA Chosen == ASSUME Program PROVE UNCHANGED <<alive, ppid, born, spaced, hidepid, prog, input, reused, nevents>>
BY DEF Program, Glob, ReadStat, ReadCmdline, ReadEnds, GetProcesses, MakeTree, MarkProcs, DropProcs,
       PrintAll, ReadDir, show_name_id, show_fd_link, Loop, cvars, kvars

(* No program reads a pid twice into the table.                             *)
LEMMA UniqueStep == ASSUME IInv, PlaceInv, UniqueInv, Program PROVE UniqueInv'
<1>0. TypeOK /\ FamilyInv /\ UNCHANGED <<prog, input, spaced, ppid>>
  BY Chosen DEF IInv
<1> SUFFICES ASSUME prog = "part2" PROVE UniqueInv'
  BY <1>0 DEF UniqueInv
<1>1. CASE Glob
  <2>1. UNCHANGED tab /\ pc = "glob" /\ pc' \in {"glob", "stat"}
    BY <1>1 DEF Glob, Goto
  <2>2. tab = <<>> /\ Len(tab) = 0
    BY <2>1 DEF UniqueInv
  <2> QED
    BY <1>0, <2>1, <2>2 DEF UniqueInv, Idx
<1>2. CASE ReadStat
  <2>1. UNCHANGED tab /\ pc = "stat" /\ pc' \in {"stat", "cmdline"}
    BY <1>2 DEF ReadStat, Goto
  <2> DEFINE p == Greatest(names)
  <2>2. /\ names' = names \ {p}
        /\ pc' = "cmdline" =>
            slot'.pid = p /\ slot'.ppid = IF p \in spaced THEN slot.ppid ELSE ppid[p]
    BY <1>2 DEF ReadStat, Goto
  <2>3. p \in names
    <3>1. names \subseteq 1..PidMax /\ names # {} /\ PidMax \in Nat
      BY <1>0, <1>2, ProcAssumption DEF TypeOK, ReadStat, Pids
    <3> QED
      BY <3>1, GreatestIsIn
  <2>4. ppid[1] = NoPid
    BY <1>0 DEF FamilyInv
  <2> HIDE DEF p
  <2> QED
    BY <1>0, <2>1, <2>2, <2>3, <2>4 DEF UniqueInv, Idx
<1>3. CASE ReadCmdline
  <2>1. pc = "cmdline" /\ pc' = "stat" /\ UNCHANGED names
    BY <1>3 DEF ReadCmdline, Goto
  <2>2. CASE slot.pid \notin alive
    <3>1. UNCHANGED tab
      BY <1>3, <2>2 DEF ReadCmdline
    <3> QED
      BY <1>0, <2>1, <3>1 DEF UniqueInv, Idx
  <2>3. CASE slot.pid \in alive
    <3> DEFINE e == [pid |-> slot.pid, ppid |-> slot.ppid, full |-> UserOf[slot.pid] \notin un]
    <3>1. tab' = Append(tab, e)
      BY <1>3, <2>3 DEF ReadCmdline
    <3>2. e \in Entry /\ tab \in Seq(Entry)
      BY <1>0, <2>1 DEF TypeOK, Entry
    <3>3. e.pid = slot.pid /\ e.ppid = slot.ppid
      OBVIOUS
    <3> HIDE DEF e
    <3>4. PICK top \in Nat : /\ top = Len(tab) /\ Len(tab') = top + 1
                             /\ tab'[top + 1] = e /\ \A i \in 1..top : tab'[i] = tab[i]
      BY <3>1, <3>2, TableGrows
    <3>5. \A i \in 1..top : tab[i].pid \notin names /\ tab[i].pid # slot.pid
      BY <2>1, <3>4 DEF UniqueInv, Idx
    <3>6. \A i, j \in 1..top : tab[i].pid = tab[j].pid => i = j
      BY <3>4 DEF UniqueInv, Idx
    <3>7. Idx' = 1..(top + 1) /\ \A i \in Idx' : i = top + 1 \/ i \in 1..top
      BY <3>4 DEF Idx
    <3>8. \A i \in Idx' : tab'[i].pid \notin names'
      BY <2>1, <3>3, <3>4, <3>5, <3>7 DEF UniqueInv
    <3>9. \A i, j \in Idx' : tab'[i].pid = tab'[j].pid => i = j
      BY <3>3, <3>4, <3>5, <3>6, <3>7
    <3>10. 1 \notin spaced => \A i \in Idx' : tab'[i].pid = 1 => tab'[i].ppid = NoPid
      <4>1. 1 \notin spaced => \A i \in 1..top : tab[i].pid = 1 => tab[i].ppid = NoPid
        BY <3>4 DEF UniqueInv, Idx
      <4>2. 1 \notin spaced /\ e.pid = 1 => e.ppid = NoPid
        BY <2>1, <3>3 DEF UniqueInv
      <4> QED
        BY <3>4, <3>7, <4>1, <4>2
    <3>11. input = "none"
      BY <2>1 DEF UniqueInv
    <3> QED
      BY <1>0, <2>1, <3>8, <3>9, <3>10, <3>11 DEF UniqueInv
  <2> QED
    BY <2>2, <2>3
<1>4. CASE ReadEnds \/ GetProcesses \/ MakeTree \/ MarkProcs \/ DropProcs \/ PrintAll
  <2>1. UNCHANGED tab /\ pc' \notin {"glob", "stat", "cmdline"}
    BY <1>4 DEF ReadEnds, GetProcesses, MakeTree, MarkProcs, MarkSelected, DropProcs, PrintAll, Loop, Goto, rvars
  <2> QED
    BY <1>0, <2>1 DEF UniqueInv, Idx
<1>5. CASE ReadDir \/ show_name_id \/ show_fd_link
  <2>1. UNCHANGED <<tab, names, slot>> /\ pc' \notin {"glob", "stat", "cmdline"}
    BY <1>5 DEF ReadDir, show_name_id, show_fd_link, Goto, rvars
  <2> QED
    BY <1>0, <2>1 DEF UniqueInv, Idx
<1> QED
  BY <1>1, <1>2, <1>3, <1>4, <1>5 DEF Program

(* MakeTree puts m at the end of the list of the children of p.             *)
LEMMA NewKid ==
    ASSUME TypeOK, Linked, NEW m \in Idx, NEW p \in Idx, p # m, parent[m] = NoIdx,
           \A j \in Idx : parent[j] # NoIdx => j < m,
           UNCHANGED tab, parent' = [parent EXCEPT ![m] = p],
           IF child[p] = NoIdx
           THEN child' = [child EXCEPT ![p] = m] /\ UNCHANGED sister
           ELSE sister' = [sister EXCEPT ![LastSister(child[p])] = m] /\ UNCHANGED child
    PROVE  Linked'
<1>1. PICK top \in Nat : top = Len(tab) /\ Idx = 1..top /\ NoIdx = 0 /\ NoIdx \notin Idx
  BY IndexFacts
<1>2. Idx' = Idx /\ m \in Nat /\ p \in Nat /\ \A j \in Idx : j \in Nat /\ j > 0
  BY <1>1 DEF Idx
<1>3. /\ parent \in [Idx -> Idx \cup {NoIdx}] /\ child \in [Idx -> Idx \cup {NoIdx}]
      /\ sister \in [Idx -> Idx \cup {NoIdx}]
      /\ \A k \in Idx : IsNext(Kids(k), 0, child[k]) /\ IsNext(Sibs(k), k, sister[k])
  BY DEF Linked, LinkTypes, Links
<1>4. /\ Kids(p)' = Kids(p) \cup {m} /\ m \notin Kids(p) /\ Kids(p) \subseteq Idx
      /\ \A j \in Kids(p) : j < m
      /\ \A q \in Idx : q # p => Kids(q)' = Kids(q)
  BY <1>1, <1>2, <1>3 DEF Kids
<1>9. \A j \in Kids(p) \cup {m} : j \in Nat /\ j > 0 /\ j <= m
  <2>1. \A j \in Kids(p) : j \in Nat /\ j > 0 /\ j < m
    BY <1>2, <1>4
  <2> QED
    BY <1>2, <2>1
<1>5. \A i \in Idx : Sibs(i)' = IF i = m \/ parent[i] = p THEN Kids(p) \cup {m} ELSE Sibs(i)
  <2> SUFFICES ASSUME NEW i \in Idx
               PROVE  Sibs(i)' = IF i = m \/ parent[i] = p THEN Kids(p) \cup {m} ELSE Sibs(i)
    OBVIOUS
  <2>1. parent'[i] = IF i = m THEN p ELSE parent[i]
    BY <1>3
  <2> QED
    BY <1>1, <1>2, <1>3, <1>4, <2>1 DEF Sibs
<1>6. sister[m] = NoIdx
  BY <1>1, <1>2, <1>3 DEF IsNext, Sibs
<1>7. CASE child[p] = NoIdx
  <2>1. Kids(p) = {}
    <3>1. \A j \in Kids(p) : j <= 0
      BY <1>1, <1>3, <1>4, <1>7 DEF IsNext
    <3> QED
      BY <1>9, <3>1
  <2>2. child' = [child EXCEPT ![p] = m] /\ sister' = sister
    BY <1>7
  <2>3. LinkTypes'
    BY <1>2, <1>3, <2>2 DEF LinkTypes, Links
  <2>4. ASSUME NEW i \in Idx PROVE IsNext(Kids(i)', 0, child'[i])
    <3>1. CASE i = p
      BY <1>2, <1>3, <1>4, <2>1, <2>2, <3>1 DEF IsNext
    <3>2. CASE i # p
      BY <1>3, <1>4, <2>2, <3>2
    <3> QED
      BY <3>1, <3>2
  <2>5. ASSUME NEW i \in Idx PROVE IsNext(Sibs(i)', i, sister'[i])
    <3>1. CASE i = m
      BY <1>2, <1>5, <1>6, <2>1, <2>2, <3>1 DEF IsNext
    <3>2. CASE i # m
      <4>1. parent[i] # p
        BY <2>1 DEF Kids
      <4> QED
        BY <1>3, <1>5, <2>2, <3>2, <4>1
    <3> QED
      BY <3>1, <3>2
  <2> QED
    BY <1>2, <2>3, <2>4, <2>5 DEF Linked, IsNext
<1>8. CASE child[p] # NoIdx
  <2>1. PICK c \in Kids(p) : c = child[p] /\ c > 0 /\ \A j \in Kids(p) : j > 0 => c <= j
    BY <1>3, <1>8 DEF IsNext
  <2>2. Sibs(c) = Kids(p) /\ c \in Idx
    BY <1>1, <1>4, <2>1 DEF Kids, Sibs
  <2>3. PICK l \in Kids(p) : l = LastSister(c) /\ \A j \in Kids(p) : j <= l
    BY <2>2, LastSisterIs
  <2>4. child' = child /\ sister' = [sister EXCEPT ![l] = m]
    BY <1>8, <2>1, <2>3
  <2>5. l \in Idx /\ l < m /\ l # m /\ parent[l] = p /\ Sibs(l) = Kids(p) /\ c <= m
    <3>1. l < m /\ c <= m /\ l \in Idx /\ parent[l] = p
      BY <1>4, <1>9, <2>1, <2>3 DEF Kids
    <3>2. l # m
      BY <1>2, <3>1
    <3> QED
      BY <1>1, <3>1, <3>2 DEF Sibs
  <2>6. LinkTypes'
    BY <1>2, <1>3, <2>4 DEF LinkTypes, Links
  <2>7. ASSUME NEW i \in Idx PROVE IsNext(Kids(i)', 0, child'[i])
    <3>1. CASE i = p
      <4>1. \A j \in Kids(p) \cup {m} : j > 0 => c <= j
        BY <2>1, <2>5
      <4>2. child'[i] = c /\ Kids(i)' = Kids(p) \cup {m}
        BY <1>4, <2>1, <2>4, <3>1
      <4> QED
        BY <2>1, <4>1, <4>2 DEF IsNext
    <3>2. CASE i # p
      BY <1>3, <1>4, <2>4, <3>2
    <3> QED
      BY <3>1, <3>2
  <2>8. ASSUME NEW i \in Idx PROVE IsNext(Sibs(i)', i, sister'[i])
    <3>1. CASE i = m
      <4>1. sister'[m] = NoIdx
        BY <1>3, <1>6, <2>4, <2>5
      <4>2. \A j \in Kids(p) \cup {m} : j <= m
        BY <1>9
      <4> QED
        BY <1>5, <3>1, <4>1, <4>2 DEF IsNext
    <3>2. CASE i = l
      <4>1. sister'[i] = m
        BY <1>3, <2>4, <2>5, <3>2
      <4>2. \A j \in Kids(p) \cup {m} : j > l => m <= j
        <5>1. \A j \in Kids(p) : ~(j > l)
          BY <1>2, <1>4, <2>3, <2>5
        <5> QED
          BY <1>2, <5>1
      <4> QED
        BY <1>5, <2>5, <3>2, <4>1, <4>2 DEF IsNext
    <3>3. CASE i # m /\ i # l /\ parent[i] = p
      <4>1. sister'[i] = sister[i] /\ Sibs(i) = Kids(p) /\ i \in Kids(p)
        BY <1>1, <1>3, <2>4, <2>5, <3>3 DEF Sibs, Kids
      <4>2. i < l
        BY <1>2, <2>3, <2>5, <3>3, <4>1
      <4>3. PICK n \in Kids(p) : n = sister[i] /\ n > i /\ \A j \in Kids(p) : j > i => n <= j
        <5>1. ~(l <= i)
          BY <1>2, <2>5, <4>2
        <5> QED
          BY <1>3, <4>1, <5>1 DEF IsNext
      <4>4. n <= m
        BY <1>9, <4>3
      <4> QED
        BY <1>5, <3>3, <4>1, <4>3, <4>4 DEF IsNext
    <3>4. CASE i # m /\ i # l /\ parent[i] # p
      BY <1>3, <1>5, <2>4, <3>4
    <3> QED
      BY <2>5, <3>1, <3>2, <3>3, <3>4
  <2> QED
    BY <1>2, <2>6, <2>7, <2>8 DEF Linked, IsNext
<1> QED
  BY <1>7, <1>8

(***************************************************************************)
(* Leaving out what is not printed.                                        *)
(***************************************************************************)

(* The next element of a subset, looked for from the next element on.       *)
LEMMA NextSkips ==
    ASSUME NEW S, S \subseteq Nat \ {0}, NEW P, P \subseteq S, NEW a \in Nat, NEW n \in S, NEW v,
           n > a, \A j \in S : j > a => n <= j, IsNext(P, n - 1, v)
    PROVE  IsNext(P, a, v)
<1>1. n \in Nat /\ n - 1 \in Nat /\ n - 1 >= a
  OBVIOUS
<1>2. \A j \in P : j \in Nat /\ (j > a => j > n - 1)
  BY <1>1
<1>3. CASE v = NoIdx /\ \A j \in P : j <= n - 1
  <2>1. \A j \in P : j <= a
    BY <1>1, <1>2, <1>3
  <2> QED
    BY <1>3, <2>1 DEF IsNext
<1>4. CASE v \in P /\ v > n - 1 /\ \A j \in P : j > n - 1 => v <= j
  <2>1. v > a /\ \A j \in P : j > a => v <= j
    BY <1>1, <1>2, <1>4
  <2> QED
    BY <1>4, <2>1 DEF IsNext
<1> QED
  BY <1>3, <1>4 DEF IsNext

(* What is so of an element's sisters.                                      *)
LEMMA SibFacts ==
    ASSUME TypeOK, LinkTypes, NEW k \in Idx
    PROVE  /\ k \in Sibs(k) /\ Sibs(k) \subseteq Idx /\ Kids(k) \subseteq Idx
           /\ Sibs(k) \subseteq Nat \ {0} /\ Kids(k) \subseteq Nat \ {0} /\ k \in Nat /\ k > 0
           /\ \A n \in Sibs(k) : Sibs(n) = Sibs(k)
           /\ \A n \in Kids(k) : Sibs(n) = Kids(k)
<1>1. PICK top \in Nat : top = Len(tab) /\ Idx = 1..top /\ NoIdx = 0 /\ NoIdx \notin Idx
  BY IndexFacts
<1>2. k \in Sibs(k) /\ Sibs(k) \subseteq Idx /\ Kids(k) \subseteq Idx
  BY DEF Sibs, Kids
<1>3. Idx \subseteq Nat \ {0} /\ k \in Nat /\ k > 0
  BY <1>1
<1>4. \A n \in Sibs(k) : Sibs(n) = Sibs(k)
  BY <1>1 DEF Sibs, Kids
<1>5. \A n \in Kids(k) : Sibs(n) = Kids(k)
  BY <1>1 DEF Sibs, Kids
<1> QED
  BY <1>2, <1>3, <1>4, <1>5

(* FirstPrinted() finds the first of an element and its later sisters that  *)
(* is printed.                                                              *)
LEMMA FirstPrintedIs ==
    ASSUME TypeOK, NEW m \in Nat, Dropped(m), print \in [Idx -> BOOLEAN]
    PROVE  /\ FirstPrinted(NoIdx) = NoIdx
           /\ \A i \in Idx : IsNext(Printed(Sibs(i)), i - 1, FirstPrinted(i))
<1>1. PICK top \in Nat : top = Len(tab) /\ Idx = 1..top /\ NoIdx = 0 /\ NoIdx \notin Idx
  BY IndexFacts
<1>2. /\ LinkTypes /\ sister \in [Idx -> Idx \cup {NoIdx}]
      /\ \A k \in Idx : ~print[k] => IsNext(Sibs(k), k, sister[k])
  BY DEF Dropped, LinkTypes, Links
<1> DEFINE PS(k) == Printed(Sibs(k))
           To == Idx \cup {NoIdx}
           pick(k) == CHOOSE v \in To : IsNext(PS(k), k - 1, v)
           g == [k \in To |-> IF k = NoIdx THEN NoIdx ELSE pick(k)]
           first == CHOOSE f : f = [k \in To |-> IF k = NoIdx THEN NoIdx ELSE IF print[k] THEN k ELSE f[sister[k]]]
<1>3. \A k \in Idx : k \in Nat /\ k - 1 \in Nat /\ PS(k) \subseteq Nat \ {0} /\ PS(k) \subseteq Idx
                     /\ PS(k) \subseteq Sibs(k)
  BY <1>1, <1>2, SibFacts DEF Printed
<1>4. \A k \in Idx : IsNext(PS(k), k - 1, g[k]) /\ g[k] \in To
  <2> SUFFICES ASSUME NEW k \in Idx PROVE IsNext(PS(k), k - 1, pick(k)) /\ pick(k) \in To
    BY <1>1
  <2>1. \E v \in PS(k) \cup {NoIdx} : IsNext(PS(k), k - 1, v)
    BY <1>3, NextIs
  <2>2. \E v \in To : IsNext(PS(k), k - 1, v)
    BY <1>3, <2>1
  <2> QED
    BY <2>2
<1>5. \A k \in Idx : \A v : IsNext(PS(k), k - 1, v) => v = g[k]
  BY <1>3, <1>4, NextIs
<1>6. \A k \in Idx : print[k] => g[k] = k
  <2> SUFFICES ASSUME NEW k \in Idx, print[k] PROVE IsNext(PS(k), k - 1, k)
    BY <1>5
  <2>1. k \in PS(k) /\ k > k - 1 /\ \A j \in PS(k) : j > k - 1 => k <= j
    <3>1. k \in PS(k)
      BY <1>2, SibFacts DEF Printed
    <3>2. \A j \in PS(k) : j > k - 1 => k <= j
      BY <1>3
    <3> QED
      BY <1>3, <3>1, <3>2
  <2> QED
    BY <2>1 DEF IsNext
<1>7. \A k \in Idx : ~print[k] /\ sister[k] # NoIdx => sister[k] \in Idx /\ sister[k] > k
  BY <1>2, SibFacts DEF IsNext
<1>8. \A k \in Idx : ~print[k] => g[k] = g[sister[k]]
  <2> SUFFICES ASSUME NEW k \in Idx, ~print[k] PROVE g[k] = g[sister[k]]
    OBVIOUS
  <2> DEFINE n == sister[k]  v == g[n]
  <2>1. IsNext(Sibs(k), k, n) /\ k \notin PS(k)
    BY <1>2 DEF Printed
  <2>2. IsNext(PS(k), k, v)
    <3>1. CASE n = NoIdx
      <4>1. \A j \in PS(k) : j <= k
        BY <1>1, <1>3, <2>1, <3>1, SibFacts, <1>2 DEF IsNext
      <4>2. v = NoIdx
        BY <1>1, <3>1
      <4> QED
        BY <4>1, <4>2 DEF IsNext
    <3>2. CASE n # NoIdx
      <4>1. n \in Sibs(k) /\ n > k /\ \A j \in Sibs(k) : j > k => n <= j
        BY <2>1, <3>2 DEF IsNext
      <4>2. n \in Idx /\ PS(n) = PS(k)
        BY <1>2, <4>1, SibFacts
      <4>3. IsNext(PS(k), n - 1, v)
        BY <1>4, <4>2
      <4>4. Sibs(k) \subseteq Nat \ {0}
        BY <1>2, SibFacts
      <4> HIDE DEF n, v, PS
      <4> QED
        BY <1>3, <4>1, <4>3, <4>4, NextSkips
    <3> QED
      BY <3>1, <3>2
  <2> HIDE DEF v, n
  <2>3. \A j \in PS(k) : j \in Nat /\ j # k
    BY <1>3, <2>1
  <2>4. k \in Nat
    BY <1>3
  <2>5. IsNext(PS(k), k - 1, v)
    <3> HIDE DEF PS
    <3>1. \A j \in PS(k) : (j <= k <=> j <= k - 1) /\ (j > k <=> j > k - 1)
      BY <2>3, <2>4
    <3> QED
      BY <2>2, <3>1 DEF IsNext
  <2>6. v = g[k]
    <3> HIDE DEF PS, g
    <3> QED
      BY <1>5, <2>5
  <2> QED
    BY <2>6 DEF v, n
<1> HIDE DEF first
<1>9. g = [k \in To |-> IF k = NoIdx THEN NoIdx ELSE IF print[k] THEN k ELSE g[sister[k]]]
  <2>1. ASSUME NEW k \in To
        PROVE  g[k] = IF k = NoIdx THEN NoIdx ELSE IF print[k] THEN k ELSE g[sister[k]]
    <3>1. CASE k = NoIdx
      BY <3>1
    <3>2. CASE k # NoIdx
      <4> HIDE DEF g
      <4> QED
        BY <1>6, <1>8, <3>2
    <3> QED
      BY <3>1, <3>2
  <2>2. g = [k \in To |-> g[k]]
    OBVIOUS
  <2> HIDE DEF g
  <2> QED
    BY <2>1, <2>2
<1>10. g[NoIdx] = NoIdx
  OBVIOUS
<1> HIDE DEF g
<1>11. first = [k \in To |-> IF k = NoIdx THEN NoIdx ELSE IF print[k] THEN k ELSE first[sister[k]]]
  BY <1>9 DEF first
<1>12. \A i \in To : FirstPrinted(i) = first[i]
  BY DEF FirstPrinted, first
<1> DEFINE A == {d \in Nat : \A k \in Idx : k + d > top => first[k] = g[k]}
<1>13. 0 \in A
  BY <1>1
<1>14. first[NoIdx] = NoIdx
  BY <1>11
<1>15. ASSUME NEW d \in Nat, d \in A PROVE d + 1 \in A
  <2> SUFFICES ASSUME NEW k \in Idx, k + (d + 1) > top PROVE first[k] = g[k]
    OBVIOUS
  <2>0. first[k] = IF print[k] THEN k ELSE first[sister[k]]
    BY <1>1, <1>11
  <2>1. CASE print[k]
    BY <1>6, <2>0, <2>1
  <2>2. CASE ~print[k] /\ sister[k] = NoIdx
    BY <1>8, <1>10, <1>14, <2>0, <2>2
  <2>3. CASE ~print[k] /\ sister[k] # NoIdx
    <3>1. sister[k] \in Idx /\ sister[k] + d > top
      BY <1>1, <1>7, <2>3
    <3>2. first[sister[k]] = g[sister[k]]
      BY <1>15, <3>1
    <3> QED
      BY <1>8, <2>0, <2>3, <3>2
  <2> QED
    BY <2>1, <2>2, <2>3
<1> HIDE DEF A
<1>16. top \in A
  BY <1>13, <1>15, SetInduction
<1>17. \A k \in Idx : first[k] = g[k]
  <2>1. \A k \in Idx : k + top > top
    BY <1>1
  <2> QED
    BY <1>16, <2>1 DEF A
<1> QED
  BY <1>4, <1>12, <1>14, <1>17

(* DropProcs links m to its first child and its next sister that is printed. *)
LEMMA DropLinks ==
    ASSUME TypeOK, print \in [Idx -> BOOLEAN], NEW m \in Nat, Dropped(m), UNCHANGED <<tab, parent, print>>,
           IF m \in Idx /\ print[m]
           THEN /\ child'  = [child EXCEPT ![m] = FirstPrinted(@)]
                /\ sister' = [sister EXCEPT ![m] = FirstPrinted(@)]
           ELSE UNCHANGED <<child, sister>>
    PROVE  Dropped(m + 1)'
<1>1. PICK top \in Nat : top = Len(tab) /\ Idx = 1..top /\ NoIdx = 0 /\ NoIdx \notin Idx
  BY IndexFacts
<1>2. /\ LinkTypes /\ child \in [Idx -> Idx \cup {NoIdx}] /\ sister \in [Idx -> Idx \cup {NoIdx}]
      /\ parent \in [Idx -> Idx \cup {NoIdx}]
  BY DEF Dropped, LinkTypes, Links
<1>3. /\ Idx' = Idx /\ (\A i \in Idx : i \in Nat /\ Kids(i)' = Kids(i) /\ Sibs(i)' = Sibs(i))
      /\ \A S : Printed(S)' = Printed(S)
  BY <1>1 DEF Idx, Kids, Sibs, Printed
<1>4. CASE m \in Idx /\ print[m]
  <2> DEFINE c == child[m]  s == sister[m]  fc == FirstPrinted(c)  fs == FirstPrinted(s)
  <2>1. child' = [child EXCEPT ![m] = fc] /\ sister' = [sister EXCEPT ![m] = fs]
    BY <1>4
  <2>2. IsNext(Kids(m), 0, c) /\ IsNext(Sibs(m), m, s)
    BY <1>4 DEF Dropped
  <2>3. c \in Idx \cup {NoIdx} /\ s \in Idx \cup {NoIdx}
    BY <1>2, <1>4
  <2>4. Kids(m) \subseteq Nat \ {0} /\ Sibs(m) \subseteq Nat \ {0}
    BY <1>2, <1>4, SibFacts
  <2>5. Printed(Kids(m)) \subseteq Kids(m) /\ Printed(Sibs(m)) \subseteq Sibs(m)
    BY DEF Printed
  <2>6. IsNext(Printed(Kids(m)), 0, fc)
    <3>1. CASE c = NoIdx
      <4>1. fc = NoIdx
        BY <3>1, FirstPrintedIs
      <4>2. \A j \in Kids(m) : j <= 0
        BY <1>1, <2>2, <2>4, <3>1 DEF IsNext
      <4> QED
        BY <2>5, <4>1, <4>2 DEF IsNext
    <3>2. CASE c # NoIdx
      <4>1. c \in Kids(m) /\ c > 0 /\ \A j \in Kids(m) : j > 0 => c <= j
        BY <2>2, <3>2 DEF IsNext
      <4>2. Sibs(c) = Kids(m)
        BY <1>2, <1>4, <4>1, SibFacts
      <4>3. c \in Idx
        BY <2>3, <3>2
      <4>4. IsNext(Printed(Kids(m)), c - 1, fc)
        BY <4>2, <4>3, FirstPrintedIs
      <4> HIDE DEF c, fc
      <4> QED
        BY <2>4, <2>5, <4>1, <4>4, NextSkips
    <3> QED
      BY <3>1, <3>2
  <2>7. IsNext(Printed(Sibs(m)), m, fs)
    <3>1. CASE s = NoIdx
      <4>1. fs = NoIdx
        BY <3>1, FirstPrintedIs
      <4>2. \A j \in Sibs(m) : j <= m
        BY <1>1, <2>2, <2>4, <3>1 DEF IsNext
      <4> QED
        BY <2>5, <4>1, <4>2 DEF IsNext
    <3>2. CASE s # NoIdx
      <4>1. s \in Sibs(m) /\ s > m /\ \A j \in Sibs(m) : j > m => s <= j
        BY <2>2, <3>2 DEF IsNext
      <4>2. Sibs(s) = Sibs(m)
        BY <1>2, <1>4, <4>1, SibFacts
      <4>3. s \in Idx
        BY <2>3, <3>2
      <4>4. IsNext(Printed(Sibs(m)), s - 1, fs)
        BY <4>2, <4>3, FirstPrintedIs
      <4> HIDE DEF s, fs
      <4> QED
        BY <2>4, <2>5, <4>1, <4>4, NextSkips
    <3> QED
      BY <3>1, <3>2
  <2>8. fc \in Idx \cup {NoIdx} /\ fs \in Idx \cup {NoIdx}
    <3>1. Kids(m) \subseteq Idx /\ Sibs(m) \subseteq Idx
      BY <1>2, <1>4, SibFacts
    <3> HIDE DEF fc, fs
    <3> QED
      BY <2>5, <2>6, <2>7, <3>1 DEF IsNext
  <2> HIDE DEF c, s, fc, fs
  <2>9. LinkTypes'
    BY <1>2, <1>3, <2>1, <2>8 DEF LinkTypes, Links
  <2>10. ASSUME NEW i \in Idx
         PROVE  IF i < m + 1 /\ print[i]
                THEN IsNext(Printed(Kids(i)), 0, child'[i]) /\ IsNext(Printed(Sibs(i)), i, sister'[i])
                ELSE IsNext(Kids(i), 0, child'[i]) /\ IsNext(Sibs(i), i, sister'[i])
    <3>1. CASE i = m
      <4>1. child'[i] = fc /\ sister'[i] = fs /\ i < m + 1 /\ print[i]
        BY <1>2, <1>4, <2>1, <3>1
      <4> QED
        BY <2>6, <2>7, <3>1, <4>1
    <3>2. CASE i # m
      <4>1. child'[i] = child[i] /\ sister'[i] = sister[i]
        BY <1>2, <2>1, <3>2
      <4>2. i < m + 1 <=> i < m
        BY <1>3, <3>2
      <4> QED
        BY <4>1, <4>2 DEF Dropped
    <3> QED
      BY <3>1, <3>2
  <2> QED
    BY <1>3, <2>9, <2>10 DEF Dropped, IsNext
<1>5. CASE ~(m \in Idx /\ print[m])
  <2>1. UNCHANGED <<child, sister>>
    BY <1>5
  <2>2. \A i \in Idx : i < m + 1 /\ print[i] <=> i < m /\ print[i]
    BY <1>3, <1>5
  <2> QED
    BY <1>2, <1>3, <2>1, <2>2 DEF Dropped, LinkTypes, Links, IsNext
<1> QED
  BY <1>4, <1>5

(* The shape of the table and of its links.                                 *)
ShapeInv == UniqueInv /\ FlagInv /\ TreeInv

(* What is printed, from what is linked, depends on these alone.            *)
LEMMA SameShape ==
    ASSUME UNCHANGED <<tab, parent, child, sister, print>>
    PROVE  /\ Idx' = Idx /\ (Linked' <=> Linked) /\ \A m : (Dropped(m)' <=> Dropped(m))
           /\ \A i : ParentOf(i)' = ParentOf(i)
BY DEF Idx, Linked, Dropped, LinkTypes, Links, Kids, Sibs, Printed, IsNext, ParentOf, get_pid_index

(* What is linked depends on these.                                         *)
LEMMA SameLinks ==
    ASSUME UNCHANGED <<tab, parent, child, sister>>
    PROVE  /\ Idx' = Idx /\ (Linked' <=> Linked) /\ \A i : ParentOf(i)' = ParentOf(i)
BY DEF Idx, Linked, LinkTypes, Links, Kids, Sibs, IsNext, ParentOf, get_pid_index

(* At first nothing has been read.                                          *)
LEMMA ShapeInit == Init => ShapeInv
<1> SUFFICES ASSUME Init PROVE ShapeInv
  OBVIOUS
<1>1. prog = "part2" => IF input = "none" THEN pc = "glob" ELSE pc = "input"
  BY DEF Init
<1>2. tab = <<>> /\ Len(tab) = 0 /\ Idx = {} /\ me = 1
  BY DEF Init, Idx
<1>3. UniqueInv
  BY <1>1, <1>2 DEF UniqueInv
<1>4. FlagInv /\ TreeInv
  BY <1>1, <1>2 DEF FlagInv, TreeInv, TreePcs
<1> QED
  BY <1>3, <1>4 DEF ShapeInv

(* Forks and exits change none of the table.                                *)
LEMMA ShapeEvent == ASSUME ShapeInv, Event PROVE ShapeInv'
<1>1. pc \in Reading /\ UNCHANGED <<cvars, opt, pc, rvars, me, lvars, mvars>>
  BY DEF Event
<1>2. UniqueInv'
  BY <1>1 DEF ShapeInv, UniqueInv, Idx, cvars, rvars
<1>3. FlagInv' /\ TreeInv'
  BY <1>1 DEF ShapeInv, FlagInv, TreeInv, TreePcs, Reading, cvars
<1> QED
  BY <1>2, <1>3 DEF ShapeInv

(* The marks are made by ReadEnds and keep their type.                      *)
LEMMA FlagStep == ASSUME IInv, PlaceInv, ShapeInv, Program PROVE FlagInv'
<1>0. UNCHANGED <<prog, input>>
  BY Chosen
<1> SUFFICES ASSUME prog = "part2", input = "none", pc' \in TreePcs \cup {"done"}
             PROVE  print' \in [Idx' -> BOOLEAN] /\ selected' \in [Idx' -> BOOLEAN] /\ hidden' \in [Idx' -> BOOLEAN]
  BY <1>0 DEF FlagInv
<1>1. CASE ReadEnds
  <2>1. UNCHANGED tab
    BY <1>1 DEF ReadEnds, rvars
  <2>2. Idx' = Idx
    BY <2>1 DEF Idx
  <2> QED
    BY <1>1, <2>2 DEF ReadEnds
<1>2. CASE MakeTree \/ MarkProcs \/ DropProcs \/ PrintAll
  <2>1. pc \in TreePcs /\ UNCHANGED tab
    BY <1>2 DEF MakeTree, MarkProcs, MarkSelected, DropProcs, PrintAll, Loop, Goto, rvars, TreePcs
  <2>2. /\ Idx' = Idx
        /\ print \in [Idx -> BOOLEAN] /\ selected \in [Idx -> BOOLEAN] /\ hidden \in [Idx -> BOOLEAN]
    BY <2>1 DEF ShapeInv, FlagInv, Idx
  <2>3. CASE MakeTree \/ PrintAll
    BY <2>2, <2>3 DEF MakeTree, PrintAll, mvars
  <2>4. CASE MarkProcs
    BY <2>2, <2>4 DEF MarkProcs, MarkSelected, mvars
  <2>5. CASE DropProcs
    BY <2>2, <2>5 DEF DropProcs
  <2> QED
    BY <1>2, <2>3, <2>4, <2>5
<1>3. CASE Glob \/ ReadStat \/ ReadCmdline
  BY <1>3 DEF Glob, ReadStat, ReadCmdline, Goto, TreePcs
<1>4. CASE GetProcesses \/ ReadDir \/ show_name_id \/ show_fd_link
  <2>1. pc \in {"input", "list", "show"}
    BY <1>4 DEF GetProcesses, ReadDir, show_name_id, show_fd_link, Goto
  <2> QED
    BY <2>1 DEF PlaceInv, TreePcs
<1> QED
  BY <1>1, <1>2, <1>3, <1>4 DEF Program

(* Each loop keeps its part of the links.                                   *)
LEMMA TreeStep == ASSUME IInv, PlaceInv, ShapeInv, Program PROVE TreeInv'
<1>0. TypeOK /\ UNCHANGED <<prog, input>>
  BY Chosen DEF IInv
<1> SUFFICES ASSUME prog = "part2", input = "none" PROVE TreeInv'
  BY <1>0 DEF TreeInv
<1>1. PICK top \in Nat : top = Len(tab) /\ Idx = 1..top /\ NoIdx = 0 /\ NoIdx \notin Idx
  BY <1>0, IndexFacts
<1>2. me \in Nat /\ me > 0 /\ (me \in Idx <=> me <= top)
  BY <1>0, <1>1 DEF TypeOK
<1>3. CASE Glob \/ ReadStat \/ ReadCmdline
  <2>1. UNCHANGED me /\ pc \in {"glob", "stat", "cmdline"} /\ pc' \in {"glob", "stat", "cmdline"}
    BY <1>3 DEF Glob, ReadStat, ReadCmdline, Goto
  <2> QED
    BY <2>1 DEF ShapeInv, TreeInv
<1>4. CASE ReadEnds
  <2>1. /\ pc = "stat" /\ pc' = "tree" /\ UNCHANGED <<tab, me>>
        /\ parent' = [i \in Idx |-> NoIdx] /\ child' = [i \in Idx |-> NoIdx] /\ sister' = [i \in Idx |-> NoIdx]
    BY <1>4 DEF ReadEnds, Goto, rvars
  <2>2. me = 1 /\ Idx' = Idx
    BY <2>1 DEF ShapeInv, TreeInv, Idx
  <2>3. LinkTypes'
    BY <2>1, <2>2 DEF LinkTypes, Links
  <2>4. \A i \in Idx : parent'[i] = NoIdx /\ child'[i] = NoIdx /\ sister'[i] = NoIdx /\ i \in Nat /\ i >= 1
    BY <1>1, <2>1
  <2>5. \A i \in Idx : Kids(i)' = {} /\ Sibs(i)' = {i}
    BY <1>1, <2>2, <2>4 DEF Kids, Sibs
  <2>6. Linked'
    BY <2>2, <2>3, <2>4, <2>5 DEF Linked, IsNext
  <2>7. \A i \in Idx' : parent'[i] = IF i < me' THEN ParentOf(i)' ELSE NoIdx'
    BY <2>1, <2>2, <2>4 DEF NoIdx
  <2> QED
    BY <2>1, <2>6, <2>7 DEF TreeInv
<1>5. CASE MakeTree
  <2>1. pc = "tree" /\ UNCHANGED tab /\ IF me <= top THEN pc' = "tree" /\ me' = me + 1 ELSE pc' = "mark" /\ me' = 1
    BY <1>1, <1>5 DEF MakeTree, Loop, Goto, rvars
  <2>2. Linked /\ \A i \in Idx : parent[i] = IF i < me THEN ParentOf(i) ELSE NoIdx
    BY <2>1 DEF ShapeInv, TreeInv
  <2>3. Idx' = Idx /\ \A i : ParentOf(i)' = ParentOf(i)
    BY <2>1 DEF Idx, ParentOf, get_pid_index
  <2>4. CASE me \notin Idx
    <3>1. UNCHANGED <<parent, child, sister>> /\ pc' = "mark"
      BY <1>2, <1>5, <2>1, <2>4 DEF MakeTree, lvars
    <3>2. Linked'
      BY <2>1, <2>2, <3>1, SameLinks
    <3>3. \A i \in Idx : parent[i] = ParentOf(i)
      BY <1>1, <1>2, <2>2, <2>4
    <3> QED
      BY <2>3, <3>1, <3>2, <3>3 DEF TreeInv
  <2>5. CASE me \in Idx
    <3> DEFINE p == get_pid_index(tab[me].ppid)
    <3>1. pc' = "tree" /\ me' = me + 1
      BY <1>2, <2>1, <2>5
    <3>2. p \in Idx \cup {NoIdx} /\ ParentOf(me) = IF p = me THEN NoIdx ELSE p
      BY <1>0, IndexFound DEF ParentOf
    <3>3. IF p \in {me, NoIdx}
          THEN UNCHANGED lvars
          ELSE /\ parent' = [parent EXCEPT ![me] = p]
               /\ IF child[p] = NoIdx
                  THEN child' = [child EXCEPT ![p] = me] /\ UNCHANGED sister
                  ELSE sister' = [sister EXCEPT ![LastSister(child[p])] = me] /\ UNCHANGED child
      BY <1>5, <2>5 DEF MakeTree
    <3> HIDE DEF p
    <3>4. parent \in [Idx -> Idx \cup {NoIdx}] /\ parent[me] = NoIdx /\ \A j \in Idx : parent[j] # NoIdx => j < me
      BY <1>2, <2>2, <2>5 DEF Linked, LinkTypes, Links
    <3>5. \A i \in Idx : i \in Nat /\ (i < me + 1 <=> i < me \/ i = me)
      BY <1>1, <1>2
    <3>6. CASE p \in {me, NoIdx}
      <4>1. UNCHANGED <<parent, child, sister>>
        BY <3>3, <3>6 DEF lvars
      <4>2. Linked'
        BY <2>1, <2>2, <4>1, SameLinks
      <4>3. ParentOf(me) = NoIdx
        BY <3>2, <3>6
      <4>4. \A i \in Idx : parent'[i] = IF i < me + 1 THEN ParentOf(i) ELSE NoIdx
        BY <2>2, <3>4, <3>5, <4>1, <4>3
      <4> QED
        BY <2>3, <3>1, <4>2, <4>4 DEF TreeInv, NoIdx
    <3>7. CASE p \notin {me, NoIdx}
      <4>1. parent' = [parent EXCEPT ![me] = p] /\ p \in Idx /\ p # me
        BY <3>2, <3>3, <3>7
      <4>2. Linked'
        <5>1. IF child[p] = NoIdx
              THEN child' = [child EXCEPT ![p] = me] /\ UNCHANGED sister
              ELSE sister' = [sister EXCEPT ![LastSister(child[p])] = me] /\ UNCHANGED child
          BY <3>3, <3>7
        <5> QED
          BY <1>0, <2>1, <2>2, <2>5, <3>4, <4>1, <5>1, NewKid
      <4>3. ParentOf(me) = p
        BY <3>2, <3>7
      <4>4. \A i \in Idx : parent'[i] = IF i < me + 1 THEN ParentOf(i) ELSE NoIdx
        <5> SUFFICES ASSUME NEW i \in Idx PROVE parent'[i] = IF i < me + 1 THEN ParentOf(i) ELSE NoIdx
          OBVIOUS
        <5>1. parent'[i] = IF i = me THEN p ELSE parent[i]
          BY <3>4, <4>1
        <5>2. i < me => i # me
          BY <1>2, <3>5
        <5> QED
          BY <2>2, <3>5, <4>3, <5>1, <5>2
      <4> QED
        BY <2>3, <3>1, <4>2, <4>4 DEF TreeInv, NoIdx
    <3> QED
      BY <3>6, <3>7
  <2> QED
    BY <2>4, <2>5
<1>6. CASE MarkProcs
  <2>1. /\ pc = "mark" /\ UNCHANGED <<tab, parent, child, sister>> /\ pc' \in {"mark", "drop", "loops"}
        /\ pc' = "drop" => me' = 1
    BY <1>6 DEF MarkProcs, MarkSelected, Loop, Goto, rvars, lvars
  <2>2. Linked /\ \A i \in Idx : parent[i] = ParentOf(i)
    BY <2>1 DEF ShapeInv, TreeInv
  <2>3. Linked' /\ \A i \in Idx' : parent'[i] = ParentOf(i)'
    BY <2>1, <2>2, SameLinks
  <2>4. \A i \in Idx' : ~(i < 1)
    <3>1. Idx' = 1..top
      BY <1>1, <2>1, SameLinks
    <3> QED
      BY <3>1
  <2>5. pc' = "drop" => Dropped(me)'
    BY <2>1, <2>3, <2>4 DEF Linked, Dropped, IsNext
  <2> QED
    BY <2>1, <2>3, <2>5 DEF TreeInv
<1>7. CASE DropProcs
  <2>1. pc = "drop" /\ UNCHANGED <<tab, parent, print>> /\ IF me <= top THEN pc' = "drop" /\ me' = me + 1 ELSE pc' = "print" /\ me' = 1
    BY <1>1, <1>7 DEF DropProcs, Loop, Goto, rvars
  <2>2. Dropped(me) /\ (\A i \in Idx : parent[i] = ParentOf(i)) /\ print \in [Idx -> BOOLEAN]
    BY <2>1 DEF ShapeInv, TreeInv, FlagInv, TreePcs
  <2>3. Idx' = Idx /\ Len(tab)' = top /\ \A i : ParentOf(i)' = ParentOf(i)
    BY <1>1, <2>1 DEF Idx, ParentOf, get_pid_index
  <2>4. IF me \in Idx /\ print[me]
        THEN /\ child'  = [child EXCEPT ![me] = FirstPrinted(@)]
             /\ sister' = [sister EXCEPT ![me] = FirstPrinted(@)]
        ELSE UNCHANGED <<child, sister>>
    BY <1>7 DEF DropProcs
  <2> PICK m \in Nat : m = me
    BY <1>2
  <2>5. Dropped(m + 1)'
    <3>1. Dropped(m)
      BY <2>2 DEF Dropped
    <3> QED
      BY <1>0, <2>1, <2>2, <2>4, <3>1, DropLinks
  <2>6. CASE me <= top
    <3>1. pc' = "drop" /\ me' = m + 1
      BY <2>1, <2>6
    <3>2. Dropped(me)'
      BY <2>5, <3>1 DEF Dropped
    <3> QED
      BY <2>2, <2>1, <2>3, <3>1, <3>2 DEF TreeInv
  <2>7. CASE ~(me <= top)
    <3>1. UNCHANGED <<child, sister>> /\ pc' = "print"
      BY <1>2, <2>1, <2>4, <2>7
    <3>2. \A i \in Idx : (i < me <=> i < top + 1)
      BY <1>1, <1>2, <2>7
    <3>3. Dropped(top + 1)
      BY <2>2, <3>2 DEF Dropped
    <3>4. Dropped(Len(tab) + 1)'
      <4>1. Dropped(top + 1)'
        BY <2>1, <3>1, <3>3, SameShape
      <4> QED
        BY <2>3, <4>1
    <3> QED
      BY <2>1, <2>2, <2>3, <3>1, <3>4 DEF TreeInv
  <2> QED
    BY <2>6, <2>7
<1>8. CASE PrintAll
  <2>1. pc = "print" /\ UNCHANGED <<tab, parent, child, sister, print>> /\ pc' \in {"done", "crash"}
    BY <1>8 DEF PrintAll, Goto, rvars, lvars, mvars
  <2>2. Dropped(Len(tab) + 1) /\ \A i \in Idx : parent[i] = ParentOf(i)
    BY <2>1 DEF ShapeInv, TreeInv
  <2>3. Dropped(Len(tab) + 1)' /\ \A i \in Idx' : parent'[i] = ParentOf(i)'
    BY <2>1, <2>2, SameShape
  <2> QED
    BY <2>1, <2>3 DEF TreeInv
<1>9. CASE GetProcesses \/ ReadDir \/ show_name_id \/ show_fd_link
  <2>1. pc \in {"input", "list", "show"}
    BY <1>9 DEF GetProcesses, ReadDir, show_name_id, show_fd_link, Goto
  <2> QED
    BY <2>1 DEF PlaceInv, TreePcs
<1> QED
  BY <1>3, <1>4, <1>5, <1>6, <1>7, <1>8, <1>9 DEF Program

(* No step leaves the shape.                                                *)
LEMMA ShapeStep == ASSUME IInv, EndInv, ShapeInv, [Next]_vars PROVE ShapeInv'
<1>1. CASE UNCHANGED vars
  BY <1>1, SameLinks, SameShape DEF vars, kvars, cvars, rvars, lvars, mvars, ShapeInv, UniqueInv, FlagInv, TreeInv, Idx
<1>2. CASE Program
  BY <1>2, UniqueStep, FlagStep, TreeStep DEF ShapeInv, EndInv
<1>3. ASSUME NEW p \in Pids, \E q \in Pids : Exit(p, q) \/ Fork(p, q) PROVE ShapeInv'
  BY <1>3, ShapeEvent DEF Exit, Fork
<1> QED
  BY <1>1, <1>2, <1>3 DEF Next

(***************************************************************************)
(* Lines of ancestors.                                                     *)
(***************************************************************************)

(* The elements whose parents come to an end.                               *)
Rooted == {k \in Idx : ~Endless(k)}
Line(k) == Ancestors(k) \cup {k}

(* The ancestors after the first are those of the parent.                   *)
LEMMA UpShift ==
    ASSUME TypeOK, parent \in Links(Idx), NEW k \in Idx, parent[k] # NoIdx
    PROVE  parent[k] \in Idx /\ \A n \in 0..(Len(tab) - 1) : Up(k)[n + 1] = Up(parent[k])[n]
<1>1. PICK top \in Nat : top = Len(tab) /\ Idx = 1..top /\ NoIdx = 0 /\ NoIdx \notin Idx
  BY IndexFacts
<1> DEFINE p == parent[k]  K == Up(k)  P == Up(p)
<1>2. p \in Idx /\ parent \in [Idx -> Idx \cup {NoIdx}]
  BY DEF Links
<1>3. K[0] = p /\ \A n \in 0..(top - 1) : K[n + 1] = IF K[n] = NoIdx THEN NoIdx ELSE parent[K[n]]
  BY <1>1, <1>2, UpIs
<1>4. P[0] = parent[p] /\ \A n \in 0..(top - 1) : P[n + 1] = IF P[n] = NoIdx THEN NoIdx ELSE parent[P[n]]
  BY <1>1, <1>2, UpIs
<1> DEFINE A == {n \in Nat : n <= top - 1 => K[n + 1] = P[n]}
<1> HIDE DEF p, K, P
<1>5. 0 \in A
  <2>1. 0 <= top - 1 => 0 \in 0..(top - 1) /\ 0 + 1 = 1
    BY <1>1
  <2>2. p # NoIdx
    BY DEF p
  <2> QED
    BY <1>3, <1>4, <2>1, <2>2
<1>6. ASSUME NEW n \in Nat, n \in A PROVE n + 1 \in A
  <2> SUFFICES ASSUME n + 1 <= top - 1 PROVE K[(n + 1) + 1] = P[n + 1]
    OBVIOUS
  <2>1. n \in 0..(top - 1) /\ n + 1 \in 0..(top - 1)
    BY <1>1
  <2>2. K[n + 1] = P[n]
    BY <1>6, <2>1
  <2> QED
    BY <1>3, <1>4, <2>1, <2>2
<1> HIDE DEF A
<1>7. \A n \in Nat : n \in A
  BY <1>5, <1>6, SetInduction
<1>8. \A n \in 0..(top - 1) : K[n + 1] = P[n]
  BY <1>7 DEF A
<1> QED
  BY <1>1, <1>2, <1>8 DEF K, P, p

(* Where the loop over the parents has ended it stays.                      *)
LEMMA UpStays ==
    ASSUME TypeOK, parent \in Links(Idx), NEW k \in Idx, NEW n \in 0..Len(tab), Up(k)[n] = NoIdx
    PROVE  \A m \in n..Len(tab) : Up(k)[m] = NoIdx
<1>1. PICK top \in Nat : top = Len(tab)
  BY IndexFacts
<1> DEFINE K == Up(k)
<1>2. \A m \in 0..(top - 1) : K[m + 1] = IF K[m] = NoIdx THEN NoIdx ELSE parent[K[m]]
  BY <1>1, UpIs DEF Links
<1>3. n \in Nat /\ K[n] = NoIdx
  BY <1>1
<1> DEFINE A == {d \in Nat : n + d <= top => K[n + d] = NoIdx}
<1> HIDE DEF K
<1>4. 0 \in A
  BY <1>3
<1>5. ASSUME NEW d \in Nat, d \in A PROVE d + 1 \in A
  <2> SUFFICES ASSUME n + (d + 1) <= top PROVE K[n + (d + 1)] = NoIdx
    OBVIOUS
  <2>1. n + d \in 0..(top - 1) /\ n + (d + 1) = (n + d) + 1
    BY <1>1, <1>3
  <2>2. K[n + d] = NoIdx
    BY <1>5, <2>1
  <2> QED
    BY <1>2, <2>1, <2>2
<1> HIDE DEF A
<1>6. \A d \in Nat : d \in A
  BY <1>4, <1>5, SetInduction
<1>7. ASSUME NEW m \in n..top PROVE K[m] = NoIdx
  <2>1. m - n \in Nat /\ n + (m - n) = m /\ n + (m - n) <= top
    BY <1>1, <1>3
  <2> QED
    BY <1>6, <2>1 DEF A
<1> QED
  BY <1>1, <1>7 DEF K

(* A line of parents that ends has no element twice, so it is no longer     *)
(* than the table, the element itself included.                             *)
LEMMA LineIsShort ==
    ASSUME TypeOK, parent \in Links(Idx), NEW k \in Rooted
    PROVE  Len(tab) - 1 \in 0..Len(tab) /\ Up(k)[Len(tab) - 1] = NoIdx
<1>1. PICK top \in Nat : top = Len(tab) /\ Idx = 1..top /\ NoIdx = 0 /\ NoIdx \notin Idx
  BY IndexFacts
<1>2. k \in Idx /\ Up(k)[top] = NoIdx /\ top > 0 /\ top - 1 \in 0..(top - 1)
  BY <1>1 DEF Rooted, Endless
<1> DEFINE K == Up(k)
<1>3. /\ K \in [0..top -> Idx \cup {NoIdx}] /\ K[0] = parent[k]
      /\ \A n \in 0..(top - 1) : K[n + 1] = IF K[n] = NoIdx THEN NoIdx ELSE parent[K[n]]
  BY <1>1, <1>2, UpIs DEF Links
<1> SUFFICES ASSUME K[top - 1] # NoIdx PROVE FALSE
  BY <1>1, <1>2
<1>4. \A n \in 0..(top - 1) : K[n] \in Idx
  <2> SUFFICES ASSUME NEW n \in 0..(top - 1), K[n] = NoIdx PROVE FALSE
    BY <1>3
  <2>1. n \in 0..Len(tab) /\ top - 1 \in n..Len(tab)
    BY <1>1, <1>2
  <2> QED
    BY <1>2, <2>1, UpStays
<1> DEFINE h == [x \in 0..(top + 1) |-> IF x = 0 THEN k ELSE K[x - 1]]
<1> HIDE DEF K
<1>5. /\ \A x \in 0..top : h[x] \in Idx
      /\ h[top + 1] = NoIdx
      /\ \A x \in 0..top : h[x + 1] = parent[h[x]]
  <2>1. ASSUME NEW x \in 0..top PROVE h[x] \in Idx
    <3>1. x # 0 => x - 1 \in 0..(top - 1)
      OBVIOUS
    <3> QED
      BY <1>2, <1>4, <3>1
  <2>2. h[top + 1] = NoIdx
    BY <1>2 DEF K
  <2>3. ASSUME NEW x \in 0..top PROVE h[x + 1] = parent[h[x]]
    <3>1. h[x + 1] = K[x]
      OBVIOUS
    <3>2. CASE x = 0
      BY <1>3, <3>1, <3>2
    <3>3. CASE x # 0
      <4>1. x - 1 \in 0..(top - 1) /\ (x - 1) + 1 = x /\ h[x] = K[x - 1]
        BY <3>3
      <4>2. K[x] = parent[K[x - 1]]
        BY <1>1, <1>3, <1>4, <4>1
      <4> QED
        BY <3>1, <4>1, <4>2
    <3> QED
      BY <3>2, <3>3
  <2> QED
    BY <2>1, <2>2, <2>3
<1> HIDE DEF h
<1>6. ASSUME NEW x \in 0..top, NEW y \in 0..top, x < y, h[x] = h[y] PROVE FALSE
  <2> DEFINE A == {t \in Nat : y + t <= top + 1 => h[x + t] = h[y + t]}
  <2>1. 0 \in A
    BY <1>6
  <2>2. ASSUME NEW t \in Nat, t \in A PROVE t + 1 \in A
    <3> SUFFICES ASSUME y + (t + 1) <= top + 1 PROVE h[x + (t + 1)] = h[y + (t + 1)]
      OBVIOUS
    <3>1. x + t \in 0..top /\ y + t \in 0..top /\ x + (t + 1) = (x + t) + 1 /\ y + (t + 1) = (y + t) + 1
      BY <1>6
    <3>2. h[x + t] = h[y + t]
      BY <2>2, <3>1
    <3> QED
      BY <1>5, <3>1, <3>2
  <2> HIDE DEF A
  <2>3. \A t \in Nat : t \in A
    BY <2>1, <2>2, SetInduction
  <2>4. top + 1 - y \in Nat /\ y + (top + 1 - y) = top + 1 /\ x + (top + 1 - y) \in 0..top
    BY <1>6
  <2>5. h[x + (top + 1 - y)] = h[top + 1]
    BY <2>3, <2>4 DEF A
  <2> QED
    BY <1>1, <1>5, <2>4, <2>5
<1>7. PICK x \in 0..top, y \in 0..top : x # y /\ h[x] = h[y]
  <2> DEFINE rounds == 0..top  elements == 1..top  g == [x \in rounds |-> h[x]]
  <2>1. IsFiniteSet(rounds) /\ Cardinality(rounds) = top + 1
    BY FS_Interval
  <2>2. IsFiniteSet(elements) /\ Cardinality(elements) = top
    BY FS_Interval
  <2>3. g \in [rounds -> elements]
    BY <1>1, <1>5
  <2>4. Cardinality(elements) < Cardinality(rounds)
    BY <2>1, <2>2
  <2>5. \A x \in rounds : g[x] = h[x]
    OBVIOUS
  <2> HIDE DEF rounds, elements, g
  <2>6. \E x, y \in rounds : x # y /\ g[x] = g[y]
    BY <2>1, <2>2, <2>3, <2>4, FS_PigeonHole
  <2>7. \E x, y \in rounds : x # y /\ h[x] = h[y]
    BY <2>5, <2>6
  <2> QED
    BY <2>7 DEF rounds
<1>8. x < y \/ y < x
  BY <1>7
<1> QED
  BY <1>6, <1>7, <1>8

(* An element's ancestors are its parent and those of its parent, and the    *)
(* parents of its parent and of its children end as its own do.             *)
LEMMA LineFacts ==
    ASSUME TypeOK, parent \in Links(Idx), NEW k \in Rooted
    PROVE  /\ k \in Idx /\ k \in Line(k) /\ Ancestors(k) \subseteq Idx /\ Line(k) \subseteq Idx
           /\ parent[k] = NoIdx => Ancestors(k) = {}
           /\ parent[k] # NoIdx => parent[k] \in Rooted /\ Ancestors(k) = Line(parent[k])
           /\ \A c \in Kids(k) : c \in Rooted
<1>1. PICK top \in Nat : top = Len(tab) /\ Idx = 1..top /\ NoIdx = 0 /\ NoIdx \notin Idx
  BY IndexFacts
<1>2. k \in Idx /\ Up(k)[top] = NoIdx /\ top > 0 /\ top - 1 \in 0..(top - 1)
  BY <1>1 DEF Rooted, Endless
<1>3. Up(k)[top - 1] = NoIdx
  BY <1>1, LineIsShort
<1>4. Up(k) \in [0..top -> Idx \cup {NoIdx}] /\ Up(k)[0] = parent[k] /\ parent[k] \in Idx \cup {NoIdx}
  BY <1>1, <1>2, UpIs DEF Links
<1>5. Ancestors(k) = {Up(k)[n] : n \in 0..top} \ {NoIdx}
  BY <1>1 DEF Ancestors
<1>6. Ancestors(k) \subseteq Idx /\ Line(k) \subseteq Idx /\ k \in Line(k)
  BY <1>2, <1>4, <1>5 DEF Line
<1>7. ASSUME parent[k] = NoIdx PROVE Ancestors(k) = {}
  <2>1. 0 \in 0..Len(tab) /\ Len(tab) = top
    BY <1>1
  <2>2. \A m \in 0..top : Up(k)[m] = NoIdx
    BY <1>2, <1>4, <1>7, <2>1, UpStays
  <2> QED
    BY <1>5, <2>2
<1>8. ASSUME parent[k] # NoIdx PROVE parent[k] \in Rooted /\ Ancestors(k) = Line(parent[k])
  <2> DEFINE p == parent[k]
  <2>1. p \in Idx /\ \A n \in 0..(top - 1) : Up(k)[n + 1] = Up(p)[n]
    BY <1>1, <1>2, <1>8, UpShift
  <2>2. Ancestors(p) = {Up(p)[n] : n \in 0..top} \ {NoIdx}
    BY <1>1 DEF Ancestors
  <2>3. Up(k)[0] = p
    BY <1>4
  <2> HIDE DEF p
  <2>4. Up(p)[top - 1] = NoIdx
    <3>1. (top - 1) + 1 = top
      OBVIOUS
    <3> QED
      BY <1>2, <2>1, <3>1
  <2>5. Up(p)[top] = NoIdx
    <3>1. top - 1 \in 0..Len(tab) /\ top \in (top - 1)..Len(tab)
      BY <1>1, <1>2
    <3> QED
      BY <2>1, <2>4, <3>1, UpStays
  <2>6. p \in Rooted
    BY <1>1, <2>1, <2>5 DEF Rooted, Endless
  <2>7. ASSUME NEW a \in Ancestors(k) PROVE a = p \/ a \in Ancestors(p)
    <3>1. PICK n \in 0..top : a = Up(k)[n] /\ a # NoIdx
      BY <1>5
    <3>2. CASE n = 0
      BY <2>3, <3>1, <3>2
    <3>3. CASE n # 0
      <4>1. n - 1 \in 0..(top - 1) /\ (n - 1) + 1 = n /\ n - 1 \in 0..top
        BY <3>3
      <4>2. a = Up(p)[n - 1]
        BY <2>1, <3>1, <4>1
      <4> QED
        BY <2>2, <3>1, <4>1, <4>2
    <3> QED
      BY <3>2, <3>3
  <2>8. ASSUME NEW a \in Ancestors(p) PROVE a \in Ancestors(k)
    <3>1. PICK n \in 0..top : a = Up(p)[n] /\ a # NoIdx
      BY <2>2
    <3>2. n # top
      BY <2>5, <3>1
    <3>3. n \in 0..(top - 1) /\ n + 1 \in 0..top
      BY <3>2
    <3>4. a = Up(k)[n + 1]
      BY <2>1, <3>1, <3>3
    <3> QED
      BY <1>5, <3>1, <3>3, <3>4
  <2>9. p \in Ancestors(k)
    <3>1. 0 \in 0..top /\ p # NoIdx
      BY <1>1, <2>1
    <3> QED
      BY <1>5, <2>3, <3>1
  <2>10. Ancestors(k) = Line(p)
    BY <2>7, <2>8, <2>9 DEF Line
  <2> QED
    BY <2>6, <2>10 DEF p
<1>9. ASSUME NEW c \in Kids(k) PROVE c \in Rooted
  <2>1. c \in Idx /\ parent[c] = k /\ parent[c] # NoIdx
    BY <1>1, <1>2 DEF Kids
  <2>2. Up(c)[(top - 1) + 1] = Up(k)[top - 1]
    BY <1>1, <1>2, <2>1, UpShift
  <2>3. Up(c)[top] = NoIdx
    <3>1. (top - 1) + 1 = top
      OBVIOUS
    <3> QED
      BY <1>3, <2>2, <3>1
  <2> QED
    BY <1>1, <2>1, <2>3 DEF Rooted, Endless
<1> QED
  BY <1>2, <1>6, <1>7, <1>8, <1>9

(* What holds of an element, and of the parent of each it holds of, holds    *)
(* of the whole line.                                                       *)
LEMMA LineInduction ==
    ASSUME TypeOK, parent \in Links(Idx), NEW k \in Rooted, NEW A, k \in A,
           \A x \in A \cap Rooted : parent[x] # NoIdx => parent[x] \in A
    PROVE  Line(k) \subseteq A \cap Rooted
<1>1. PICK top \in Nat : top = Len(tab) /\ Idx = 1..top /\ NoIdx = 0 /\ NoIdx \notin Idx
  BY IndexFacts
<1> DEFINE K == Up(k)
<1>2. K[0] = parent[k] /\ \A n \in 0..(top - 1) : K[n + 1] = IF K[n] = NoIdx THEN NoIdx ELSE parent[K[n]]
  BY <1>1, UpIs DEF Links, Rooted
<1>3. Ancestors(k) = {K[n] : n \in 0..top} \ {NoIdx}
  BY <1>1 DEF Ancestors
<1> HIDE DEF K
<1>4. \A x \in A \cap Rooted : parent[x] # NoIdx => parent[x] \in A \cap Rooted
  BY LineFacts
<1> DEFINE B == {n \in Nat : n <= top => K[n] = NoIdx \/ K[n] \in A \cap Rooted}
<1>5. 0 \in B
  BY <1>2, <1>4
<1>6. ASSUME NEW n \in Nat, n \in B PROVE n + 1 \in B
  <2> SUFFICES ASSUME n + 1 <= top PROVE K[n + 1] = NoIdx \/ K[n + 1] \in A \cap Rooted
    OBVIOUS
  <2>1. n \in 0..(top - 1) /\ (K[n] = NoIdx \/ K[n] \in A \cap Rooted)
    BY <1>6
  <2> QED
    BY <1>2, <1>4, <2>1
<1> HIDE DEF B
<1>7. \A n \in Nat : n \in B
  BY <1>5, <1>6, SetInduction
<1>8. \A n \in 0..top : K[n] = NoIdx \/ K[n] \in A \cap Rooted
  BY <1>7 DEF B
<1> QED
  BY <1>3, <1>8 DEF Line

(* What holds of an element when it holds of its children and of its later  *)
(* sisters, holds of all whose line of parents ends.                        *)
LEMMA TreeInduction ==
    ASSUME TypeOK, parent \in Links(Idx), NEW A,
           \A k \in Rooted :
             (\A c \in Kids(k) : c \in A) /\ (\A s \in Sibs(k) : s > k => s \in A) => k \in A
    PROVE  Rooted \subseteq A
<1>1. PICK top \in Nat : top = Len(tab) /\ Idx = 1..top /\ NoIdx = 0 /\ NoIdx \notin Idx
  BY IndexFacts
<1>2. \A k \in Rooted : /\ k \in Idx /\ k \in 1..top /\ k # NoIdx /\ Up(k)[top] = NoIdx /\ Up(k)[0] = parent[k]
                        /\ \A c \in Kids(k) : c \in Rooted /\ parent[c] = k
                        /\ parent[k] # NoIdx => parent[k] \in Rooted
  <2> SUFFICES ASSUME NEW k \in Rooted
               PROVE  /\ k \in Idx /\ k \in 1..top /\ k # NoIdx /\ Up(k)[top] = NoIdx /\ Up(k)[0] = parent[k]
                      /\ \A c \in Kids(k) : c \in Rooted /\ parent[c] = k
                      /\ parent[k] # NoIdx => parent[k] \in Rooted
    OBVIOUS
  <2>1. k \in Idx /\ Up(k)[top] = NoIdx
    BY <1>1 DEF Rooted, Endless
  <2>2. Up(k)[0] = parent[k]
    BY <2>1, UpIs DEF Links
  <2>3. \A c \in Kids(k) : parent[c] = k
    BY DEF Kids
  <2> QED
    BY <1>1, <2>1, <2>2, <2>3, LineFacts
<1>3. \A k \in Rooted : parent[k] # NoIdx => \A n \in 0..(top - 1) : Up(k)[n + 1] = Up(parent[k])[n]
  BY <1>1, <1>2, UpShift
<1> DEFINE P == {d \in Nat : d <= top => \A k \in Rooted : Up(k)[top - d] # NoIdx => k \in A}
<1>4. 0 \in P
  <2>1. top - 0 = top
    OBVIOUS
  <2> QED
    BY <1>2, <2>1
<1>5. ASSUME NEW d \in Nat, d \in P PROVE d + 1 \in P
  <2> SUFFICES ASSUME d + 1 <= top PROVE \A k \in Rooted : Up(k)[top - (d + 1)] # NoIdx => k \in A
    OBVIOUS
  <2>1. PICK t \in 0..(top - 1) : t = top - (d + 1) /\ t + 1 = top - d /\ t \in 0..top
    OBVIOUS
  <2>2. \A k \in Rooted : Up(k)[t + 1] # NoIdx => k \in A
    BY <1>5, <2>1
  <2> DEFINE Q == {e \in Nat : \A k \in Rooted : Up(k)[t] # NoIdx /\ k + e > top => k \in A}
  <2>3. 0 \in Q
    BY <1>2
  <2>4. ASSUME NEW e \in Nat, e \in Q PROVE e + 1 \in Q
    <3> SUFFICES ASSUME NEW k \in Rooted, Up(k)[t] # NoIdx, k + (e + 1) > top PROVE k \in A
      OBVIOUS
    <3>1. k \in Nat /\ k \in Idx
      BY <1>2
    <3>2. \A c \in Kids(k) : c \in A
      BY <1>2, <1>3, <2>1, <2>2
    <3>3. parent[k] # NoIdx
      <4> SUFFICES ASSUME parent[k] = NoIdx PROVE FALSE
        OBVIOUS
      <4>1. Up(k)[0] = NoIdx /\ 0 \in 0..Len(tab) /\ t \in 0..Len(tab)
        BY <1>1, <1>2, <2>1
      <4> QED
        BY <3>1, <4>1, UpStays
    <3>4. ASSUME NEW s \in Sibs(k), s > k PROVE s \in A
      <4>1. s \in Kids(parent[k])
        BY <3>3 DEF Sibs
      <4>2. s \in Rooted /\ parent[s] = parent[k]
        BY <1>2, <3>3, <4>1
      <4>3. Up(s)[t] = Up(k)[t]
        <5>1. CASE t = 0
          BY <1>2, <4>2, <5>1
        <5>2. CASE t # 0
          <6>1. t - 1 \in 0..(top - 1) /\ (t - 1) + 1 = t
            BY <5>2
          <6> QED
            BY <1>3, <3>3, <4>2, <6>1
        <5> QED
          BY <5>1, <5>2
      <4>4. s \in Nat /\ s + e > top
        BY <1>2, <3>1, <3>4, <4>2
      <4> QED
        BY <2>4, <4>2, <4>3, <4>4
    <3> QED
      BY <3>2, <3>4
  <2> HIDE DEF Q
  <2>5. top \in Q
    BY <2>3, <2>4, SetInduction
  <2>6. \A k \in Rooted : k + top > top
    BY <1>2
  <2> QED
    BY <2>1, <2>5, <2>6 DEF Q
<1> HIDE DEF P
<1>6. top \in P
  BY <1>4, <1>5, SetInduction
<1>7. \A k \in Rooted : parent[k] # NoIdx => k \in A
  <2>1. top - top = 0
    OBVIOUS
  <2> QED
    BY <1>2, <1>6, <2>1 DEF P
<1>8. ASSUME NEW k \in Rooted, parent[k] = NoIdx PROVE k \in A
  <2>1. \A c \in Kids(k) : c \in A
    BY <1>2, <1>7
  <2>2. \A s \in Sibs(k) : ~(s > k)
    BY <1>2, <1>8 DEF Sibs
  <2> QED
    BY <2>1, <2>2
<1> QED
  BY <1>7, <1>8

(* The line of an element on a line is part of it.                          *)
LEMMA LineWithin ==
    ASSUME TypeOK, parent \in Links(Idx), NEW k \in Rooted, NEW j \in Line(k)
    PROVE  j \in Rooted /\ Line(j) \subseteq Line(k)
<1> DEFINE A == {x \in Rooted : Line(x) \subseteq Line(k)}
<1>1. \A x \in A \cap Rooted : parent[x] # NoIdx => parent[x] \in A
  BY LineFacts DEF Line
<1>2. k \in A
  OBVIOUS
<1> HIDE DEF A
<1>3. Line(k) \subseteq A \cap Rooted
  BY <1>1, <1>2, LineInduction
<1> QED
  BY <1>3 DEF A

(* Of two elements on a line one is on the line of the other.               *)
LEMMA LineIsChain ==
    ASSUME TypeOK, parent \in Links(Idx), NEW k \in Rooted, NEW x \in Line(k), NEW y \in Line(k)
    PROVE  x \in Line(y) \/ y \in Line(x)
<1> DEFINE A == {z \in Rooted : y \in Line(z) \/ z \in Line(y)}
<1>1. ASSUME NEW z \in A \cap Rooted, parent[z] # NoIdx PROVE parent[z] \in A
  <2>1. parent[z] \in Rooted /\ Ancestors(z) = Line(parent[z]) /\ parent[z] \in Line(parent[z])
    BY <1>1, LineFacts
  <2>2. CASE z \in Line(y)
    <3>1. y \in Rooted
      BY LineWithin
    <3>2. Line(z) \subseteq Line(y)
      BY <2>2, <3>1, LineWithin
    <3> QED
      BY <2>1, <3>2 DEF Line
  <2>3. CASE y \in Line(z)
    <3>1. z \in Line(z)
      BY DEF Line
    <3>2. y = z \/ y \in Line(parent[z])
      BY <2>1, <2>3 DEF Line
    <3>3. y = z => parent[z] \in Line(y)
      BY <2>1 DEF Line
    <3> QED
      BY <2>1, <3>2, <3>3
  <2> QED
    BY <2>2, <2>3
<1>2. k \in A
  OBVIOUS
<1> HIDE DEF A
<1>3. Line(k) \subseteq A \cap Rooted
  BY <1>1, <1>2, LineInduction
<1> QED
  BY <1>3 DEF A

(* Below an ancestor there is one of its children on the line.              *)
LEMMA KidOnLine ==
    ASSUME TypeOK, parent \in Links(Idx), NEW i \in Rooted, NEW k \in Ancestors(i)
    PROVE  \E c \in Kids(k) : c \in Line(i)
<1> SUFFICES ASSUME \A c \in Kids(k) : c \notin Line(i) PROVE FALSE
  OBVIOUS
<1>0. i \in Line(i) /\ Line(i) \subseteq Idx /\ \A z \in Line(i) : z \in Rooted /\ Line(z) \subseteq Line(i)
  BY LineFacts, LineWithin
<1>1. \A z \in Line(i) : parent[z] # k
  BY <1>0 DEF Kids
<1>2. parent[i] # NoIdx /\ parent[i] \in Rooted /\ Ancestors(i) = Line(parent[i])
  BY LineFacts
<1> DEFINE A == {z \in Line(i) : z # k}
<1>3. parent[i] \in A
  BY <1>0, <1>1, <1>2 DEF Line
<1>4. ASSUME NEW z \in A \cap Rooted, parent[z] # NoIdx PROVE parent[z] \in A
  <2>1. parent[z] \in Line(parent[z]) /\ Ancestors(z) = Line(parent[z])
    BY <1>4, LineFacts
  <2>2. parent[z] \in Line(z)
    BY <2>1 DEF Line
  <2> QED
    BY <1>0, <1>1, <2>2
<1> HIDE DEF A
<1>5. Line(parent[i]) \subseteq A \cap Rooted
  BY <1>2, <1>3, <1>4, LineInduction
<1> QED
  BY <1>2, <1>5 DEF A

(* Nothing whose line ends is its own ancestor.                             *)
LEMMA NotOwnAncestor ==
    ASSUME TypeOK, parent \in Links(Idx) PROVE \A k \in Rooted : k \notin Ancestors(k)
<1> DEFINE A == {k \in Rooted : k \notin Ancestors(k)}
<1>1. ASSUME NEW k \in Rooted, \A c \in Kids(k) : c \in A PROVE k \in A
  <2> SUFFICES ASSUME k \in Ancestors(k) PROVE FALSE
    OBVIOUS
  <2>1. PICK c \in Kids(k) : c \in Line(k)
    BY KidOnLine
  <2>2. c \in Rooted /\ parent[c] = k /\ parent[c] # NoIdx
    <3>1. c \in Idx /\ parent[c] = k
      BY DEF Kids
    <3>2. k \in Idx /\ NoIdx \notin Idx
      BY LineFacts, IndexFacts
    <3> QED
      BY <3>1, <3>2, LineFacts
  <2>3. Ancestors(c) = Line(k)
    BY <2>2, LineFacts
  <2> QED
    BY <1>1, <2>1, <2>3
<1> HIDE DEF A
<1>2. Rooted \subseteq A
  BY <1>1, TreeInduction
<1> QED
  BY <1>2 DEF A

(* Everything below an element without a parent has it on its line, and on   *)
(* those of its ancestors.                                                  *)
LEMMA BelowRoot ==
    ASSUME TypeOK, parent \in Links(Idx), NEW root \in Idx, parent[root] = NoIdx,
           NEW i \in Idx, root \in Line(i)
    PROVE  i \in Rooted /\ \A j \in Line(i) : root \in Line(j)
<1>1. PICK top \in Nat : top = Len(tab) /\ Idx = 1..top /\ NoIdx = 0 /\ NoIdx \notin Idx
  BY IndexFacts
<1>2. i \in Rooted
  <2> SUFFICES ASSUME i \notin Rooted PROVE FALSE
    OBVIOUS
  <2>1. Up(i)[top] # NoIdx
    BY <1>1, <2>1 DEF Rooted, Endless
  <2>2. Up(i)[0] = parent[i] /\ \A n \in 0..(top - 1) : Up(i)[n + 1] = IF Up(i)[n] = NoIdx THEN NoIdx ELSE parent[Up(i)[n]]
    BY <1>1, UpIs DEF Links
  <2>3. ASSUME NEW n \in 0..(top - 1), Up(i)[n] = NoIdx PROVE FALSE
    <3>1. n \in 0..Len(tab) /\ top \in n..Len(tab)
      BY <1>1
    <3> QED
      BY <2>1, <2>3, <3>1, UpStays
  <2>4. ASSUME NEW n \in 0..(top - 1), Up(i)[n] = root PROVE FALSE
    <3>1. Up(i)[n + 1] = NoIdx
      BY <1>1, <2>2, <2>4
    <3>2. n + 1 \in 0..Len(tab) /\ top \in (n + 1)..Len(tab)
      BY <1>1
    <3> QED
      BY <2>1, <3>1, <3>2, UpStays
  <2>5. top > 0 /\ 0 \in 0..(top - 1)
    BY <1>1
  <2>6. parent[i] # NoIdx
    BY <2>2, <2>3, <2>5
  <2>7. root # i
    BY <2>6
  <2>8. PICK n \in 0..top : root = Up(i)[n]
    BY <1>1, <2>7 DEF Line, Ancestors
  <2>9. n = top
    <3>1. n \notin 0..(top - 1)
      BY <2>4, <2>8
    <3> QED
      BY <3>1
  <2> DEFINE p == parent[i]
  <2>10. p \in Idx /\ \A x \in 0..(top - 1) : Up(i)[x + 1] = Up(p)[x]
    BY <1>1, <2>6, UpShift
  <2> HIDE DEF p
  <2>11. Up(p)[top - 1] = root /\ top - 1 \in 0..(top - 1) /\ (top - 1) + 1 = top
    BY <2>5, <2>8, <2>9, <2>10
  <2>12. Up(p)[top] = NoIdx
    <3>1. \A x \in 0..(top - 1) : Up(p)[x + 1] = IF Up(p)[x] = NoIdx THEN NoIdx ELSE parent[Up(p)[x]]
      BY <1>1, <2>10, UpIs DEF Links
    <3> QED
      BY <1>1, <2>11, <3>1
  <2>13. p \in Rooted
    BY <1>1, <2>10, <2>12 DEF Rooted, Endless
  <2>14. Up(p)[top - 1] = NoIdx
    BY <1>1, <2>13, LineIsShort
  <2> QED
    BY <1>1, <2>11, <2>14
<1> DEFINE A == {x \in Rooted : root \in Line(x)}
<1>3. \A x \in A \cap Rooted : parent[x] # NoIdx => parent[x] \in A
  BY LineFacts DEF Line
<1>4. i \in A
  BY <1>2
<1> HIDE DEF A
<1>5. Line(i) \subseteq A \cap Rooted
  BY <1>2, <1>3, <1>4, LineInduction
<1> QED
  BY <1>2, <1>5 DEF A

(***************************************************************************)
(* What is marked.                                                         *)
(***************************************************************************)
PrintedUp == \A i \in Idx : print[i] /\ parent[i] # NoIdx => print[parent[i]]

(* The rows of k and its sisters, by the equation of PrintTree.             *)
RowsBy(f) ==
    \A d \in 1..opt.level, k \in Idx \cup {NoIdx}, n \in Nat :
        f[d][k][n] =
            IF k = NoIdx \/ d = opt.level
            THEN <<>>
            ELSE IF n = 0 /\ ~print[k]
            THEN f[d][sister[k]][n]
            ELSE Row(k, n) \o f[d + 1][child[k]][Indent(k, n)] \o f[d][sister[k]][n]

TreeBy(f, i) == IF ~print[i] THEN <<>> ELSE Row(i, 0) \o f[1][child[i]][Indent(i, 0)]

(* The root is found and what is printed is its tree.                       *)
OutIs ==
    /\ get_pid_index(GetRootPid) # NoIdx
    /\ \E f : RowsBy(f) /\ out = TreeBy(f, get_pid_index(GetRootPid))

(* What is marked where the programs have come to, and what is then printed. *)
MarkInv ==
    prog = "part2" /\ input = "none" =>
        /\ pc = "tree" => \A i \in Idx : ~print[i]
        /\ pc = "mark" /\ opt.kind = "all" => \A i \in Idx : i < me => print[i]
        /\ pc \in {"drop", "print", "done"} \/ (pc = "mark" /\ opt.kind # "all") => PrintedUp
        /\ pc = "done" /\ opt.start = <<>> => OutIs

(* The recursion of MarkChildren() follows two links, and there is a         *)
(* function that does: what is reached by them.                             *)
MarksBy(f) == f[NoIdx] = {} /\ \A k \in Idx : f[k] = {k} \cup f[child[k]] \cup f[sister[k]]

LEMMA MarksExist ==
    ASSUME TypeOK, LinkTypes
    PROVE  \E f : MarksBy(f) /\ \A i \in Idx : MarkChildren(i) = {i} \cup f[child[i]]
<1>1. PICK top \in Nat : top = Len(tab) /\ Idx = 1..top /\ NoIdx = 0 /\ NoIdx \notin Idx
  BY IndexFacts
<1>2. child \in [Idx -> Idx \cup {NoIdx}] /\ sister \in [Idx -> Idx \cup {NoIdx}]
  BY DEF LinkTypes, Links
<1> DEFINE To == Idx \cup {NoIdx}
           Closed(S) == \A x \in S : child[x] \in S \cup {NoIdx} /\ sister[x] \in S \cup {NoIdx}
           reach(k) == {x \in Idx : \A S \in SUBSET Idx : k \in S /\ Closed(S) => x \in S}
           g == [k \in To |-> IF k = NoIdx THEN {} ELSE reach(k)]
           mark == CHOOSE f : f = [k \in To |-> IF k = NoIdx THEN {} ELSE {k} \cup f[child[k]] \cup f[sister[k]]]
<1>3. \A k \in Idx : child[k] \in To /\ sister[k] \in To /\ k # NoIdx /\ k \in To
  BY <1>1, <1>2
<1>4. ASSUME NEW k \in Idx PROVE g[k] = {k} \cup g[child[k]] \cup g[sister[k]]
  <2> DEFINE c == child[k]  s == sister[k]  T == {k} \cup g[c] \cup g[s]
  <2>1. g[k] = reach(k) /\ g[NoIdx] = {} /\ \A y \in Idx : g[y] = reach(y)
    BY <1>3
  <2>2. c \in To /\ s \in To
    BY <1>3
  <2>3. \A y \in To : g[y] \subseteq Idx /\ Closed(g[y]) /\ (y # NoIdx => y \in g[y])
    <3> SUFFICES ASSUME NEW y \in Idx PROVE reach(y) \subseteq Idx /\ Closed(reach(y)) /\ y \in reach(y)
      BY <2>1
    <3> QED
      BY <1>2
  <2>4. ASSUME NEW x \in g[k] PROVE x \in T
    <3>1. T \subseteq Idx /\ k \in T
      BY <2>2, <2>3
    <3>2. Closed(T)
      <4> SUFFICES ASSUME NEW y \in T PROVE child[y] \in T \cup {NoIdx} /\ sister[y] \in T \cup {NoIdx}
        OBVIOUS
      <4> HIDE DEF g
      <4>1. CASE y = k
        BY <2>2, <2>3, <4>1
      <4>2. CASE y \in g[c]
        BY <2>2, <2>3, <4>2
      <4>3. CASE y \in g[s]
        BY <2>2, <2>3, <4>3
      <4> QED
        BY <4>1, <4>2, <4>3
    <3> HIDE DEF T, Closed
    <3> QED
      BY <2>1, <2>4, <3>1, <3>2
  <2>5. ASSUME NEW x \in T PROVE x \in g[k]
    <3>1. k \in g[k] /\ Closed(g[k])
      BY <1>3, <2>3
    <3>2. c \in g[k] \cup {NoIdx} /\ s \in g[k] \cup {NoIdx}
      BY <3>1
    <3>3. ASSUME NEW y \in g[k] PROVE reach(y) \subseteq reach(k)
      BY <2>1, <3>3
    <3>4. g[c] \subseteq g[k] /\ g[s] \subseteq g[k]
      <4>1. ASSUME NEW y \in g[k] \cup {NoIdx} PROVE g[y] \subseteq g[k]
        BY <2>1, <3>3
      <4> HIDE DEF g, c, s
      <4> QED
        BY <3>2, <4>1
    <3> QED
      BY <3>1, <3>4
  <2> QED
    BY <2>4, <2>5
<1> HIDE DEF mark
<1>5. g = [k \in To |-> IF k = NoIdx THEN {} ELSE {k} \cup g[child[k]] \cup g[sister[k]]]
  <2>1. \A k \in To : g[k] = IF k = NoIdx THEN {} ELSE {k} \cup g[child[k]] \cup g[sister[k]]
    <3>1. g[NoIdx] = {}
      OBVIOUS
    <3> HIDE DEF g
    <3> QED
      BY <1>4, <3>1
  <2>2. g = [k \in To |-> g[k]]
    OBVIOUS
  <2> HIDE DEF g
  <2> QED
    BY <2>1, <2>2
<1> HIDE DEF g
<1>6. mark = [k \in To |-> IF k = NoIdx THEN {} ELSE {k} \cup mark[child[k]] \cup mark[sister[k]]]
  BY <1>5 DEF mark
<1>7. mark[NoIdx] = {} /\ \A k \in Idx : mark[k] = {k} \cup mark[child[k]] \cup mark[sister[k]]
  BY <1>3, <1>6
<1>8. \A i \in Idx : MarkChildren(i) = {i} \cup mark[child[i]]
  BY DEF MarkChildren, mark
<1> QED
  BY <1>7, <1>8 DEF MarksBy

(* MarkChildren() marks, with an element, all of the line from the element   *)
(* where it was called.                                                     *)
LEMMA MarkChildrenIs ==
    ASSUME TypeOK, Linked, NEW i \in Rooted
    PROVE  \A x \in MarkChildren(i) : x \in Idx /\ (x # i => parent[x] \in MarkChildren(i))
<1>1. PICK top \in Nat : top = Len(tab) /\ Idx = 1..top /\ NoIdx = 0 /\ NoIdx \notin Idx
  BY IndexFacts
<1>2. /\ parent \in Links(Idx) /\ child \in [Idx -> Idx \cup {NoIdx}] /\ sister \in [Idx -> Idx \cup {NoIdx}]
      /\ \A k \in Idx : IsNext(Kids(k), 0, child[k]) /\ IsNext(Sibs(k), k, sister[k])
  BY DEF Linked, LinkTypes, Links
<1>3. PICK mark : MarksBy(mark) /\ \A k \in Idx : MarkChildren(k) = {k} \cup mark[child[k]]
  BY MarksExist DEF Linked
<1>7. mark[NoIdx] = {} /\ \A k \in Idx : mark[k] = {k} \cup mark[child[k]] \cup mark[sister[k]]
  BY <1>3 DEF MarksBy
<1>8. MarkChildren(i) = {i} \cup mark[child[i]]
  BY <1>3 DEF Rooted
<1> DEFINE A == {k \in Rooted : \A x \in mark[k] : x \in Idx /\ (parent[x] = parent[k] \/ parent[x] \in mark[k])}
<1>9. ASSUME NEW k \in Rooted, \A c \in Kids(k) : c \in A, \A s \in Sibs(k) : s > k => s \in A
      PROVE  /\ k \in A
             /\ child[k] = NoIdx \/ (child[k] \in Kids(k) /\ child[k] \in A)
  <2>1. k \in Idx
    BY LineFacts, <1>2
  <2>2. child[k] = NoIdx \/ (child[k] \in Kids(k) /\ child[k] \in A /\ parent[child[k]] = k)
    BY <1>2, <1>9, <2>1 DEF IsNext, Kids
  <2>3. sister[k] = NoIdx \/ (sister[k] \in A /\ parent[sister[k]] = parent[k])
    <3>1. sister[k] = NoIdx \/ (sister[k] \in Sibs(k) /\ sister[k] > k)
      BY <1>2, <2>1 DEF IsNext
    <3>2. \A z \in Sibs(k) : parent[z] = parent[k]
      BY DEF Sibs, Kids
    <3> QED
      BY <1>9, <3>1, <3>2
  <2>4. ASSUME NEW x \in mark[k] PROVE x \in Idx /\ (parent[x] = parent[k] \/ parent[x] \in mark[k])
    <3>1. CASE x = k
      BY <2>1, <3>1
    <3>2. CASE x \in mark[child[k]]
      <4>1. child[k] # NoIdx
        BY <1>7, <3>2
      <4>2. x \in Idx /\ (parent[x] = k \/ parent[x] \in mark[child[k]])
        BY <2>2, <3>2, <4>1
      <4> QED
        BY <1>7, <2>1, <4>2
    <3>3. CASE x \in mark[sister[k]]
      <4>1. sister[k] # NoIdx
        BY <1>7, <3>3
      <4>2. x \in Idx /\ (parent[x] = parent[k] \/ parent[x] \in mark[sister[k]])
        BY <2>3, <3>3, <4>1
      <4> QED
        BY <1>7, <2>1, <4>2
    <3> QED
      BY <1>7, <2>1, <3>1, <3>2, <3>3
  <2> QED
    BY <2>2, <2>4
<1> HIDE DEF A
<1>10. Rooted \subseteq A
  BY <1>2, <1>9, TreeInduction
<1>11. i \in Idx /\ \A c \in Kids(i) : c \in A /\ c \in Rooted /\ parent[c] = i
  BY <1>2, <1>10, LineFacts DEF Kids
<1>12. child[i] = NoIdx \/ child[i] \in Kids(i)
  BY <1>2, <1>11 DEF IsNext
<1>13. \A x \in mark[child[i]] : x \in Idx /\ (parent[x] = i \/ parent[x] \in mark[child[i]])
  BY <1>7, <1>11, <1>12 DEF A
<1> QED
  BY <1>8, <1>11, <1>13

(* PrintTree follows its equation: a row looks at rows of a deeper level or   *)
(* of a later sister only, so there is a function that does.                *)
LEMMA RowsExist ==
    ASSUME TypeOK, LinkTypes, \A k \in Idx : sister[k] = NoIdx \/ sister[k] > k, opt.level \in Nat \ {0},
           NEW i \in Idx
    PROVE  \E f : RowsBy(f) /\ PrintTree(i) = TreeBy(f, i)
<1>1. PICK top \in Nat : top = Len(tab) /\ Idx = 1..top /\ NoIdx = 0 /\ NoIdx \notin Idx
  BY IndexFacts
<1>2. PICK level \in Nat : level = opt.level /\ level > 0
  OBVIOUS
<1>3. PICK w \in Nat : w = top + 1
  OBVIOUS
<1> DEFINE D == 1..level
           K == Idx \cup {NoIdx}
           Body(f, d, k, n) == IF k = NoIdx \/ d = opt.level
                               THEN <<>>
                               ELSE IF n = 0 /\ ~print[k]
                               THEN f[d][sister[k]][n]
                               ELSE Row(k, n) \o f[d + 1][child[k]][Indent(k, n)] \o f[d][sister[k]][n]
           rest(k) == IF k = NoIdx THEN 0 ELSE top - k
           far(d, k) == (level - d) * w + rest(k)
           Upto(f, m) == /\ \A d \in D, n \in Nat : f[d][NoIdx][n] = <<>>
                         /\ \A d \in D, k \in Idx, n \in Nat : far(d, k) < m => f[d][k][n] = Body(f, d, k, n)
           Agree(f, g, m) == /\ \A d \in D, n \in Nat : f[d][NoIdx][n] = g[d][NoIdx][n]
                             /\ \A d \in D, k \in Idx, n \in Nat : far(d, k) < m => f[d][k][n] = g[d][k][n]
           P == {m \in Nat : \E f : Upto(f, m)}
<1>4. child \in [Idx -> K] /\ sister \in [Idx -> K]
  BY DEF LinkTypes, Links
<1>5. \A a, b \in Nat : a * w \in Nat /\ (a + b) * w = a * w + b * w
  OBVIOUS
<1>6. \A k \in K : rest(k) \in Nat /\ rest(k) < w
  BY <1>1, <1>3
<1>7. \A k \in Idx : sister[k] # NoIdx => rest(sister[k]) < rest(k)
  BY <1>1, <1>4
<1>8. \A d \in D : level - d \in Nat /\ d \in Nat /\ (d # level => d + 1 \in D)
  OBVIOUS
<1> HIDE DEF rest
<1>9. ASSUME NEW d \in D, NEW k \in K PROVE far(d, k) \in Nat /\ far(d, k) < (level + 1) * w
  <2> DEFINE x == (level - d) * w  y == d * w
  <2>1. level + 1 = (level - d) + (d + 1) /\ d + 1 \in Nat
    BY <1>8
  <2>2. (level + 1) * w = x + (d + 1) * w
    BY <1>5, <1>8, <2>1
  <2>3. (d + 1) * w = y + 1 * w /\ 1 * w = w /\ x \in Nat /\ y \in Nat
    BY <1>5, <1>8
  <2> HIDE DEF x, y
  <2>4. (level + 1) * w = x + (y + w)
    BY <2>2, <2>3
  <2>5. far(d, k) = x + rest(k)
    BY DEF x
  <2> QED
    BY <1>6, <2>3, <2>4, <2>5
<1>10. ASSUME NEW d \in D, NEW k \in Idx, d # level
       PROVE  d + 1 \in D /\ far(d + 1, child[k]) < far(d, k)
  <2> DEFINE x == (level - d) * w  y == (level - (d + 1)) * w
  <2>1. d + 1 \in D /\ level - (d + 1) \in Nat /\ level - d = (level - (d + 1)) + 1
    BY <1>8, <1>10
  <2>2. x = y + 1 * w /\ 1 * w = w /\ y \in Nat
    BY <1>5, <2>1
  <2>3. far(d + 1, child[k]) = y + rest(child[k]) /\ far(d, k) = x + rest(k)
    OBVIOUS
  <2> HIDE DEF x, y, far
  <2>4. rest(child[k]) \in Nat /\ rest(child[k]) < w /\ rest(k) \in Nat
    BY <1>4, <1>6
  <2> QED
    BY <2>1, <2>2, <2>3, <2>4
<1>11. ASSUME NEW d \in D, NEW k \in Idx, sister[k] # NoIdx PROVE far(d, sister[k]) < far(d, k)
  <2> DEFINE x == (level - d) * w
  <2>1. x \in Nat
    BY <1>5, <1>8
  <2>2. far(d, sister[k]) = x + rest(sister[k]) /\ far(d, k) = x + rest(k)
    OBVIOUS
  <2>3. rest(sister[k]) < rest(k) /\ rest(sister[k]) \in Nat /\ rest(k) \in Nat
    BY <1>4, <1>6, <1>7, <1>11
  <2> HIDE DEF x, far
  <2> QED
    BY <2>1, <2>2, <2>3
<1>12. \A k \in Idx, n \in Nat : Indent(k, n) \in Nat
  BY DEF Indent
<1> HIDE DEF far
<1>13. ASSUME NEW f, NEW g, NEW m \in Nat, Agree(f, g, m)
       PROVE  \A d \in D, k \in Idx, n \in Nat : far(d, k) < m + 1 => Body(f, d, k, n) = Body(g, d, k, n)
  <2> SUFFICES ASSUME NEW d \in D, NEW k \in Idx, NEW n \in Nat, far(d, k) < m + 1
               PROVE  Body(f, d, k, n) = Body(g, d, k, n)
    OBVIOUS
  <2>1. CASE d = level
    BY <1>2, <2>1
  <2>2. CASE d # level
    <3>1. child[k] \in K /\ sister[k] \in K /\ d + 1 \in D /\ Indent(k, n) \in Nat
      BY <1>4, <1>8, <1>12, <2>2
    <3>2. child[k] # NoIdx => far(d + 1, child[k]) < m
      <4>1. far(d + 1, child[k]) < far(d, k)
        BY <1>10, <2>2
      <4>2. far(d + 1, child[k]) \in Nat /\ far(d, k) \in Nat
        BY <1>9, <3>1
      <4> QED
        BY <1>13, <4>1, <4>2
    <3>3. sister[k] # NoIdx => far(d, sister[k]) < m
      <4>1. sister[k] # NoIdx => far(d, sister[k]) < far(d, k)
        BY <1>11
      <4>2. far(d, sister[k]) \in Nat /\ far(d, k) \in Nat
        BY <1>9, <3>1
      <4> QED
        BY <1>13, <4>1, <4>2
    <3>4. f[d + 1][child[k]][Indent(k, n)] = g[d + 1][child[k]][Indent(k, n)]
      BY <1>13, <3>1, <3>2
    <3>5. f[d][sister[k]][n] = g[d][sister[k]][n]
      BY <1>13, <3>1, <3>3
    <3> QED
      BY <3>4, <3>5
  <2> QED
    BY <2>1, <2>2
<1>14. 0 \in P
  <2> DEFINE f == [d \in D |-> [k \in K |-> [n \in Nat |-> <<>>]]]
  <2>1. \A d \in D, n \in Nat : f[d][NoIdx][n] = <<>>
    OBVIOUS
  <2>2. \A d \in D, k \in Idx : ~(far(d, k) < 0)
    BY <1>9
  <2> HIDE DEF f
  <2>3. Upto(f, 0)
    BY <2>1, <2>2
  <2> HIDE DEF Upto
  <2> QED
    BY <2>3
<1> HIDE DEF Body, Agree
<1>15. ASSUME NEW m \in Nat, m \in P PROVE m + 1 \in P
  <2>1. PICK f : Upto(f, m)
    BY <1>15
  <2> DEFINE g == [d \in D |-> [k \in K |-> [n \in Nat |-> IF k = NoIdx THEN <<>> ELSE Body(f, d, k, n)]]]
  <2>2. \A d \in D, n \in Nat : g[d][NoIdx][n] = <<>>
    OBVIOUS
  <2>3. \A d \in D, k \in Idx, n \in Nat : g[d][k][n] = Body(f, d, k, n)
    BY <1>1
  <2> HIDE DEF g
  <2>4. \A d \in D, k \in Idx, n \in Nat : far(d, k) < m => f[d][k][n] = g[d][k][n]
    BY <2>1, <2>3
  <2>5. \A d \in D, n \in Nat : f[d][NoIdx][n] = g[d][NoIdx][n]
    BY <2>1, <2>2
  <2>6. ASSUME NEW d \in D, NEW k \in Idx, NEW n \in Nat, far(d, k) < m + 1 PROVE g[d][k][n] = Body(g, d, k, n)
    <3>1. Agree(f, g, m)
      BY <2>4, <2>5 DEF Agree
    <3> QED
      BY <1>13, <2>3, <2>6, <3>1
  <2>7. Upto(g, m + 1)
    BY <2>2, <2>6
  <2> QED
    BY <2>7
<1>16. (level + 1) * w \in Nat
  BY <1>5
<1> HIDE DEF P
<1>17. (level + 1) * w \in P
  BY <1>14, <1>15, <1>16, SetInduction
<1>18. PICK f : Upto(f, (level + 1) * w)
  BY <1>17 DEF P
<1> DEFINE g == [d \in D |-> [k \in K |-> [n \in Nat |-> f[d][k][n]]]]
           IsRows(r) == r = [d \in 1..opt.level |-> [k \in Idx \cup {NoIdx} |-> [n \in Nat |->
                       IF k = NoIdx \/ d = opt.level
                       THEN <<>>
                       ELSE IF n = 0 /\ ~print[k]
                       THEN r[d][sister[k]][n]
                       ELSE Row(k, n) \o r[d + 1][child[k]][Indent(k, n)] \o r[d][sister[k]][n]]]]
           rows == CHOOSE r : IsRows(r)
<1>19. \A d \in D, k \in K, n \in Nat : g[d][k][n] = f[d][k][n]
  OBVIOUS
<1> HIDE DEF g
<1>20. \A d \in D, k \in Idx, n \in Nat : g[d][k][n] = Body(g, d, k, n)
  <2> SUFFICES ASSUME NEW d \in D, NEW k \in Idx, NEW n \in Nat PROVE g[d][k][n] = Body(g, d, k, n)
    OBVIOUS
  <2>1. far(d, k) \in Nat /\ far(d, k) < (level + 1) * w
    BY <1>9
  <2>2. f[d][k][n] = Body(f, d, k, n)
    BY <1>18, <2>1
  <2>3. far(d, k) < (level + 1) * w + 1
    BY <1>16, <2>1
  <2>4. Body(f, d, k, n) = Body(g, d, k, n)
    <3>1. \A e \in D, j \in Idx, v \in Nat : far(e, j) < (level + 1) * w => f[e][j][v] = g[e][j][v]
      BY <1>1, <1>19
    <3>2. \A e \in D, v \in Nat : f[e][NoIdx][v] = g[e][NoIdx][v]
      BY <1>19
    <3>3. Agree(f, g, (level + 1) * w)
      BY <3>1, <3>2 DEF Agree
    <3> QED
      BY <1>13, <1>16, <2>3, <3>3
  <2> QED
    BY <1>19, <2>2, <2>4
<1>21. \A d \in D, n \in Nat : g[d][NoIdx][n] = <<>>
  BY <1>18, <1>19
<1>22. \A d \in D, k \in K, n \in Nat : g[d][k][n] = Body(g, d, k, n)
  <2> SUFFICES ASSUME NEW d \in D, NEW k \in K, NEW n \in Nat PROVE g[d][k][n] = Body(g, d, k, n)
    OBVIOUS
  <2>1. CASE k \in Idx
    BY <1>20, <2>1
  <2>2. CASE k = NoIdx
    BY <1>21, <2>2 DEF Body
  <2> QED
    BY <2>1, <2>2
<1>23. g = [d \in D |-> [k \in K |-> [n \in Nat |-> Body(g, d, k, n)]]]
  <2>1. g = [d \in D |-> [k \in K |-> [n \in Nat |-> g[d][k][n]]]]
    <3>1. \A d \in D, k \in K : [n \in Nat |-> g[d][k][n]] = [n \in Nat |-> f[d][k][n]]
      BY <1>19
    <3>2. \A d \in D : [k \in K |-> [n \in Nat |-> g[d][k][n]]] = [k \in K |-> [n \in Nat |-> f[d][k][n]]]
      BY <3>1
    <3> QED
      BY <3>2 DEF g
  <2>2. \A d \in D, k \in K : [n \in Nat |-> g[d][k][n]] = [n \in Nat |-> Body(g, d, k, n)]
    BY <1>22
  <2>3. \A d \in D : [k \in K |-> [n \in Nat |-> g[d][k][n]]] = [k \in K |-> [n \in Nat |-> Body(g, d, k, n)]]
    BY <2>2
  <2> QED
    BY <2>1, <2>3
<1> HIDE DEF rows
<1>24. IsRows(rows)
  <2>1. IsRows(g)
    BY <1>2, <1>23, Zenon DEF Body
  <2> HIDE DEF IsRows
  <2> QED
    BY <2>1, Zenon DEF rows
<1>25. RowsBy(rows)
  <2> DEFINE B(d, k, n) == IF k = NoIdx \/ d = opt.level
                           THEN <<>>
                           ELSE IF n = 0 /\ ~print[k]
                           THEN rows[d][sister[k]][n]
                           ELSE Row(k, n) \o rows[d + 1][child[k]][Indent(k, n)] \o rows[d][sister[k]][n]
  <2>1. rows = [d \in 1..opt.level |-> [k \in Idx \cup {NoIdx} |-> [n \in Nat |-> B(d, k, n)]]]
    BY <1>24
  <2> HIDE DEF B
  <2>2. \A d \in 1..opt.level, k \in Idx \cup {NoIdx}, n \in Nat : rows[d][k][n] = B(d, k, n)
    BY <2>1
  <2> QED
    BY <2>2 DEF RowsBy, B
<1>26. PrintTree(i) = TreeBy(rows, i)
  BY DEF PrintTree, TreeBy, rows, IsRows
<1> QED
  BY <1>25, <1>26

(* At first nothing is marked.                                              *)
LEMMA MarkInit == Init => MarkInv
<1> SUFFICES ASSUME Init, prog = "part2", input = "none" PROVE MarkInv
  BY DEF MarkInv
<1>1. pc = "glob"
  BY DEF Init
<1> QED
  BY <1>1 DEF MarkInv

(* Forks and exits mark nothing.                                            *)
LEMMA MarkEvent == ASSUME MarkInv, Event PROVE MarkInv'
<1>1. pc \in Reading /\ UNCHANGED <<prog, input, pc>>
  BY DEF Event, cvars
<1> QED
  BY <1>1 DEF MarkInv, Reading

(* MarkSelected keeps the marks closed upward.                              *)
LEMMA MarkSelectedStep ==
    ASSUME TypeOK, Linked, FlagInv, prog = "part2", input = "none", pc = "mark", PrintedUp,
           me \in Idx, ~Endless(me), UNCHANGED <<tab, parent>>,
           print' = [i \in Idx |-> print[i] \/ i \in Ancestors(me) \cup MarkChildren(me)]
    PROVE  PrintedUp'
<1>1. me \in Rooted /\ parent \in Links(Idx) /\ Idx' = Idx
  BY DEF Rooted, Linked, LinkTypes, Idx
<1>2. PICK top \in Nat : top = Len(tab) /\ Idx = 1..top /\ NoIdx = 0 /\ NoIdx \notin Idx
  BY IndexFacts
<1> DEFINE M == Ancestors(me) \cup MarkChildren(me)
<1>3. me \in MarkChildren(me)
  BY DEF MarkChildren
<1>4. parent[me] # NoIdx => parent[me] \in Ancestors(me)
  <2>1. parent[me] # NoIdx => parent[me] \in Rooted /\ Ancestors(me) = Line(parent[me])
    BY <1>1, LineFacts
  <2> QED
    BY <2>1 DEF Line
<1>5. ASSUME NEW i \in Ancestors(me), parent[i] # NoIdx PROVE parent[i] \in M
  <2>1. i \in Line(me)
    BY DEF Line
  <2>2. i \in Rooted /\ Line(i) \subseteq Line(me)
    BY <1>1, <2>1, LineWithin
  <2>3. parent[i] \in Line(i)
    <3>1. Ancestors(i) = Line(parent[i])
      BY <1>1, <1>5, <2>2, LineFacts
    <3> QED
      BY <3>1 DEF Line
  <2>4. Line(me) \subseteq M
    BY <1>3 DEF Line
  <2> QED
    BY <2>2, <2>3, <2>4
<1>6. ASSUME NEW i \in MarkChildren(me), parent[i] # NoIdx PROVE parent[i] \in M
  <2>1. i # me => parent[i] \in MarkChildren(me)
    BY <1>1, MarkChildrenIs
  <2> QED
    BY <1>4, <1>6, <2>1
<1> HIDE DEF M
<1>7. print' = [i \in Idx |-> print[i] \/ i \in M] /\ \A i \in M : parent[i] # NoIdx => parent[i] \in M
  BY <1>5, <1>6 DEF M
<1>8. parent \in [Idx -> Idx \cup {NoIdx}]
  BY <1>1 DEF Links
<1>9. ASSUME NEW i \in Idx, print'[i], parent[i] # NoIdx PROVE print'[parent[i]]
  <2>1. parent[i] \in Idx
    BY <1>8, <1>9
  <2>2. CASE i \in M
    BY <1>7, <1>9, <2>1, <2>2
  <2>3. CASE i \notin M
    <3>1. print[i]
      BY <1>7, <1>9, <2>3
    <3>2. print[parent[i]]
      BY <1>9, <3>1 DEF PrintedUp
    <3> QED
      BY <1>7, <2>1, <3>2
  <2> QED
    BY <2>2, <2>3
<1> QED
  BY <1>1, <1>9 DEF PrintedUp, NoIdx

(* The root depends on the table alone.                                     *)
LEMMA SameRoot == ASSUME UNCHANGED tab PROVE get_pid_index(GetRootPid)' = get_pid_index(GetRootPid)
<1> DEFINE marks == <<{i \in Idx : tab[i].pid = 1}, {i \in Idx : tab[i].ppid = 0},
                      {i \in Idx : tab[i].ppid = 1}, {i \in Idx : tab[i].pid = tab[i].ppid}>>
           found == {k \in 1..4 : marks[k] # {}}
<1>1. Idx' = Idx
  BY DEF Idx
<1>2. marks' = marks
  BY <1>1
<1>3. found' = found
  BY <1>2
<1>4. GetRootPid = IF found = {} THEN NoPid ELSE tab[Least(marks[Least(found)])].pid
  BY DEF GetRootPid
<1>5. GetRootPid' = IF found' = {} THEN NoPid ELSE tab'[Least(marks'[Least(found')])].pid
  BY DEF GetRootPid, NoPid, Least
<1> HIDE DEF marks, found
<1>6. GetRootPid' = GetRootPid
  BY <1>2, <1>3, <1>4, <1>5
<1> QED
  BY <1>1, <1>6 DEF get_pid_index, Greatest, NoIdx

(* The marks stay closed upward, and what is printed is a tree of rows.     *)
LEMMA MarkStep == ASSUME IInv, PlaceInv, ShapeInv, MarkInv, Program PROVE MarkInv'
<1>0. TypeOK /\ UNCHANGED <<prog, input>>
  BY Chosen DEF IInv
<1> SUFFICES ASSUME prog = "part2", input = "none" PROVE MarkInv'
  BY <1>0 DEF MarkInv
<1>1. PICK top \in Nat : top = Len(tab) /\ Idx = 1..top /\ NoIdx = 0 /\ NoIdx \notin Idx
  BY <1>0, IndexFacts
<1>2. me \in Nat /\ me > 0 /\ (me \in Idx <=> me <= top)
  BY <1>0, <1>1 DEF TypeOK
<1>3. CASE Glob \/ ReadStat \/ ReadCmdline
  BY <1>3 DEF Glob, ReadStat, ReadCmdline, Goto, MarkInv
<1>4. CASE ReadEnds
  <2>1. pc' = "tree" /\ UNCHANGED tab /\ print' = [i \in Idx |-> FALSE]
    BY <1>4 DEF ReadEnds, Goto, rvars
  <2> QED
    BY <2>1 DEF MarkInv, Idx
<1>5. CASE MakeTree
  <2>1. pc = "tree" /\ UNCHANGED <<tab, print>> /\ IF me <= top THEN pc' = "tree" /\ me' = me + 1 ELSE pc' = "mark" /\ me' = 1
    BY <1>1, <1>5 DEF MakeTree, Loop, Goto, rvars, mvars
  <2>2. Idx' = Idx /\ \A i \in Idx : ~print[i]
    BY <2>1 DEF Idx, MarkInv
  <2>3. PrintedUp'
    BY <2>1, <2>2 DEF PrintedUp
  <2>4. pc' = "mark" => \A i \in Idx : ~(i < me')
    BY <1>1, <2>1
  <2> QED
    BY <2>1, <2>2, <2>3, <2>4 DEF MarkInv
<1>6. CASE MarkProcs
  <2>1. pc = "mark" /\ UNCHANGED <<tab, parent, opt>> /\ Linked
    <3>1. pc = "mark" /\ UNCHANGED <<tab, parent, opt>>
      BY <1>6 DEF MarkProcs, MarkSelected, Loop, Goto, rvars, lvars
    <3> QED
      BY <3>1 DEF ShapeInv, TreeInv
  <2>2. Idx' = Idx /\ print \in [Idx -> BOOLEAN] /\ FlagInv
    BY <2>1 DEF Idx, ShapeInv, FlagInv, TreePcs
  <2>3. opt.kind = "all" => \A i \in Idx : i < me => print[i]
    BY <2>1 DEF MarkInv
  <2>4. opt.kind # "all" => PrintedUp
    BY <2>1 DEF MarkInv
  <2>5. CASE me \in Idx /\ opt.kind # "all" /\ Selected(me)
    <3>1. MarkSelected
      BY <1>6, <2>5 DEF MarkProcs
    <3>2. CASE Endless(me)
      <4>1. pc' = "loops"
        BY <3>1, <3>2 DEF MarkSelected
      <4> QED
        BY <4>1 DEF MarkInv
    <3>3. CASE ~Endless(me)
      <4>1. pc' = "mark" /\ print' = [i \in Idx |-> print[i] \/ i \in Ancestors(me) \cup MarkChildren(me)]
        BY <2>1, <3>1, <3>3 DEF MarkSelected
      <4>2. PrintedUp'
        BY <1>0, <2>1, <2>2, <2>4, <2>5, <3>3, <4>1, MarkSelectedStep
      <4> QED
        BY <2>1, <2>5, <4>1, <4>2 DEF MarkInv
    <3> QED
      BY <3>2, <3>3
  <2>6. CASE ~(me \in Idx /\ opt.kind # "all" /\ Selected(me))
    <3>1. /\ IF me <= top THEN pc' = "mark" /\ me' = me + 1 ELSE pc' = "drop" /\ me' = 1
          /\ print' = IF me \in Idx /\ opt.kind = "all" THEN [print EXCEPT ![me] = TRUE] ELSE print
      BY <1>1, <1>6, <2>1, <2>6 DEF MarkProcs, Loop, Goto
    <3>2. CASE opt.kind = "all"
      <4>1. ASSUME me <= top PROVE pc' = "mark" /\ \A i \in Idx : i < me' => print'[i]
        <5>1. print' = [print EXCEPT ![me] = TRUE] /\ me' = me + 1
          BY <1>2, <3>1, <3>2, <4>1
        <5>2. \A i \in Idx : i < me + 1 => i < me \/ i = me
          BY <1>1, <1>2
        <5> QED
          BY <2>2, <2>3, <3>1, <3>2, <4>1, <5>1, <5>2
      <4>2. ASSUME ~(me <= top) PROVE pc' = "drop" /\ \A i \in Idx : print'[i]
        <5>1. \A i \in Idx : i < me
          BY <1>1, <1>2, <4>2
        <5> QED
          BY <1>2, <2>3, <3>1, <3>2, <4>2, <5>1
      <4>3. pc' = "drop" => PrintedUp'
        <5>1. parent \in [Idx -> Idx \cup {NoIdx}]
          BY <2>1 DEF Linked, LinkTypes, Links
        <5>2. pc' = "drop" => \A i \in Idx : print'[i]
          BY <4>1, <4>2
        <5> QED
          BY <2>1, <2>2, <5>1, <5>2 DEF PrintedUp, NoIdx
      <4> QED
        BY <2>1, <2>2, <3>2, <4>1, <4>2, <4>3 DEF MarkInv
    <3>3. CASE opt.kind # "all"
      <4>1. print' = print
        BY <3>1, <3>3
      <4>2. PrintedUp'
        BY <2>1, <2>2, <2>4, <3>3, <4>1 DEF PrintedUp
      <4> QED
        BY <2>1, <3>1, <3>3, <4>2 DEF MarkInv
    <3> QED
      BY <3>2, <3>3
  <2> QED
    BY <2>5, <2>6
<1>7. CASE DropProcs
  <2>1. pc = "drop" /\ UNCHANGED <<tab, parent, print>> /\ pc' \in {"drop", "print"}
    BY <1>7 DEF DropProcs, Loop, Goto, rvars
  <2>2. PrintedUp
    BY <2>1 DEF MarkInv
  <2>3. PrintedUp'
    BY <2>1, <2>2 DEF PrintedUp, Idx
  <2> QED
    BY <2>1, <2>3 DEF MarkInv
<1>8. CASE PrintAll
  <2> DEFINE root == get_pid_index(GetRootPid)
  <2>1. /\ pc = "print" /\ pc' \in {"done", "crash"} /\ UNCHANGED <<opt, tab, parent, child, sister, print, selected, hidden>>
        /\ pc' = "done" /\ opt.start = <<>> => root # NoIdx /\ out' = PrintTree(root)
    BY <1>8 DEF PrintAll, Goto, rvars, lvars, mvars
  <2>2. PrintedUp
    BY <2>1 DEF MarkInv
  <2>3. PrintedUp'
    BY <2>1, <2>2 DEF PrintedUp, Idx
  <2>4. ASSUME pc' = "done", opt.start = <<>> PROVE OutIs'
    <3>1. LinkTypes /\ \A k \in Idx : sister[k] = NoIdx \/ sister[k] > k
      BY <2>1 DEF ShapeInv, TreeInv, Dropped, IsNext
    <3>2. opt.level \in Nat \ {0}
      BY <1>0, ProcAssumption DEF TypeOK, Default, OptionRecords
    <3>3. root \in Idx
      BY <1>0, <2>1, <2>4, IndexFound
    <3>4. PICK f : RowsBy(f) /\ PrintTree(root) = TreeBy(f, root)
      BY <1>0, <3>1, <3>2, <3>3, RowsExist
    <3>5. root' = root
      BY <2>1, SameRoot
    <3>6. RowsBy(f)'
      BY <2>1, <3>4 DEF RowsBy, Row, Indent, Shown, Idx, NoIdx
    <3>7. out' = TreeBy(f, root)
      BY <2>1, <2>4, <3>4
    <3>8. TreeBy(f, root)' = TreeBy(f, root)
      <4> HIDE DEF root
      <4> QED
        BY <2>1, <3>5 DEF TreeBy, Row, Indent, Shown
    <3>9. root' # NoIdx' /\ out' = TreeBy(f, root)'
      BY <1>1, <3>3, <3>5, <3>7, <3>8 DEF NoIdx
    <3> QED
      BY <3>6, <3>9 DEF OutIs
  <2> QED
    BY <2>1, <2>3, <2>4 DEF MarkInv
<1>9. CASE GetProcesses \/ ReadDir \/ show_name_id \/ show_fd_link
  <2>1. pc \in {"input", "list", "show"}
    BY <1>9 DEF GetProcesses, ReadDir, show_name_id, show_fd_link, Goto
  <2> QED
    BY <2>1 DEF PlaceInv, TreePcs
<1> QED
  BY <1>3, <1>4, <1>5, <1>6, <1>7, <1>8, <1>9 DEF Program

(***************************************************************************)
(* Rows.                                                                   *)
(***************************************************************************)
Element(R, q) == get_pid_index(R[q][1])

(* The ancestors of i that are shown, but for those in B.                   *)
Inner(i, B) == {x \in Ancestors(i) : x \notin B /\ Shown(x)}

(* Row q of R is indented by n if it has none of them, and else below the    *)
(* nearest of them.                                                         *)
Placed(R, q, n, B) ==
    LET I == Inner(Element(R, q), B) IN
    /\ R[q][2] >= n
    /\ R[q][2] = n => I = {}
    /\ R[q][2] > n =>
        \E a \in 1..(q - 1) :
            /\ R[a][2] < R[q][2] /\ \A b \in (a + 1)..(q - 1) : R[b][2] >= R[q][2]
            /\ Element(R, a) \in I /\ I \subseteq Line(Element(R, a))

(* R has one row for each element of S, where it belongs.                   *)
RowsAre(R, S, n, B) ==
    /\ R \in Seq(Pids \X Nat)
    /\ S = {Element(R, q) : q \in 1..Len(R)}
    /\ \A p, q \in 1..Len(R) : Element(R, p) = Element(R, q) => p = q
    /\ \A q \in 1..Len(R) : Placed(R, q, n, B)

(* The parts of two sequences that are joined.                              *)
LEMMA Joined ==
    ASSUME NEW T, NEW P \in Seq(T), NEW R \in Seq(T)
    PROVE  /\ Len(P) \in Nat /\ Len(R) \in Nat
           /\ P \o R \in Seq(T) /\ Len(P \o R) = Len(P) + Len(R)
           /\ \A q \in 1..Len(P) : (P \o R)[q] = P[q]
           /\ \A q \in 1..Len(R) : (P \o R)[Len(P) + q] = R[q]
OBVIOUS

(* A row keeps its place when others are put before it or after it.         *)
LEMMA RowsJoin ==
    ASSUME NEW P, NEW R, NEW S, NEW T, NEW n \in Nat, NEW B,
           RowsAre(P, S, n, B), RowsAre(R, T, n, B), S \cap T = {}
    PROVE  RowsAre(P \o R, S \cup T, n, B)
<1>1. P \in Seq(Pids \X Nat) /\ R \in Seq(Pids \X Nat)
  BY DEF RowsAre
<1> DEFINE J == P \o R
<1>0. PICK l \in Nat : l = Len(P)
  BY <1>1, Joined
<1>12. PICK m \in Nat : m = Len(R)
  BY <1>1, Joined
<1>2. /\ l = Len(P) /\ m = Len(R) /\ J \in Seq(Pids \X Nat) /\ Len(J) = l + m
      /\ \A q \in 1..l : J[q] = P[q]
      /\ \A q \in 1..m : J[l + q] = R[q]
      /\ \A q \in 1..(l + m) : q \in 1..l \/ \E p \in 1..m : q = l + p
  <2>1. ASSUME NEW q \in 1..(l + m) PROVE q \in 1..l \/ \E p \in 1..m : q = l + p
    <3>1. CASE q <= l
      BY <3>1
    <3>2. CASE ~(q <= l)
      <4>1. q - l \in 1..m /\ q = l + (q - l)
        BY <3>2
      <4> QED
        BY <4>1
    <3> QED
      BY <3>1, <3>2
  <2> DEFINE Q == Pids \X Nat
  <2>2. P \in Seq(Q) /\ R \in Seq(Q)
    BY <1>1
  <2> HIDE DEF Q
  <2>3. /\ J \in Seq(Q) /\ Len(J) = Len(P) + Len(R)
        /\ \A q \in 1..Len(P) : J[q] = P[q]
        /\ \A q \in 1..Len(R) : J[Len(P) + q] = R[q]
    BY <2>2, Joined
  <2> HIDE DEF J
  <2> QED
    BY <1>0, <1>12, <2>1, <2>3 DEF Q
<1> HIDE DEF J
<1>3. (\A q \in 1..l : Element(J, q) = Element(P, q)) /\ \A q \in 1..m : Element(J, l + q) = Element(R, q)
  BY <1>2 DEF Element
<1>4. (\A q \in 1..l : q \in 1..(l + m)) /\ \A q \in 1..m : l + q \in 1..(l + m)
  OBVIOUS
<1>5. S = {Element(P, q) : q \in 1..l} /\ T = {Element(R, q) : q \in 1..m}
  BY <1>2 DEF RowsAre
<1>6. S \cup T = {Element(J, q) : q \in 1..(l + m)}
  BY <1>2, <1>3, <1>4, <1>5
<1>7. ASSUME NEW p \in 1..(l + m), NEW q \in 1..(l + m), Element(J, p) = Element(J, q) PROVE p = q
  <2>1. CASE p \in 1..l /\ q \in 1..l
    BY <1>2, <1>3, <1>7, <2>1 DEF RowsAre
  <2>2. CASE p \notin 1..l /\ q \notin 1..l
    <3>1. PICK x \in 1..m : p = l + x
      BY <1>2, <2>2
    <3>2. PICK y \in 1..m : q = l + y
      BY <1>2, <2>2
    <3>3. Element(R, x) = Element(R, y)
      BY <1>3, <1>7, <3>1, <3>2
    <3>4. x = y
      BY <1>2, <3>3 DEF RowsAre
    <3> QED
      BY <3>1, <3>2, <3>4
  <2>3. CASE p \in 1..l /\ q \notin 1..l
    <3>1. PICK y \in 1..m : q = l + y
      BY <1>2, <2>3
    <3> QED
      BY <1>3, <1>5, <1>7, <2>3, <3>1
  <2>4. CASE p \notin 1..l /\ q \in 1..l
    <3>1. PICK x \in 1..m : p = l + x
      BY <1>2, <2>4
    <3> QED
      BY <1>3, <1>5, <1>7, <2>4, <3>1
  <2> QED
    BY <2>1, <2>2, <2>3, <2>4
<1>8. ASSUME NEW q \in 1..l PROVE Placed(J, q, n, B)
  <2>1. Placed(P, q, n, B)
    BY <1>2 DEF RowsAre
  <2>2. \A a \in 1..(q - 1) : J[a] = P[a] /\ Element(J, a) = Element(P, a) /\ \A b \in (a + 1)..(q - 1) : J[b] = P[b]
    <3>1. \A a \in 1..(q - 1) : a \in 1..l /\ \A b \in (a + 1)..(q - 1) : b \in 1..l
      OBVIOUS
    <3> QED
      BY <1>2, <1>3, <3>1
  <2>3. J[q] = P[q] /\ Element(J, q) = Element(P, q)
    BY <1>2, <1>3
  <2> QED
    BY <2>1, <2>2, <2>3 DEF Placed
<1>9. ASSUME NEW q \in 1..m PROVE Placed(J, l + q, n, B)
  <2> DEFINE I == Inner(Element(R, q), B)
  <2>1. Placed(R, q, n, B)
    BY <1>2 DEF RowsAre
  <2>2. J[l + q] = R[q] /\ Element(J, l + q) = Element(R, q)
    BY <1>2, <1>3
  <2>3. ASSUME R[q][2] > n
        PROVE  \E a \in 1..(l + q - 1) :
                 /\ J[a][2] < R[q][2] /\ \A b \in (a + 1)..(l + q - 1) : J[b][2] >= R[q][2]
                 /\ Element(J, a) \in I /\ I \subseteq Line(Element(J, a))
    <3>1. PICK a \in 1..(q - 1) : /\ R[a][2] < R[q][2] /\ \A b \in (a + 1)..(q - 1) : R[b][2] >= R[q][2]
                                  /\ Element(R, a) \in I /\ I \subseteq Line(Element(R, a))
      BY <2>1, <2>3 DEF Placed
    <3>2. l + a \in 1..(l + q - 1) /\ a \in 1..m
      OBVIOUS
    <3>3. J[l + a] = R[a] /\ Element(J, l + a) = Element(R, a)
      BY <1>2, <1>3, <3>2
    <3>4. ASSUME NEW b \in ((l + a) + 1)..(l + q - 1) PROVE J[b][2] >= R[q][2]
      <4>1. b - l \in (a + 1)..(q - 1) /\ b - l \in 1..m /\ l + (b - l) = b
        OBVIOUS
      <4>2. J[b] = R[b - l]
        BY <1>2, <4>1
      <4> QED
        BY <3>1, <4>1, <4>2
    <3> QED
      BY <3>1, <3>2, <3>3, <3>4
  <2> QED
    BY <2>1, <2>2, <2>3 DEF Placed
<1>10. \A q \in 1..(l + m) : Placed(J, q, n, B)
  BY <1>2, <1>8, <1>9
<1> QED
  BY <1>2, <1>6, <1>7, <1>10 DEF RowsAre, J

(* No pid is in the table twice, so that the index of a pid is its own.      *)
OnePid == \A i, j \in Idx : tab[i].pid = tab[j].pid => i = j

(* The index of the pid of an element is that of the element.               *)
LEMMA OwnIndex ==
    ASSUME TypeOK, OnePid, NEW i \in Idx
    PROVE  get_pid_index(tab[i].pid) = i /\ tab[i].pid \in Pids
<1>1. get_pid_index(tab[i].pid) \in Idx \cup {NoIdx} /\ get_pid_index(tab[i].pid) # NoIdx
  BY IndexFound
<1>2. tab[get_pid_index(tab[i].pid)].pid = tab[i].pid
  BY <1>1, IndexFound
<1>3. tab[i] \in Entry
  <2>1. tab \in Seq(Entry) /\ i \in 1..Len(tab)
    BY DEF TypeOK, Entry, Idx
  <2> QED
    BY <2>1
<1> QED
  BY <1>1, <1>2, <1>3 DEF OnePid, Entry

(* No rows are those of no elements.                                        *)
LEMMA NoRows == ASSUME NEW n, NEW B PROVE RowsAre(<<>>, {}, n, B)
<1>1. <<>> \in Seq(Pids \X Nat) /\ Len(<<>>) = 0 /\ 1..0 = {}
  OBVIOUS
<1> QED
  BY <1>1 DEF RowsAre

(* Below an element that is not shown nothing changes.                      *)
LEMMA RowsHidden ==
    ASSUME NEW R, NEW S, NEW n, NEW k, ~Shown(k), RowsAre(R, S, n, Line(k))
    PROVE  RowsAre(R, S, n, Ancestors(k))
<1>1. \A i : Inner(i, Line(k)) = Inner(i, Ancestors(k))
  BY DEF Inner, Line
<1> QED
  BY <1>1 DEF RowsAre, Placed

(* An element that is shown comes before those below it.                    *)
LEMMA RowsUnder ==
    ASSUME TypeOK, OnePid, parent \in Links(Idx), NEW k \in Rooted, Shown(k), NEW n \in Nat, NEW R, NEW S,
           RowsAre(R, S, n + 1, Line(k)), \A i \in S : i \in Rooted /\ k \in Ancestors(i)
    PROVE  RowsAre(Row(k, n) \o R, {k} \cup S, n, Ancestors(k))
<1>0. k \in Idx /\ k \notin Ancestors(k)
  BY LineFacts, NotOwnAncestor
<1>1. R \in Seq(Pids \X Nat) /\ tab[k].pid \in Pids /\ get_pid_index(tab[k].pid) = k
  BY <1>0, OwnIndex DEF RowsAre
<1> DEFINE J == Row(k, n) \o R
<1>2. PICK m \in Nat : m = Len(R)
  BY <1>1
<1>3. /\ J \in Seq(Pids \X Nat) /\ Len(J) = 1 + m /\ J[1] = <<tab[k].pid, n>>
      /\ \A q \in 1..m : J[1 + q] = R[q]
  <2> DEFINE Q == Pids \X Nat  P == <<<<tab[k].pid, n>>>>
  <2>1. P \in Seq(Q) /\ R \in Seq(Q) /\ Len(P) = 1 /\ P[1] = <<tab[k].pid, n>>
    BY <1>1
  <2>2. J = P \o R
    BY DEF Row
  <2> HIDE DEF J, P, Q
  <2>3. /\ J \in Seq(Q) /\ Len(J) = Len(P) + Len(R)
        /\ \A q \in 1..Len(P) : J[q] = P[q]
        /\ \A q \in 1..Len(R) : J[Len(P) + q] = R[q]
    <3>1. P \in Seq(Q) /\ R \in Seq(Q)
      BY <2>1
    <3>2. /\ P \o R \in Seq(Q) /\ Len(P \o R) = Len(P) + Len(R)
          /\ \A q \in 1..Len(P) : (P \o R)[q] = P[q]
          /\ \A q \in 1..Len(R) : (P \o R)[Len(P) + q] = R[q]
      BY <3>1, Joined
    <3> QED
      BY <2>2, <3>2, Zenon
  <2>4. J[1] = P[1]
    BY <2>1, <2>3
  <2> QED
    BY <1>2, <2>1, <2>3, <2>4 DEF Q
<1> HIDE DEF J
<1>4. Element(J, 1) = k /\ \A q \in 1..m : Element(J, 1 + q) = Element(R, q)
  BY <1>1, <1>3 DEF Element
<1>5. \A q \in 1..(1 + m) : q = 1 \/ \E p \in 1..m : q = 1 + p
  <2> SUFFICES ASSUME NEW q \in 1..(1 + m), q # 1 PROVE \E p \in 1..m : q = 1 + p
    OBVIOUS
  <2>1. q - 1 \in 1..m /\ q = 1 + (q - 1)
    OBVIOUS
  <2> QED
    BY <2>1
<1>6. (1 \in 1..(1 + m)) /\ \A q \in 1..m : 1 + q \in 1..(1 + m)
  OBVIOUS
<1>7. S = {Element(R, q) : q \in 1..m} /\ k \notin S
  BY <1>0, <1>2 DEF RowsAre
<1>8. {k} \cup S = {Element(J, q) : q \in 1..(1 + m)}
  <2>1. \A q \in 1..(1 + m) : Element(J, q) \in {k} \cup S
    BY <1>4, <1>5, <1>7
  <2>2. \A i \in S : \E q \in 1..(1 + m) : i = Element(J, q)
    BY <1>4, <1>6, <1>7
  <2>3. \E q \in 1..(1 + m) : k = Element(J, q)
    BY <1>4, <1>6
  <2> QED
    BY <2>1, <2>2, <2>3
<1>9. ASSUME NEW p \in 1..(1 + m), NEW q \in 1..(1 + m), Element(J, p) = Element(J, q) PROVE p = q
  <2>1. CASE p # 1 /\ q # 1
    <3>1. PICK x \in 1..m : p = 1 + x
      BY <1>5, <2>1
    <3>2. PICK y \in 1..m : q = 1 + y
      BY <1>5, <2>1
    <3>3. Element(R, x) = Element(R, y)
      BY <1>4, <1>9, <3>1, <3>2
    <3>4. x = y
      BY <1>2, <3>3 DEF RowsAre
    <3> QED
      BY <3>1, <3>2, <3>4
  <2>2. CASE p = 1 /\ q # 1
    <3>1. PICK y \in 1..m : q = 1 + y
      BY <1>5, <2>2
    <3> QED
      BY <1>4, <1>7, <1>9, <2>2, <3>1
  <2>3. CASE p # 1 /\ q = 1
    <3>1. PICK x \in 1..m : p = 1 + x
      BY <1>5, <2>3
    <3> QED
      BY <1>4, <1>7, <1>9, <2>3, <3>1
  <2> QED
    BY <2>1, <2>2, <2>3
<1>10. Placed(J, 1, n, Ancestors(k))
  <2>1. Inner(k, Ancestors(k)) = {}
    BY DEF Inner
  <2>2. J[1][2] = n
    BY <1>3
  <2> QED
    BY <1>4, <2>1, <2>2 DEF Placed
<1>11. ASSUME NEW q \in 1..m PROVE Placed(J, 1 + q, n, Ancestors(k))
  <2> DEFINE i == Element(R, q)  I == Inner(i, Line(k))  A == Inner(i, Ancestors(k))
  <2>1. Placed(R, q, n + 1, Line(k))
    BY <1>2 DEF RowsAre
  <2>2. i \in Rooted /\ k \in Ancestors(i)
    BY <1>7
  <2>3. A = I \cup {k}
    BY <1>0, <2>2 DEF Inner, Line
  <2>4. \A j \in I : k \in Line(j)
    <3> SUFFICES ASSUME NEW j \in I PROVE k \in Line(j)
      OBVIOUS
    <3>1. j \in Line(i) /\ k \in Line(i) /\ j \notin Line(k)
      BY <2>2 DEF Inner, Line
    <3> HIDE DEF i, I
    <3> QED
      BY <2>2, <3>1, LineIsChain
  <2>5. J[1 + q] = R[q] /\ Element(J, 1 + q) = i /\ R[q][2] \in Nat
    <3>1. R[q] \in Pids \X Nat
      BY <1>1, <1>2
    <3> QED
      BY <1>3, <1>4, <3>1
  <2>6. \A b \in 1..m : R[b][2] >= n + 1
    BY <1>2 DEF RowsAre, Placed
  <2> HIDE DEF I, A
  <2>7. \E a \in 1..q : /\ J[a][2] < R[q][2] /\ \A b \in (a + 1)..q : J[b][2] >= R[q][2]
                        /\ Element(J, a) \in A /\ A \subseteq Line(Element(J, a))
    <3>1. CASE R[q][2] = n + 1
      <4>1. I = {}
        BY <2>1, <3>1 DEF Placed, I
      <4>2. ASSUME NEW b \in (1 + 1)..q PROVE J[b][2] >= R[q][2]
        <5>1. b - 1 \in 1..m /\ 1 + (b - 1) = b
          OBVIOUS
        <5>2. J[b] = R[b - 1]
          BY <1>3, <5>1
        <5> QED
          BY <2>6, <3>1, <5>1, <5>2
      <4>3. 1 \in 1..q /\ J[1][2] < R[q][2]
        BY <1>3, <3>1
      <4>4. Element(J, 1) \in A /\ A \subseteq Line(Element(J, 1))
        BY <1>4, <2>3, <4>1 DEF Line
      <4> QED
        BY <4>2, <4>3, <4>4
    <3>2. CASE R[q][2] > n + 1
      <4>1. PICK a \in 1..(q - 1) : /\ R[a][2] < R[q][2] /\ \A b \in (a + 1)..(q - 1) : R[b][2] >= R[q][2]
                                    /\ Element(R, a) \in I /\ I \subseteq Line(Element(R, a))
        BY <2>1, <3>2 DEF Placed, I
      <4>2. 1 + a \in 1..q /\ a \in 1..m
        OBVIOUS
      <4>3. J[1 + a] = R[a] /\ Element(J, 1 + a) = Element(R, a)
        BY <1>3, <1>4, <4>2
      <4>4. ASSUME NEW b \in ((1 + a) + 1)..q PROVE J[b][2] >= R[q][2]
        <5>1. b - 1 \in (a + 1)..(q - 1) /\ b - 1 \in 1..m /\ 1 + (b - 1) = b
          OBVIOUS
        <5>2. J[b] = R[b - 1]
          BY <1>3, <5>1
        <5> QED
          BY <4>1, <5>1, <5>2
      <4>5. Element(R, a) \in A /\ A \subseteq Line(Element(R, a))
        BY <2>3, <2>4, <4>1
      <4> QED
        BY <4>1, <4>2, <4>3, <4>4, <4>5
    <3> QED
      BY <2>5, <2>6, <3>1, <3>2
  <2>8. R[q][2] >= n /\ R[q][2] # n
    BY <2>5, <2>6
  <2>9. (1 + q) - 1 = q
    OBVIOUS
  <2> QED
    BY <2>5, <2>7, <2>8, <2>9 DEF Placed, A
<1>12. \A q \in 1..(1 + m) : Placed(J, q, n, Ancestors(k))
  BY <1>5, <1>10, <1>11
<1> QED
  BY <1>3, <1>8, <1>9, <1>12 DEF RowsAre, J

(***************************************************************************)
(* What is below an element, and from an element on.                       *)
(***************************************************************************)
Deep(i)  == Cardinality(Ancestors(i))
Seen(i)  == print[i] /\ Shown(i) /\ Deep(i) < opt.level
Below(k) == {i \in Rooted : Seen(i) /\ k \in Ancestors(i)}
From(k)  == {i \in Rooted : Seen(i) /\ \E j \in Printed(Sibs(k)) : j >= k /\ j \in Line(i)}

(* The number of ancestors of an element.                                   *)
LEMMA DeepIs ==
    ASSUME TypeOK, parent \in Links(Idx), NEW k \in Rooted
    PROVE  /\ IsFiniteSet(Ancestors(k)) /\ Deep(k) \in Nat
           /\ parent[k] = NoIdx => Deep(k) = 0
           /\ \A c \in Kids(k) : Deep(c) = Deep(k) + 1
           /\ \A j \in Line(k) : Ancestors(j) \subseteq Ancestors(k) /\ Deep(j) <= Deep(k)
<1>1. PICK top \in Nat : top = Len(tab) /\ Idx = 1..top /\ NoIdx = 0 /\ NoIdx \notin Idx
  BY IndexFacts
<1>2. IsFiniteSet(Idx)
  BY <1>1, FS_Interval
<1>3. \A i \in Rooted : IsFiniteSet(Ancestors(i)) /\ Deep(i) \in Nat
  <2> SUFFICES ASSUME NEW i \in Rooted PROVE IsFiniteSet(Ancestors(i)) /\ Deep(i) \in Nat
    OBVIOUS
  <2>1. Ancestors(i) \subseteq Idx
    BY LineFacts
  <2>2. IsFiniteSet(Ancestors(i))
    BY <1>2, <2>1, FS_Subset
  <2> QED
    BY <2>2, FS_CardinalityType DEF Deep
<1>4. parent[k] = NoIdx => Deep(k) = 0
  BY LineFacts, FS_EmptySet DEF Deep
<1>5. ASSUME NEW c \in Kids(k) PROVE Deep(c) = Deep(k) + 1
  <2>1. c \in Rooted /\ parent[c] = k /\ k \in Idx
    BY LineFacts DEF Kids
  <2>2. Ancestors(c) = Ancestors(k) \cup {k}
    BY <1>1, <2>1, LineFacts DEF Line
  <2>3. k \notin Ancestors(k)
    BY NotOwnAncestor
  <2>4. Cardinality(Ancestors(k) \cup {k}) = Cardinality(Ancestors(k)) + 1
    BY <1>3, <2>3, FS_AddElement
  <2> QED
    BY <2>2, <2>4 DEF Deep
<1>6. ASSUME NEW j \in Line(k) PROVE Ancestors(j) \subseteq Ancestors(k) /\ Deep(j) <= Deep(k)
  <2>1. Ancestors(j) \subseteq Ancestors(k)
    <3>1. CASE j = k
      BY <3>1
    <3>2. CASE j # k
      <4>1. j \in Ancestors(k)
        BY <3>2 DEF Line
      <4>2. parent[k] \in Rooted /\ Ancestors(k) = Line(parent[k])
        BY <4>1, LineFacts
      <4>3. Line(j) \subseteq Line(parent[k])
        BY <4>1, <4>2, LineWithin
      <4> QED
        BY <4>2, <4>3 DEF Line
    <3> QED
      BY <3>1, <3>2
  <2> QED
    BY <1>3, <2>1, FS_Subset DEF Deep
<1> QED
  BY <1>3, <1>4, <1>5, <1>6

(* All of the line of what is printed is printed.                           *)
LEMMA LinePrinted ==
    ASSUME TypeOK, parent \in Links(Idx), PrintedUp, NEW i \in Rooted, print[i]
    PROVE  \A j \in Line(i) : print[j]
<1> DEFINE A == {x \in Rooted : print[x]}
<1>1. \A x \in A \cap Rooted : parent[x] # NoIdx => parent[x] \in A
  <2> SUFFICES ASSUME NEW x \in Rooted, print[x], parent[x] # NoIdx PROVE parent[x] \in Rooted /\ print[parent[x]]
    OBVIOUS
  <2>1. x \in Idx /\ parent[x] \in Rooted
    BY LineFacts
  <2> QED
    BY <2>1 DEF PrintedUp
<1>2. i \in A
  OBVIOUS
<1> HIDE DEF A
<1>3. Line(i) \subseteq A \cap Rooted
  BY <1>1, <1>2, LineInduction
<1> QED
  BY <1>3 DEF A

(* What is below an element is what comes from its first printed child on.  *)
LEMMA BelowIs ==
    ASSUME TypeOK, LinkTypes, PrintedUp, NEW k \in Rooted, print[k], IsNext(Printed(Kids(k)), 0, child[k])
    PROVE  IF child[k] = NoIdx THEN Below(k) = {}
           ELSE child[k] \in Kids(k) /\ print[child[k]] /\ Below(k) = From(child[k])
<1>1. PICK top \in Nat : top = Len(tab) /\ Idx = 1..top /\ NoIdx = 0 /\ NoIdx \notin Idx
  BY IndexFacts
<1>2. parent \in Links(Idx) /\ k \in Idx /\ k # NoIdx
  BY <1>1, LineFacts DEF LinkTypes
<1>3. \A c \in Kids(k) : c \in Nat /\ c > 0 /\ c # NoIdx /\ parent[c] = k /\ c \in Rooted /\ Sibs(c) = Kids(k)
  BY <1>1, <1>2, LineFacts DEF Kids, Sibs
<1>4. ASSUME NEW i \in Below(k) PROVE \E c \in Printed(Kids(k)) : c \in Line(i)
  <2>1. i \in Rooted /\ print[i] /\ k \in Ancestors(i)
    BY DEF Below, Seen
  <2>2. PICK c \in Kids(k) : c \in Line(i)
    BY <1>2, <2>1, KidOnLine
  <2>3. print[c]
    BY <1>2, <2>1, <2>2, LinePrinted
  <2> QED
    BY <2>2, <2>3 DEF Printed
<1>5. CASE child[k] = NoIdx
  <2>1. \A c \in Printed(Kids(k)) : FALSE
    BY <1>1, <1>3, <1>5 DEF IsNext, Printed
  <2> QED
    BY <1>4, <1>5, <2>1
<1>6. CASE child[k] # NoIdx
  <2> DEFINE c == child[k]
  <2>1. c \in Printed(Kids(k)) /\ \A j \in Printed(Kids(k)) : j > 0 => c <= j
    BY <1>6 DEF IsNext
  <2>2. c \in Kids(k) /\ print[c] /\ Sibs(c) = Kids(k) /\ c \in Nat
    BY <1>3, <2>1 DEF Printed
  <2> HIDE DEF c
  <2>3. ASSUME NEW i \in Below(k) PROVE i \in From(c)
    <3>1. PICK j \in Printed(Kids(k)) : j \in Line(i)
      BY <1>4
    <3>2. j >= c
      BY <1>3, <2>1, <2>2 DEF Printed
    <3> QED
      BY <2>2, <3>1, <3>2 DEF From, Below
  <2>4. ASSUME NEW i \in From(c) PROVE i \in Below(k)
    <3>1. PICK j \in Kids(k) : j \in Line(i)
      BY <2>2 DEF From, Printed
    <3>2. i \in Rooted /\ Seen(i)
      BY DEF From
    <3>3. Ancestors(j) = Line(k) /\ Ancestors(j) \subseteq Ancestors(i)
      BY <1>2, <1>3, <3>1, <3>2, DeepIs, LineFacts
    <3> QED
      BY <3>2, <3>3 DEF Below, Line
  <2>5. Below(k) = From(c)
    BY <2>3, <2>4
  <2> QED
    BY <1>6, <2>2, <2>5 DEF c
<1> QED
  BY <1>5, <1>6

(* What comes from an element on is the element, what is below it, and what  *)
(* comes from its next printed sister on; and these have nothing in common. *)
LEMMA FromIs ==
    ASSUME TypeOK, LinkTypes, NEW k \in Rooted, print[k], IsNext(Printed(Sibs(k)), k, sister[k])
    PROVE  LET own  == {i \in {k} : Seen(i)} \cup Below(k)
               next == IF sister[k] = NoIdx THEN {} ELSE From(sister[k])
           IN  /\ From(k) = own \cup next /\ own \cap next = {}
               /\ sister[k] # NoIdx => sister[k] \in Sibs(k) /\ sister[k] > k /\ print[sister[k]]
<1>1. PICK top \in Nat : top = Len(tab) /\ Idx = 1..top /\ NoIdx = 0 /\ NoIdx \notin Idx
  BY IndexFacts
<1>2. parent \in Links(Idx) /\ k \in Idx /\ k \in Nat
  BY <1>1, LineFacts DEF LinkTypes
<1>3. k \in Sibs(k) /\ \A j \in Sibs(k) : j \in Nat /\ Sibs(j) = Sibs(k)
  BY <1>2, SibFacts
<1> DEFINE s == sister[k]
           own == {i \in {k} : Seen(i)} \cup Below(k)
           next == IF s = NoIdx THEN {} ELSE From(s)
<1>4. s # NoIdx => s \in Sibs(k) /\ s > k /\ print[s] /\ s \in Nat /\ Sibs(s) = Sibs(k)
                   /\ \A j \in Printed(Sibs(k)) : j > k => s <= j
  BY <1>3 DEF IsNext, Printed
<1>5. s = NoIdx => \A j \in Printed(Sibs(k)) : j <= k
  BY <1>1, <1>2, <1>3 DEF IsNext, Printed
<1> HIDE DEF s
<1>6. ASSUME NEW i \in From(k) PROVE i \in own \cup next
  <2>1. PICK j \in Printed(Sibs(k)) : j >= k /\ j \in Line(i)
    BY DEF From
  <2>2. i \in Rooted /\ Seen(i) /\ j \in Nat
    BY <1>3 DEF From, Printed
  <2>3. CASE j = k
    BY <2>1, <2>2, <2>3 DEF Below, Line
  <2>4. CASE j # k
    <3>1. j > k
      BY <1>2, <2>1, <2>2, <2>4
    <3>2. s # NoIdx
      BY <1>2, <1>5, <2>2, <3>1
    <3>3. j >= s
      BY <1>4, <2>2, <3>1, <3>2
    <3> QED
      BY <1>4, <2>1, <2>2, <3>2, <3>3 DEF From
  <2> QED
    BY <2>3, <2>4
<1>7. ASSUME NEW i \in own PROVE i \in From(k)
  <2>1. k \in Printed(Sibs(k)) /\ k >= k
    BY <1>2, <1>3 DEF Printed
  <2> QED
    BY <2>1 DEF From, Below, Line
<1>8. ASSUME NEW i \in next PROVE i \in From(k)
  <2>1. s # NoIdx /\ i \in From(s)
    OBVIOUS
  <2>2. PICK j \in Printed(Sibs(k)) : j >= s /\ j \in Line(i)
    BY <1>4, <2>1 DEF From
  <2>3. j >= k
    BY <1>2, <1>3, <1>4, <2>1, <2>2 DEF Printed
  <2> QED
    BY <2>1, <2>2, <2>3 DEF From
<1>9. ASSUME NEW i \in own, i \in next PROVE FALSE
  <2>1. s # NoIdx /\ i \in From(s)
    BY <1>9
  <2>2. PICK j \in Sibs(k) : j >= s /\ j \in Line(i)
    BY <1>4, <2>1 DEF From, Printed
  <2>3. j # k /\ j \in Nat
    BY <1>2, <1>3, <1>4, <2>1, <2>2
  <2>4. i \in Rooted /\ k \in Line(i)
    BY DEF Below, Line
  <2>5. k \in Line(j) \/ j \in Line(k)
    BY <1>2, <2>2, <2>4, LineIsChain
  <2>6. parent[k] # NoIdx /\ parent[j] = parent[k]
    BY <2>3 DEF Sibs, Kids
  <2>7. j \in Rooted
    BY <1>2, <2>2, <2>4, LineWithin
  <2>8. Ancestors(j) = Ancestors(k)
    BY <1>2, <2>6, <2>7, LineFacts
  <2> QED
    BY <1>2, <2>3, <2>5, <2>7, <2>8, NotOwnAncestor DEF Line
<1>10. From(k) = own \cup next /\ own \cap next = {}
  BY <1>6, <1>7, <1>8, <1>9
<1> QED
  BY <1>4, <1>10 DEF s

(* The rows of the children of an element, and of what is below them, are    *)
(* those of all below it.                                                   *)
LEMMA RowsOfKids ==
    ASSUME TypeOK, LinkTypes, PrintedUp, opt.level \in Nat \ {0}, NEW f, RowsBy(f),
           NEW k \in Rooted, print[k], IsNext(Printed(Kids(k)), 0, child[k]),
           NEW d \in 1..opt.level, d = Deep(k) + 1, NEW n \in Nat,
           \A c \in Kids(k) : print[c] => RowsAre(f[d][c][n], From(c), n, Ancestors(c))
    PROVE  RowsAre(f[d][child[k]][n], Below(k), n, Line(k))
<1>1. PICK top \in Nat : top = Len(tab) /\ Idx = 1..top /\ NoIdx = 0 /\ NoIdx \notin Idx
  BY IndexFacts
<1>2. parent \in Links(Idx) /\ k \in Idx
  BY LineFacts DEF LinkTypes
<1>3. CASE child[k] = NoIdx
  <2>1. Below(k) = {}
    BY <1>3, BelowIs
  <2>2. f[d][NoIdx][n] = <<>>
    BY DEF RowsBy
  <2> QED
    BY <1>3, <2>1, <2>2, NoRows
<1>4. CASE child[k] # NoIdx
  <2> DEFINE c == child[k]
  <2>1. c \in Kids(k) /\ print[c] /\ Below(k) = From(c)
    BY <1>4, BelowIs
  <2> HIDE DEF c
  <2>2. RowsAre(f[d][c][n], From(c), n, Ancestors(c))
    BY <2>1
  <2>3. c \in Rooted /\ parent[c] = k /\ k # NoIdx
    BY <1>1, <1>2, <2>1, LineFacts DEF Kids
  <2>4. Ancestors(c) = Line(k)
    BY <1>2, <2>3, LineFacts
  <2> QED
    BY <2>1, <2>2, <2>4 DEF c
<1> QED
  BY <1>3, <1>4

(* The rows of an element and of what is below it.                          *)
LEMMA RowsOfTree ==
    ASSUME TypeOK, OnePid, parent \in Links(Idx), NEW k \in Rooted, NEW n \in Nat, NEW R,
           RowsAre(R, Below(k), Indent(k, n), Line(k))
    PROVE  RowsAre(Row(k, n) \o R, {i \in {k} : Shown(i)} \cup Below(k), n, Ancestors(k))
<1>1. \A i \in Below(k) : i \in Rooted /\ k \in Ancestors(i)
  BY DEF Below
<1>2. CASE Shown(k)
  <2>1. RowsAre(R, Below(k), n + 1, Line(k))
    BY <1>2 DEF Indent
  <2>2. {i \in {k} : Shown(i)} = {k}
    BY <1>2
  <2> HIDE DEF Shown
  <2>3. RowsAre(Row(k, n) \o R, {k} \cup Below(k), n, Ancestors(k))
    BY <1>1, <1>2, <2>1, RowsUnder
  <2> QED
    BY <2>2, <2>3
<1>3. CASE ~Shown(k)
  <2>1. RowsAre(R, Below(k), n, Line(k))
    BY <1>3 DEF Indent
  <2>2. RowsAre(R, Below(k), n, Ancestors(k))
    BY <1>3, <2>1, RowsHidden
  <2>3. Row(k, n) \o R = R
    <3>1. Row(k, n) = <<>>
      BY <1>3 DEF Row
    <3>2. R \in Seq(Pids \X Nat)
      BY <2>1 DEF RowsAre
    <3> QED
      BY <3>1, <3>2
  <2>4. {i \in {k} : Shown(i)} \cup Below(k) = Below(k)
    BY <1>3
  <2> QED
    BY <2>2, <2>3, <2>4
<1> QED
  BY <1>2, <1>3

(* The rows of an element and its later sisters are all that comes from it   *)
(* on, where it belongs.                                                    *)
LEMMA RowsFrom ==
    ASSUME TypeOK, OnePid, PrintedUp, Dropped(Len(tab) + 1), opt.level \in Nat \ {0}, NEW f, RowsBy(f)
    PROVE  \A k \in Rooted : print[k] =>
             \A d \in 1..opt.level, n \in Nat : d = Deep(k) => RowsAre(f[d][k][n], From(k), n, Ancestors(k))
<1>1. PICK top \in Nat : top = Len(tab) /\ Idx = 1..top /\ NoIdx = 0 /\ NoIdx \notin Idx
  BY IndexFacts
<1>2. LinkTypes /\ parent \in Links(Idx)
  BY DEF Dropped, LinkTypes
<1>3. \A k \in Rooted : print[k] => IsNext(Printed(Kids(k)), 0, child[k]) /\ IsNext(Printed(Sibs(k)), k, sister[k])
  <2>1. \A k \in Rooted : k \in Idx /\ k < Len(tab) + 1
    BY <1>1 DEF Rooted
  <2> QED
    BY <2>1 DEF Dropped
<1> DEFINE Full(d, k, n) == (Row(k, n) \o f[d + 1][child[k]][Indent(k, n)]) \o f[d][sister[k]][n]
<1>5. ASSUME NEW d \in 1..opt.level, NEW k \in Idx, NEW n \in Nat, k # NoIdx, d # opt.level, print[k]
      PROVE  f[d][k][n] = Full(d, k, n)
  <2>1. k \in Idx \cup {NoIdx}
    OBVIOUS
  <2>2. f[d][k][n] =
            IF k = NoIdx \/ d = opt.level
            THEN <<>>
            ELSE IF n = 0 /\ ~print[k]
            THEN f[d][sister[k]][n]
            ELSE Row(k, n) \o f[d + 1][child[k]][Indent(k, n)] \o f[d][sister[k]][n]
    BY <2>1 DEF RowsBy
  <2>3. ~(k = NoIdx \/ d = opt.level) /\ ~(n = 0 /\ ~print[k])
    BY <1>5
  <2> QED
    BY <2>2, <2>3, Zenon
<1> HIDE DEF Full
<1>6. \A d \in 1..opt.level, k \in Idx, n \in Nat : k # NoIdx /\ d # opt.level /\ print[k] => f[d][k][n] = Full(d, k, n)
  BY <1>5
<1> DEFINE A == {k \in Rooted : print[k] =>
                   \A d \in 1..opt.level, n \in Nat : d = Deep(k) => RowsAre(f[d][k][n], From(k), n, Ancestors(k))}
<1>4. ASSUME NEW k \in Rooted, \A c \in Kids(k) : c \in A, \A s \in Sibs(k) : s > k => s \in A PROVE k \in A
  <2> SUFFICES ASSUME print[k], NEW d \in 1..opt.level, NEW n \in Nat, d = Deep(k)
               PROVE  RowsAre(f[d][k][n], From(k), n, Ancestors(k))
    OBVIOUS
  <2>1. k \in Idx /\ parent[k] # NoIdx /\ IsFiniteSet(Ancestors(k)) /\ Deep(k) \in Nat /\ k # NoIdx
    <3>1. k \in Idx /\ IsFiniteSet(Ancestors(k)) /\ Deep(k) \in Nat /\ (parent[k] = NoIdx => Deep(k) = 0)
      BY <1>2, DeepIs, LineFacts
    <3> QED
      BY <1>1, <3>1
  <2>2. \A s \in Sibs(k) : s \in Rooted /\ Ancestors(s) = Ancestors(k) /\ Deep(s) = d
    <3> SUFFICES ASSUME NEW s \in Sibs(k) PROVE s \in Rooted /\ Ancestors(s) = Ancestors(k)
      BY DEF Deep
    <3>1. s \in Kids(parent[k]) /\ parent[s] = parent[k]
      BY <2>1 DEF Sibs, Kids
    <3>2. parent[k] \in Rooted
      BY <1>2, <2>1, LineFacts
    <3>3. s \in Rooted
      BY <1>2, <3>1, <3>2, LineFacts
    <3> QED
      BY <1>2, <2>1, <3>1, <3>3, LineFacts
  <2>3. CASE d = opt.level
    <3>1. f[d][k][n] = <<>>
      BY <2>1, <2>3 DEF RowsBy
    <3>2. ASSUME NEW i \in From(k) PROVE FALSE
      <4>1. PICK j \in Sibs(k) : j \in Line(i)
        BY DEF From, Printed
      <4>2. i \in Rooted /\ Deep(i) < opt.level
        BY DEF From, Seen
      <4>3. Deep(j) <= Deep(i) /\ Deep(i) \in Nat
        BY <1>2, <4>1, <4>2, DeepIs
      <4>4. Deep(j) = opt.level
        BY <2>2, <2>3
      <4> QED
        BY <4>2, <4>3, <4>4
    <3>3. From(k) = {}
      BY <3>2
    <3> QED
      BY <3>1, <3>3, NoRows
  <2>4. CASE d # opt.level
    <3> DEFINE v == Indent(k, n)
               R1 == f[d + 1][child[k]][v]
               R2 == f[d][sister[k]][n]
               next == IF sister[k] = NoIdx THEN {} ELSE From(sister[k])
    <3>1. d + 1 \in 1..opt.level /\ v \in Nat /\ d < opt.level
      BY <2>4 DEF Indent
    <3>2. f[d][k][n] = (Row(k, n) \o R1) \o R2
      <4>1. k \in Idx /\ k # NoIdx /\ d # opt.level
        BY <2>1, <2>4
      <4> HIDE DEF A, v, R1, R2, next
      <4>2. f[d][k][n] = (Row(k, n) \o f[d + 1][child[k]][Indent(k, n)]) \o f[d][sister[k]][n]
        <5>1. f[d][k][n] = Full(d, k, n)
          BY <1>6, <4>1
        <5> QED
          BY <5>1, Zenon DEF Full
      <4> QED
        BY <4>2, Zenon DEF v, R1, R2
    <3> HIDE DEF v, R1
    <3>3. RowsAre(R1, Below(k), v, Line(k))
      <4>1. \A c \in Kids(k) : print[c] => RowsAre(f[d + 1][c][v], From(c), v, Ancestors(c))
        <5>1. \A c \in Kids(k) : c \in A /\ Deep(c) = d + 1
          BY <1>2, <1>4, DeepIs
        <5> QED
          BY <3>1, <5>1
      <4> HIDE DEF A
      <4> QED
        BY <1>2, <1>3, <3>1, <4>1, RowsOfKids DEF R1
    <3>4. RowsAre(Row(k, n) \o R1, {i \in {k} : Shown(i)} \cup Below(k), n, Ancestors(k))
      BY <1>2, <3>3, RowsOfTree DEF v
    <3>5. {i \in {k} : Shown(i)} = {i \in {k} : Seen(i)}
      BY <3>1 DEF Seen
    <3>6. /\ From(k) = ({i \in {k} : Seen(i)} \cup Below(k)) \cup next
          /\ ({i \in {k} : Seen(i)} \cup Below(k)) \cap next = {}
          /\ sister[k] # NoIdx => sister[k] \in Sibs(k) /\ sister[k] > k /\ print[sister[k]]
      BY <1>2, <1>3, FromIs
    <3>7. RowsAre(R2, next, n, Ancestors(k))
      <4>1. CASE sister[k] = NoIdx
        <5>1. R2 = <<>>
          BY <4>1 DEF RowsBy
        <5> QED
          BY <4>1, <5>1, NoRows
      <4>2. CASE sister[k] # NoIdx
        <5> DEFINE s == sister[k]
        <5>1. s \in A /\ print[s] /\ Deep(s) = d /\ Ancestors(s) = Ancestors(k)
          BY <1>4, <2>2, <3>6, <4>2
        <5> HIDE DEF s
        <5>2. RowsAre(f[d][s][n], From(s), n, Ancestors(s))
          BY <5>1
        <5> QED
          BY <4>2, <5>1, <5>2 DEF s
      <4> QED
        BY <4>1, <4>2
    <3> HIDE DEF R2, next, A
    <3>8. RowsAre((Row(k, n) \o R1) \o R2, ({i \in {k} : Seen(i)} \cup Below(k)) \cup next, n, Ancestors(k))
      BY <3>4, <3>5, <3>6, <3>7, RowsJoin
    <3> QED
      BY <3>2, <3>6, <3>8
  <2> QED
    BY <2>3, <2>4
<1> HIDE DEF A
<1>7. Rooted \subseteq A
  BY <1>2, <1>4, TreeInduction
<1> QED
  BY <1>7 DEF A

(***************************************************************************)
(* What pstree prints.                                                     *)
(***************************************************************************)
(* All that is below the root, as RowsAreBranches asks for it.              *)
Top(root) == {i \in Rooted : Seen(i) /\ print[root] /\ root \in Line(i)}

(* The root has no parent, unless the name of process 1 has a space.        *)
LEMMA RootIsTop ==
    ASSUME TypeOK, OnePid, 1 \notin spaced, \A i \in Idx : tab[i].pid = 1 => tab[i].ppid = NoPid,
           get_pid_index(GetRootPid) # NoIdx
    PROVE  LET root == get_pid_index(GetRootPid) IN root \in Idx /\ ParentOf(root) = NoIdx
<1>1. PICK top \in Nat : top = Len(tab) /\ Idx = 1..top /\ NoIdx = 0 /\ NoIdx \notin Idx
  BY IndexFacts
<1>2. \A i \in Idx : get_pid_index(tab[i].pid) = i /\ tab[i].pid \in Pids /\ tab[i].pid # NoPid
  BY OwnIndex, PidFacts
<1>3. \A p : /\ get_pid_index(p) # NoIdx => get_pid_index(p) \in Idx /\ tab[get_pid_index(p)].pid = p
  BY IndexFound
<1>4. get_pid_index(NoPid) = NoIdx
  BY <1>2, <1>3
<1> DEFINE marks == <<{i \in Idx : tab[i].pid = 1}, {i \in Idx : tab[i].ppid = 0},
                      {i \in Idx : tab[i].ppid = 1}, {i \in Idx : tab[i].pid = tab[i].ppid}>>
           found == {k \in 1..4 : marks[k] # {}}
           m == Least(found)
           r == Least(marks[m])
<1>5. GetRootPid = IF found = {} THEN NoPid ELSE tab[r].pid
  BY DEF GetRootPid
<1>6. found # {}
  BY <1>4, <1>5
<1>7. m \in found /\ (1 \in found => m <= 1)
  <2> HIDE DEF marks
  <2>1. found \subseteq Nat
    OBVIOUS
  <2> HIDE DEF found
  <2> QED
    BY <1>6, <2>1, LeastIsIn
<1>8. m \in 1..4 /\ marks[m] # {} /\ (marks[1] # {} => m = 1)
  <2> HIDE DEF marks, m
  <2>1. m \in 1..4 /\ marks[m] # {}
    BY <1>7
  <2>2. ASSUME marks[1] # {} PROVE m = 1
    <3>1. 1 \in found
      BY <2>2
    <3> QED
      BY <2>1, <3>1, <1>7
  <2> QED
    BY <2>1, <2>2
<1> HIDE DEF m, found
<1>9. marks[m] \subseteq Idx /\ Idx \subseteq Nat
  BY <1>1, <1>8
<1> HIDE DEF marks
<1>10. r \in marks[m]
  BY <1>8, <1>9, LeastIsIn
<1> HIDE DEF r
<1>11. r \in Idx
  BY <1>9, <1>10
<1>12. get_pid_index(GetRootPid) = r
  BY <1>2, <1>5, <1>6, <1>11
<1>13. get_pid_index(tab[r].ppid) \in {NoIdx, r}
  <2>1. CASE m = 1
    <3>1. tab[r].pid = 1
      BY <1>10, <2>1 DEF marks
    <3> QED
      BY <1>4, <1>11, <3>1
  <2>2. CASE m = 2
    <3>1. tab[r].ppid = NoPid
      BY <1>10, <2>2 DEF marks, NoPid
    <3> QED
      BY <1>4, <3>1
  <2>3. CASE m = 3
    <3>1. tab[r].ppid = 1
      BY <1>10, <2>3 DEF marks
    <3>2. marks[1] = {}
      BY <1>8, <2>3
    <3>3. \A i \in Idx : tab[i].pid # 1
      BY <3>2 DEF marks
    <3> QED
      BY <1>3, <3>1, <3>3
  <2>4. CASE m = 4
    <3>1. tab[r].pid = tab[r].ppid
      BY <1>10, <2>4 DEF marks
    <3> QED
      BY <1>2, <1>11, <3>1
  <2> QED
    BY <1>8, <2>1, <2>2, <2>3, <2>4
<1> QED
  BY <1>11, <1>12, <1>13 DEF ParentOf

(* The rows of the tree of the root.                                        *)
LEMMA RowsOfRoot ==
    ASSUME TypeOK, OnePid, PrintedUp, Dropped(Len(tab) + 1), opt.level \in Nat \ {0}, NEW f, RowsBy(f),
           NEW root \in Idx, parent[root] = NoIdx
    PROVE  RowsAre(TreeBy(f, root), Top(root), 0, {})
<1>1. PICK top \in Nat : top = Len(tab) /\ Idx = 1..top /\ NoIdx = 0 /\ NoIdx \notin Idx
  BY IndexFacts
<1>2. LinkTypes /\ parent \in Links(Idx)
  BY DEF Dropped, LinkTypes
<1>3. root \in Rooted
  BY <1>2, BelowRoot DEF Line
<1>4. /\ Ancestors(root) = {} /\ Deep(root) = 0 /\ \A c \in Kids(root) : c \in Rooted /\ Deep(c) = 1
  <2>1. Deep(root) = 0 /\ \A c \in Kids(root) : Deep(c) = Deep(root) + 1
    BY <1>2, <1>3, DeepIs
  <2>2. Ancestors(root) = {} /\ \A c \in Kids(root) : c \in Rooted
    BY <1>2, <1>3, LineFacts
  <2> QED
    BY <2>1, <2>2
<1>5. CASE ~print[root]
  <2>1. TreeBy(f, root) = <<>> /\ Top(root) = {}
    BY <1>5 DEF TreeBy, Top
  <2> QED
    BY <2>1, NoRows
<1>6. CASE print[root]
  <2> DEFINE n == Indent(root, 0)
             R == f[1][child[root]][n]
             S == {i \in {root} : Shown(i)} \cup Below(root)
  <2>1. 1 \in 1..opt.level /\ n \in Nat /\ 1 = Deep(root) + 1 /\ 0 \in Nat
    BY <1>4 DEF Indent
  <2>2. IsNext(Printed(Kids(root)), 0, child[root])
    BY <1>1, <1>6 DEF Dropped
  <2> HIDE DEF n
  <2>3. \A c \in Kids(root) : print[c] => RowsAre(f[1][c][n], From(c), n, Ancestors(c))
    BY <1>4, <2>1, RowsFrom
  <2>4. RowsAre(R, Below(root), n, Line(root))
    BY <1>2, <1>3, <1>6, <2>1, <2>2, <2>3, RowsOfKids
  <2> HIDE DEF R
  <2>5. RowsAre(Row(root, 0) \o R, S, 0, Ancestors(root))
    BY <1>2, <1>3, <2>1, <2>4, RowsOfTree DEF n
  <2>6. TreeBy(f, root) = Row(root, 0) \o R
    BY <1>6, Zenon DEF TreeBy, R, n
  <2>7. S = Top(root)
    BY <1>3, <1>4, <1>6 DEF Top, Below, Seen, Line
  <2> QED
    BY <1>4, <2>5, <2>6, <2>7
<1> QED
  BY <1>5, <1>6

(* Rows where they belong are as RowsAreBranches asks.                      *)
LEMMA RowsAreAsAsked ==
    ASSUME TypeOK, parent \in Links(Idx), get_pid_index(GetRootPid) \in Idx,
           parent[get_pid_index(GetRootPid)] = NoIdx,
           RowsAre(out, Top(get_pid_index(GetRootPid)), 0, {})
    PROVE  RowsAreBranches
<1> DEFINE root == get_pid_index(GetRootPid)
           line == [i \in Idx |-> Ancestors(i) \cup {i}]
           over == [i \in Idx |-> {j \in line[i] \ {i} : root \in line[j]}]
           rows == {i \in Idx : /\ root \in line[i] /\ print[root]
                                /\ print[i] /\ Shown(i) /\ Cardinality(over[i]) < opt.level}
           row  == [k \in DOMAIN out |-> get_pid_index(out[k][1])]
           q    == Len(out)
<1>1. out \in Seq(Pids \X Nat) /\ q \in Nat /\ DOMAIN out = 1..q
  BY DEF RowsAre
<1>2. \A k \in 1..q : out[k][2] \in Nat /\ row[k] = Element(out, k)
  BY <1>1 DEF Element
<1>3. \A i \in Idx : line[i] = Line(i)
  BY DEF Line
<1>4. \A i \in Idx : root \in line[i] => i \in Rooted /\ over[i] = Ancestors(i)
  <2> SUFFICES ASSUME NEW i \in Idx, root \in line[i] PROVE i \in Rooted /\ over[i] = Ancestors(i)
    OBVIOUS
  <2>1. i \in Rooted /\ \A j \in Line(i) : root \in Line(j)
    <3> HIDE DEF root, line
    <3>1. root \in Idx /\ parent[root] = NoIdx
      BY DEF root
    <3> QED
      BY <1>3, <3>1, BelowRoot
  <2>2. i \notin Ancestors(i) /\ Ancestors(i) \subseteq Idx
    BY <2>1, NotOwnAncestor, LineFacts
  <2> HIDE DEF root
  <2>3. over[i] = {j \in line[i] \ {i} : root \in line[j]}
    OBVIOUS
  <2> HIDE DEF line
  <2>4. line[i] \ {i} = Ancestors(i)
    BY <1>3, <2>2 DEF Line
  <2> HIDE DEF over
  <2> QED
    BY <1>3, <2>1, <2>2, <2>3, <2>4 DEF Line
<1> HIDE DEF row
<1>5. rows = Top(root)
  <2> HIDE DEF root, line, over
  <2> QED
    BY <1>3, <1>4 DEF Top, Seen, Deep, Rooted
<1>6. /\ rows = {Element(out, k) : k \in 1..q}
      /\ \A k, l \in 1..q : Element(out, k) = Element(out, l) => k = l
      /\ \A k \in 1..q : Placed(out, k, 0, {})
  BY <1>5 DEF RowsAre
<1> HIDE DEF rows
<1>7. {row[k] : k \in DOMAIN out} = rows
  <2> HIDE DEF q
  <2>1. \A k \in DOMAIN out : row[k] = Element(out, k)
    BY <1>1, <1>2
  <2>2. {row[k] : k \in DOMAIN out} = {Element(out, k) : k \in DOMAIN out}
    BY <2>1
  <2> QED
    BY <1>1, <1>6, <2>2
<1>8. q = Cardinality(rows)
  <2> DEFINE g == [k \in 1..q |-> Element(out, k)]
  <2>1. g \in Bijection(1..q, rows)
    BY <1>6 DEF Bijection, Injection, Surjection, IsInjective
  <2> HIDE DEF g, q
  <2>2. IsFiniteSet(1..q) /\ Cardinality(1..q) = q
    <3>1. q \in Nat /\ q >= 0 /\ 1 \in Int /\ q \in Int /\ q - 1 + 1 = q
      BY <1>1
    <3> QED
      BY <3>1, FS_Interval
  <2>3. ExistsBijection(1..q, rows)
    BY <2>1 DEF ExistsBijection
  <2> QED
    BY <2>2, <2>3, FS_Bijection
<1>9. ASSUME NEW k \in DOMAIN out
      PROVE  LET shown == {j \in over[row[k]] : Shown(j)} IN
             IF shown = {}
             THEN out[k][2] = 0
             ELSE /\ Above(k) # {}
                  /\ LET j == row[Greatest(Above(k))] IN j \in shown /\ shown \subseteq line[j]
  <2> DEFINE i == row[k]
             shown == {j \in over[i] : Shown(j)}
  <2>1. k \in 1..q /\ k \in Nat /\ i = Element(out, k) /\ out[k][2] \in Nat
    BY <1>1, <1>2
  <2>2. i \in Idx /\ over[i] = Ancestors(i) /\ Ancestors(i) \subseteq Idx
    <3> HIDE DEF i, over, root, line
    <3>1. i \in Idx /\ root \in line[i]
      <4>1. i \in rows
        BY <1>6, <2>1
      <4> QED
        BY <4>1 DEF rows
    <3> QED
      BY <1>4, <3>1, LineFacts
  <2> HIDE DEF i, over
  <2>3. shown = Inner(i, {})
    BY <2>2 DEF Inner
  <2>4. /\ out[k][2] = 0 => shown = {}
        /\ out[k][2] > 0 =>
             \E a \in 1..(k - 1) :
               /\ out[a][2] < out[k][2] /\ \A b \in (a + 1)..(k - 1) : out[b][2] >= out[k][2]
               /\ Element(out, a) \in shown /\ shown \subseteq Line(Element(out, a))
    BY <1>6, <2>1, <2>3 DEF Placed
  <2>5. shown \subseteq Idx
    BY <2>2
  <2> HIDE DEF shown
  <2>6. CASE out[k][2] = 0
    BY <2>4, <2>6 DEF shown, i
  <2>7. CASE out[k][2] > 0
    <3>1. PICK a \in 1..(k - 1) :
               /\ out[a][2] < out[k][2] /\ \A b \in (a + 1)..(k - 1) : out[b][2] >= out[k][2]
               /\ Element(out, a) \in shown /\ shown \subseteq Line(Element(out, a))
      BY <2>4, <2>7
    <3>2. a \in Nat /\ a \in Above(k) /\ Above(k) \subseteq 1..(k - 1) /\ k - 1 \in Nat
      BY <2>1, <3>1 DEF Above
    <3>3. Greatest(Above(k)) \in Above(k) /\ \A y \in Above(k) : y <= Greatest(Above(k))
      BY <3>2, GreatestOf
    <3> DEFINE g == Greatest(Above(k))
    <3>4. g \in 1..(k - 1) /\ out[g][2] < out[k][2] /\ a <= g
      BY <3>2, <3>3 DEF Above
    <3> HIDE DEF g
    <3>5. g = a
      <4>1. g \in 1..q
        BY <1>1, <2>1, <3>4
      <4>2. out[g][2] \in Nat
        BY <1>2, <4>1
      <4>3. g \notin (a + 1)..(k - 1)
        BY <2>1, <3>1, <3>4, <4>2
      <4> QED
        BY <2>1, <3>2, <3>4, <4>3
    <3>6. a \in 1..q
      BY <1>1, <2>1
    <3>7. row[g] = Element(out, a) /\ row[g] \in Idx
      BY <1>2, <2>5, <3>1, <3>5, <3>6
    <3>8. row[g] \in shown /\ shown \subseteq line[row[g]] /\ shown # {} /\ Above(k) # {}
      BY <1>3, <3>1, <3>2, <3>7
    <3> QED
      BY <3>8, Zenon DEF g, shown, i
  <2> QED
    BY <2>1, <2>6, <2>7
<1> QED
  BY <1>7, <1>8, <1>9, Zenon DEF RowsAreBranches, row, rows, over, line, root, q


(* With an empty table, from stdin, there is no root to print from.         *)
DashInv ==
    prog = "part2" /\ input # "none" =>
        /\ pc \in {"input", "exit1", "crash", "loops", "done"} \cup TreePcs
        /\ pc = "done" => opt.start # <<>>

(* At first stdin has not been read.                                        *)
LEMMA DashInit == Init => DashInv
BY DEF Init, DashInv

(* No step prints a tree of the empty table.                                *)
LEMMA DashStep == ASSUME IInv, UniqueInv, DashInv, [Next]_vars PROVE DashInv'
<1>1. CASE UNCHANGED vars
  BY <1>1 DEF vars, cvars, DashInv
<1>2. ASSUME NEW p \in Pids, \E q \in Pids : Exit(p, q) \/ Fork(p, q) PROVE DashInv'
  <2>1. UNCHANGED <<prog, input, opt, pc>>
    BY <1>2 DEF Exit, Fork, Event, cvars
  <2> QED
    BY <2>1 DEF DashInv
<1>3. CASE Program
  <2>0. TypeOK /\ UNCHANGED <<prog, input>>
    BY <1>3, Chosen DEF IInv
  <2> SUFFICES ASSUME prog = "part2", input # "none" PROVE DashInv'
    BY <2>0 DEF DashInv
  <2>1. pc \in {"input", "exit1", "crash", "loops", "done"} \cup TreePcs /\ tab = <<>>
    BY DEF DashInv, UniqueInv
  <2>2. CASE Glob \/ ReadStat \/ ReadCmdline \/ ReadEnds \/ ReadDir \/ show_name_id \/ show_fd_link
    BY <2>1, <2>2 DEF Glob, ReadStat, ReadCmdline, ReadEnds, ReadDir, show_name_id, show_fd_link, Goto, TreePcs
  <2>3. CASE GetProcesses
    <3>1. pc' \in {"exit1", "crash", "tree"}
      BY <2>3 DEF GetProcesses
    <3> QED
      BY <3>1 DEF DashInv, TreePcs
  <2>4. CASE MakeTree \/ MarkProcs \/ DropProcs
    <3>1. pc' \in TreePcs \cup {"loops"}
      BY <2>4 DEF MakeTree, MarkProcs, MarkSelected, DropProcs, Loop, Goto, TreePcs
    <3> QED
      BY <3>1 DEF DashInv, TreePcs
  <2>5. CASE PrintAll
    <3>1. get_pid_index(GetRootPid) = NoIdx
      <4>1. Idx = {}
        BY <2>1 DEF Idx
      <4> QED
        BY <4>1 DEF get_pid_index
    <3>2. pc' \in {"done", "crash"} /\ (pc' = "done" => opt.start # <<>>) /\ opt' = opt
      BY <2>5, <3>1 DEF PrintAll, Goto
    <3> QED
      BY <3>2 DEF DashInv
  <2> QED
    BY <1>3, <2>2, <2>3, <2>4, <2>5 DEF Program
<1> QED
  BY <1>1, <1>2, <1>3 DEF Next

(* A stutter marks nothing.                                                 *)
LEMMA SameMarks == ASSUME MarkInv, UNCHANGED vars PROVE MarkInv'
<1>1. UNCHANGED <<opt, pc, tab, me, parent, child, sister, print, selected, hidden, out, prog, input>>
  BY DEF vars, cvars, rvars, lvars, mvars
<1>2. Idx' = Idx /\ (PrintedUp' <=> PrintedUp) /\ get_pid_index(GetRootPid)' = get_pid_index(GetRootPid)
  BY <1>1 DEF Idx, PrintedUp, get_pid_index, GetRootPid
<1>3. \A i, n : Row(i, n)' = Row(i, n) /\ Indent(i, n)' = Indent(i, n)
  BY <1>1 DEF Row, Indent, Shown
<1>4. \A f : (RowsBy(f)' <=> RowsBy(f)) /\ \A i : TreeBy(f, i)' = TreeBy(f, i)
  BY <1>1, <1>2, <1>3 DEF RowsBy, TreeBy
<1>5. OutIs' <=> OutIs
  BY <1>1, <1>2, <1>4 DEF OutIs
<1> QED
  BY <1>1, <1>2, <1>5 DEF MarkInv

(* What the links and marks are, from the table to the tree that is printed. *)
TreeIInv == IInv /\ EndInv /\ ShapeInv /\ MarkInv /\ DashInv

(* What has been printed where pstree has no pids on its command line.      *)
LEMMA RowsDone ==
    ASSUME TreeIInv, pc = "done", prog = "part2", opt.start = <<>>, 1 \notin spaced
    PROVE  LET root == get_pid_index(GetRootPid) IN
           root \in Idx /\ parent[root] = NoIdx /\ RowsAre(out, Top(root), 0, {})
<1> DEFINE root == get_pid_index(GetRootPid)
<1>1. TypeOK /\ input = "none"
  BY DEF TreeIInv, IInv, DashInv
<1>2. OnePid /\ \A i \in Idx : tab[i].pid = 1 => tab[i].ppid = NoPid
  BY DEF TreeIInv, ShapeInv, UniqueInv, OnePid
<1>3. Dropped(Len(tab) + 1) /\ \A i \in Idx : parent[i] = ParentOf(i)
  BY <1>1 DEF TreeIInv, ShapeInv, TreeInv
<1>4. PrintedUp /\ OutIs
  BY <1>1 DEF TreeIInv, MarkInv
<1>5. opt.level \in Nat \ {0}
  <2>1. opt \in Options \cup {Default}
    BY <1>1 DEF TypeOK
  <2>2. Options \subseteq OptionRecords
    BY ProcAssumption
  <2> QED
    BY <2>1, <2>2 DEF OptionRecords, Default
<1>6. parent \in Links(Idx)
  BY <1>3 DEF Dropped, LinkTypes
<1>7. root \in Idx /\ parent[root] = NoIdx
  <2>1. root # NoIdx
    BY <1>4 DEF OutIs
  <2>2. root \in Idx /\ ParentOf(root) = NoIdx
    BY <1>1, <1>2, <2>1, RootIsTop
  <2> QED
    BY <1>3, <2>2
<1>8. PICK f : RowsBy(f) /\ out = TreeBy(f, root)
  BY <1>4 DEF OutIs
<1> HIDE DEF root
<1>9. RowsAre(out, Top(root), 0, {})
  BY <1>1, <1>2, <1>3, <1>4, <1>5, <1>7, <1>8, RowsOfRoot
<1> QED
  BY <1>7, <1>9 DEF root

(* So the rows are as asked.                                                *)
LEMMA PrintedRight == TreeIInv => RowsAreBranches
<1> SUFFICES ASSUME TreeIInv, pc = "done", prog = "part2", opt.start = <<>>, 1 \notin spaced PROVE RowsAreBranches
  BY DEF RowsAreBranches
<1>1. TypeOK /\ parent \in Links(Idx)
  BY DEF TreeIInv, IInv, DashInv, ShapeInv, TreeInv, Dropped, LinkTypes
<1> QED
  BY <1>1, RowsDone, RowsAreAsAsked

(* In every state the lists of children hold, for each element of the table, *)
(* its children in order, those that will not be printed dropped as far as   *)
(* DropProcs has come, and the marks are closed upward (part2.c, MakeTree,   *)
(* MarkProcs and DropProcs).                                                *)
THEOREM TreeInvariance == Spec => []TreeIInv
<1>1. Init => TreeIInv
  BY InitIInv, InitEnd, ShapeInit, MarkInit, DashInit DEF TreeIInv
<1>2. TreeIInv /\ [Next]_vars => TreeIInv'
  <2> SUFFICES ASSUME TreeIInv, [Next]_vars PROVE TreeIInv'
    OBVIOUS
  <2>1. IInv' /\ EndInv'
    BY InvStep, EndStep DEF TreeIInv
  <2>2. ShapeInv' /\ DashInv'
    BY ShapeStep, DashStep DEF TreeIInv, ShapeInv
  <2>3. MarkInv'
    <3>1. CASE UNCHANGED vars
      BY <3>1, SameMarks DEF TreeIInv
    <3>2. CASE Program
      BY <3>2, MarkStep DEF TreeIInv, EndInv
    <3>3. ASSUME NEW p \in Pids, \E q \in Pids : Exit(p, q) \/ Fork(p, q) PROVE MarkInv'
      BY <3>3, MarkEvent DEF TreeIInv, Exit, Fork
    <3> QED
      BY <3>1, <3>2, <3>3 DEF Next
  <2> QED
    BY <2>1, <2>2, <2>3 DEF TreeIInv
<1> QED
  BY <1>1, <1>2, PTL DEF Spec

(* pstree prints every process that is marked and shown, once, below the     *)
(* root and under the nearest of its ancestors that is shown, and no other:  *)
(* for every table that /proc may have given, but for the one mark of a      *)
(* root that a name with a space can spoil.                                 *)
THEOREM RowsAreRight == Spec => []RowsAreBranches
BY TreeInvariance, PrintedRight, PTL

(***************************************************************************)
(* What is printed, and what there is.                                     *)
(***************************************************************************)
(* Process 1 is there all the time, and while nothing happens all are.      *)
LastInv == 1 \in lasting /\ (nevents = 0 => lasting = alive /\ adopted = {})

(* What was read of a process that is there all the time, is not adopted and *)
(* has no space in its name is still so; and only what is there was read.   *)
Steady == lasting \ (adopted \cup spaced)

Held(e) ==
    /\ e.pid \in Steady => e.ppid = ppid[e.pid]
    /\ nevents = 0 => e.pid \in alive

(* pstree does not miss a process that is there all the time.               *)
Kept(p) == p \in names \/ (pc = "cmdline" /\ slot.pid = p) \/ \E i \in Idx : tab[i].pid = p

ReadInv ==
    prog = "part2" /\ input = "none" /\ ~hidepid =>
        /\ pc = "glob" => \A p \in lasting : p <= cursor => p \in names
        /\ pc # "glob" => \A p \in lasting : Kept(p)
        /\ pc \notin {"glob", "stat", "cmdline"} => names = {}
        /\ pc = "cmdline" => Held(slot)
        /\ \A i \in Idx : Held(tab[i])

(* Events count, and take away from what lasts.                             *)
LEMMA EventFacts ==
    ASSUME IInv, NEW p \in Pids, \E q \in Pids : Exit(p, q) \/ Fork(p, q)
    PROVE  /\ UNCHANGED Unmoved /\ UNCHANGED <<out, parent, child, sister, print, selected, hidden>>
           /\ nevents' # 0 /\ lasting' \subseteq lasting /\ (1 \in lasting => 1 \in lasting')
           /\ \A r \in lasting' \ adopted' : r \in lasting \ adopted /\ ppid'[r] = ppid[r]
<1>0. TypeOK
  BY DEF IInv
<1>1. UNCHANGED Unmoved /\ UNCHANGED <<out, parent, child, sister, print, selected, hidden>> /\ nevents' = nevents + 1
  BY DEF Exit, Fork, Event, Unmoved, cvars, rvars, lvars, mvars
<1>2. nevents' # 0
  <2>1. nevents \in Nat
    BY <1>0, KernelTypes
  <2> QED
    BY <1>1, <2>1
<1>3. lasting \subseteq alive /\ alive \subseteq Pids /\ ppid \in [Pids -> Procs]
  BY <1>0 DEF TypeOK
<1>4. ASSUME NEW reaper \in Pids, Exit(p, reaper)
      PROVE  /\ lasting' \subseteq lasting /\ (1 \in lasting => 1 \in lasting')
             /\ \A r \in lasting' \ adopted' : r \in lasting \ adopted /\ ppid'[r] = ppid[r]
  <2>1. /\ lasting' = lasting \ {p} /\ p # 1
        /\ adopted' = adopted \cup {q \in alive : ppid[q] = p}
        /\ ppid' = [q \in Pids |-> IF q # p /\ ppid[q] = p THEN reaper ELSE ppid[q]]
    BY <1>4 DEF Exit
  <2> QED
    BY <1>3, <2>1
<1>5. ASSUME NEW q \in Pids, Fork(p, q)
      PROVE  /\ lasting' \subseteq lasting /\ (1 \in lasting => 1 \in lasting')
             /\ \A r \in lasting' \ adopted' : r \in lasting \ adopted /\ ppid'[r] = ppid[r]
  <2>1. q \notin alive /\ ppid' = [ppid EXCEPT ![q] = p] /\ lasting' = lasting /\ adopted' = adopted
    BY <1>5 DEF Fork
  <2> QED
    BY <1>3, <2>1
<1> QED
  BY <1>1, <1>2, <1>4, <1>5

(* No step makes something last.                                            *)
LEMMA LastStep == ASSUME IInv, LastInv, [Next]_vars PROVE LastInv'
<1>1. CASE UNCHANGED vars
  BY <1>1 DEF vars, kvars, LastInv
<1>2. CASE Program
  <2>1. UNCHANGED kvars
    BY <1>2 DEF Program, Glob, ReadStat, ReadCmdline, ReadEnds, GetProcesses, MakeTree, MarkProcs, DropProcs,
                PrintAll, ReadDir, show_name_id, show_fd_link, Loop
  <2> QED
    BY <2>1 DEF kvars, LastInv
<1>3. ASSUME NEW p \in Pids, \E q \in Pids : Exit(p, q) \/ Fork(p, q) PROVE LastInv'
  BY <1>3, EventFacts DEF LastInv
<1> QED
  BY <1>1, <1>2, <1>3 DEF Next

(* Events leave what was read as it is, and true.                           *)
LEMMA ReadEvent ==
    ASSUME IInv, ReadInv, NEW p \in Pids, \E q \in Pids : Exit(p, q) \/ Fork(p, q)
    PROVE  ReadInv'
<1>1. /\ UNCHANGED Unmoved /\ nevents' # 0 /\ lasting' \subseteq lasting
      /\ \A r \in lasting' \ adopted' : r \in lasting \ adopted /\ ppid'[r] = ppid[r]
  BY EventFacts
<1>2. UNCHANGED <<prog, input, hidepid, spaced, pc, cursor, names, slot, tab>>
  BY <1>1 DEF Unmoved
<1>3. Idx' = Idx /\ \A r : Kept(r)' <=> Kept(r)
  BY <1>2 DEF Idx, Kept
<1>4. ASSUME NEW e, Held(e) PROVE (e.pid \in Steady' => e.ppid = ppid'[e.pid])
  <2>1. \A r : r \in Steady' => r \in lasting' \ adopted' /\ r \notin spaced
    BY <1>2 DEF Steady
  <2>2. \A r \in Steady' : r \in Steady /\ ppid'[r] = ppid[r]
    BY <1>1, <2>1 DEF Steady
  <2> QED
    BY <1>4, <2>2 DEF Held
<1>5. (Held(slot) => Held(slot)') /\ \A i \in Idx : Held(tab[i]) => Held(tab[i])'
  BY <1>1, <1>2, <1>4 DEF Held
<1> QED
  BY <1>1, <1>2, <1>3, <1>5 DEF ReadInv

(* Each step of reading keeps every process that is there all the time: it   *)
(* is among the names, being read, or in the table.                         *)
LEMMA ReadStep == ASSUME IInv, PlaceInv, LastInv, ReadInv, Program PROVE ReadInv'
<1>0. TypeOK /\ UNCHANGED <<prog, input, hidepid, spaced, nevents, alive>>
  BY Chosen DEF IInv
<1>10. UNCHANGED <<lasting, adopted, ppid>>
  BY DEF Program, Glob, ReadStat, ReadCmdline, ReadEnds, GetProcesses, MakeTree, MarkProcs, DropProcs,
         PrintAll, ReadDir, show_name_id, show_fd_link, Loop, kvars
<1> SUFFICES ASSUME prog = "part2", input = "none", ~hidepid PROVE ReadInv'
  BY <1>0 DEF ReadInv
<1>11. lasting \subseteq alive /\ alive \subseteq Pids /\ Pids \subseteq Nat \ {0}
  BY <1>0, PidFacts DEF TypeOK
<1>12. \A e : Held(e)' <=> Held(e)
  BY <1>0, <1>10 DEF Held, Steady
<1>13. \A i \in Idx : Held(tab[i])
  BY DEF ReadInv
<1>1. CASE Glob
  <2>1. UNCHANGED <<tab, slot>> /\ pc = "glob" /\ Idx' = Idx
    BY <1>1 DEF Glob, Goto, Idx
  <2>2. \/ Next_entries = {} /\ pc' = "stat" /\ UNCHANGED <<names, cursor>>
        \/ Next_entries # {} /\ pc' = "glob" /\ cursor' = Least(Next_entries) /\ names' = names \cup {cursor'}
    BY <1>1 DEF Glob, Goto
  <2>3. \A p \in lasting : p \in Nat /\ (p <= cursor => p \in names) /\ (p <= cursor \/ p \in Next_entries)
    <3>1. \A p \in lasting : p <= cursor => p \in names
      BY <2>1 DEF ReadInv
    <3>2. cursor \in Nat
      <4>1. cursor \in Procs
        BY <1>0 DEF TypeOK
      <4> QED
        BY <4>1, <1>11 DEF Procs, NoPid
    <3> QED
      BY <1>11, <3>1, <3>2 DEF Next_entries, Visible
  <2>4. CASE Next_entries = {}
    <3>1. pc' = "stat" /\ names' = names /\ \A p \in lasting : p \in names
      BY <2>2, <2>3, <2>4
    <3> QED
      BY <1>10, <1>12, <1>13, <2>1, <3>1 DEF ReadInv, Kept
  <2>5. CASE Next_entries # {}
    <3>1. Next_entries \subseteq Nat
      BY <1>11 DEF Next_entries, Visible
    <3>2. cursor' \in Nat /\ \A y \in Next_entries : cursor' <= y
      BY <2>2, <2>5, <3>1, LeastIsIn
    <3>3. \A p \in lasting : p <= cursor' => p \in names'
      <4> SUFFICES ASSUME NEW p \in lasting, p <= cursor', p \in Next_entries PROVE p \in names'
        BY <2>2, <2>3, <2>5
      <4>1. p = cursor'
        BY <2>3, <3>2
      <4> QED
        BY <2>2, <2>5, <4>1
    <3>4. pc' = "glob"
      BY <2>2, <2>5
    <3> QED
      BY <1>10, <1>12, <1>13, <2>1, <3>3, <3>4 DEF ReadInv
  <2> QED
    BY <2>4, <2>5
<1>2. CASE ReadStat
  <2> DEFINE p == Greatest(names)
  <2>1. UNCHANGED tab /\ pc = "stat" /\ names' = names \ {p} /\ Idx' = Idx
    BY <1>2 DEF ReadStat, Goto, Idx
  <2>2. IF p \in alive
        THEN pc' = "cmdline" /\ slot' = [pid |-> p, ppid |-> IF p \in spaced THEN slot.ppid ELSE ppid[p]]
        ELSE pc' = "stat" /\ UNCHANGED slot
    BY <1>2 DEF ReadStat, Goto
  <2> HIDE DEF p
  <2>3. \A r \in lasting : Kept(r)'
    <3> SUFFICES ASSUME NEW r \in lasting PROVE Kept(r)'
      OBVIOUS
    <3>1. r \in names \/ \E i \in Idx : tab[i].pid = r
      BY <2>1 DEF ReadInv, Kept
    <3>2. CASE r = p /\ r \in names
      <4>1. p \in alive
        BY <1>11, <3>2
      <4> QED
        BY <2>2, <3>2, <4>1 DEF Kept
    <3> QED
      BY <2>1, <3>1, <3>2 DEF Kept
  <2>4. pc' = "cmdline" => Held(slot')
    BY <1>11, <2>2 DEF Held, Steady
  <2>5. pc' = "cmdline" => Held(slot)'
    BY <1>0, <1>10, <2>4 DEF Held, Steady
  <2>6. pc' \in {"stat", "cmdline"}
    BY <2>2
  <2> QED
    BY <1>10, <1>12, <1>13, <2>1, <2>3, <2>5, <2>6 DEF ReadInv
<1>3. CASE ReadCmdline
  <2>1. pc = "cmdline" /\ pc' = "stat" /\ UNCHANGED names
    BY <1>3 DEF ReadCmdline, Goto
  <2>2. CASE slot.pid \notin alive
    <3>1. UNCHANGED tab /\ Idx' = Idx
      BY <1>3, <2>2 DEF ReadCmdline, Idx
    <3>2. \A r \in lasting : r \in names \/ \E i \in Idx : tab[i].pid = r
      BY <1>11, <2>1, <2>2 DEF ReadInv, Kept
    <3> QED
      BY <1>10, <1>12, <1>13, <2>1, <3>1, <3>2 DEF ReadInv, Kept
  <2>3. CASE slot.pid \in alive
    <3> DEFINE e == [pid |-> slot.pid, ppid |-> slot.ppid, full |-> UserOf[slot.pid] \notin un]
    <3>1. tab' = Append(tab, e)
      BY <1>3, <2>3 DEF ReadCmdline
    <3>2. e \in Entry /\ tab \in Seq(Entry)
      BY <1>0, <2>1 DEF TypeOK, Entry
    <3>3. e.pid = slot.pid /\ Held(e)
      BY <2>1 DEF ReadInv, Held
    <3> HIDE DEF e
    <3>4. PICK top \in Nat : /\ top = Len(tab) /\ Len(tab') = top + 1
                             /\ tab'[top + 1] = e /\ \A i \in 1..top : tab'[i] = tab[i]
      BY <3>1, <3>2, TableGrows
    <3>5. Idx = 1..top /\ Idx' = 1..(top + 1)
      BY <3>4 DEF Idx
    <3>6. \A i \in Idx' : Held(tab'[i])
      <4> SUFFICES ASSUME NEW i \in 1..(top + 1) PROVE Held(tab'[i])
        BY <3>5
      <4>1. CASE i = top + 1
        BY <3>3, <3>4, <4>1
      <4>2. CASE i # top + 1
        <5>1. i \in 1..top
          BY <4>2
        <5> QED
          BY <1>13, <3>4, <3>5, <5>1
      <4> QED
        BY <4>1, <4>2
    <3>7. \A i \in Idx' : Held(tab[i])'
      BY <1>0, <1>10, <3>6 DEF Held, Steady
    <3>8. \A r \in lasting : Kept(r)'
      <4> SUFFICES ASSUME NEW r \in lasting PROVE r \in names' \/ \E i \in Idx' : tab'[i].pid = r
        BY DEF Kept
      <4>1. r \in names \/ slot.pid = r \/ \E i \in Idx : tab[i].pid = r
        BY <2>1 DEF ReadInv, Kept
      <4>2. slot.pid = r => top + 1 \in Idx' /\ tab'[top + 1].pid = r
        BY <3>3, <3>4, <3>5
      <4>3. \A i \in Idx : i \in Idx' /\ tab'[i] = tab[i]
        BY <3>4, <3>5
      <4> QED
        BY <2>1, <4>1, <4>2, <4>3
    <3> QED
      BY <1>10, <2>1, <3>7, <3>8 DEF ReadInv
  <2> QED
    BY <2>2, <2>3
<1>4. CASE ReadEnds
  <2>1. UNCHANGED <<tab, names>> /\ pc = "stat" /\ pc' = "tree" /\ names = {} /\ Idx' = Idx
    BY <1>4 DEF ReadEnds, Goto, rvars, Idx
  <2> QED
    BY <1>10, <1>12, <1>13, <2>1 DEF ReadInv, Kept
<1>5. CASE MakeTree \/ MarkProcs \/ DropProcs \/ PrintAll
  <2>1. UNCHANGED <<tab, names>> /\ pc \in TreePcs /\ pc' \in TreePcs \cup {"loops", "done", "crash"} /\ Idx' = Idx
    BY <1>5 DEF MakeTree, MarkProcs, MarkSelected, DropProcs, PrintAll, Loop, Goto, TreePcs, rvars, Idx
  <2>2. pc \notin {"glob", "stat", "cmdline"} /\ pc' \notin {"glob", "stat", "cmdline"}
    BY <2>1 DEF TreePcs
  <2> QED
    BY <1>10, <1>12, <1>13, <2>1, <2>2 DEF ReadInv, Kept
<1>6. CASE GetProcesses \/ ReadDir \/ show_name_id \/ show_fd_link
  <2>1. pc \in {"input", "list", "show"}
    BY <1>6 DEF GetProcesses, ReadDir, show_name_id, show_fd_link, Goto
  <2> QED
    BY <2>1 DEF PlaceInv, TreePcs
<1> QED
  BY <1>1, <1>2, <1>3, <1>4, <1>5, <1>6 DEF Program

(* At first nothing is read, and nothing has happened.                      *)
LEMMA ReadInit == Init => LastInv /\ ReadInv
<1> SUFFICES ASSUME Init PROVE LastInv /\ ReadInv
  OBVIOUS
<1>1. lasting = alive /\ 1 \in alive /\ adopted = {} /\ cursor = NoPid /\ Idx = {}
  BY DEF Init, Forest, Idx
<1>2. lasting \subseteq Nat \ {0}
  BY <1>1, PidFacts DEF Init, Forest
<1>3. prog = "part2" /\ input = "none" => pc = "glob"
  BY DEF Init
<1> QED
  BY <1>1, <1>2, <1>3 DEF LastInv, ReadInv, NoPid

(* What part1 and part3 have shown, up to the cursor.                       *)
Rowed(p) == \E k \in DOMAIN out : out[k][1] = p

ListInv ==
    prog # "part2" =>
        /\ out \in Seq(Pids \X Nat)
        /\ prog = "part1" => opt.kind = "u"
        /\ prog = "part3" => opt = Default
        /\ ~hidepid => \A p \in lasting : (p < cursor \/ (p = cursor /\ pc # "show")) /\ Asked(p) => Rowed(p)
        /\ nevents = 0 => \A k \in DOMAIN out : out[k][1] \in alive /\ Asked(out[k][1])
        /\ pc = "done" /\ ~hidepid => \A p \in lasting : p <= cursor

(* At first nothing is shown.                                               *)
LEMMA ListInit == Init => ListInv
<1> SUFFICES ASSUME Init, prog # "part2" PROVE ListInv
  BY DEF ListInv
<1>1. lasting = alive /\ cursor = NoPid /\ pc = "list" /\ out = <<>> /\ prog \in {"part1", "part3"}
  BY DEF Init
<1>2. lasting \subseteq Nat \ {0} /\ DOMAIN out = {}
  BY <1>1, PidFacts DEF Init, Forest
<1>3. (prog = "part1" => opt.kind = "u") /\ (prog = "part3" => opt = Default)
  BY DEF Init
<1> QED
  BY <1>1, <1>2, <1>3 DEF ListInv, NoPid

(* Events change nothing that was shown.                                    *)
LEMMA ListEvent ==
    ASSUME IInv, ListInv, NEW p \in Pids, \E q \in Pids : Exit(p, q) \/ Fork(p, q)
    PROVE  ListInv'
<1>1. UNCHANGED <<prog, hidepid, opt, pc, cursor, out>> /\ nevents' # 0 /\ lasting' \subseteq lasting
  BY EventFacts DEF Unmoved
<1>2. \A r : (Asked(r)' <=> Asked(r)) /\ (Rowed(r)' <=> Rowed(r))
  BY <1>1 DEF Asked, Rowed
<1> QED
  BY <1>1, <1>2 DEF ListInv

(* The directories are shown in order, and none of those that are asked for *)
(* and there all the time is passed over.                                   *)
LEMMA ListStep == ASSUME IInv, PlaceInv, ListInv, Program PROVE ListInv'
<1>0. TypeOK /\ UNCHANGED <<prog, input, hidepid, spaced, nevents, alive>>
  BY Chosen DEF IInv
<1> SUFFICES ASSUME prog # "part2" PROVE ListInv'
  BY <1>0 DEF ListInv
<1>1. prog \in {"part1", "part3"}
  BY <1>0 DEF TypeOK
<1>2. pc \in {"list", "show", "done", "crash"}
  BY <1>1 DEF PlaceInv
<1>3. UNCHANGED <<opt, lasting>> /\ (ReadDir \/ show_name_id \/ show_fd_link)
  <2>1. ReadDir \/ show_name_id \/ show_fd_link
    <3>1. ASSUME Glob \/ ReadStat \/ ReadCmdline \/ ReadEnds \/ GetProcesses \/ MakeTree \/ MarkProcs \/ DropProcs \/ PrintAll
          PROVE  FALSE
      <4>1. pc \in {"glob", "stat", "cmdline", "input"} \cup TreePcs
        BY <3>1 DEF Glob, ReadStat, ReadCmdline, ReadEnds, GetProcesses, MakeTree, MarkProcs, DropProcs, PrintAll, Loop, Goto, TreePcs
      <4> QED
        BY <1>2, <4>1 DEF TreePcs
    <3> QED
      BY <3>1 DEF Program
  <2> QED
    BY <2>1 DEF ReadDir, show_name_id, show_fd_link, kvars
<1>4. \A p : Asked(p)' <=> Asked(p)
  BY <1>0, <1>3 DEF Asked
<1>5. lasting \subseteq alive /\ alive \subseteq Pids /\ Pids \subseteq Nat \ {0} /\ cursor \in Nat /\ out \in Seq(Pids \X Nat)
  <2>1. lasting \subseteq alive /\ alive \subseteq Pids /\ cursor \in Procs
    BY <1>0 DEF TypeOK
  <2>2. out \in Seq(Pids \X Nat)
    BY DEF ListInv
  <2> QED
    BY <2>1, <2>2, PidFacts DEF Procs, NoPid
<1>6. CASE ReadDir
  <2>1. UNCHANGED out /\ pc = "list"
        /\ \/ Next_entries = {} /\ pc' = "done" /\ UNCHANGED cursor
           \/ Next_entries # {} /\ pc' = "show" /\ cursor' = Least(Next_entries)
    BY <1>6 DEF ReadDir, Goto
  <2>2. \A p : Rowed(p)' <=> Rowed(p)
    BY <2>1 DEF Rowed
  <2>3. ~hidepid => \A p \in lasting : (p <= cursor /\ Asked(p) => Rowed(p)) /\ (p <= cursor \/ p \in Next_entries)
    <3>1. ~hidepid => \A p \in lasting : p <= cursor /\ Asked(p) => Rowed(p)
      BY <1>5, <2>1 DEF ListInv
    <3>2. ~hidepid => \A p \in lasting : p <= cursor \/ p \in Next_entries
      BY <1>5 DEF Next_entries, Visible
    <3> QED
      BY <3>1, <3>2
  <2>4. CASE Next_entries = {}
    <3>1. pc' = "done" /\ cursor' = cursor
      BY <2>1, <2>4
    <3> QED
      BY <1>0, <1>3, <1>4, <1>5, <2>1, <2>2, <2>3, <2>4, <3>1 DEF ListInv
  <2>5. CASE Next_entries # {}
    <3>1. Next_entries \subseteq Nat
      BY <1>5 DEF Next_entries, Visible
    <3>2. pc' = "show" /\ cursor' \in Nat /\ \A y \in Next_entries : cursor' <= y
      BY <2>1, <2>5, <3>1, LeastIsIn
    <3>3. ~hidepid => \A p \in lasting : p < cursor' => p <= cursor
      BY <1>5, <2>3, <3>2
    <3>4. ~hidepid => \A p \in lasting : p < cursor' /\ Asked(p) => Rowed(p)
      BY <2>3, <3>3
    <3> QED
      BY <1>0, <1>3, <1>4, <2>1, <2>2, <3>2, <3>4 DEF ListInv
  <2> QED
    BY <2>4, <2>5
<1>7. CASE show_name_id \/ show_fd_link
  <2>1. UNCHANGED cursor /\ pc = "show" /\ pc' \in {"list", "crash"}
    BY <1>7 DEF show_name_id, show_fd_link, Goto, rvars
  <2>2. \/ cursor \in alive /\ Asked(cursor) /\ out' = Append(out, <<cursor, 0>>)
        \/ (cursor \in alive => ~Asked(cursor)) /\ out' = out
    <3>1. CASE show_name_id
      <4>1. prog = "part1" /\ (Asked(cursor) <=> UserOf[cursor] = opt.arg)
        BY <3>1 DEF show_name_id, Asked, ListInv
      <4> QED
        BY <3>1, <4>1 DEF show_name_id, Show
    <3>2. CASE show_fd_link
      <4>1. prog = "part3" /\ (Asked(cursor) <=> Mine(cursor))
        <5>1. prog = "part3" /\ opt.kind = "all"
          BY <3>2 DEF show_fd_link, ListInv, Default
        <5> QED
          BY <5>1 DEF Asked
      <4> QED
        BY <3>2, <4>1 DEF show_fd_link, Show
    <3> QED
      BY <1>7, <3>1, <3>2
  <2>3. CASE out' = out /\ (cursor \in alive => ~Asked(cursor))
    <3>1. \A p : Rowed(p)' <=> Rowed(p)
      BY <2>3 DEF Rowed
    <3> QED
      BY <1>0, <1>3, <1>4, <1>5, <2>1, <2>3, <3>1 DEF ListInv
  <2>4. CASE cursor \in alive /\ Asked(cursor) /\ out' = Append(out, <<cursor, 0>>)
    <3> DEFINE e == <<cursor, 0>>
    <3>1. e \in Pids \X Nat /\ e[1] = cursor
      BY <1>5, <2>4
    <3>2. out' = Append(out, e)
      BY <2>4
    <3> HIDE DEF e
    <3>10. out' \in Seq(Pids \X Nat)
      BY <1>5, <3>1, <3>2
    <3>3. PICK q \in Nat : q = Len(out) /\ DOMAIN out = 1..q /\ DOMAIN out' = 1..(q + 1)
                           /\ out'[q + 1] = e /\ \A i \in 1..q : out'[i] = out[i]
      BY <1>5, <3>1, <3>2
    <3>4. /\ \A k \in DOMAIN out : k \in DOMAIN out' /\ out'[k] = out[k]
          /\ q + 1 \in DOMAIN out' /\ \A k \in DOMAIN out' : k \in DOMAIN out \/ k = q + 1
      BY <3>3
    <3>5. \A p : Rowed(p) => Rowed(p)'
      BY <3>4 DEF Rowed
    <3>6. Rowed(cursor)'
      BY <3>1, <3>3, <3>4, <2>1 DEF Rowed
    <3>7. nevents = 0 => \A k \in DOMAIN out' : out'[k][1] \in alive /\ Asked(out'[k][1])
      BY <2>4, <3>1, <3>3, <3>4 DEF ListInv
    <3>8. ~hidepid => \A p \in lasting : p < cursor /\ Asked(p) => Rowed(p)
      BY DEF ListInv
    <3>9. (nevents = 0 => \A k \in DOMAIN out : out[k][1] \in alive /\ Asked(out[k][1]))'
      BY <1>0, <1>4, <3>7
    <3> QED
      BY <1>0, <1>3, <1>4, <2>1, <3>5, <3>6, <3>8, <3>9, <3>10 DEF ListInv
  <2> QED
    BY <2>2, <2>3, <2>4
<1> QED
  BY <1>3, <1>6, <1>7

(* Some element of every line has no parent: the one with the fewest       *)
(* ancestors.                                                               *)
LEMMA LineTop ==
    ASSUME TypeOK, parent \in Links(Idx), NEW k \in Rooted
    PROVE  \E t \in Line(k) : parent[t] = NoIdx
<1> SUFFICES ASSUME \A t \in Line(k) : parent[t] # NoIdx PROVE FALSE
  OBVIOUS
<1>1. PICK top \in Nat : top = Len(tab) /\ Idx = 1..top /\ NoIdx = 0 /\ NoIdx \notin Idx
  BY IndexFacts
<1> DEFINE K == Up(k)
           B == {n \in Nat : n <= top => K[n] \in Line(k)}
<1>2. /\ K \in [0..top -> Idx \cup {NoIdx}] /\ K[0] = parent[k]
      /\ \A n \in 0..(top - 1) : K[n + 1] = IF K[n] = NoIdx THEN NoIdx ELSE parent[K[n]]
  BY <1>1, UpIs DEF Links, Rooted
<1>3. Ancestors(k) = {K[n] : n \in 0..top} \ {NoIdx}
  BY <1>1 DEF Ancestors
<1>4. K[top] = NoIdx
  BY <1>1 DEF Rooted, Endless
<1> HIDE DEF K
<1>5. Line(k) \subseteq Idx /\ k \in Line(k)
  BY LineFacts
<1>6. 0 \in B
  BY <1>2, <1>3, <1>5 DEF Line
<1>7. ASSUME NEW n \in Nat, n \in B PROVE n + 1 \in B
  <2> SUFFICES ASSUME n + 1 <= top PROVE K[n + 1] \in Line(k)
    OBVIOUS
  <2>1. n \in 0..(top - 1) /\ K[n] \in Line(k) /\ n + 1 \in 0..top
    BY <1>7
  <2>2. K[n + 1] = parent[K[n]] /\ parent[K[n]] # NoIdx
    BY <1>1, <1>2, <1>5, <2>1
  <2> QED
    BY <1>3, <2>1, <2>2 DEF Line
<1> HIDE DEF B
<1>8. \A n \in Nat : n \in B
  BY <1>6, <1>7, SetInduction
<1>9. K[top] \in Line(k)
  BY <1>8 DEF B
<1> QED
  BY <1>1, <1>4, <1>5, <1>9

(* MarkChildren() marks exactly the elements below the one where it was      *)
(* called.                                                                  *)
LEMMA MarksBelow ==
    ASSUME TypeOK, Linked, NEW i \in Rooted, NEW x \in Rooted
    PROVE  x \in MarkChildren(i) <=> i \in Line(x)
<1>1. PICK top \in Nat : top = Len(tab) /\ Idx = 1..top /\ NoIdx = 0 /\ NoIdx \notin Idx
  BY IndexFacts
<1>2. /\ parent \in Links(Idx) /\ child \in [Idx -> Idx \cup {NoIdx}] /\ sister \in [Idx -> Idx \cup {NoIdx}]
      /\ \A k \in Idx : IsNext(Kids(k), 0, child[k]) /\ IsNext(Sibs(k), k, sister[k])
  BY DEF Linked, LinkTypes, Links
<1>3. \A y \in MarkChildren(i) : y \in Idx /\ (y # i => parent[y] \in MarkChildren(i))
  BY MarkChildrenIs
<1>4. ASSUME x \in MarkChildren(i), i \notin Line(x) PROVE FALSE
  <2> DEFINE A == MarkChildren(i) \cap Line(x)
  <2>1. x \in A
    BY <1>4 DEF Line
  <2>2. ASSUME NEW y \in A \cap Rooted, parent[y] # NoIdx PROVE parent[y] \in A
    <3>1. y # i /\ parent[y] \in MarkChildren(i)
      BY <1>3, <1>4
    <3>2. Line(y) \subseteq Line(x)
      BY <1>2, LineWithin
    <3>3. parent[y] \in Line(y)
      <4>1. parent[y] \in Rooted /\ Ancestors(y) = Line(parent[y])
        BY <1>2, <2>2, LineFacts
      <4> QED
        BY <4>1 DEF Line
    <3> QED
      BY <3>1, <3>2, <3>3
  <2> HIDE DEF A
  <2>3. Line(x) \subseteq A
    BY <1>2, <2>1, <2>2, LineInduction
  <2>4. PICK t \in Line(x) : parent[t] = NoIdx
    BY <1>2, LineTop
  <2> QED
    BY <1>1, <1>3, <1>4, <2>3, <2>4 DEF A
<1>5. PICK mark : MarksBy(mark) /\ \A k \in Idx : MarkChildren(k) = {k} \cup mark[child[k]]
  BY MarksExist DEF Linked
<1>6. mark[NoIdx] = {} /\ \A k \in Idx : mark[k] = {k} \cup mark[child[k]] \cup mark[sister[k]]
  BY <1>5 DEF MarksBy
<1> DEFINE A == {k \in Rooted : (\A s \in Sibs(k) : s >= k => s \in mark[k]) /\ \A y \in mark[k] : Kids(y) \subseteq mark[k]}
<1>7. ASSUME NEW k \in Rooted, \A c \in Kids(k) : c \in A PROVE Kids(k) \subseteq mark[child[k]]
  <2>1. k \in Idx
    BY DEF Rooted
  <2> SUFFICES ASSUME NEW c \in Kids(k) PROVE c \in mark[child[k]]
    OBVIOUS
  <2>2. c \in Nat /\ c > 0 /\ Kids(k) \subseteq Nat
    BY <1>2, <2>1, SibFacts DEF Linked
  <2>3. child[k] \in Kids(k) /\ child[k] <= c
    BY <1>2, <2>1, <2>2 DEF IsNext
  <2>4. Sibs(child[k]) = Kids(k)
    BY <2>1, <2>3, SibFacts DEF Linked
  <2> QED
    BY <1>7, <2>2, <2>3, <2>4
<1>8. ASSUME NEW k \in Rooted, \A c \in Kids(k) : c \in A, \A s \in Sibs(k) : s > k => s \in A
      PROVE  k \in A
  <2>1. k \in Idx /\ mark[k] = {k} \cup mark[child[k]] \cup mark[sister[k]]
    BY <1>6 DEF Rooted
  <2>2. \A s \in Sibs(k) : s \in Nat /\ k \in Nat
    BY <2>1, SibFacts DEF Linked
  <2>3. Kids(k) \subseteq mark[child[k]] /\ (child[k] = NoIdx \/ child[k] \in A)
    <3>1. child[k] = NoIdx \/ child[k] \in Kids(k)
      BY <1>2, <2>1 DEF IsNext
    <3> HIDE DEF A
    <3> QED
      BY <1>7, <1>8, <3>1
  <2>4. sister[k] = NoIdx \/ (sister[k] \in A /\ sister[k] \in Sibs(k))
    <3>1. sister[k] = NoIdx \/ (sister[k] \in Sibs(k) /\ sister[k] > k)
      BY <1>2, <2>1 DEF IsNext
    <3> QED
      BY <1>8, <3>1
  <2>5. ASSUME NEW s \in Sibs(k), s >= k PROVE s \in mark[k]
    <3>1. CASE s = k
      BY <2>1, <3>1
    <3>2. CASE s # k
      <4>1. sister[k] # NoIdx /\ sister[k] <= s
        <5>1. s > k
          BY <2>2, <2>5, <3>2
        <5>2. IsNext(Sibs(k), k, sister[k]) /\ NoIdx \notin Sibs(k)
          BY <1>1, <1>2, <2>1, SibFacts DEF Linked
        <5> QED
          BY <2>2, <5>1, <5>2 DEF IsNext
      <4>2. Sibs(sister[k]) = Sibs(k)
        BY <2>1, <2>4, <4>1, SibFacts DEF Linked
      <4>3. s >= sister[k] 
        BY <2>2, <2>4, <4>1
      <4>4. s \in mark[sister[k]]
        BY <2>4, <4>1, <4>2, <4>3
      <4> QED
        BY <2>1, <4>4
    <3> QED
      BY <3>1, <3>2
  <2>6. ASSUME NEW y \in mark[k] PROVE Kids(y) \subseteq mark[k]
    <3>1. CASE y = k
      BY <2>1, <2>3, <3>1
    <3>2. CASE y \in mark[child[k]]
      BY <1>6, <2>1, <2>3, <3>2
    <3>3. CASE y \in mark[sister[k]]
      BY <1>6, <2>1, <2>4, <3>3
    <3> QED
      BY <2>1, <3>1, <3>2, <3>3
  <2> QED
    BY <2>5, <2>6
<1> HIDE DEF A
<1>9. Rooted \subseteq A
  BY <1>2, <1>8, TreeInduction
<1>10. \A y \in MarkChildren(i) : Kids(y) \subseteq MarkChildren(i)
  <2>1. i \in Idx /\ MarkChildren(i) = {i} \cup mark[child[i]] /\ \A c \in Kids(i) : c \in A
    <3>1. \A c \in Kids(i) : c \in Rooted
      BY <1>2, LineFacts
    <3> QED
      BY <1>5, <1>9, <3>1 DEF Rooted
  <2>2. Kids(i) \subseteq mark[child[i]] /\ (child[i] = NoIdx \/ child[i] \in A)
    <3>1. child[i] = NoIdx \/ child[i] \in Kids(i)
      BY <1>2, <2>1 DEF IsNext
    <3> QED
      BY <1>7, <2>1, <3>1
  <2> QED
    BY <1>6, <2>1, <2>2 DEF A
<1>11. ASSUME i \in Line(x), x \notin MarkChildren(i) PROVE FALSE
  <2> DEFINE B == {y \in Idx : y \notin MarkChildren(i)}
  <2>1. x \in B
    BY <1>11 DEF Rooted
  <2>2. ASSUME NEW y \in B \cap Rooted, parent[y] # NoIdx PROVE parent[y] \in B
    <3>1. parent[y] \in Idx /\ y \in Kids(parent[y])
      BY <1>2, <2>2 DEF Links, Kids
    <3> QED
      BY <1>10, <3>1
  <2> HIDE DEF B
  <2>3. Line(x) \subseteq B
    BY <1>2, <2>1, <2>2, LineInduction
  <2>4. i \in MarkChildren(i)
    BY DEF MarkChildren
  <2> QED
    BY <1>11, <2>3, <2>4 DEF B
<1> QED
  BY <1>4, <1>11

(* The elements that the options ask for, what the first of them mark, and   *)
(* that nothing else is marked, and without -H and -r nothing hidden.       *)
Wanted(j)      == opt.kind = "all" \/ Selected(j)
MarkedBy(m, i) == \E j \in Idx : j < m /\ Wanted(j) /\ (i \in Line(j) \/ j \in Line(i))

ExactInv ==
    prog = "part2" /\ input = "none" =>
        /\ pc = "mark" /\ opt.kind # "all" => \A i \in Rooted : print[i] <=> MarkedBy(me, i)
        /\ pc \in {"drop", "print", "done"} => \A i \in Rooted : print[i] <=> MarkedBy(Len(tab) + 1, i)
        /\ pc = "tree" \/ (pc \in {"mark", "drop", "print", "done"} /\ ~opt.H /\ ~opt.r) =>
             \A i \in Idx : ~hidden[i]

(* What the lines and the choice depend on.                                 *)
LEMMA SameLines ==
    ASSUME UNCHANGED <<tab, parent>>
    PROVE  /\ Idx' = Idx /\ Rooted' = Rooted /\ Len(tab)' = Len(tab) /\ \A k : Line(k)' = Line(k)
           /\ UNCHANGED opt => \A j : Wanted(j)' <=> Wanted(j)
<1>1. Idx' = Idx /\ Len(tab)' = Len(tab)
  BY DEF Idx
<1>2. \A k : Up(k)' = Up(k)
  BY DEF Up
<1>3. \A k : Line(k)' = Line(k) /\ (Endless(k)' <=> Endless(k))
  BY <1>1, <1>2 DEF Line, Ancestors, Endless
<1>4. Rooted' = Rooted
  BY <1>1, <1>3 DEF Rooted
<1>5. UNCHANGED opt => \A j : Wanted(j)' <=> Wanted(j)
  BY DEF Wanted, Selected
<1> QED
  BY <1>1, <1>3, <1>4, <1>5

(* At first nothing is marked or hidden.                                    *)
LEMMA ExactInit == Init => ExactInv
BY DEF Init, ExactInv

(* A step that leaves the tree alone leaves the marks exact.                *)
LEMMA SameExact ==
    ASSUME ExactInv, UNCHANGED <<prog, input, opt, pc, tab, me, parent, print, hidden>>
    PROVE  ExactInv'
<1>1. /\ Idx' = Idx /\ Rooted' = Rooted /\ Len(tab)' = Len(tab)
      /\ \A k : Line(k)' = Line(k) /\ (Wanted(k)' <=> Wanted(k))
  BY SameLines
<1>2. \A m, i : MarkedBy(m, i)' <=> MarkedBy(m, i)
  BY <1>1 DEF MarkedBy
<1> QED
  BY <1>1, <1>2 DEF ExactInv

(* An element that is wanted marks its line and what is below it, and the    *)
(* others mark nothing.                                                     *)
LEMMA ExactStep == ASSUME IInv, PlaceInv, ShapeInv, MarkInv, ExactInv, Program PROVE ExactInv'
<1>0. TypeOK /\ UNCHANGED <<prog, input>>
  BY Chosen DEF IInv
<1> SUFFICES ASSUME prog = "part2", input = "none" PROVE ExactInv'
  BY <1>0 DEF ExactInv
<1>1. PICK top \in Nat : top = Len(tab) /\ Idx = 1..top /\ NoIdx = 0 /\ NoIdx \notin Idx
  BY <1>0, IndexFacts
<1>2. me \in Nat /\ me > 0 /\ (me \in Idx <=> me <= top)
  BY <1>0, <1>1 DEF TypeOK
<1>3. CASE Glob \/ ReadStat \/ ReadCmdline
  BY <1>3 DEF Glob, ReadStat, ReadCmdline, Goto, ExactInv
<1>4. CASE ReadEnds
  <2>1. pc' = "tree" /\ UNCHANGED tab /\ hidden' = [i \in Idx |-> FALSE]
    BY <1>4 DEF ReadEnds, Goto, rvars
  <2> QED
    BY <2>1 DEF ExactInv, Idx
<1>5. CASE MakeTree
  <2>1. pc = "tree" /\ UNCHANGED <<tab, print, hidden>> /\ (pc' = "tree" \/ (pc' = "mark" /\ me' = 1))
    BY <1>5 DEF MakeTree, Loop, Goto, rvars, mvars
  <2>2. Idx' = Idx /\ Rooted' \subseteq Idx /\ \A i \in Idx : ~print'[i] /\ ~hidden'[i]
    BY <2>1 DEF Idx, MarkInv, ExactInv, Rooted
  <2>3. \A i : ~MarkedBy(1, i)'
    <3>1. \A j \in Idx' : ~(j < 1)
      BY <1>1, <2>2
    <3> QED
      BY <3>1 DEF MarkedBy
  <2>4. pc' = "mark" => \A i \in Rooted' : ~MarkedBy(me, i)'
    BY <2>1, <2>3 DEF MarkedBy
  <2> QED
    BY <2>1, <2>2, <2>4 DEF ExactInv
<1>6. CASE MarkProcs
  <2>1. pc = "mark" /\ UNCHANGED <<tab, parent, opt>> /\ Linked
    <3>1. pc = "mark" /\ UNCHANGED <<tab, parent, opt>>
      BY <1>6 DEF MarkProcs, MarkSelected, Loop, Goto, rvars, lvars
    <3> QED
      BY <3>1 DEF ShapeInv, TreeInv
  <2>2. /\ Idx' = Idx /\ Rooted' = Rooted /\ Rooted \subseteq Idx /\ Len(tab)' = top
        /\ \A k : Line(k)' = Line(k) /\ (Wanted(k)' <=> Wanted(k))
    BY <1>1, <2>1, SameLines DEF Rooted
  <2> DEFINE Hit(j, i) == Wanted(j) /\ (i \in Line(j) \/ j \in Line(i))
  <2>3. /\ \A i : MarkedBy(me, i)' <=> \E j \in Idx : j < me' /\ Hit(j, i)
        /\ \A i : MarkedBy(me, i) <=> \E j \in Idx : j < me /\ Hit(j, i)
        /\ \A i : MarkedBy(Len(tab) + 1, i)' <=> \E j \in Idx : Hit(j, i)
    <3>1. \A j \in Idx : j < top + 1
      BY <1>1
    <3> QED
      BY <2>2, <3>1 DEF MarkedBy
  <2>4. print \in [Idx -> BOOLEAN] /\ hidden \in [Idx -> BOOLEAN]
    BY <2>1 DEF ShapeInv, FlagInv, TreePcs
  <2>5. opt.kind # "all" => \A i \in Rooted : print[i] <=> MarkedBy(me, i)
    BY <2>1 DEF ExactInv
  <2>6. ~opt.H /\ ~opt.r => \A i \in Idx : ~hidden[i]
    BY <2>1 DEF ExactInv
  <2>7. \A i \in Rooted : i \in Line(i)
    BY DEF Line
  <2> HIDE DEF Hit
  <2>8. CASE me \in Idx /\ opt.kind # "all" /\ Selected(me)
    <3>1. MarkSelected
      BY <1>6, <2>8 DEF MarkProcs
    <3>2. CASE Endless(me)
      <4>1. pc' = "loops"
        BY <3>1, <3>2 DEF MarkSelected
      <4> QED
        BY <4>1 DEF ExactInv
    <3>3. CASE ~Endless(me)
      <4>1. /\ pc' = "mark" /\ me' = me + 1
            /\ print' = [i \in Idx |-> print[i] \/ i \in Ancestors(me) \cup MarkChildren(me)]
            /\ hidden' = [i \in Idx |-> hidden[i] \/ (opt.H /\ i \in Ancestors(me))]
        BY <2>1, <3>1, <3>3 DEF MarkSelected
      <4>2. me \in Rooted
        BY <2>8, <3>3 DEF Rooted
      <4>3. \A i \in Rooted : i \in Ancestors(me) \cup MarkChildren(me) <=> Hit(me, i)
        <5>1. \A i \in Rooted : i \in MarkChildren(me) <=> me \in Line(i)
          BY <1>0, <2>1, <4>2, MarksBelow
        <5>2. Wanted(me) /\ me \in Line(me)
          BY <2>8 DEF Wanted, Line
        <5>3. \A i : i \in Line(me) <=> i \in Ancestors(me) \/ i = me
          BY DEF Line
        <5> QED
          BY <5>1, <5>2, <5>3 DEF Hit
      <4>4. \A i \in Rooted : print'[i] <=> print[i] \/ Hit(me, i)
        BY <2>2, <4>1, <4>3
      <4>5. \A j \in Idx : j < me + 1 <=> j < me \/ j = me
        BY <1>1, <1>2
      <4>6. \A i : MarkedBy(me, i)' <=> MarkedBy(me, i) \/ Hit(me, i)
        BY <2>3, <2>8, <4>1, <4>5
      <4>7. \A i \in Rooted : print'[i] <=> MarkedBy(me, i)'
        BY <2>5, <2>8, <4>4, <4>6
      <4>8. ~opt.H /\ ~opt.r => \A i \in Idx : ~hidden'[i]
        BY <2>6, <4>1
      <4> QED
        BY <2>1, <2>2, <4>1, <4>7, <4>8 DEF ExactInv
    <3> QED
      BY <3>2, <3>3
  <2>9. CASE ~(me \in Idx /\ opt.kind # "all" /\ Selected(me))
    <3>1. /\ IF me <= top THEN pc' = "mark" /\ me' = me + 1 ELSE pc' = "drop" /\ me' = 1
          /\ print' = IF me \in Idx /\ opt.kind = "all" THEN [print EXCEPT ![me] = TRUE] ELSE print
          /\ hidden' = hidden
      BY <1>1, <1>6, <2>1, <2>9 DEF MarkProcs, Loop, Goto
    <3>2. ~opt.H /\ ~opt.r => \A i \in Idx : ~hidden'[i]
      BY <2>6, <3>1
    <3>3. CASE opt.kind = "all" /\ me <= top
      BY <2>1, <2>2, <3>1, <3>2, <3>3 DEF ExactInv
    <3>4. CASE opt.kind = "all" /\ ~(me <= top)
      <4>1. \A i \in Rooted : print'[i]
        <5>1. \A i \in Idx : i < me
          BY <1>1, <1>2, <3>4
        <5>2. \A i \in Idx : print[i]
          BY <2>1, <3>4, <5>1 DEF MarkInv
        <5> QED
          BY <1>2, <2>2, <3>1, <3>4, <5>2
      <4>2. \A i \in Rooted : Hit(i, i)
        BY <2>7, <3>4 DEF Hit, Wanted
      <4>3. \A i \in Rooted : MarkedBy(Len(tab) + 1, i)'
        BY <2>2, <2>3, <4>2
      <4> QED
        BY <2>1, <2>2, <3>1, <3>2, <3>4, <4>1, <4>3 DEF ExactInv
    <3>5. CASE opt.kind # "all" /\ me <= top
      <4>1. pc' = "mark" /\ print' = print /\ me' = me + 1
        BY <3>1, <3>5
      <4>2. \A i : ~Hit(me, i)
        BY <1>2, <2>9, <3>5 DEF Hit, Wanted
      <4>3. \A j \in Idx : j < me + 1 <=> j < me \/ j = me
        BY <1>1, <1>2
      <4>4. \A i : MarkedBy(me, i)' <=> MarkedBy(me, i)
        BY <2>3, <4>1, <4>2, <4>3
      <4> QED
        BY <2>1, <2>2, <2>5, <3>2, <3>5, <4>1, <4>4 DEF ExactInv
    <3>6. CASE opt.kind # "all" /\ ~(me <= top)
      <4>1. pc' = "drop" /\ print' = print
        BY <3>1, <3>6
      <4>2. \A j \in Idx : j < me
        BY <1>1, <1>2, <3>6
      <4>3. \A i : MarkedBy(Len(tab) + 1, i)' <=> MarkedBy(me, i)
        BY <2>3, <4>2
      <4> QED
        BY <2>1, <2>2, <2>5, <3>2, <3>6, <4>1, <4>3 DEF ExactInv
    <3> QED
      BY <3>3, <3>4, <3>5, <3>6
  <2> QED
    BY <2>8, <2>9
<1>7. CASE DropProcs
  <2>1. /\ pc = "drop" /\ UNCHANGED <<opt, tab, parent, print>> /\ pc' \in {"drop", "print"}
        /\ hidden' = IF me \in Idx /\ print[me] THEN [hidden EXCEPT ![me] = @ \/ (opt.r /\ tab[me].pid = 1)] ELSE hidden
    BY <1>7 DEF DropProcs, Loop, Goto, rvars
  <2>2. /\ Idx' = Idx /\ Rooted' = Rooted
        /\ \A k : Line(k)' = Line(k) /\ (Wanted(k)' <=> Wanted(k))
    BY <2>1, SameLines
  <2>3. \A i : MarkedBy(Len(tab) + 1, i)' <=> MarkedBy(Len(tab) + 1, i)
    BY <2>1, <2>2 DEF MarkedBy
  <2>4. hidden \in [Idx -> BOOLEAN]
    BY <2>1 DEF ShapeInv, FlagInv, TreePcs
  <2>5. ~opt.H /\ ~opt.r => \A i \in Idx : ~hidden'[i]
    BY <2>1, <2>4 DEF ExactInv
  <2> QED
    BY <2>1, <2>2, <2>3, <2>5 DEF ExactInv
<1>8. CASE PrintAll
  <2>1. pc = "print" /\ pc' \in {"done", "crash"} /\ UNCHANGED <<opt, tab, parent, print, hidden>>
    BY <1>8 DEF PrintAll, Goto, rvars, lvars, mvars
  <2>2. /\ Idx' = Idx /\ Rooted' = Rooted
        /\ \A k : Line(k)' = Line(k) /\ (Wanted(k)' <=> Wanted(k))
    BY <2>1, SameLines
  <2>3. \A i : MarkedBy(Len(tab) + 1, i)' <=> MarkedBy(Len(tab) + 1, i)
    BY <2>1, <2>2 DEF MarkedBy
  <2> QED
    BY <2>1, <2>2, <2>3 DEF ExactInv
<1>9. CASE GetProcesses \/ ReadDir \/ show_name_id \/ show_fd_link
  <2>1. pc \in {"input", "list", "show"}
    BY <1>9 DEF GetProcesses, ReadDir, show_name_id, show_fd_link, Goto
  <2> QED
    BY <2>1 DEF PlaceInv, TreePcs
<1> QED
  BY <1>3, <1>4, <1>5, <1>6, <1>7, <1>8, <1>9 DEF Program

(***************************************************************************)
(* The processes in the table.                                             *)
(***************************************************************************)
(* The descent of a process holds it and, with a process, its parent, and    *)
(* it is the least set that does.                                           *)
Descent(p) == Elders(p) \cup {p}

LEMMA DescentIs ==
    ASSUME TypeOK, FamilyInv, NEW p \in alive
    PROVE  /\ p \in Descent(p) /\ Descent(p) \subseteq alive
           /\ \A q \in Descent(p) : ppid[q] \in Descent(p) \cup {NoPid}
           /\ \A S \in SUBSET alive :
                p \in S /\ (\A s \in S : ppid[s] \in S \cup {NoPid}) => Descent(p) \subseteq S
<1>1. \A q \in alive : ppid[q] \in alive \cup {NoPid}
  BY DEF FamilyInv
<1>2. Elders(p) \subseteq alive
  BY DEF Elders
<1>3. ASSUME NEW q \in Descent(p) PROVE ppid[q] \in Descent(p) \cup {NoPid}
  <2>1. q \in alive
    BY <1>2 DEF Descent
  <2> SUFFICES ASSUME ppid[q] # NoPid, NEW S \in SUBSET alive, \A s \in S \cup {p} : ppid[s] \in S \cup {NoPid}
               PROVE  ppid[q] \in S
    BY <1>1, <2>1 DEF Descent, Elders
  <2>2. q \in S \cup {p}
    BY DEF Descent, Elders
  <2> QED
    BY <2>2
<1>4. ASSUME NEW S \in SUBSET alive, p \in S, \A s \in S : ppid[s] \in S \cup {NoPid} PROVE Descent(p) \subseteq S
  <2>1. S \cup {p} = S
    BY <1>4
  <2> QED
    BY <1>4, <2>1 DEF Descent, Elders
<1> QED
  BY <1>2, <1>3, <1>4 DEF Descent

(* The table of pstree when it is done, links included.                     *)
TableDone ==
    /\ TypeOK /\ FamilyInv /\ OnePid /\ parent \in Links(Idx)
    /\ \A i \in Idx : parent[i] = ParentOf(i)
    /\ \A i \in Idx : tab[i].pid = 1 => parent[i] = NoIdx
    /\ \A q \in lasting : get_pid_index(q) \in Idx
    /\ \A i \in Idx : Held(tab[i])

(* Where the descent of a process is there all the time, its line in the     *)
(* table is that descent.                                                   *)
LEMMA SteadyLine ==
    ASSUME TableDone, NEW p \in alive, Descent(p) \subseteq Steady
    PROVE  LET i == get_pid_index(p) IN
           /\ i \in Rooted /\ tab[i].pid = p /\ (get_pid_index(1) \in Line(i) <=> 1 \in Descent(p))
           /\ Line(i) = {get_pid_index(q) : q \in Descent(p)}
<1> DEFINE D == Descent(p)
           C == {get_pid_index(q) : q \in D}
           i == get_pid_index(p)
<1>1. PICK top \in Nat : top = Len(tab) /\ Idx = 1..top /\ NoIdx = 0 /\ NoIdx \notin Idx
  BY IndexFacts DEF TableDone
<1>2. /\ TypeOK /\ FamilyInv /\ OnePid /\ parent \in Links(Idx)
      /\ \A j \in Idx : parent[j] = ParentOf(j)
      /\ \A q \in lasting : get_pid_index(q) \in Idx
      /\ \A j \in Idx : Held(tab[j])
  BY DEF TableDone
<1>3. /\ p \in D /\ D \subseteq alive /\ \A q \in D : ppid[q] \in D \cup {NoPid}
      /\ \A S \in SUBSET alive : p \in S /\ (\A s \in S : ppid[s] \in S \cup {NoPid}) => D \subseteq S
  BY <1>2, DescentIs
<1>4. D \subseteq Steady /\ D \subseteq lasting /\ alive \subseteq Pids
  BY <1>2 DEF TypeOK, Steady
<1> HIDE DEF D
<1>12. get_pid_index(NoPid) = NoIdx
  <2>1. \A j \in Idx : tab[j].pid # NoPid
    BY <1>2, OwnIndex, PidFacts
  <2> QED
    BY <1>2, <2>1, IndexFound
<1>5. ASSUME NEW q \in D
      PROVE  /\ get_pid_index(q) \in C /\ get_pid_index(q) \in Idx /\ tab[get_pid_index(q)].pid = q
             /\ ppid[q] = NoPid => parent[get_pid_index(q)] = NoIdx
             /\ ppid[q] # NoPid => /\ ppid[q] \in D /\ parent[get_pid_index(q)] = get_pid_index(ppid[q])
                         /\ born[ppid[q]] < born[q]
  <2> DEFINE j == get_pid_index(q)
  <2>1. j \in Idx /\ tab[j].pid = q
    <3>1. j \in Idx
      BY <1>2, <1>4
    <3> QED
      BY <1>1, <1>2, <3>1, IndexFound
  <2>2. tab[j].ppid = ppid[q]
    BY <1>2, <1>4, <2>1 DEF Held
  <2>3. CASE ppid[q] = NoPid
    BY <1>2, <1>12, <2>1, <2>2, <2>3 DEF ParentOf
  <2>4. CASE ppid[q] # NoPid
    <3>1. ppid[q] \in D /\ born[ppid[q]] < born[q] /\ q \in Pids
      BY <1>2, <1>3, <1>4, <2>4 DEF FamilyInv
    <3>2. ppid[q] # q
      <4>1. born[q] \in Nat
        BY <1>2, <3>1, KernelTypes
      <4> QED
        BY <3>1, <4>1
    <3>3. get_pid_index(ppid[q]) \in Idx /\ tab[get_pid_index(ppid[q])].pid = ppid[q]
      <4>1. get_pid_index(ppid[q]) \in Idx
        BY <1>2, <1>4, <3>1
      <4> QED
        BY <1>1, <1>2, <4>1, IndexFound
    <3>4. parent[j] = get_pid_index(ppid[q])
      <4>1. get_pid_index(ppid[q]) # j
        BY <2>1, <3>2, <3>3
      <4> QED
        BY <1>2, <2>1, <2>2, <4>1 DEF ParentOf
    <3> QED
      BY <2>1, <2>4, <3>1, <3>4
  <2> QED
    BY <2>1, <2>3, <2>4
<1>6. C \subseteq Idx /\ i \in C /\ tab[i].pid = p
  BY <1>3, <1>5
<1>7. ASSUME NEW j \in C, parent[j] # NoIdx
      PROVE  parent[j] \in C /\ born[tab[parent[j]].pid] < born[tab[j].pid]
  <2>1. PICK q \in D : j = get_pid_index(q)
    OBVIOUS
  <2>2. ppid[q] \in D /\ parent[j] = get_pid_index(ppid[q]) /\ born[ppid[q]] < born[q] /\ tab[j].pid = q
    BY <1>5, <1>7, <2>1
  <2>3. parent[j] \in C /\ tab[parent[j]].pid = ppid[q]
    BY <1>5, <2>2
  <2> QED
    BY <2>2, <2>3
<1> HIDE DEF C
<1>8. i \in Rooted
  <2>1. parent \in [Idx -> Idx \cup {NoIdx}]
    BY <1>2 DEF Links
  <2> HIDE DEF i
  <2>2. ~Endless(i)
    BY <1>2, <1>6, <1>7, <2>1, ChainEnds
  <2> QED
    BY <1>6, <2>2 DEF Rooted
<1> HIDE DEF i
<1>9. Line(i) \subseteq C
  BY <1>2, <1>6, <1>7, <1>8, LineInduction
<1>11. C \subseteq Line(i)
  <2> DEFINE S == {s \in D : get_pid_index(s) \in Line(i)}
  <2>1. S \in SUBSET alive /\ p \in S
    <3>1. i \in Line(i)
      BY DEF Line
    <3> QED
      BY <1>3, <3>1 DEF i
  <2>2. ASSUME NEW s \in S, ppid[s] # NoPid PROVE ppid[s] \in S
    <3>1. s \in D /\ get_pid_index(s) \in Line(i)
      OBVIOUS
    <3>2. ppid[s] \in D /\ parent[get_pid_index(s)] = get_pid_index(ppid[s]) /\ get_pid_index(ppid[s]) \in Idx
      BY <1>5, <2>2, <3>1
    <3> DEFINE j == get_pid_index(s)
    <3>3. j \in Rooted /\ Line(j) \subseteq Line(i)
      BY <1>2, <1>8, <3>1, LineWithin
    <3> HIDE DEF j
    <3>4. parent[j] # NoIdx => parent[j] \in Line(j)
      <4>1. parent[j] # NoIdx => Ancestors(j) = Line(parent[j])
        BY <1>2, <3>3, LineFacts
      <4> QED
        BY <4>1 DEF Line
    <3>5. parent[j] # NoIdx
      BY <1>1, <3>2 DEF j
    <3> QED
      BY <3>2, <3>3, <3>4, <3>5 DEF j
  <2>3. D \subseteq S
    <3> HIDE DEF S
    <3> QED
      BY <1>3, <2>1, <2>2
  <2> QED
    BY <2>3 DEF C
<1>10. get_pid_index(1) \in C <=> 1 \in D
  <2>1. ASSUME get_pid_index(1) \in C PROVE 1 \in D
    <3>1. PICK q \in D : get_pid_index(1) = get_pid_index(q)
      BY <2>1 DEF C
    <3>2. tab[get_pid_index(1)].pid = q /\ get_pid_index(1) \in Idx
      BY <1>5, <3>1
    <3>3. tab[get_pid_index(1)].pid = 1
      BY <1>1, <1>2, <3>2, IndexFound
    <3> QED
      BY <3>2, <3>3
  <2> QED
    BY <2>1 DEF C
<1> QED
  BY <1>6, <1>8, <1>9, <1>10, <1>11 DEF C, D, i

(* The inductive invariant of what is printed.                              *)
OutIInv == TreeIInv /\ LastInv /\ ReadInv /\ ListInv /\ ExactInv

Rows == {out[k][1] : k \in DOMAIN out}

(* pstree is done, with options that hide nothing and a true entry of        *)
(* process 1.                                                               *)
PlainDone == pc = "done" /\ prog = "part2" /\ ~hidepid /\ 1 \notin spaced /\ Plain(opt)

(* Then the table has all that is there all the time, process 1 first.      *)
LEMMA TableTrue ==
    ASSUME OutIInv, PlainDone
    PROVE  TableDone /\ input = "none" /\ get_pid_index(1) \in Idx /\ GetRootPid = 1
<1>1. TypeOK /\ FamilyInv /\ input = "none" /\ opt.start = <<>>
  BY DEF OutIInv, TreeIInv, IInv, DashInv, PlainDone, Plain
<1>2. PICK top \in Nat : top = Len(tab) /\ Idx = 1..top /\ NoIdx = 0 /\ NoIdx \notin Idx
  BY <1>1, IndexFacts
<1>3. Dropped(Len(tab) + 1) /\ \A i \in Idx : parent[i] = ParentOf(i)
  BY <1>1 DEF OutIInv, TreeIInv, ShapeInv, TreeInv, PlainDone
<1>4. parent \in Links(Idx)
  BY <1>3 DEF Dropped, LinkTypes
<1>5. OnePid /\ \A i \in Idx : tab[i].pid = 1 => tab[i].ppid = NoPid
  BY DEF OutIInv, TreeIInv, ShapeInv, UniqueInv, OnePid, PlainDone
<1>6. \A i \in Idx : tab[i].pid \in Pids
  BY <1>1, <1>5, OwnIndex
<1>7. \A i \in Idx : tab[i].pid = 1 => parent[i] = NoIdx
  <2> SUFFICES ASSUME NEW i \in Idx, tab[i].pid = 1 PROVE get_pid_index(NoPid) = NoIdx
    BY <1>3, <1>5 DEF ParentOf
  <2>1. \A j \in Idx : tab[j].pid # NoPid
    BY <1>6, PidFacts
  <2> QED
    BY <1>1, <2>1, IndexFound
<1>8. /\ \A p \in lasting : Kept(p)
      /\ names = {} /\ \A i \in Idx : Held(tab[i])
  BY <1>1 DEF OutIInv, ReadInv, PlainDone
<1>9. \A p \in lasting : get_pid_index(p) \in Idx
  <2> SUFFICES ASSUME NEW p \in lasting PROVE get_pid_index(p) \in Idx
    OBVIOUS
  <2>1. PICK i \in Idx : tab[i].pid = p
    BY <1>8 DEF Kept, PlainDone
  <2> QED
    BY <1>1, <1>5, <2>1, OwnIndex
<1>10. 1 \in lasting
  BY DEF OutIInv, LastInv
<1>11. HasFirst
  BY <1>8, <1>10 DEF Kept, PlainDone, HasFirst
<1> QED
  BY <1>1, <1>3, <1>4, <1>5, <1>7, <1>8, <1>9, <1>10, <1>11, RootFound DEF TableDone

(* The processes that are wanted are those that are asked for.              *)
LEMMA WantedIs ==
    ASSUME TypeOK, PlainDone, NEW i
    PROVE  Wanted(i) <=> Asked(tab[i].pid)
<1>1. opt.kind \in {"all", "u", "U", "s", "p"} /\ (opt.kind = "u" => opt.arg \notin LongNames)
  <2>1. opt \in Options \cup {Default}
    BY DEF TypeOK
  <2>2. Options \subseteq OptionRecords
    BY ProcAssumption
  <2> QED
    BY <2>1, <2>2 DEF OptionRecords, Default, PlainDone, Plain
<1>2. prog = "part2"
  BY DEF PlainDone
<1>3. CASE opt.kind = "all"
  BY <1>2, <1>3 DEF Wanted, Asked
<1>4. CASE opt.kind = "u"
  BY <1>1, <1>2, <1>4 DEF Wanted, Selected, Asked
<1>5. CASE opt.kind = "U"
  BY <1>2, <1>5 DEF Wanted, Selected, Asked
<1>6. CASE opt.kind = "s"
  BY <1>2, <1>6 DEF Wanted, Selected, Asked
<1>7. CASE opt.kind = "p"
  BY <1>2, <1>7 DEF Wanted, Selected, Asked
<1> QED
  BY <1>1, <1>3, <1>4, <1>5, <1>6, <1>7

(* The rows are of the elements below process 1 that are in line with one    *)
(* that is wanted.                                                          *)
LEMMA RowsAreMarked ==
    ASSUME OutIInv, PlainDone
    PROVE  /\ \A i \in Rooted : get_pid_index(1) \in Line(i) => (tab[i].pid \in Rows <=> MarkedBy(Len(tab) + 1, i))
           /\ \A p \in Rows : \E i \in Rooted : tab[i].pid = p /\ get_pid_index(1) \in Line(i)
<1> DEFINE root == get_pid_index(1)
<1>1. TableDone /\ input = "none" /\ root \in Idx /\ GetRootPid = 1
  BY TableTrue
<1>2. TypeOK /\ OnePid /\ parent \in Links(Idx) /\ TreeIInv
  BY <1>1 DEF TableDone, OutIInv
<1>3. PICK top \in Nat : top = Len(tab) /\ Idx = 1..top /\ NoIdx = 0 /\ NoIdx \notin Idx
  BY <1>2, IndexFacts
<1>4. RowsAre(out, Top(root), 0, {})
  BY <1>1, <1>2, RowsDone DEF PlainDone, Plain
<1>5. /\ \A i \in Idx : ~hidden[i]
      /\ \A i \in Rooted : print[i] <=> MarkedBy(Len(tab) + 1, i)
  BY <1>1 DEF OutIInv, ExactInv, PlainDone, Plain
<1>6. PrintedUp
  BY <1>1, <1>2 DEF TreeIInv, MarkInv, PlainDone
<1> HIDE DEF root
<1>7. ASSUME NEW i \in Rooted PROVE Shown(i) /\ Deep(i) < opt.level
  <2>1. IsFiniteSet(Pids) /\ Cardinality(Pids) \in Nat
    BY ProcAssumption, FS_Interval, FS_CardinalityType DEF Pids
  <2>2. Ancestors(i) \subseteq Idx /\ i \in Idx
    BY <1>2, LineFacts
  <2> DEFINE g == [j \in Ancestors(i) |-> tab[j].pid]
  <2>3. \A j \in Ancestors(i) : tab[j].pid \in Pids
    BY <1>2, <2>2, OwnIndex
  <2>4. g \in Injection(Ancestors(i), Pids)
    BY <1>2, <2>2, <2>3 DEF Injection, IsInjective, OnePid
  <2> HIDE DEF g
  <2>5. Deep(i) <= Cardinality(Pids)
    BY <2>1, <2>4, FS_Injection DEF Deep
  <2>6. Deep(i) \in Nat
    BY <1>2, DeepIs
  <2>7. opt.level > Cardinality(Pids) /\ opt.level \in Nat
    <3>1. opt \in Options \cup {Default} /\ Options \subseteq OptionRecords
      BY <1>2, ProcAssumption DEF TypeOK
    <3> QED
      BY <3>1 DEF OptionRecords, Default, PlainDone, Plain
  <2> QED
    BY <1>5, <2>1, <2>2, <2>5, <2>6, <2>7 DEF Shown
<1>8. Top(root) = {i \in Rooted : print[i] /\ root \in Line(i)}
  <2>1. \A i \in Rooted : print[i] /\ root \in Line(i) => print[root]
    BY <1>2, <1>6, LinePrinted
  <2> QED
    BY <1>7, <2>1 DEF Top, Seen
<1>9. out \in Seq(Pids \X Nat) /\ DOMAIN out = 1..Len(out) /\ Top(root) = {Element(out, q) : q \in 1..Len(out)}
  BY <1>4 DEF RowsAre
<1>10. ASSUME NEW k \in DOMAIN out PROVE Element(out, k) \in Top(root) /\ tab[Element(out, k)].pid = out[k][1]
  <2>1. Element(out, k) \in Top(root)
    BY <1>9
  <2>2. Element(out, k) \in Idx
    BY <1>8, <2>1 DEF Rooted
  <2> QED
    BY <1>2, <1>3, <2>1, <2>2, IndexFound DEF Element
<1>11. ASSUME NEW p \in Rows PROVE \E i \in Top(root) : tab[i].pid = p
  BY <1>10 DEF Rows
<1>12. ASSUME NEW i \in Top(root) PROVE tab[i].pid \in Rows
  <2>1. PICK k \in DOMAIN out : i = Element(out, k)
    BY <1>9
  <2> QED
    BY <1>10, <2>1 DEF Rows
<1>13. ASSUME NEW i \in Rooted, root \in Line(i) PROVE tab[i].pid \in Rows <=> MarkedBy(Len(tab) + 1, i)
  <2>1. ASSUME tab[i].pid \in Rows PROVE i \in Top(root)
    <3>1. PICK j \in Top(root) : tab[j].pid = tab[i].pid
      BY <1>11, <2>1
    <3>2. i = j
      BY <1>2, <1>8, <3>1 DEF OnePid, Rooted
    <3> QED
      BY <3>1, <3>2
  <2>2. i \in Top(root) <=> print[i]
    BY <1>8, <1>13
  <2> QED
    BY <1>5, <1>12, <2>1, <2>2
<1> QED
  BY <1>8, <1>11, <1>13 DEF root

(* pstree, done and with options that hide nothing, has printed the truth.   *)
LEMMA TreeIsTrue ==
    ASSUME OutIInv, PlainDone
    PROVE  /\ \A p \in alive : Asked(p) /\ 1 \in Descent(p) /\ Descent(p) \subseteq Steady => Descent(p) \subseteq Rows
           /\ nevents = 0 /\ spaced = {} =>
                Rows = {p \in alive : 1 \in Descent(p)
                                      /\ \E q \in alive : Asked(q) /\ (p \in Descent(q) \/ q \in Descent(p))}
<1> DEFINE root == get_pid_index(1)
           In(p, q) == get_pid_index(p) \in Line(get_pid_index(q))
<1>1. TableDone /\ TypeOK /\ FamilyInv /\ OnePid /\ parent \in Links(Idx) /\ root \in Idx /\ input = "none"
  BY TableTrue DEF TableDone
<1>2. PICK top \in Nat : top = Len(tab) /\ Idx = 1..top /\ NoIdx = 0 /\ NoIdx \notin Idx
  BY <1>1, IndexFacts
<1>3. parent[root] = NoIdx
  <2>1. tab[root].pid = 1
    BY <1>1, <1>2, IndexFound
  <2> QED
    BY <1>1, <2>1 DEF TableDone
<1>4. ASSUME NEW p \in alive, Descent(p) \subseteq Steady
      PROVE  /\ get_pid_index(p) \in Rooted /\ tab[get_pid_index(p)].pid = p
             /\ root \in Line(get_pid_index(p)) <=> 1 \in Descent(p)
             /\ Line(get_pid_index(p)) = {get_pid_index(q) : q \in Descent(p)}
  BY <1>1, <1>4, SteadyLine
<1>5. \A p \in alive : p \in Descent(p) /\ Descent(p) \subseteq alive
  BY <1>1, DescentIs
<1>6. \A i : MarkedBy(Len(tab) + 1, i) <=> \E j \in Idx : Wanted(j) /\ (i \in Line(j) \/ j \in Line(i))
  <2>1. \A j \in Idx : j < Len(tab) + 1
    BY <1>2
  <2> QED
    BY <2>1 DEF MarkedBy
<1>7. \A i : Wanted(i) <=> Asked(tab[i].pid)
  BY <1>1, WantedIs
<1>8. \A i \in Rooted : root \in Line(i) => (tab[i].pid \in Rows <=> MarkedBy(Len(tab) + 1, i))
  BY RowsAreMarked
<1>9. ASSUME NEW p \in alive, Asked(p), 1 \in Descent(p), Descent(p) \subseteq Steady, NEW q \in Descent(p)
      PROVE  q \in Rows
  <2> DEFINE i == get_pid_index(p)
             j == get_pid_index(q)
  <2>1. i \in Rooted /\ tab[i].pid = p /\ root \in Line(i) /\ j \in Line(i)
    BY <1>4, <1>9
  <2>2. j \in Rooted /\ root \in Line(j) /\ i \in Idx
    <3>1. i \in Idx
      BY <2>1 DEF Rooted
    <3>2. \A k \in Line(i) : root \in Line(k)
      <4> HIDE DEF root, i, j
      <4> QED
        BY <1>1, <1>3, <2>1, <3>1, BelowRoot
    <3>3. j \in Rooted
      <4> HIDE DEF root, i, j
      <4> QED
        BY <1>1, <2>1, LineWithin
    <3> QED
      BY <2>1, <3>1, <3>2, <3>3
  <2>3. tab[j].pid = q
    BY <1>1, <1>2, <2>2, IndexFound DEF Rooted
  <2>4. MarkedBy(Len(tab) + 1, j)
    BY <1>6, <1>7, <1>9, <2>1, <2>2
  <2> HIDE DEF root, i, j
  <2> QED
    BY <1>8, <2>2, <2>3, <2>4
<1>10. ASSUME nevents = 0, spaced = {}
       PROVE  Rows = {p \in alive : 1 \in Descent(p)
                                    /\ \E q \in alive : Asked(q) /\ (p \in Descent(q) \/ q \in Descent(p))}
  <2>1. Steady = alive
    BY <1>10 DEF OutIInv, LastInv, Steady
  <2>2. \A p \in alive : /\ get_pid_index(p) \in Rooted /\ tab[get_pid_index(p)].pid = p
                         /\ root \in Line(get_pid_index(p)) <=> 1 \in Descent(p)
                         /\ Line(get_pid_index(p)) = {get_pid_index(q) : q \in Descent(p)}
    BY <1>4, <1>5, <2>1
  <2>3. \A j \in Idx : tab[j].pid \in alive /\ get_pid_index(tab[j].pid) = j
    BY <1>1, <1>10, OwnIndex DEF TableDone, Held
  <2>4. \A p, q \in alive : In(p, q) <=> p \in Descent(q)
    <3> SUFFICES ASSUME NEW p \in alive, NEW q \in alive PROVE In(p, q) <=> p \in Descent(q)
      OBVIOUS
    <3>1. \A r \in Descent(q) : r \in alive /\ tab[get_pid_index(r)].pid = r
      BY <1>5, <2>2
    <3> QED
      BY <2>2, <3>1
  <2>5. ASSUME NEW p \in alive
        PROVE  p \in Rows <=> 1 \in Descent(p) /\ \E q \in alive : Asked(q) /\ (p \in Descent(q) \/ q \in Descent(p))
    <3>1. p \in Rows <=> 1 \in Descent(p) /\ MarkedBy(Len(tab) + 1, get_pid_index(p))
      <4>1. ASSUME p \in Rows PROVE 1 \in Descent(p)
        <5>1. PICK i \in Rooted : tab[i].pid = p /\ root \in Line(i)
          BY <4>1, RowsAreMarked
        <5>2. get_pid_index(p) = i
          BY <2>3, <5>1 DEF Rooted
        <5> QED
          BY <2>2, <5>1, <5>2
      <4>2. ASSUME 1 \in Descent(p) PROVE p \in Rows <=> MarkedBy(Len(tab) + 1, get_pid_index(p))
        BY <1>8, <2>2, <4>2
      <4> QED
        BY <4>1, <4>2
    <3>2. MarkedBy(Len(tab) + 1, get_pid_index(p)) <=>
            \E j \in Idx : Asked(tab[j].pid) /\ (get_pid_index(p) \in Line(j) \/ j \in Line(get_pid_index(p)))
      BY <1>6, <1>7
    <3>3. (\E j \in Idx : Asked(tab[j].pid) /\ (get_pid_index(p) \in Line(j) \/ j \in Line(get_pid_index(p))))
            <=> \E q \in alive : Asked(q) /\ (In(p, q) \/ In(q, p))
      <4>1. \A q \in alive : get_pid_index(q) \in Idx /\ tab[get_pid_index(q)].pid = q
        BY <2>2 DEF Rooted
      <4> QED
        BY <2>3, <4>1
    <3> HIDE DEF In
    <3> QED
      BY <2>4, <3>1, <3>2, <3>3
  <2>6. Rows \subseteq alive
    <3> SUFFICES ASSUME NEW p \in Rows PROVE p \in alive
      OBVIOUS
    <3>1. \E i \in Rooted : tab[i].pid = p
      BY RowsAreMarked
    <3> QED
      BY <2>3, <3>1 DEF Rooted
  <2> QED
    BY <2>5, <2>6
<1> QED
  BY <1>9, <1>10

(* The lists of part1 and part3 are true.                                   *)
LEMMA ListIsTrue ==
    ASSUME OutIInv, pc = "done", prog # "part2", ~hidepid
    PROVE  /\ \A p \in lasting : Asked(p) => p \in Rows
           /\ nevents = 0 => Rows = {p \in alive : Asked(p)}
<1>1. lasting \subseteq alive /\ alive \subseteq Pids /\ Pids \subseteq Nat /\ cursor \in Nat
  <2>1. lasting \subseteq alive /\ alive \subseteq Pids /\ cursor \in Procs
    BY DEF OutIInv, TreeIInv, IInv, TypeOK
  <2> QED
    BY <2>1, PidFacts DEF Procs, NoPid
<1>2. \A p \in lasting : p <= cursor /\ (p < cursor \/ p = cursor)
  BY <1>1 DEF OutIInv, ListInv
<1>3. \A p \in lasting : Asked(p) => p \in Rows
  BY <1>2 DEF OutIInv, ListInv, Rowed, Rows
<1>4. nevents = 0 => lasting = alive /\ \A p \in Rows : p \in alive /\ Asked(p)
  BY DEF OutIInv, ListInv, LastInv, Rows
<1> QED
  BY <1>3, <1>4

(* So the invariant says that the output is true.                           *)
LEMMA OutputFollows == OutIInv => OutputIsTrue
<1> SUFFICES ASSUME OutIInv, pc = "done", ~hidepid, prog = "part2" => Plain(opt) PROVE OutputIsTrue
  BY DEF OutputIsTrue
<1> DEFINE rows   == {out[k][1] : k \in DOMAIN out}
           line   == [p \in alive |-> IF prog = "part2" THEN Elders(p) \cup {p} ELSE {p}]
           steady == IF prog = "part2" THEN lasting \ (adopted \cup spaced) ELSE lasting
           below  == {p \in alive : prog = "part2" => 1 \in line[p]}
           asked  == {p \in alive : Asked(p)}
           goal   == /\ \A p \in asked \cap below : line[p] \subseteq steady => line[p] \subseteq rows
                     /\ nevents = 0 /\ (prog = "part2" => spaced = {}) =>
                         rows = {p \in below : \E q \in asked : p \in line[q] \/ q \in line[p]}
<1>1. rows = Rows
  BY DEF Rows
<1>2. CASE prog = "part2"
  <2>1. \A p \in alive : line[p] = Descent(p)
    BY <1>2 DEF Descent
  <2>2. steady = Steady /\ below = {p \in alive : 1 \in Descent(p)}
    BY <1>2, <2>1 DEF Steady
  <2>3. ASSUME NEW p \in alive, Asked(p), 1 \in Descent(p), Descent(p) \subseteq Steady PROVE Descent(p) \subseteq Rows
    <3>1. 1 \notin spaced
      BY <2>3 DEF Steady
    <3> QED
      BY <1>2, <2>3, <3>1, TreeIsTrue DEF PlainDone
  <2>4. ASSUME nevents = 0, spaced = {}
        PROVE  Rows = {p \in alive : 1 \in Descent(p)
                                     /\ \E q \in alive : Asked(q) /\ (p \in Descent(q) \/ q \in Descent(p))}
    <3>1. PlainDone
      BY <1>2, <2>4 DEF PlainDone
    <3> QED
      BY <2>4, <3>1, TreeIsTrue
  <2> HIDE DEF line, steady, rows, below
  <2>5. \A p \in asked \cap below : line[p] \subseteq steady => line[p] \subseteq rows
    BY <1>1, <2>1, <2>2, <2>3
  <2>6. ASSUME nevents = 0, spaced = {} PROVE rows = {p \in below : \E q \in asked : p \in line[q] \/ q \in line[p]}
    <3>1. {p \in below : \E q \in asked : p \in line[q] \/ q \in line[p]}
            = {p \in alive : 1 \in Descent(p)
                             /\ \E q \in alive : Asked(q) /\ (p \in Descent(q) \/ q \in Descent(p))}
      BY <2>1, <2>2
    <3> QED
      BY <1>1, <2>4, <2>6, <3>1
  <2>7. goal
    BY <1>2, <2>5, <2>6
  <2> QED
    BY <2>7, Zenon DEF OutputIsTrue, line, steady, rows, below
<1>3. CASE prog # "part2"
  <2>1. \A p \in alive : line[p] = {p}
    BY <1>3
  <2>2. steady = lasting /\ below = alive
    BY <1>3
  <2>3. /\ \A p \in lasting : Asked(p) => p \in Rows
        /\ nevents = 0 => Rows = {p \in alive : Asked(p)}
    BY <1>3, ListIsTrue
  <2>5. lasting \subseteq alive
    BY DEF OutIInv, TreeIInv, IInv, TypeOK
  <2> HIDE DEF line, steady, rows, below
  <2>4. goal
    BY <1>1, <1>3, <2>1, <2>2, <2>3, <2>5
  <2> QED
    BY <2>4, Zenon DEF OutputIsTrue, line, steady, rows, below
<1> QED
  BY <1>2, <1>3

(* In every state what has been read of a process that lasts is so, the      *)
(* marks are of what the options ask for, and the lists miss nothing.       *)
THEOREM OutputInvariance == Spec => []OutIInv
<1>1. Init => OutIInv
  <2>1. Init => TreeIInv
    BY InitIInv, InitEnd, ShapeInit, MarkInit, DashInit DEF TreeIInv
  <2> QED
    BY <2>1, ReadInit, ListInit, ExactInit DEF OutIInv
<1>2. TreeIInv /\ TreeIInv' /\ OutIInv /\ [Next]_vars => OutIInv'
  <2> SUFFICES ASSUME TreeIInv', OutIInv, [Next]_vars PROVE OutIInv'
    OBVIOUS
  <2>1. IInv /\ PlaceInv /\ ShapeInv /\ MarkInv /\ LastInv /\ ReadInv /\ ListInv /\ ExactInv
    BY DEF OutIInv, TreeIInv, EndInv
  <2>2. LastInv'
    BY <2>1, LastStep
  <2>3. CASE Program
    <3>1. ReadInv'
      BY <2>1, <2>3, ReadStep
    <3>2. ListInv'
      BY <2>1, <2>3, ListStep
    <3>3. ExactInv'
      BY <2>1, <2>3, ExactStep
    <3> QED
      BY <2>2, <3>1, <3>2, <3>3 DEF OutIInv
  <2>4. ASSUME NEW p \in Pids, \E q \in Pids : Exit(p, q) \/ Fork(p, q) PROVE OutIInv'
    <3>1. ReadInv' /\ ListInv'
      BY <2>1, <2>4, ReadEvent, ListEvent
    <3>2. UNCHANGED <<prog, input, opt, pc, tab, me, parent, print, hidden>>
      BY <2>4 DEF Exit, Fork, Event, cvars, rvars, lvars, mvars
    <3>3. ExactInv'
      BY <2>1, <3>2, SameExact
    <3> QED
      BY <2>2, <3>1, <3>3 DEF OutIInv
  <2>5. CASE UNCHANGED vars
    <3>1. UNCHANGED <<alive, ppid, lasting, adopted, nevents, prog, input, hidepid, spaced, opt, pc,
                      cursor, names, slot, tab, me, parent, print, hidden, out>>
      BY <2>5 DEF vars, kvars, cvars, rvars, lvars, mvars
    <3>2. Idx' = Idx /\ \A p : (Kept(p)' <=> Kept(p)) /\ (Rowed(p)' <=> Rowed(p)) /\ (Asked(p)' <=> Asked(p))
      BY <3>1 DEF Idx, Kept, Rowed, Asked
    <3>3. (Held(slot)' <=> Held(slot)) /\ \A i : Held(tab[i])' <=> Held(tab[i])
      BY <3>1 DEF Held, Steady
    <3>4. ReadInv'
      BY <2>1, <3>1, <3>2, <3>3 DEF ReadInv
    <3>5. ListInv'
      BY <2>1, <3>1, <3>2 DEF ListInv
    <3>6. ExactInv'
      BY <2>1, <3>1, SameExact
    <3> QED
      BY <2>2, <3>4, <3>5, <3>6 DEF OutIInv
  <2> QED
    BY <2>3, <2>4, <2>5 DEF Next
<1>3. OutIInv => TreeIInv
  BY DEF OutIInv
<1> QED
  BY <1>1, <1>2, <1>3, TreeInvariance, PTL DEF Spec

(* Whatever processes come and go while /proc is read, the output has every  *)
(* process that is asked for and there all the time, in pstree with all its  *)
(* ancestors if it descends from process 1 and they last, none adopted and  *)
(* none with a space in its name; and if nothing happens it has nothing else *)
(* (part2.c, main; part1.c, show_name_id; part3.c, show_fd_link).           *)
THEOREM OutputIsRight == Spec => []OutputIsTrue
BY OutputInvariance, OutputFollows, PTL

=============================================================================
