---------------------------- MODULE ProcessTree -----------------------------
(***************************************************************************)
(* hw3: three programs that read /proc.  part2 (pstree) prints the tree of *)
(* the processes, part1 lists the processes of a user and part3 the open   *)
(* files of every process.  None of them stops the system while it reads:  *)
(* processes are forked, exit and have their pids used again under it.     *)
(*                                                                         *)
(* Modelled: the process table of the kernel, with exit and reaping as one *)
(* step, the reading of /proc entry by entry, and what pstree makes of the *)
(* table it has read (MakeTree, MarkProcs, DropProcs, PrintTree).  Indices *)
(* start at 1; 0 stands for the -1 of the code.  A row of output is a pid  *)
(* and its indentation.                                                    *)
(***************************************************************************)
EXTENDS Naturals, Sequences, FiniteSets

CONSTANTS
    PidMax,         \* the largest process id
    MyPid,          \* the program's own process
    UserOf,         \* the owner of each process
    Root,           \* the user "root"
    LongNames,      \* users whose name is longer than 8 characters
    NUMUN,          \* user names that uid2user remembers
    Matching,       \* processes whose command has the string of -s
    Options,        \* the command lines of pstree that are tried
    Settings,       \* <<processes with a space in their name, hidepid>>
    MaxEvents       \* bound: forks and exits while /proc is read

Pids  == 1..PidMax
NoPid == 0
Procs == Pids \cup {NoPid}

OptionRecords ==
    [kind : {"all", "u", "U", "s", "p"}, arg : Pids \cup {UserOf[p] : p \in Pids},
     H : BOOLEAN, r : BOOLEAN, level : Nat \ {0}, start : Seq(Procs)]

ASSUME ProcAssumption ==
    /\ PidMax \in Nat /\ MyPid \in Pids \ {1}
    /\ NUMUN \in Nat /\ MaxEvents \in Nat
    /\ Options \subseteq OptionRecords
    /\ Settings \subseteq (SUBSET Pids) \X BOOLEAN

VARIABLES
    alive,      \* the processes there are
    ppid,       \* their parents
    born,       \* when each pid was last given out
    clock,      \* the latest of these times
    ever,       \* pids given out since the program was started
    lasting,    \* processes that were there then and still are
    adopted,    \* processes that have lost their parent since
    reused,     \* one of them was given out twice
    nevents,    \* forks and exits so far
    spaced,     \* processes with a space in their name
    hidepid,    \* /proc shows a user its own processes only
    prog,       \* the program that runs
    input,      \* where pstree reads from: /proc ("none"), stdin or a file
    opt,        \* its options, or the user that part1 is asked for
    pc,         \* where it is
    cursor,     \* the last entry of /proc it has come to
    names,      \* entries that glob() has found and that are still to be read
    slot,       \* P[j], the element of the table that is being filled
    un,         \* the users uid2user remembers
    tab,        \* the elements before it
    me,         \* the loop variable of MakeTree, MarkProcs and DropProcs
    parent, child, sister, print, selected, hidden,     \* of each element
    out         \* the rows printed

kvars == <<alive, ppid, born, clock, ever, lasting, adopted, reused, nevents>>
cvars == <<spaced, hidepid, prog, input>>
rvars == <<cursor, names, slot, un, tab>>
lvars == <<parent, child, sister>>
mvars == <<print, selected, hidden>>
vars  == <<kvars, cvars, opt, pc, rvars, me, lvars, mvars, out>>

Least(S)    == CHOOSE x \in S : \A y \in S : x <= y
Greatest(S) == CHOOSE x \in S : \A y \in S : x >= y

NoIdx == 0

(* An element as calloc() makes it. *)
Fresh == [pid |-> NoPid, ppid |-> NoPid]

Default == [kind |-> "all", arg |-> Root, H |-> FALSE, r |-> FALSE, level |-> 100, start |-> <<>>]

(* Any forest in which parents are older than their children.  Process 1 is *)
(* the oldest; others may have no parent in the table: the kernel's own     *)
(* processes, and those that entered a container.                           *)
Forest ==
    /\ alive \in {A \in SUBSET Pids : {1, MyPid} \subseteq A}
    /\ clock = Cardinality(alive) - 1
    /\ born \in {b \in [Pids -> 0..clock] :
                    /\ b[1] = 0
                    /\ \A p \in Pids \ alive : b[p] = 0
                    /\ \A p, q \in alive : b[p] = b[q] => p = q}
    /\ ppid \in {f \in [Pids -> alive \cup {NoPid}] :
                    /\ f[1] = NoPid
                    /\ \A p \in Pids \ alive : f[p] = NoPid
                    /\ \A p \in alive : f[p] # NoPid => born[f[p]] < born[p]}

Init ==
    /\ Forest
    /\ ever = alive /\ lasting = alive /\ adopted = {} /\ reused = FALSE /\ nevents = 0
    /\ \E s \in Settings : spaced = s[1] /\ hidepid = s[2]
    /\ prog \in {"part1", "part2", "part3"}
    /\ input \in IF prog = "part2" THEN {"none", "dash", "file"} ELSE {"none"}
    /\ opt \in IF prog = "part1" THEN {o \in Options : o.kind = "u"} ELSE {Default}
    /\ pc = CASE prog # "part2" -> "list"
              [] prog = "part2" /\ input = "none" -> "glob"
              [] OTHER -> "input"
    /\ cursor = NoPid /\ names = {} /\ slot = Fresh /\ un = {} /\ tab = <<>>
    /\ me = 1
    /\ parent = <<>> /\ child = <<>> /\ sister = <<>>
    /\ print = <<>> /\ selected = <<>> /\ hidden = <<>>
    /\ out = <<>>

Goto(from, to) == pc = from /\ pc' = to

(***************************************************************************)
(* The system, while /proc is read.                                        *)
(***************************************************************************)
Reading == {"glob", "stat", "cmdline", "list", "show"}

Event ==
    /\ pc \in Reading
    /\ nevents < MaxEvents
    /\ nevents' = nevents + 1
    /\ UNCHANGED <<cvars, opt, pc, rvars, me, lvars, mvars, out>>

Fork(p, q) ==
    /\ Event
    /\ p \in alive /\ q \in Pids \ alive
    /\ alive' = alive \cup {q}
    /\ ppid' = [ppid EXCEPT ![q] = p]
    /\ clock' = clock + 1
    /\ born' = [born EXCEPT ![q] = clock']
    /\ ever' = ever \cup {q}
    /\ reused' = (reused \/ q \in ever)
    /\ UNCHANGED <<lasting, adopted>>

(* The processes that p descends from: those in every set that holds the    *)
(* parent of p and of each of its members.                                  *)
Elders(p) ==
    {q \in alive : \A S \in SUBSET alive :
        (\A s \in S \cup {p} : ppid[s] \in S \cup {NoPid}) => q \in S}

(* Process 1 or a subreaper among the elders adopts the children. *)
Exit(p, reaper) ==
    /\ Event
    /\ p \in alive \ {1, MyPid}
    /\ reaper \in Elders(p) \cup {1}
    /\ alive' = alive \ {p}
    /\ lasting' = lasting \ {p}
    /\ adopted' = adopted \cup {q \in alive : ppid[q] = p}
    /\ ppid' = [q \in Pids |-> IF q # p /\ ppid[q] = p THEN reaper ELSE ppid[q]]
    /\ UNCHANGED <<born, clock, ever, reused>>

(* What /proc keeps to the owner, root reads too. *)
Mine(p) == UserOf[MyPid] \in {Root, UserOf[p]}

Visible(p) == p \in alive /\ (hidepid => Mine(p))

Next_entries == {p \in Pids : Visible(p) /\ p > cursor}

(***************************************************************************)
(* part2: reading the table.                                               *)
(***************************************************************************)

(* glob() takes the entries in the order of /proc, one after the other. *)
Glob ==
    /\ IF Next_entries = {}
       THEN Goto("glob", "stat") /\ UNCHANGED <<cursor, names>>
       ELSE /\ Goto("glob", "glob")
            /\ cursor' = Least(Next_entries)
            /\ names' = names \cup {cursor'}
    /\ UNCHANGED <<kvars, cvars, opt, slot, un, tab, me, lvars, mvars, out>>

(* Mutant: the parent is not scanned into a slot that still has one. *)
Mut_ReadStat ==
    /\ names # {}
    /\ LET p == Greatest(names) IN
       /\ names' = names \ {p}
       /\ IF p \in alive
          THEN /\ slot' = [pid |-> p, ppid |-> IF slot.ppid # NoPid THEN slot.ppid ELSE ppid[p]]
               /\ Goto("stat", "cmdline")
          ELSE Goto("stat", "stat") /\ UNCHANGED slot
    /\ UNCHANGED <<kvars, cvars, opt, cursor, un, tab, me, lvars, mvars, out>>

(* The last entry comes first.  A space in the name ends the scan of the    *)
(* line before the parent, which stays what it was in the slot.             *)
ReadStat ==
    /\ names # {}
    /\ LET p == Greatest(names) IN
       /\ names' = names \ {p}
       /\ IF p \in alive
          THEN /\ slot' = [pid |-> p, ppid |-> IF p \in spaced THEN slot.ppid ELSE ppid[p]]
               /\ Goto("stat", "cmdline")
          ELSE Goto("stat", "stat") /\ UNCHANGED slot
    /\ UNCHANGED <<kvars, cvars, opt, cursor, un, tab, me, lvars, mvars, out>>

(* A name is given in full when it is new, and cut when it is remembered. *)
uid2user(uid) ==
    un' = IF uid \notin un /\ Cardinality(un) < NUMUN THEN un \cup {uid} ELSE un

ReadCmdline ==
    /\ Goto("cmdline", "stat")
    /\ IF slot.pid \in alive
       THEN /\ tab' = Append(tab, [pid |-> slot.pid, ppid |-> slot.ppid,
                                   full |-> UserOf[slot.pid] \notin un])
            /\ uid2user(UserOf[slot.pid])
            /\ slot' = Fresh
       ELSE UNCHANGED <<tab, un, slot>>
    /\ UNCHANGED <<kvars, cvars, opt, cursor, names, me, lvars, mvars, out>>

Idx == 1..Len(tab)

(* All elements are read; they were made with no links and not printed. *)
ReadEnds ==
    /\ names = {}
    /\ Goto("stat", "tree")
    /\ parent' = [i \in Idx |-> NoIdx]
    /\ child'  = [i \in Idx |-> NoIdx]
    /\ sister' = [i \in Idx |-> NoIdx]
    /\ print'    = [i \in Idx |-> FALSE]
    /\ selected' = [i \in Idx |-> FALSE]
    /\ hidden'   = [i \in Idx |-> FALSE]
    /\ UNCHANGED <<kvars, cvars, opt, rvars, me, out>>

(* -f: the stream is never opened unless it is stdin, and realloc() is      *)
(* taken to fail when it succeeds, so that the first line ends the program. *)
GetProcesses ==
    /\ pc = "input"
    /\ \/ pc' = "exit1"
       \/ input = "file" /\ pc' = "crash"
       \/ input = "dash" /\ pc' = "tree"
    /\ UNCHANGED <<kvars, cvars, opt, rvars, me, lvars, mvars, out>>

(***************************************************************************)
(* part2: the tree.                                                        *)
(***************************************************************************)

(* The first pid, in the order of the table, with one of four marks of a    *)
(* root, the next being tried when there is no element with one.            *)
GetRootPid ==
    LET marks == <<{i \in Idx : tab[i].pid = 1}, {i \in Idx : tab[i].ppid = 0},
                   {i \in Idx : tab[i].ppid = 1}, {i \in Idx : tab[i].pid = tab[i].ppid}>>
        found == {k \in 1..4 : marks[k] # {}}
    IN  IF found = {} THEN NoPid ELSE tab[Least(marks[Least(found)])].pid

get_pid_index(pid) ==
    LET found == {i \in Idx : tab[i].pid = pid}
    IN  IF found = {} THEN NoIdx ELSE Greatest(found)

(* The last of a list of sisters. *)
LastSister(i) ==
    LET last[k \in Idx] == IF sister[k] = NoIdx THEN k ELSE last[sister[k]] IN last[i]

(* The loops over `me'. *)
Loop(at, next) ==
    /\ IF me <= Len(tab) THEN Goto(at, at) /\ me' = me + 1 ELSE Goto(at, next) /\ me' = 1
    /\ UNCHANGED <<kvars, cvars, rvars, out>>

(* The options, though parsed first, only matter after the tree is made.    *)
ParseOptions == opt' \in IF me <= Len(tab) THEN {opt} ELSE Options

(* Mutant: a new child replaces the first one. *)
Mut_MakeTree ==
    /\ Loop("tree", "mark")
    /\ LET p == IF me \in Idx THEN get_pid_index(tab[me].ppid) ELSE NoIdx IN
       IF p \in {me, NoIdx}
       THEN UNCHANGED lvars
       ELSE /\ parent' = [parent EXCEPT ![me] = p]
            /\ child' = [child EXCEPT ![p] = me]
            /\ UNCHANGED sister
    /\ ParseOptions
    /\ UNCHANGED mvars

(* Every element becomes the first child of its parent or the last sister   *)
(* of the first child.                                                      *)
MakeTree ==
    /\ Loop("tree", "mark")
    /\ LET p == IF me \in Idx THEN get_pid_index(tab[me].ppid) ELSE NoIdx IN
       IF p \in {me, NoIdx}
       THEN UNCHANGED lvars
       ELSE /\ parent' = [parent EXCEPT ![me] = p]
            /\ IF child[p] = NoIdx
               THEN child' = [child EXCEPT ![p] = me] /\ UNCHANGED sister
               ELSE sister' = [sister EXCEPT ![LastSister(child[p])] = me] /\ UNCHANGED child
    /\ ParseOptions
    /\ UNCHANGED mvars

(* What the loop over the parents visits, in as many rounds as there are    *)
(* elements; one more round than that, and it goes round in a circle.       *)
Up(i) ==
    LET up[n \in 0..Len(tab)] ==
            IF n = 0 THEN parent[i] ELSE IF up[n - 1] = NoIdx THEN NoIdx ELSE parent[up[n - 1]]
    IN  up

Ancestors(i) == {Up(i)[n] : n \in 0..Len(tab)} \ {NoIdx}
Endless(i)   == Up(i)[Len(tab)] # NoIdx

MarkChildren(i) ==
    LET mark[k \in Idx \cup {NoIdx}] ==     \* k, its children and its sisters
            IF k = NoIdx THEN {} ELSE {k} \cup mark[child[k]] \cup mark[sister[k]]
    IN  {i} \cup mark[child[i]]

Selected(i) ==
    CASE opt.kind = "u" -> UserOf[tab[i].pid] = opt.arg /\ (tab[i].full \/ opt.arg \notin LongNames)
      [] opt.kind = "U" -> UserOf[tab[i].pid] # Root
      [] opt.kind = "p" -> tab[i].pid = opt.arg
      [] opt.kind = "s" -> tab[i].pid \in Matching \ {MyPid}

(* Marks a selected element, its parents and its children. *)
MarkSelected ==
    IF Endless(me)
    THEN pc' = "loops" /\ UNCHANGED <<me, mvars>>
    ELSE /\ pc' = pc /\ me' = me + 1
         /\ selected' = [selected EXCEPT ![me] = TRUE]
         /\ print' = [i \in Idx |-> print[i] \/ i \in Ancestors(me) \cup MarkChildren(me)]
         /\ hidden' = [i \in Idx |-> hidden[i] \/ (opt.H /\ i \in Ancestors(me))]

MarkProcs ==
    /\ pc = "mark"
    /\ IF me \in Idx /\ opt.kind # "all" /\ Selected(me)
       THEN MarkSelected /\ UNCHANGED <<kvars, cvars, opt, rvars, out>>
       ELSE /\ Loop("mark", "drop")
            /\ print' = IF me \in Idx /\ opt.kind = "all" THEN [print EXCEPT ![me] = TRUE] ELSE print
            /\ UNCHANGED <<opt, selected, hidden>>
    /\ UNCHANGED lvars

(* The first of a list of sisters that will be printed. *)
FirstPrinted(i) ==
    LET first[k \in Idx \cup {NoIdx}] ==
            IF k = NoIdx THEN NoIdx ELSE IF print[k] THEN k ELSE first[sister[k]]
    IN  first[i]

(* Mutant: the sisters that will not print stay. *)
Mut_DropProcs ==
    /\ Loop("drop", "print")
    /\ IF me \in Idx /\ print[me]
       THEN /\ child' = [child EXCEPT ![me] = FirstPrinted(@)]
            /\ hidden' = [hidden EXCEPT ![me] = @ \/ (opt.r /\ tab[me].pid = 1)]
       ELSE UNCHANGED <<child, hidden>>
    /\ UNCHANGED <<opt, parent, sister, print, selected>>

DropProcs ==
    /\ Loop("drop", "print")
    /\ IF me \in Idx /\ print[me]
       THEN /\ child'  = [child EXCEPT ![me] = FirstPrinted(@)]
            /\ sister' = [sister EXCEPT ![me] = FirstPrinted(@)]
            /\ hidden' = [hidden EXCEPT ![me] = @ \/ (opt.r /\ tab[me].pid = 1)]
       ELSE UNCHANGED <<child, sister, hidden>>
    /\ UNCHANGED <<opt, parent, print, selected>>

(* An element that is hidden passes its own indentation to its children. *)
Shown(i)   == ~(hidden[i] /\ ~selected[i])
Row(i, n)  == IF Shown(i) THEN <<<<tab[i].pid, n>>>> ELSE <<>>
Indent(i, n) == IF Shown(i) THEN n + 1 ELSE n

PrintTree(i) ==
    LET rows[depth \in 1..opt.level] ==     \* of k and its sisters, indented by n
            [k \in Idx \cup {NoIdx} |-> [n \in Nat |->
                IF k = NoIdx \/ depth = opt.level
                THEN <<>>
                ELSE IF n = 0 /\ ~print[k]
                THEN rows[depth][sister[k]][n]
                ELSE Row(k, n) \o rows[depth + 1][child[k]][Indent(k, n)] \o rows[depth][sister[k]][n]]]
    IN  IF ~print[i] THEN <<>> ELSE Row(i, 0) \o rows[1][child[i]][Indent(i, 0)]

(* The pids of the command line, those that are in the table; or the root,  *)
(* which is looked up without a check.                                      *)
PrintAll ==
    LET trees[k \in 0..Len(opt.start)] ==
            IF k = 0 THEN <<>>
            ELSE LET i == get_pid_index(opt.start[k])
                 IN  trees[k - 1] \o IF i = NoIdx THEN <<>> ELSE PrintTree(i)
        root == get_pid_index(GetRootPid)
    IN  /\ IF opt.start # <<>>
           THEN Goto("print", "done") /\ out' = trees[Len(opt.start)]
           ELSE IF root = NoIdx
           THEN Goto("print", "crash") /\ UNCHANGED out
           ELSE Goto("print", "done") /\ out' = PrintTree(root)
        /\ UNCHANGED <<kvars, cvars, opt, rvars, me, lvars, mvars>>

(***************************************************************************)
(* part1 and part3: the entries of /proc, each shown as soon as it is read. *)
(***************************************************************************)
ReadDir ==
    /\ IF Next_entries = {}
       THEN Goto("list", "done") /\ UNCHANGED cursor
       ELSE Goto("list", "show") /\ cursor' = Least(Next_entries)
    /\ UNCHANGED <<kvars, cvars, opt, names, slot, un, tab, me, lvars, mvars, out>>

Show(p) == out' = Append(out, <<p, 0>>)

(* part1: the stream is read whether or not it could be opened. *)
show_name_id ==
    /\ prog = "part1"
    /\ IF cursor \in alive
       THEN /\ Goto("show", "list")
            /\ IF UserOf[cursor] = opt.arg THEN Show(cursor) ELSE UNCHANGED out
       ELSE Goto("show", "crash") /\ UNCHANGED out
    /\ UNCHANGED <<kvars, cvars, opt, rvars, me, lvars, mvars>>

(* Mutant: a directory that could not be opened is read. *)
Mut_show_fd_link ==
    /\ prog = "part3"
    /\ Goto("show", IF cursor \in alive THEN "list" ELSE "crash")
    /\ IF cursor \in alive /\ Mine(cursor)
       THEN Show(cursor) ELSE UNCHANGED out
    /\ UNCHANGED <<kvars, cvars, opt, rvars, me, lvars, mvars>>

(* part3: a directory that cannot be opened is passed over, as those of     *)
(* other users are.  The row stands for the open files, which may be none.  *)
show_fd_link ==
    /\ prog = "part3"
    /\ Goto("show", "list")
    /\ IF cursor \in alive /\ Mine(cursor)
       THEN Show(cursor) ELSE UNCHANGED out
    /\ UNCHANGED <<kvars, cvars, opt, rvars, me, lvars, mvars>>

(***************************************************************************)
(* The specification.                                                      *)
(***************************************************************************)
Program ==
    \/ Glob \/ ReadStat \/ ReadCmdline \/ ReadEnds \/ GetProcesses
    \/ MakeTree \/ MarkProcs \/ DropProcs \/ PrintAll
    \/ ReadDir \/ show_name_id \/ show_fd_link

Next ==
    \/ Program
    \/ \E p, q \in Pids : Exit(p, q) \/ Fork(p, q)

Spec == Init /\ [][Next]_vars

(***************************************************************************)
(* Properties.                                                             *)
(***************************************************************************)
(* Types of the system and of what is read, and the names that uid2user      *)
(* remembers fit into its array.                                            *)
TypeOK ==
    /\ alive \subseteq Pids /\ {1, MyPid} \subseteq alive
    /\ ppid \in [Pids -> Procs]
    /\ clock \in Nat /\ born \in [Pids -> 0..clock]
    /\ ever \subseteq Pids /\ lasting \subseteq alive /\ adopted \subseteq Pids
    /\ reused \in BOOLEAN /\ nevents \in 0..MaxEvents
    /\ <<spaced, hidepid>> \in Settings /\ opt \in Options \cup {Default}
    /\ prog \in {"part1", "part2", "part3"} /\ input \in {"none", "dash", "file"}
    /\ pc \in Reading \cup {"input", "tree", "mark", "drop", "print",
                            "done", "loops", "crash", "exit1"}
    /\ cursor \in Procs /\ names \subseteq Pids
    /\ slot \in [pid : Procs, ppid : Procs]
    /\ pc = "cmdline" => slot.pid \in Pids
    /\ un \subseteq {UserOf[p] : p \in Pids} /\ IsFiniteSet(un) /\ Cardinality(un) <= NUMUN
    /\ tab \in Seq([pid : Pids, ppid : Procs, full : BOOLEAN])
    /\ me \in Nat \ {0}

(* The table is read while processes come and go, and yet the parent that   *)
(* it has for a process is the older one, even where it is gone when its    *)
(* own entry is read, so the loop over the parents ends.  This takes pids   *)
(* that are not used again.  Where a name has a space the entry's parent is *)
(* another's: only these entries can close a circle.                        *)
ParentsOlder ==
    ~reused =>
        \A i, j \in Idx : tab[i].pid \notin spaced /\ tab[i].ppid = tab[j].pid
                            => born[tab[j].pid] < born[tab[i].pid]

(* No program ends up in an endless loop or a crash, however processes come *)
(* and go: pstree if it sees process 1, reads /proc itself, no pid is used  *)
(* again and no name has a space; part1 if no process exits; part3 always.  *)
EndsWell ==
    pc \in {"loops", "crash", "exit1"} =>
        \/ prog = "part1" /\ nevents > 0
        \/ prog = "part2" /\ (input # "none" \/ (pc = "loops" /\ (reused \/ spaced # {})) \/ (pc = "crash" /\ hidepid))

(* A row is below the nearest earlier one that is indented less.            *)
Above(k) == {j \in 1..(k - 1) : out[j][2] < out[k][2]}

(* pstree prints every process that is marked, not hidden and, by the links *)
(* to parents alone, below the root: once, no deeper than -l says, and      *)
(* under the nearest of its ancestors that is shown.  This is for any       *)
(* options and any table, true or not, in which process 1 has no parent:    *)
(* if its name has a space it may have one, and a circle is then printed    *)
(* again and again, down to the last level.                                 *)
RowsAreBranches ==
    pc = "done" /\ prog = "part2" /\ opt.start = <<>> /\ 1 \notin spaced =>
        LET root  == get_pid_index(GetRootPid)
            line  == [i \in Idx |-> Ancestors(i) \cup {i}]
            over  == [i \in Idx |-> {j \in line[i] \ {i} : root \in line[j]}]
            rows  == {i \in Idx : /\ root \in line[i] /\ print[root]
                                  /\ print[i] /\ Shown(i) /\ Cardinality(over[i]) < opt.level}
            row   == [k \in DOMAIN out |-> get_pid_index(out[k][1])]
        IN  /\ {row[k] : k \in DOMAIN out} = rows
            /\ Len(out) = Cardinality(rows)
            /\ \A k \in DOMAIN out :
                LET shown == {j \in over[row[k]] : Shown(j)} IN
                IF shown = {}
                THEN out[k][2] = 0
                ELSE /\ Above(k) # {}
                     /\ LET j == row[Greatest(Above(k))] IN j \in shown /\ shown \subseteq line[j]

(* What the options ask for, in terms of the processes that there are.      *)
Asked(p) ==
    CASE prog = "part3" -> Mine(p)
      [] opt.kind = "u" -> UserOf[p] = opt.arg
      [] opt.kind = "all" /\ prog = "part2" -> TRUE
      [] opt.kind = "U" -> UserOf[p] # Root
      [] opt.kind = "p" -> p = opt.arg
      [] opt.kind = "s" -> p \in Matching \ {MyPid}

Plain(o) ==
    /\ ~o.H /\ ~o.r /\ o.start = <<>> /\ o.level > Cardinality(Pids)
    /\ o.kind = "u" => o.arg \notin LongNames

(* Whatever happens while /proc is read, a process that is asked for and is *)
(* there all the time is printed: by pstree, which starts at process 1, if  *)
(* it descends from it and these ancestors are there all the time too, lose *)
(* no parent and have no space in their names, whatever entries others may  *)
(* get.  And when nothing happens, nothing else is printed.                 *)
OutputIsTrue ==
    pc = "done" /\ ~hidepid /\ (prog = "part2" => Plain(opt)) =>
        LET rows   == {out[k][1] : k \in DOMAIN out}
            line   == [p \in alive |-> IF prog = "part2" THEN Elders(p) \cup {p} ELSE {p}]
            steady == IF prog = "part2" THEN lasting \ (adopted \cup spaced) ELSE lasting
            below  == {p \in alive : prog = "part2" => 1 \in line[p]}
            asked  == {p \in alive : Asked(p)}
        IN  /\ \A p \in asked \cap below : line[p] \subseteq steady => line[p] \subseteq rows
            /\ nevents = 0 /\ (prog = "part2" => spaced = {}) =>
                rows = {p \in below : \E q \in asked : p \in line[q] \/ q \in line[p]}
=============================================================================
