------------------------------ MODULE ProcScan ------------------------------
(***************************************************************************)
(* The programs that list processes (SP_HW4): process_list.c prints those  *)
(* of a user, draw_pid_tree.c all of them as a tree, file_open_list.c those *)
(* that have a file open.  Each goes through /proc once, while processes   *)
(* fork, exit, and open and close the file.                                *)
(*                                                                         *)
(* readdir hands out pids in ascending order, some at a time.  What has    *)
(* been handed out may be gone, or be the pid of another process, when its *)
(* status is opened.  Pids are given in ascending order too, until they    *)
(* have been used up once (reused).  A process that exits stays in /proc   *)
(* until it is reaped, and its children become those of process 1.         *)
(***************************************************************************)
EXTENDS Integers, Sequences, FiniteSets, SequencesExt

CONSTANTS
  Programs,     \* the programs that may run
  MaxPid,       \* pids once they are used again: 1 .. MaxPid
  MaxEvents,    \* bound: steps of the other processes during a scan
  Batch,        \* names that readdir fetches at a time
  Size,         \* SIZE, children that a node has room for
  MaxFds        \* descriptors the scanner may have open

ASSUME ProgramsAssumption ==
  Programs \subseteq {"process_list", "draw_pid_tree", "file_open_list"}
ASSUME BoundsAssumption ==
  /\ MaxPid \in Nat /\ MaxEvents \in Nat
  /\ Batch \in Nat \ {0} /\ Size \in Nat \ {0} /\ MaxFds \in Nat \ {0, 1}

VARIABLES
  program,      \* the program that runs
  reused,       \* have the pids been used up once
  procs,        \* the processes in /proc: pid -> [name, ppid, user, fd, zombie]
  events,       \* steps of the other processes so far; the name of a new one
  spc,          \* where the scanner is in main
  names,        \* names fetched by readdir and not yet handed out
  pid,          \* pid->d_name
  file,         \* the process whose status or fd directory is open
  fds,          \* number of open descriptors, that of /proc included
  head,         \* draw_pid_tree: what the uninitialized head holds
  nodes,        \* draw_pid_tree: the list of nodes
  p_cmd,        \* file_open_list: the name read last
  shown,        \* what is printed: [pid, name, level]
  ended,        \* history: has a process ended or closed the file
  steady,       \* history: those that were to be shown during the whole scan
  asked         \* history: those that were to be shown at some time

system == <<reused, procs, events>>
history == <<ended, steady, asked>>
scanner == <<spc, names, pid, file, fds, head, nodes, p_cmd, shown>>
procVars == <<program, system, scanner, history>>

Pids == DOMAIN procs
Draws == program = "draw_pid_tree"

\* The process is one of those that the program is to show.
Wanted(p) ==
  CASE program = "process_list"   -> procs[p].user = "asked"
    [] program = "file_open_list" -> procs[p].fd = "asked"
    [] program = "draw_pid_tree"  -> TRUE
WantedNames == {procs[p].name : p \in {q \in Pids : Wanted(q)}}

\* A process as it is at first; attributes are told apart for the program that asks.
Process(name, ppid, user, fd) ==
  [name |-> name, ppid |-> ppid, user |-> user, fd |-> fd, zombie |-> FALSE]

\* Three processes.  A parent has a lower pid than its child, unless pids are reused.
ProcInit ==
  /\ program \in Programs
  /\ reused \in BOOLEAN
  /\ \E parent \in {<<0, 1, 1>>, <<0, 1, 2>>} \cup (IF reused THEN {<<0, 3, 1>>} ELSE {}),
        user \in [1 .. 3 -> IF program = "process_list" THEN {"asked", "other"} ELSE {"other"}],
        fd \in [1 .. 3 -> IF program = "file_open_list" THEN {"none", "asked", "other"}
                                                         ELSE {"none"}] :
       procs = [p \in 1 .. 3 |-> Process(p, parent[p], user[p], fd[p])]
  /\ events = 0
  /\ spc = "readdir" /\ names = {} /\ pid = 0 /\ file = 0 /\ fds = 1
  /\ head \in IF Draws THEN {"NULL", "garbage"} ELSE {"NULL"}
  /\ nodes = <<>> /\ p_cmd = 0 /\ shown = <<>>
  /\ ended = FALSE /\ steady = WantedNames /\ asked = WantedNames
-----------------------------------------------------------------------------
(* The other processes *)

\* Names and, in the first round, pids of new processes ascend from 4.
NewName == events + 4
NewPids == IF reused THEN (1 .. MaxPid) \ Pids ELSE {NewName}

Fork(p) ==
  /\ ~procs[p].zombie
  /\ \E q \in NewPids :
       procs' = [r \in Pids \cup {q} |->
         IF r = q THEN [procs[p] EXCEPT !.name = NewName, !.ppid = p] ELSE procs[r]]
  /\ UNCHANGED ended

Exit(p) ==
  /\ p # 1 /\ ~procs[p].zombie
  /\ procs' = [r \in Pids |->
       IF r = p THEN [procs[p] EXCEPT !.zombie = TRUE, !.fd = "none"]
       ELSE IF procs[r].ppid = p THEN [procs[r] EXCEPT !.ppid = 1] ELSE procs[r]]
  /\ ended' = TRUE

Reap(p) ==
  /\ procs[p].zombie
  /\ procs' = [r \in Pids \ {p} |-> procs[r]]
  /\ UNCHANGED ended

\* The file that is asked about, or another one, is opened or closed.
OpenClose(p) ==
  /\ program = "file_open_list" /\ ~procs[p].zombie
  /\ \E f \in IF procs[p].fd = "none" THEN {"asked", "other"} ELSE {"none"} :
       procs' = [procs EXCEPT ![p].fd = f]
  /\ ended' = (ended \/ procs[p].fd # "none")

Others ==
  /\ UNCHANGED <<program, reused, scanner>>
  /\ events < MaxEvents /\ events' = events + 1
  /\ \E p \in Pids : Fork(p) \/ Exit(p) \/ Reap(p) \/ OpenClose(p)
  /\ steady' = steady \cap WantedNames'
  /\ asked' = asked \cup WantedNames'
-----------------------------------------------------------------------------
(* Drawing the tree *)

\* The first node with that pid.
find_parent(id) == SelectInSeq(nodes, LAMBDA n : n.pid = id)

\* The nodes that hang from node i.
Children(i) == {j \in DOMAIN nodes : find_parent(nodes[j].ppid) = i}

\* The NULL that ends a full array of children goes over the name behind it.
Smashed == 0
DrawnName(i) == IF Cardinality(Children(i)) < Size THEN nodes[i].name ELSE Smashed

\* The drawings of the nodes in S, in the order in which these were found.
InOrder(S, drawing) ==
  FlattenSeq([i \in 1 .. Len(nodes) |-> IF i \in S THEN drawing[i] ELSE <<>>])

\* A node at some level and what hangs from it; no branch is longer than the list.
print_tree[level \in 0 .. Len(nodes)] ==
  [i \in 1 .. Len(nodes) |->
     <<[pid |-> nodes[i].pid, name |-> DrawnName(i), level |-> level]>> \o
     IF level = Len(nodes) THEN <<>> ELSE InOrder(Children(i), print_tree[level + 1])]

\* Mutant: what hangs from process 1 is taken for a root.
IsRoot_One(i) == nodes[i].ppid <= 1
IsRoot(i) == nodes[i].ppid = 0

Drawing == InOrder({i \in DOMAIN nodes : IsRoot(i)}, print_tree[0])
-----------------------------------------------------------------------------
(* The scanner *)

\* The names from which readdir fetches the next ones.
Fetched == {p \in Pids : p > pid}

FirstOf(S) == {p \in S : Cardinality({q \in S : q < p}) < Batch}

\* readdir: one more pid, or the end of /proc, where draw_pid_tree links and draws.
Readdir ==
  LET buffer == IF names = {} THEN FirstOf(Fetched) ELSE names IN
  /\ spc = "readdir"
  /\ IF buffer = {}
       THEN /\ spc' = "success"
            /\ shown' = IF Draws THEN Drawing ELSE shown
            /\ UNCHANGED <<names, pid>>
       ELSE /\ spc' = "open"
            /\ pid' = Min(buffer) /\ names' = buffer \ {Min(buffer)}
            /\ UNCHANGED shown
  /\ UNCHANGED <<file, fds, head, nodes, p_cmd>>

\* open of /proc/<pid>/status.
OpenStatus ==
  /\ spc = "open"
  /\ IF pid \in Pids /\ fds < MaxFds
       THEN spc' = "read" /\ file' = procs[pid].name /\ fds' = fds + 1
       ELSE spc' = "failure" /\ UNCHANGED <<file, fds>>
  /\ UNCHANGED <<names, pid, head, nodes, p_cmd, shown>>

\* The process that was opened is still there, under its pid.
There == pid \in Pids /\ procs[pid].name = file

\* read() of the status of a process that is gone fails.
ReadFails ==
  /\ spc = "read" /\ ~There
  /\ spc' = "failure"
  /\ UNCHANGED <<names, pid, file, fds, head, nodes, p_cmd, shown>>

\* Mutant: the status file stays open.
FdsClosed_Not == fds
\* Descriptors after the status file is closed.
FdsClosed == fds - 1

\* process_list: prints the process if its user is the one that is asked for.
ReadUid ==
  /\ program = "process_list" /\ spc = "read" /\ There
  /\ shown' = IF procs[pid].user = "asked"
                THEN Append(shown, [pid |-> pid, name |-> file, level |-> 0]) ELSE shown
  /\ fds' = FdsClosed /\ spc' = "readdir"
  /\ UNCHANGED <<names, pid, file, head, nodes, p_cmd>>

\* draw_pid_tree: a node goes to the end of the list.  head is read before it is
\* assigned: it is NULL, or else prev points anywhere and anything may happen.
ReadNode ==
  /\ Draws /\ spc = "read" /\ There
  /\ IF head = "garbage"
       THEN spc' = "crashed" /\ UNCHANGED <<fds, nodes>>
       ELSE /\ nodes' = Append(nodes, [pid |-> pid, ppid |-> procs[pid].ppid, name |-> file])
            /\ fds' = FdsClosed /\ spc' = "readdir"
  /\ UNCHANGED <<names, pid, file, head, p_cmd, shown>>

\* Mutant: the first name that was read is kept.
NameRead_First == IF p_cmd = 0 THEN file ELSE p_cmd
NameRead == file

\* file_open_list: the command name, for the lines to come.
ReadName ==
  /\ program = "file_open_list" /\ spc = "read" /\ There
  /\ p_cmd' = NameRead
  /\ fds' = FdsClosed /\ spc' = "opendir"
  /\ UNCHANGED <<names, pid, file, head, nodes, shown>>

\* opendir of /proc/<pid>/fd, which is never closed.
OpenFdDir ==
  /\ spc = "opendir"
  /\ IF pid \in Pids /\ fds < MaxFds
       THEN spc' = "readfd" /\ file' = procs[pid].name /\ fds' = fds + 1
       ELSE spc' = "failure" /\ UNCHANGED <<file, fds>>
  /\ UNCHANGED <<names, pid, head, nodes, p_cmd, shown>>

\* readdir of it: the directory of a process that ended is empty.
ReadFd ==
  /\ spc = "readfd"
  /\ spc' = IF There /\ procs[pid].fd # "none" THEN "readlink" ELSE "readdir"
  /\ UNCHANGED <<names, pid, file, fds, head, nodes, p_cmd, shown>>

\* readlink of /proc/<pid>/fd/<fd>, whoever has that pid by now.
ReadLink ==
  /\ spc = "readlink"
  /\ IF pid \in Pids /\ procs[pid].fd # "none"
       THEN /\ spc' = "readdir"
            /\ shown' = IF procs[pid].fd = "asked"
                 THEN Append(shown, [pid |-> pid, name |-> p_cmd, level |-> 0]) ELSE shown
       ELSE spc' = "failure" /\ UNCHANGED shown
  /\ UNCHANGED <<names, pid, file, fds, head, nodes, p_cmd>>

Scan ==
  /\ \/ Readdir \/ OpenStatus \/ ReadFails \/ ReadUid \/ ReadNode \/ ReadName
     \/ OpenFdDir \/ ReadFd \/ ReadLink
  /\ UNCHANGED <<program, system, history>>
-----------------------------------------------------------------------------
ProcNext == Scan \/ Others

ProcSpec == ProcInit /\ [][ProcNext]_procVars
-----------------------------------------------------------------------------
(* Properties *)

\* Type invariant of the processes, the scanner and the history.
ProcTypeOK ==
  /\ program \in Programs /\ reused \in BOOLEAN
  /\ Pids \subseteq Nat \ {0} /\ IsFiniteSet(Pids)
  /\ \A p \in Pids : procs[p] \in [name : Nat \ {0}, ppid : Nat, user : {"asked", "other"},
                                  fd : {"none", "asked", "other"}, zombie : BOOLEAN]
  /\ events \in 0 .. MaxEvents
  /\ spc \in {"readdir", "open", "read", "opendir", "readfd", "readlink",
               "success", "failure", "crashed"}
  /\ names \subseteq Nat \ {0} /\ pid \in Nat /\ file \in Nat /\ fds \in 1 .. MaxFds
  /\ head \in {"NULL", "garbage"}
  /\ nodes \in Seq([pid : Nat \ {0}, ppid : Nat, name : Nat \ {0}]) /\ p_cmd \in Nat
  /\ shown \in Seq([pid : Nat \ {0}, name : Nat, level : Nat])
  /\ ended \in BOOLEAN /\ steady \subseteq Nat /\ asked \subseteq Nat

NamesOf(s) == {s[i].name : i \in DOMAIN s}

\* The line above line i that is one level further left.
LineAbove(i) ==
  LET above == {j \in 1 .. i - 1 : shown[j].level = shown[i].level - 1}
  IN  shown[CHOOSE j \in above : \A k \in above : k <= j]

\* A tree that is drawn has every process once, below its parent, although each
\* process was read at another time (draw_pid_tree.c:47): a parent that exits before
\* it is read has given its children to process 1.  Once pids are reused a child may
\* come before its parent and be lost with it, but still none is drawn twice.
TreeDrawn ==
  Draws /\ spc = "success" =>
    /\ \A i, j \in DOMAIN shown : shown[i].pid = shown[j].pid => i = j
    /\ \A i \in DOMAIN shown : shown[i].level > 0 =>
         \E n \in DOMAIN nodes :
           nodes[n].pid = shown[i].pid /\ nodes[n].ppid = LineAbove(i).pid
    /\ ~reused => Len(shown) = Len(nodes)

\* A program that comes to its end has shown (draw_pid_tree.c: has read) everyone who
\* was to be shown during the whole scan, whoever else came and went between the
\* fetching of names and their use (process_list.c:53).  Everyone who is shown was to be
\* shown at some time during the scan, under his own name.  Two cases are left out whole:
\* file_open_list.c once pids are used again, when another process may take over the pid
\* between the reading of the name and that of the links (file_open_list.c:89), and, with
\* draw_pid_tree.c, the nodes with so many children that the name is
\* overwritten (draw_pid_tree.c:129).
ShownRight ==
  /\ spc = "success" => steady \subseteq NamesOf(IF Draws THEN nodes ELSE shown)
  /\ \A i \in DOMAIN shown :
       \/ shown[i].name \in asked
       \/ program = "file_open_list" /\ reused
       \/ Draws /\ Size <= Cardinality({n \in DOMAIN nodes : nodes[n].ppid = shown[i].pid})

\* Only when something ends or is closed meanwhile does a program give up, or, with
\* file_open_list.c, when there are so many processes that the directories it leaves
\* open use up its descriptors (file_open_list.c:80).
UndisturbedSucceeds ==
  spc = "failure" => ended \/ (program = "file_open_list" /\ fds = MaxFds)
=============================================================================
