------------------------------- MODULE FileLog -------------------------------
(***************************************************************************)
(* The logger of changes below a directory (SP_HW12/file_log.c): it        *)
(* watches every directory with inotify and keeps, in dir_list[wd - 1],    *)
(* the path of the directory behind the watch descriptor wd.               *)
(*                                                                         *)
(* A user makes, renames and removes files and directories all the while.  *)
(* The kernel appends an event to the queue for every change in a watched  *)
(* directory, gives each newly watched inode the next descriptor, answers  *)
(* with the old descriptor when the inode is watched already, and drops    *)
(* the watch of an inode that is removed.                                  *)
(*                                                                         *)
(* Paths are relative to the watched directory: sequences of names.  The   *)
(* text of the log is left out; the log lies outside the watched           *)
(* directory.  The other events of IN_ALL_EVENTS are nothing to            *)
(* inotify_event, and the batch that read() returns is the front of queue. *)
(***************************************************************************)
EXTENDS Integers, Sequences, FiniteSets, FiniteSetsExt, SequencesExt

CONSTANTS
  Names,        \* names in a directory
  MaxDepth,     \* longest path
  MaxIno,       \* inodes the user can make
  MaxQueue,     \* the user rests while so many events wait
  Users         \* the users there may be

ASSUME MaxDepthAssumption == MaxDepth \in Nat \ {0}
ASSUME MaxInoAssumption == MaxIno \in Nat
ASSUME MaxQueueAssumption == MaxQueue \in Nat \ {0}
ASSUME UsersAssumption == Users \subseteq {"busy", "remover", "maker"}

VARIABLES
  user,         \* the user of this run of the logger
  tree,         \* inode -> the directory it is in, its name and its kind
  lastIno,      \* inodes handed out so far
  watch,        \* inotify: watched inode -> descriptor
  lastWd,       \* inotify: descriptors handed out so far
  queue,        \* inotify: the events not yet handled
  pc,           \* logger: where it is
  cur, at,      \* logger: the path in hand, and the directory nftw has open
  todo,         \* logger: the entries nftw has still to look at
  dir_list      \* logger: dir_list; wd_num is its length

files == <<user, tree, lastIno>>
logger == <<pc, cur, at, todo, dir_list>>
vars == <<files, watch, lastWd, queue, logger>>

Root == 0
Missing == -1
Inodes == 1 .. MaxIno
Kinds == {"dir", "file"}
Masks == {"IN_CREATE", "IN_DELETE", "IN_MOVED_FROM", "IN_MOVED_TO"}

Entries(d) == {k \in DOMAIN tree : tree[k].dir = d}
Child(d, n) == IF \E k \in Entries(d) : tree[k].name = n
                 THEN CHOOSE k \in Entries(d) : tree[k].name = n ELSE Missing

\* The inode a path leads to.
Lookup(path) ==
  LET to[n \in 0 .. Len(path)] == IF n = 0 THEN Root ELSE Child(to[n - 1], path[n])
  IN  to[Len(path)]

IsDirectory(k) == k = Root \/ (k \in DOMAIN tree /\ tree[k].kind = "dir")

Init ==
  /\ user \in Users
  /\ tree = <<>> /\ lastIno = 0
  /\ watch = <<>> /\ lastWd = 0 /\ queue = <<>>
  /\ pc = "start" /\ cur = <<>> /\ at = Root /\ todo = <<>> /\ dir_list = <<>>
-----------------------------------------------------------------------------
(* The user and inotify *)

\* The event of a change to name n in directory d, if d is watched.
Event(d, mask, n) ==
  IF d \in DOMAIN watch THEN <<[wd |-> watch[d], mask |-> mask, name |-> n]>> ELSE <<>>

\* What each user does.  The maker leaves the directory alone while nftw is at
\* work on it, the others do not.
MayDo == [busy    |-> {"mkdir", "creat", "remove", "rename"},
          remover |-> {"mkdir", "creat", "remove"},
          maker   |-> {"mkdir", "creat"}]

UserActs(what) ==
  /\ what \in MayDo[user]
  /\ user = "maker" => pc \notin {"scan", "add", "read"}
  /\ Len(queue) < MaxQueue

\* The directory m levels above d.
Above(d, m) ==
  FoldLeft(LAMBDA k, s : IF k = Root THEN Root ELSE tree[k].dir, d, [s \in 1 .. m |-> s])

\* How many levels there are below k.
Height(k) == Max({m \in 0 .. MaxDepth : \E t \in DOMAIN tree : Above(t, m) = k})

\* Can d take an entry n with so many levels below it?
Free(d, n, levels) ==
  /\ IsDirectory(d) /\ Child(d, n) = Missing
  /\ levels < MaxDepth /\ Above(d, MaxDepth - 1 - levels) = Root

Make(d, n, kind) ==
  /\ UserActs(IF kind = "dir" THEN "mkdir" ELSE "creat")
  /\ Free(d, n, 0)
  /\ lastIno < MaxIno
  /\ lastIno' = lastIno + 1
  /\ tree' = [k \in DOMAIN tree \cup {lastIno'} |->
               IF k = lastIno' THEN [dir |-> d, name |-> n, kind |-> kind] ELSE tree[k]]
  /\ queue' = queue \o Event(d, "IN_CREATE", n)
  /\ UNCHANGED <<user, watch, lastWd, logger>>

\* rmdir or unlink
Unlink(k) ==
  /\ UserActs("remove")
  /\ Entries(k) = {}
  /\ tree' = [m \in DOMAIN tree \ {k} |-> tree[m]]
  /\ watch' = [m \in DOMAIN watch \ {k} |-> watch[m]]
  /\ queue' = queue \o Event(tree[k].dir, "IN_DELETE", tree[k].name)
  /\ UNCHANGED <<user, lastIno, lastWd, logger>>

\* A rename to a name that is free; what is below k moves along.
Rename(k, d, n) ==
  /\ UserActs("rename")
  /\ \A m \in 0 .. MaxDepth : Above(d, m) # k
  /\ Free(d, n, Height(k))
  /\ tree' = [tree EXCEPT ![k].dir = d, ![k].name = n]
  /\ queue' = queue \o Event(tree[k].dir, "IN_MOVED_FROM", tree[k].name)
                    \o Event(d, "IN_MOVED_TO", n)
  /\ UNCHANGED <<user, lastIno, watch, lastWd, logger>>

User ==
  \/ \E d \in {Root} \cup DOMAIN tree, n \in Names, kind \in Kinds : Make(d, n, kind)
  \/ \E k \in DOMAIN tree : Unlink(k)
  \/ \E k \in DOMAIN tree, d \in {Root} \cup DOMAIN tree, n \in Names : Rename(k, d, n)
-----------------------------------------------------------------------------
(* Watching a directory *)

\* Mutant: the name goes on the list in place of the path.
List_Name(path) == Append(dir_list, <<Last(path)>>)

\* wd_num += 1; dir_list[wd_num - 1] = path
List(path) == Append(dir_list, path)

\* inotify_add_watch(inotifyFd, path, IN_ALL_EVENTS): exit if the path is gone,
\* else wd_num += 1 and the path goes on the list, and on to next.
AddWatch(path, next) ==
  LET k == Lookup(path) IN
  IF k = Missing
    THEN pc' = "failure" /\ UNCHANGED <<watch, lastWd, dir_list>>
    ELSE /\ pc' = next
         /\ dir_list' = List(path)
         /\ IF k \in DOMAIN watch
              THEN UNCHANGED <<watch, lastWd>>
              ELSE /\ lastWd' = lastWd + 1
                   /\ watch' = [m \in DOMAIN watch \cup {k} |-> IF m = k THEN lastWd' ELSE watch[m]]
-----------------------------------------------------------------------------
(* main and find_subdir, which nftw calls *)

\* What is on the list after the root was watched.
FirstPaths == <<<<>>>>

\* inotify_init, inotify_add_watch; nftw opens the root and calls find_subdir
\* with level 0, which starts dir_list.
Start ==
  /\ pc = "start" /\ pc' = "read"
  /\ watch' = [k \in {Root} |-> 1] /\ lastWd' = 1
  /\ dir_list' = FirstPaths
  /\ UNCHANGED <<files, queue, cur, at, todo>>

\* nftw reads the entries of the directory it has open, in any order, to look at
\* them before what it had left.
ScanRead ==
  /\ pc = "read" /\ pc' = "scan"
  /\ \E order \in SetToSeqs(Entries(at)) :
       todo' = [k \in DOMAIN order |-> [dir |-> at, path |-> Append(cur, tree[order[k]].name)]]
                 \o todo
  /\ UNCHANGED <<files, watch, lastWd, queue, cur, at, dir_list>>

\* tflag == FTW_D
Descends(k) == IsDirectory(k)

\* nftw looks at an entry: find_subdir has nothing to do for a file.  An entry
\* that is gone is passed over, or ends nftw if it went after the stat.
ScanNext ==
  /\ pc = "scan" /\ todo # <<>>
  /\ todo' = Tail(todo)
  /\ LET k == Child(Head(todo).dir, Last(Head(todo).path)) IN
     \/ Descends(k) /\ pc' = "add" /\ cur' = Head(todo).path /\ at' = k
     \/ ~Descends(k) /\ UNCHANGED <<pc, cur, at>>
     \/ k = Missing /\ pc' = "failure" /\ UNCHANGED <<cur, at>>
  /\ UNCHANGED <<files, watch, lastWd, queue, dir_list>>

\* find_subdir on a directory.
ScanAdd ==
  /\ pc = "add"
  /\ AddWatch(cur, "read")
  /\ UNCHANGED <<files, queue, cur, at, todo>>

\* nftw returns.
ScanDone ==
  /\ pc = "scan" /\ todo = <<>> /\ pc' = "loop"
  /\ UNCHANGED <<files, watch, lastWd, queue, cur, at, todo, dir_list>>
-----------------------------------------------------------------------------
(* main's loop and inotify_event *)

\* Mutant: S_ISREG the other way round.
NotRegular_Inverted(k) == k = Missing \/ ~IsDirectory(k)

\* isDir(path) == 0: not a regular file.  When stat fails the mode is whatever
\* was on the stack.
NotRegular(k) == k = Missing \/ IsDirectory(k)

\* dir_list[(i->wd)-1] / i->name
EventPath(e) == Append(dir_list[e.wd], e.name)

\* IN_CREATE: look at what was created.
HandleCreate ==
  /\ pc = "loop" /\ queue # <<>> /\ Head(queue).mask = "IN_CREATE"
  /\ queue' = Tail(queue)
  /\ LET path == EventPath(Head(queue))
         k == Lookup(path) IN
     \/ NotRegular(k) /\ pc' = "watch" /\ cur' = path
     \/ (k = Missing \/ ~NotRegular(k)) /\ UNCHANGED <<pc, cur>>
  /\ UNCHANGED <<files, watch, lastWd, at, todo, dir_list>>

\* IN_CREATE: watch the new directory.
HandleWatch ==
  /\ pc = "watch"
  /\ AddWatch(cur, "loop")
  /\ UNCHANGED <<files, queue, cur, at, todo>>

\* The other events are logged and no more.
HandleOther ==
  /\ pc = "loop" /\ queue # <<>> /\ Head(queue).mask # "IN_CREATE"
  /\ queue' = Tail(queue)
  /\ UNCHANGED <<files, watch, lastWd, logger>>

Logger == Start \/ ScanRead \/ ScanNext \/ ScanAdd \/ ScanDone
            \/ HandleCreate \/ HandleWatch \/ HandleOther
-----------------------------------------------------------------------------
Next == User \/ Logger

Spec == Init /\ [][Next]_vars

\* The logger is scheduled and read() returns when there are events.
Fairness == WF_vars(Logger)
-----------------------------------------------------------------------------
(* Properties *)

\* Type invariant of the files, of inotify and of the logger.
TypeOK ==
  /\ user \in Users
  /\ DOMAIN tree \subseteq 1 .. lastIno /\ lastIno \in 0 .. MaxIno
  /\ \A k \in DOMAIN tree :
       tree[k] \in [dir : {Root} \cup DOMAIN tree, name : Names, kind : Kinds]
  /\ DOMAIN watch \subseteq {Root} \cup DOMAIN tree
  /\ lastWd \in Nat
  /\ \A k \in DOMAIN watch : watch[k] \in 1 .. lastWd
  /\ queue \in Seq([wd : 1 .. lastWd, mask : Masks, name : Names])
  /\ pc \in {"start", "read", "scan", "add", "loop", "watch", "failure"}
  /\ cur \in Seq(Names) /\ at \in {Root} \cup Inodes
  /\ todo \in Seq([dir : {Root} \cup Inodes, path : Seq(Names) \ {<<>>}])
  /\ dir_list \in Seq(Seq(Names))

\* Does the list name every watched directory at the place of its descriptor?
ListAgrees == \A k \in DOMAIN watch : Lookup(dir_list[watch[k]]) = k

\* The descriptor of every event that waits, and of every event to come, has its
\* place in dir_list, whatever the user does: dir_list[(i->wd)-1] is never beyond
\* the end (file_log.c:109).  Without renames the list is right until a directory
\* is added a second time: then wd_num has run ahead of the descriptors
\* (file_log.c:48, 120).  With a user who only makes things, and not during nftw,
\* that never happens, and the logger does not exit.
ListRight ==
  /\ \A e \in Range(queue) : e.wd <= Len(dir_list)
  /\ \A k \in DOMAIN watch : watch[k] <= Len(dir_list)
  /\ user # "busy" /\ Len(dir_list) = lastWd => ListAgrees
  /\ user = "maker" => Len(dir_list) = lastWd /\ pc # "failure"

\* Is the creation of k among the events that wait?
Announced(k) ==
  /\ k \in DOMAIN tree /\ tree[k].kind = "dir"
  /\ \E e \in Range(queue) : /\ e.mask = "IN_CREATE" /\ e.name = tree[k].name
                             /\ tree[k].dir \in DOMAIN watch /\ e.wd = watch[tree[k].dir]

\* ... and a directory whose creation is announced is watched in the end.
AnnouncedIsWatched ==
  user = "maker" => \A k \in Inodes : Announced(k) ~> k \in DOMAIN watch
=============================================================================
