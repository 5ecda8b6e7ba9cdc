------------------------------- MODULE Shell --------------------------------
(***************************************************************************)
(* The shells of SP_HW3 and SP_HW5/part2: run_command.c forks a child for  *)
(* every command line; in SP_HW5 the child redirects its input and output  *)
(* and builds the pipe (pipe_command.c), running the leftmost command      *)
(* itself and leaving the rest to a child of its own.                      *)
(*                                                                         *)
(* Processes are numbered in the order they are forked; the pipe a process *)
(* makes has its number.  What commands do is outside the repository: they *)
(* are told apart by when they end.                                        *)
(***************************************************************************)
EXTENDS CommandLine

CONSTANTS
  Versions,     \* the shells that may run: "hw3", "hw5"
  Lines,        \* the lines users type
  Filters,      \* commands that copy their input until it ends (cat)
  Heads,        \* commands that copy one line of input and end (head -1)
  Endless,      \* commands that write for ever (yes)
  Brief,        \* commands that end by themselves (true)
  PipeCap,      \* lines a pipe holds
  MaxLines,     \* bound: lines typed
  MaxCommands,  \* bound: commands in a line
  MaxFails      \* bound: forks that fail

ASSUME VersionsAssumption == Versions \subseteq {"hw3", "hw5"}
ASSUME BoundsAssumption ==
  PipeCap \in Nat \ {0} /\ MaxLines \in Nat /\ MaxCommands \in Nat /\ MaxFails \in Nat
ASSUME LinesAssumption ==
  \A line \in Lines : line \in Seq(STRING) /\ NumCommands(line) <= MaxCommands

VARIABLES
  version,      \* the shell that runs
  spc,          \* the shell: "prompt", "wait", "exited" or "crashed"
  lines,        \* the lines typed so far
  fg,           \* the child the shell waits for
  procs,        \* the processes forked so far
  pipe,         \* what is in the pipe of each process
  fails         \* forks that have failed

vars == <<version, spc, lines, fg, procs, pipe, fails>>

\* Where input comes from and output goes to.
Terminal == <<"terminal", 0>>
File == <<"file", 0>>
PipeOf(p) == <<"pipe", p>>

Pids == 1 .. Len(procs)
AllPids == 1 .. MaxLines * MaxCommands
At(p, step) == p \in Pids /\ procs[p].at = step
Ended(p) == p \in Pids /\ procs[p].at \in {"zombie", "reaped"}

\* A new process: the job it belongs to and its place in it, the argv it works on,
\* its input and output, and the ends of pipes it holds besides.
Child(job, place, argv, in, out, held) ==
  [at |-> "child", job |-> job, place |-> place, argv |-> argv, in |-> in, out |-> out,
   held |-> held, buf |-> 0, fed |-> FALSE]

Readers(q) == {p \in Pids : ~Ended(p) /\ (procs[p].in = PipeOf(q) \/ <<"read", q>> \in procs[p].held)}
Writers(q) == {p \in Pids : ~Ended(p) /\ (procs[p].out = PipeOf(q) \/ <<"write", q>> \in procs[p].held)}

Programs == Filters \cup Heads \cup Endless \cup Brief
Execs(argv) == argv # <<>> /\ argv[1] \in Programs

Init ==
  /\ version \in Versions
  /\ spc = "prompt"
  /\ lines = <<>>
  /\ fg = 0
  /\ procs = <<>>
  /\ pipe = <<>>
  /\ fails = 0
-----------------------------------------------------------------------------
(* The shell *)

\* fgets and parse of a line that runs no command: no word, or a builtin.
NoCommand(line) ==
  /\ spc = "prompt" /\ Len(lines) < MaxLines
  /\ lines' = Append(lines, line)
  /\ CASE Parse(version, line) = "nothing" -> spc' = "prompt"
       [] Parse(version, line) = "fault" -> spc' = "crashed"
       [] OTHER -> line[1] \in Builtins(version) /\ spc' \in BuiltinOutcomes(line)
  /\ UNCHANGED <<version, fg, procs, pipe, fails>>

IsCommand(line) == Parse(version, line) = "argv" /\ line[1] \notin Builtins(version)

\* run_command: is_background, then fork; without "&" the shell waits.
RunCommand(line) ==
  /\ spc = "prompt" /\ Len(lines) < MaxLines
  /\ IsCommand(line)
  /\ lines' = Append(lines, line)
  /\ procs' = Append(procs, Child(Len(lines'), 1, Cut(line, "&"), Terminal, Terminal, {}))
  /\ pipe' = Append(pipe, 0)
  /\ fg' = Len(procs')
  /\ spc' = IF IsBackground(line) THEN "prompt" ELSE "wait"
  /\ UNCHANGED <<version, fails>>

\* fork fails: the shell exits.
RunFails(line) ==
  /\ spc = "prompt" /\ Len(lines) < MaxLines /\ fails < MaxFails
  /\ IsCommand(line)
  /\ lines' = Append(lines, line)
  /\ spc' = "exited"
  /\ fails' = fails + 1
  /\ UNCHANGED <<version, fg, procs, pipe>>

\* Mutant: SP_HW5 waits for any child, as SP_HW3 does.
Awaited_Any == {p \in Pids : procs[p].place = 1}
\* wait() in SP_HW3, which takes any child that has ended; waitpid(pid) in SP_HW5.
Awaited == IF version = "hw3" THEN {p \in Pids : procs[p].place = 1} ELSE {fg}

Reap(p) ==
  /\ spc = "wait"
  /\ p \in Awaited /\ At(p, "zombie")
  /\ procs' = [procs EXCEPT ![p].at = "reaped"]
  /\ spc' = "prompt"
  /\ UNCHANGED <<version, lines, fg, pipe, fails>>

\* End of input: exit(0).
EndOfInput ==
  /\ spc = "prompt"
  /\ spc' = "exited"
  /\ UNCHANGED <<version, lines, fg, procs, pipe, fails>>

ShellStep == \E p \in Pids : Reap(p)
-----------------------------------------------------------------------------
(* The shell's children, up to exec *)

Quiet == UNCHANGED <<version, spc, lines, fg>>
Step(p, record) == procs' = [procs EXCEPT ![p] = record]

\* exec of the argv, or its failure and exit.
Exec(p, record) ==
  Step(p, [record EXCEPT !.at = IF Execs(record.argv) THEN "run" ELSE "zombie"])

\* The child of SP_HW3: execvp.
ExecWhole(p) ==
  /\ version = "hw3" /\ At(p, "child")
  /\ Exec(p, procs[p])
  /\ Quiet /\ UNCHANGED <<pipe, fails>>

\* Mutant: the search for ">" comes first, and cuts off the "<".
Redirect_OutFirst(p) ==
  /\ version = "hw5" /\ At(p, "child")
  /\ LET r == procs[p]  argv == AfterOut(r.argv)
     IN  Step(p, [r EXCEPT !.at = "pipe", !.argv = AfterIn(argv),
                           !.in = IF OpensIn(argv) THEN File ELSE @,
                           !.out = IF OpensOut(r.argv) THEN File ELSE @])
  /\ Quiet /\ UNCHANGED <<pipe, fails>>

\* The child of SP_HW5: redirect_in, then redirect_out on what that left, for the
\* whole line at once.
Redirect(p) ==
  /\ version = "hw5" /\ At(p, "child")
  /\ LET r == procs[p]  argv == AfterIn(r.argv)
     IN  Step(p, [r EXCEPT !.at = "pipe", !.argv = AfterOut(argv),
                           !.in = IF OpensIn(r.argv) THEN File ELSE @,
                           !.out = IF OpensOut(argv) THEN File ELSE @])
  /\ Quiet /\ UNCHANGED <<pipe, fails>>

\* pipe_and_exec with no pipe: exec of the whole argv; with one in a wrong place:
\* a message and exit.
ExecLast(p) ==
  /\ At(p, "pipe") /\ PipePresent(procs[p].argv) <= 0
  /\ IF PipePresent(procs[p].argv) = 0 THEN Exec(p, procs[p])
     ELSE Step(p, [procs[p] EXCEPT !.at = "zombie"])
  /\ Quiet /\ UNCHANGED <<pipe, fails>>

\* pipe and fork: the process keeps the left half, its child gets the rest; both
\* hold both ends.
ForkRight(p) ==
  /\ At(p, "pipe") /\ PipePresent(procs[p].argv) > 0
  /\ LET r == procs[p]
         held == r.held \cup {<<"read", p>>, <<"write", p>>}
         left == [r EXCEPT !.at = "talk", !.argv = LeftOf(r.argv), !.held = held]
         right == [Child(r.job, r.place + 1, RightOf(r.argv), r.in, r.out, held) EXCEPT !.at = "listen"]
     IN  procs' = Append([procs EXCEPT ![p] = left], right)
  /\ pipe' = Append(pipe, 0)
  /\ Quiet /\ UNCHANGED fails

\* fork fails: a message and exit.
ForkRightFails(p) ==
  /\ At(p, "pipe") /\ PipePresent(procs[p].argv) > 0 /\ fails < MaxFails
  /\ Step(p, [procs[p] EXCEPT !.at = "zombie"])
  /\ fails' = fails + 1
  /\ Quiet /\ UNCHANGED pipe

\* "Talking parent": close the reading end, dup2 the writing end to stdout, close it,
\* exec the left command.
Talk(p) ==
  /\ At(p, "talk")
  /\ Exec(p, [procs[p] EXCEPT !.out = PipeOf(p), !.held = @ \ {<<"read", p>>, <<"write", p>>}])
  /\ Quiet /\ UNCHANGED <<pipe, fails>>

\* The pipe a listening child has in common with its parent: the last one made.
PipeToRead(p) == CHOOSE q \in Pids : procs[q].job = procs[p].job /\ procs[q].place = procs[p].place - 1

\* Mutant: the writing end stays open.
Listen_Open(p) ==
  /\ At(p, "listen")
  /\ Step(p, [procs[p] EXCEPT !.at = "pipe", !.in = PipeOf(PipeToRead(p))])
  /\ Quiet /\ UNCHANGED <<pipe, fails>>

\* "Listening child": close the writing end, dup2 the reading end to stdin, and
\* keep it as well; then pipe_and_exec again for the rest.
Listen(p) ==
  /\ At(p, "listen")
  /\ Step(p, [procs[p] EXCEPT !.at = "pipe", !.in = PipeOf(PipeToRead(p)),
                              !.held = @ \ {<<"write", PipeToRead(p)>>}])
  /\ Quiet /\ UNCHANGED <<pipe, fails>>

ChildStep(p) ==
  ExecWhole(p) \/ Redirect(p) \/ ExecLast(p) \/ ForkRight(p) \/ Talk(p) \/ Listen(p)
-----------------------------------------------------------------------------
(* The commands.  With arguments, none of them reads its input. *)

Is(p, commands) == procs[p].argv[1] \in commands
Reads(p) == Len(procs[p].argv) = 1 /\ Is(p, Filters \cup Heads)
Hungry(p) == At(p, "run") /\ Reads(p) /\ procs[p].buf = 0 /\ ~(Is(p, Heads) /\ procs[p].fed)
Ready(p) == At(p, "run") /\ (procs[p].buf = 1 \/ Is(p, Endless))
Fed(p) == Step(p, [procs[p] EXCEPT !.buf = 1, !.fed = TRUE])
Dies(p) == Step(p, [procs[p] EXCEPT !.at = "zombie"])

\* A line from a pipe; a file has one line.
CommandRead(p) ==
  /\ Hungry(p)
  /\ \/ \E q \in Pids : procs[p].in = PipeOf(q) /\ pipe[q] > 0 /\ pipe' = [pipe EXCEPT ![q] = @ - 1]
     \/ procs[p].in = File /\ ~procs[p].fed /\ UNCHANGED pipe
  /\ Fed(p) /\ Quiet /\ UNCHANGED fails

\* End of file.
CommandEof(p) ==
  /\ Hungry(p)
  /\ \/ \E q \in Pids : procs[p].in = PipeOf(q) /\ pipe[q] = 0 /\ Writers(q) = {}
     \/ procs[p].in = File /\ procs[p].fed
  /\ Dies(p) /\ Quiet /\ UNCHANGED <<pipe, fails>>

\* The user types a line, or the end of input.
UserInput(p) ==
  /\ Hungry(p) /\ procs[p].in = Terminal
  /\ Fed(p) \/ Dies(p)
  /\ Quiet /\ UNCHANGED <<pipe, fails>>

CommandWrite(p) ==
  /\ Ready(p)
  /\ \/ procs[p].out \in {Terminal, File} /\ UNCHANGED pipe
     \/ \E q \in Pids : /\ procs[p].out = PipeOf(q)
                        /\ pipe[q] < PipeCap /\ Readers(q) # {}
                        /\ pipe' = [pipe EXCEPT ![q] = @ + 1]
  /\ Step(p, [procs[p] EXCEPT !.buf = 0])
  /\ Quiet /\ UNCHANGED fails

\* Nobody can read the pipe any more: SIGPIPE.
CommandSigpipe(p) ==
  /\ Ready(p)
  /\ \E q \in Pids : procs[p].out = PipeOf(q) /\ Readers(q) = {}
  /\ Dies(p) /\ Quiet /\ UNCHANGED <<pipe, fails>>

\* A command that has nothing left to do ends.
CommandExit(p) ==
  /\ At(p, "run") /\ procs[p].buf = 0 /\ ~Is(p, Endless)
  /\ ~Reads(p) \/ (Is(p, Heads) /\ procs[p].fed)
  /\ Dies(p) /\ Quiet /\ UNCHANGED <<pipe, fails>>

CommandStep(p) ==
  CommandRead(p) \/ CommandEof(p) \/ CommandWrite(p) \/ CommandSigpipe(p) \/ CommandExit(p)
-----------------------------------------------------------------------------
Next ==
  \/ \E line \in Lines : NoCommand(line) \/ RunCommand(line) \/ RunFails(line)
  \/ ShellStep \/ EndOfInput
  \/ \E p \in Pids : ChildStep(p) \/ ForkRightFails(p) \/ CommandStep(p) \/ UserInput(p)

Spec == Init /\ [][Next]_vars

\* Processes that are not blocked are scheduled; the user owes nobody a line.
FairSpec ==
  /\ Spec
  /\ WF_vars(ShellStep)
  /\ \A p \in AllPids : WF_vars(p \in Pids /\ (ChildStep(p) \/ CommandStep(p)))
-----------------------------------------------------------------------------
(* Properties *)

Line(p) == Cut(lines[procs[p].job], "&")
Foreground(p) == ~IsBackground(lines[procs[p].job])

\* The lines SP_HW5 reads as they are meant.
Meant == {line \in Lines : ReadAsMeant(Cut(line, "&"))}

\* Every command that runs for a line that SP_HW5 reads as it is meant is the one
\* at its place in the line, and its input and output are those the line says: the
\* recursion over the rest of the line (pipe_command.c:115) and the redirections,
\* made once for the whole line before it (run_command.c:54), come to the usual reading.
Wired ==
  \A p \in Pids :
    LET r == procs[p]  line == Line(p)  n == NumCommands(line)
        Neighbour(k) == {q \in Pids : procs[q].job = r.job /\ procs[q].place = k}
    IN  version = "hw5" /\ r.at = "run" /\ lines[r.job] \in Meant =>
          /\ r.place <= n /\ r.argv = Command(line, r.place)
          /\ r.in = IF r.place > 1 THEN PipeOf(CHOOSE q \in Neighbour(r.place - 1) : TRUE)
                    ELSE IF From(line) THEN File ELSE Terminal
          /\ r.out = IF r.place < n THEN PipeOf(p) ELSE IF To(line) THEN File ELSE Terminal
          /\ r.place < n => Neighbour(r.place + 1) # {}

\* At the prompt, the foreground children that are not reaped are as many as the
\* background children that are: wait() in SP_HW3 takes one child for one command, but
\* perhaps another's (run_command.c:42).  In SP_HW5 there are none of either.
PromptBalance ==
  LET children == {p \in Pids : procs[p].place = 1}
      left == {p \in children : Foreground(p) /\ procs[p].at # "reaped"}
      taken == {p \in children : ~Foreground(p) /\ procs[p].at = "reaped"}
  IN  /\ spc = "prompt" => Cardinality(left) = Cardinality(taken)
      /\ version = "hw5" => taken = {}

\* Lines all of whose commands end: the last one that does not just copy its input
\* ends by itself, those before it are cut off then, those after it see the end of
\* their input; and none waits for the user.  Arguments keep a command from reading.
Copies(line, k) == Len(Command(line, k)) = 1 /\ Command(line, k)[1] \in Filters
Finite(line) ==
  /\ Len(Command(line, 1)) > 1 \/ Command(line, 1)[1] \notin Filters \cup Heads \/ From(line)
  /\ \E k \in 1 .. NumCommands(line) :
       /\ Command(line, k)[1] \notin Endless
       /\ Copies(line, k) => k = 1
       /\ \A j \in k + 1 .. NumCommands(line) : Copies(line, j)
\* In SP_HW3 the bars are arguments.
FiniteLines ==
  [v \in Versions |->
     IF v = "hw5" THEN {line \in Meant : Finite(Cut(line, "&"))}
     ELSE {line \in Lines : Len(line) > 1 /\ line[1] \notin Endless}]

\* Every command of such a line ends and the shell gets back to its prompt, however the
\* processes of this line and of others in the background are scheduled: end of file
\* reaches every reader, for writing ends never leak, and SIGPIPE every writer, for
\* the reading ends that do leak (pipe_command.c:107) are those of commands that end.
LinesEnd ==
  \A p \in AllPids :
    (p \in Pids /\ lines[procs[p].job] \in FiniteLines[version])
      ~> (Ended(p) /\ ~(spc = "wait" /\ fg = p))
=============================================================================
