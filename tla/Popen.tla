------------------------------- MODULE Popen --------------------------------
(***************************************************************************)
(* p_open_close.c (SP_HW6): main opens a pipe to a command with my_popen,  *)
(* prints what it can read from it, and closes it with my_pclose.          *)
(*                                                                         *)
(* What the command does is outside the repository: it prints a number of  *)
(* lines, and may then read its input to the end before it ends.           *)
(***************************************************************************)
EXTENDS Naturals, Sequences

CONSTANTS
  Types,        \* the second argument: "r", "w" or something else
  Commands,     \* the commands: how many lines they print, whether they read to the end
  PopenCap,     \* lines the pipe holds
  PopenKill     \* may parent and command be killed by a signal

ASSUME TypesAssumption == Types \subseteq {"r", "w", "x"}
ASSUME CommandsAssumption == Commands \subseteq [prints : Nat, reads : BOOLEAN]
ASSUME PopenCapAssumption == PopenCap \in Nat \ {0}

VARIABLES
  type, command,    \* the arguments
  ppc,              \* the parent: "off", "popen", "setup", "fgets", "pclose", or how it ended
  cpc,              \* the child: "none", "setup", "run", or how it ended
  ends,             \* who holds which end of pd, <<process, end>>
  pd,               \* lines in the pipe
  printed           \* lines the command has printed

popenVars == <<type, command, ppc, cpc, ends, pd, printed>>

Over == {"success", "failure", "killed"}
Closed(who) == {e \in ends : e[1] # who}
Writes == \E who \in {"parent", "child"} : <<who, "write">> \in ends

PopenState(pc) ==
  /\ type \in Types /\ command \in Commands
  /\ ppc = pc /\ cpc = "none"
  /\ ends = {} /\ pd = 0 /\ printed = 0
PopenInit == PopenState("popen")
-----------------------------------------------------------------------------
(* The parent *)

\* pipe and fork: both processes hold both ends.
PopenFork ==
  /\ ppc = "popen"
  /\ ppc' = "setup" /\ cpc' = "setup"
  /\ ends' = {"parent", "child"} \X {"read", "write"}
  /\ UNCHANGED <<type, command, pd, printed>>

\* pipe or fork fails.
PopenFails ==
  /\ ppc = "popen"
  /\ ppc' = "failure"
  /\ UNCHANGED <<type, command, cpc, ends, pd, printed>>

\* Mutant: the parent keeps both ends.
ParentSetup_Open ==
  /\ ppc = "setup"
  /\ ppc' = IF type = "x" THEN "failure" ELSE "fgets"
  /\ ends' = IF type = "x" THEN Closed("parent") ELSE ends
  /\ UNCHANGED <<type, command, cpc, pd, printed>>

\* close of the other end and fdopen; exit with any other type.
ParentSetup ==
  /\ ppc = "setup"
  /\ CASE type = "r" -> ends' = ends \ {<<"parent", "write">>} /\ ppc' = "fgets"
       [] type = "w" -> ends' = ends \ {<<"parent", "read">>} /\ ppc' = "fgets"
       [] OTHER -> ends' = Closed("parent") /\ ppc' = "failure"
  /\ UNCHANGED <<type, command, cpc, pd, printed>>

\* fgets in main: a line, or NULL at the end of file; of a stream that is open for
\* writing, NULL at once.
ParentFgets ==
  /\ ppc = "fgets"
  /\ \/ type = "r" /\ pd > 0 /\ pd' = pd - 1 /\ UNCHANGED ppc
     \/ (type = "r" => pd = 0 /\ ~Writes) /\ ppc' = "pclose" /\ UNCHANGED pd
  /\ UNCHANGED <<type, command, cpc, ends, printed>>

\* my_pclose: waitpid, and only then fclose.
ParentPclose ==
  /\ ppc = "pclose" /\ cpc \in Over
  /\ ppc' = "success"
  /\ ends' = Closed("parent")
  /\ UNCHANGED <<type, command, cpc, pd, printed>>

ParentStep == PopenFork \/ ParentSetup \/ ParentFgets \/ ParentPclose
-----------------------------------------------------------------------------
(* The child *)

ChildEnds(how) == cpc' = how /\ ends' = Closed("child")

\* dup2 and exec: with "r" the reading end is closed before, with "w" nothing is, so that
\* the command holds the writing end of its own input.  Other types: exit.
ChildSetup ==
  /\ cpc = "setup"
  /\ CASE type = "r" -> cpc' = "run" /\ ends' = ends \ {<<"child", "read">>}
       [] type = "w" -> cpc' = "run" /\ UNCHANGED ends
       [] OTHER -> ChildEnds("failure")
  /\ UNCHANGED <<type, command, ppc, pd, printed>>

\* exec fails.
ExecFails ==
  /\ cpc = "setup" /\ type \in {"r", "w"}
  /\ ChildEnds("failure")
  /\ UNCHANGED <<type, command, ppc, pd, printed>>

\* A line to stdout: the pipe, or the terminal.
CommandPrint ==
  /\ cpc = "run" /\ printed < command.prints
  /\ \/ type = "r" /\ <<"parent", "read">> \in ends /\ pd < PopenCap /\ pd' = pd + 1
     \/ type = "w" /\ UNCHANGED pd
  /\ printed' = printed + 1
  /\ UNCHANGED <<type, command, ppc, cpc, ends>>

\* The parent is gone: SIGPIPE.
CommandPipe ==
  /\ cpc = "run" /\ printed < command.prints
  /\ type = "r" /\ <<"parent", "read">> \notin ends
  /\ ChildEnds("killed")
  /\ UNCHANGED <<type, command, ppc, pd, printed>>

\* The command ends; one that reads does so at the end of its input.
CommandEnd ==
  /\ cpc = "run" /\ printed = command.prints
  /\ command.reads => type = "w" /\ ~Writes
  /\ ChildEnds("success")
  /\ UNCHANGED <<type, command, ppc, pd, printed>>

\* With "r" the input is the user's.
UserEof ==
  /\ cpc = "run" /\ printed = command.prints
  /\ command.reads /\ type = "r"
  /\ ChildEnds("success")
  /\ UNCHANGED <<type, command, ppc, pd, printed>>

CommandStep == ChildSetup \/ CommandPrint \/ CommandPipe \/ CommandEnd

ParentKill ==
  /\ PopenKill /\ ppc \in {"setup", "fgets", "pclose"}
  /\ ppc' = "killed" /\ ends' = Closed("parent")
  /\ UNCHANGED <<type, command, cpc, pd, printed>>
CommandKill ==
  /\ PopenKill /\ cpc \in {"setup", "run"}
  /\ ChildEnds("killed")
  /\ UNCHANGED <<type, command, ppc, pd, printed>>
-----------------------------------------------------------------------------
PopenNext ==
  ParentStep \/ PopenFails \/ CommandStep \/ ExecFails \/ UserEof \/ ParentKill \/ CommandKill

PopenSpec == PopenInit /\ [][PopenNext]_popenVars

\* Processes that are not blocked are scheduled; the user need not end his input.
PopenFairness == WF_popenVars(ParentStep) /\ WF_popenVars(CommandStep)
-----------------------------------------------------------------------------
(* Properties *)

\* my_popen and my_pclose come to an end, and with "r" not before everything the
\* command printed is read, however long its output is against the pipe: unless the command
\* waits for the user, or with "w" for the end of an input whose writing end
\* it holds itself (p_open_close.c:125), which my_pclose never closes either before the
\* command has ended (p_open_close.c:209).
PopenReturns ==
  (ppc = "setup" /\ ~command.reads) ~> (ppc \in Over /\ cpc \in Over /\ (ppc = "success" => pd = 0))
=============================================================================
