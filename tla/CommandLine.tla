----------------------------- MODULE CommandLine -----------------------------
(***************************************************************************)
(* What the two shells make of a line: the words that parse.c finds, the   *)
(* builtins, "&", "<", ">" and "|".  An argv is the sequence of the words  *)
(* before the terminating NULL, so that writing NULL over a word cuts it.  *)
(***************************************************************************)
EXTENDS Integers, Sequences, FiniteSets, SequencesExt

CONSTANTS
  Openable,     \* names that open() for reading accepts
  Writable,     \* names that open() with O_CREAT and O_TRUNC accepts
  AtoiOf(_)     \* the number a word stands for (atoi)

Spaces == <<" ">>                   \* a line of spaces or tabs only

\* parse: with no word in the line, strtok returns NULL and strlen faults; SP_HW5
\* returns early for the line that is just a newline.
Parse(version, line) ==
  IF line = <<>> THEN IF version = "hw5" THEN "nothing" ELSE "fault"
  ELSE IF line = Spaces THEN "fault" ELSE "argv"

Quits == {"quit", "exit", "bye", "logout"}
Builtins(version) ==
  Quits \cup {"echo"} \cup
    IF version = "hw5" THEN {"builtin", "cd", "pwd", "id", "hostname"} ELSE {}

\* bi_echo: argv[1], argv[2] and argv[n + 2] are used without looking whether they
\* are there; beyond the NULL is what the heap holds.
EchoOutcomes(argv) ==
  LET n == AtoiOf(argv[3])
  IN  IF Len(argv) = 1 \/ (argv[2] = "-n" /\ Len(argv) = 2) THEN {"crashed"}
      ELSE IF argv[2] # "-n" \/ n + 2 \in 0 .. Len(argv) - 1 THEN {"prompt"}
      ELSE IF n + 2 = Len(argv) THEN {"crashed"} ELSE {"prompt", "crashed"}

\* Where the shell is after do_builtin: it exits when uname or getcwd fails, as in a
\* directory that was removed, and uses what getpwuid and getgrgid may not find.
BuiltinOutcomes(argv) ==
  CASE argv[1] \in Quits -> {"exited"}
    [] argv[1] \in {"hostname", "pwd"} -> {"prompt", "exited"}
    [] argv[1] = "id" -> {"prompt", "crashed"}
    [] argv[1] = "echo" -> EchoOutcomes(argv)
    [] argv[1] = "builtin" /\ Len(argv) = 1 -> {"crashed"}
    [] OTHER -> {"prompt"}

First(argv, word) == SelectInSeq(argv, LAMBDA w : w = word)
Cut(argv, word) == IF First(argv, word) = 0 THEN argv ELSE SubSeq(argv, 1, First(argv, word) - 1)

\* is_background: every "&" is overwritten, which cuts the line at the first.
IsBackground(argv) == First(argv, "&") # 0

\* redirect_in and redirect_out: does the open of the name after the sign succeed?
\* When it does, the line is cut at the sign; when not, or with no name behind the
\* sign, it stays as it is, and so do standard input and output.
OpensIn(argv) == LET i == First(argv, "<") IN i # 0 /\ i < Len(argv) /\ argv[i + 1] \in Openable
OpensOut(argv) == LET i == First(argv, ">") IN i # 0 /\ i < Len(argv) /\ argv[i + 1] \in Writable
AfterIn(argv) == IF OpensIn(argv) THEN Cut(argv, "<") ELSE argv
AfterOut(argv) == IF OpensOut(argv) THEN Cut(argv, ">") ELSE argv

\* pipe_present: the C index of the first "|", -1 when that is the first word or
\* there is none at all, 0 when it is the last.  Without a "|" the function ends with no
\* return statement; the build leaves the NULL it has just read, 0.
PipePresent(argv) ==
  LET i == First(argv, "|")
  IN  CASE argv = <<>> \/ i = 1 -> -1
        [] argv # <<>> /\ i \in {0, Len(argv)} /\ i # 1 -> 0
        [] OTHER -> i - 1

LeftOf(argv) == SubSeq(argv, 1, PipePresent(argv))
RightOf(argv) == SubSeq(argv, PipePresent(argv) + 2, Len(argv))
-----------------------------------------------------------------------------
(* The usual reading of a line, to compare with: commands between bars, a     *)
(* "<" for the first and a ">" for the last.                                   *)

Bars(argv) == {i \in 1 .. Len(argv) : argv[i] = "|"}
NumCommands(argv) == Cardinality(Bars(argv)) + 1
\* The k-th command stands between bar k - 1 and bar k, or an end of the line.
Bar(argv, k) ==
  IF k = 0 THEN 0 ELSE IF k = NumCommands(argv) THEN Len(argv) + 1
  ELSE CHOOSE i \in Bars(argv) : Cardinality({j \in Bars(argv) : j <= i}) = k
Segment(argv, k) == SubSeq(argv, Bar(argv, k - 1) + 1, Bar(argv, k) - 1)

Signs == {"<", ">", "|", "&"}
Plain(words) == words # <<>> /\ \A i \in 1 .. Len(words) : words[i] \notin Signs

\* The command of the k-th segment and its arguments, without redirections.
Command(argv, k) == Cut(Cut(Segment(argv, k), "<"), ">")
From(argv) == First(argv, "<") # 0
To(argv) == First(argv, ">") # 0

\* The lines the shell of SP_HW5 reads as they are meant: pipelines whose last
\* command may be redirected to a file, and single commands that may also be
\* redirected from a file, if that comes last; and the files can be opened.
Redirections(argv, k) ==
  LET words == Segment(argv, k) IN SubSeq(words, Len(Command(argv, k)) + 1, Len(words))
ReadAsMeant(argv) ==
  /\ \A k \in 1 .. NumCommands(argv) : Plain(Command(argv, k))
  /\ \A k \in 1 .. NumCommands(argv) - 1 : Redirections(argv, k) = <<>>
  /\ LET r == Redirections(argv, NumCommands(argv))
         single == NumCommands(argv) = 1
     IN  \/ r = <<>>
         \/ Len(r) = 2 /\ r[1] = ">" /\ r[2] \in Writable \ Signs
         \/ Len(r) = 2 /\ r[1] = "<" /\ r[2] \in Openable \ Signs /\ single
         \/ /\ Len(r) = 4 /\ r[1] = ">" /\ r[2] \in Writable \ Signs /\ single
            /\ r[3] = "<" /\ r[4] \in Openable \ Signs
=============================================================================
