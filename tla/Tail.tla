-------------------------------- MODULE Tail --------------------------------
(***************************************************************************)
(* tail.c (SP_HW2): the last n lines of a file, found by counting newlines *)
(* from its end in a buffer that holds the whole file.                     *)
(***************************************************************************)
EXTENDS Integers, Sequences, FiniteSets

CONSTANTS
  Files,        \* contents: sequences of Newline and other bytes
  Newline,      \* the byte '\n'
  Counts,       \* values of n, whatever atoi makes of the option
  BelowBuf      \* bound: bytes of the stack below buf that may be read

ASSUME FilesAssumption == \A f \in Files : f \in Seq({f[j] : j \in DOMAIN f})
ASSUME CountsAssumption == Counts \subseteq Int
ASSUME BelowAssumption == BelowBuf \in Nat

VARIABLES
  file,         \* the file, of which buf is a copy
  n,            \* the number asked for
  offset,       \* newlines still to be found
  to_write,     \* bytes to write
  i,            \* the C index of the byte to look at
  tpc,          \* "off", "count", "lseek", "read", or how the program ended
  output        \* what was written

tailVars == <<file, n, offset, to_write, i, tpc, output>>

TailOver == {"success", "failure", "crashed", "missing"}

TailState(pc) ==
  /\ file \in Files /\ n \in Counts
  /\ offset = n
  /\ to_write = -1
  /\ i = Len(file) - 1
  /\ tpc = pc
  /\ output = <<>>
\* After getopt, stat, open and the first read.
TailInit == TailState("count")
-----------------------------------------------------------------------------
\* stat or open fails: there is no such file.
NoFile ==
  /\ tpc = "count" /\ i = Len(file) - 1 /\ offset = n
  /\ tpc' = "missing"
  /\ UNCHANGED <<file, n, offset, to_write, i, output>>

\* The body of the loop, with the byte at i.
Look(byte) ==
  /\ offset' = IF byte = Newline THEN offset - 1 ELSE offset
  /\ to_write' = to_write + 1
  /\ i' = i - 1
  /\ UNCHANGED <<file, n, tpc, output>>

\* Mutant: the newline that ends the file is not counted.
CountByte_Skip ==
  /\ tpc = "count" /\ offset + 1 > 0 /\ i \in 0 .. Len(file) - 1
  /\ Look(IF i = Len(file) - 1 THEN "other" ELSE file[i + 1])

CountByte ==
  /\ tpc = "count" /\ offset + 1 > 0 /\ i \in 0 .. Len(file) - 1
  /\ Look(file[i + 1])

\* No newline is left, and i is below buf: what is read there is whatever the stack
\* holds, down to the end of the stack.
CountBelow ==
  /\ tpc = "count" /\ offset + 1 > 0 /\ i < 0
  /\ \/ \E byte \in {Newline, "other"} : -i <= BelowBuf /\ Look(byte)
     \/ tpc' = "crashed" /\ UNCHANGED <<file, n, offset, to_write, i, output>>

CountDone ==
  /\ tpc = "count" /\ offset + 1 <= 0
  /\ tpc' = "lseek"
  /\ UNCHANGED <<file, n, offset, to_write, i, output>>

\* lseek to -to_write from the end, which fails before the start of the file.
Lseek ==
  /\ tpc = "lseek"
  /\ tpc' = IF to_write > Len(file) THEN "failure" ELSE "read"
  /\ UNCHANGED <<file, n, offset, to_write, i, output>>

\* read and write of to_write bytes; -1 is a length that read refuses.
ReadWrite ==
  /\ tpc = "read"
  /\ IF to_write < 0 THEN tpc' = "failure" /\ UNCHANGED output
     ELSE /\ output' = SubSeq(file, Len(file) - to_write + 1, Len(file))
          /\ tpc' = "success"
  /\ UNCHANGED <<file, n, offset, to_write, i>>

TailStep == CountByte \/ CountBelow \/ CountDone \/ Lseek \/ ReadWrite
TailNext == TailStep \/ NoFile

TailSpec == TailInit /\ [][TailNext]_tailVars
-----------------------------------------------------------------------------
(* Properties *)

Newlines(bytes) == Cardinality({j \in 1 .. Len(bytes) : bytes[j] = Newline})

\* The lines of a text: the last one may lack its newline.
Unterminated(bytes) == bytes # <<>> /\ bytes[Len(bytes)] # Newline
NumLines(bytes) == Newlines(bytes) + IF Unterminated(bytes) THEN 1 ELSE 0

\* Are these the last k lines of the file?
AreLast(bytes, k) ==
  \E b \in 0 .. Len(file) :
    /\ b \in {0, Len(file)} \/ file[b] = Newline
    /\ bytes = SubSeq(file, b + 1, Len(file)) /\ NumLines(bytes) = k

\* Of a file whose last line ends in a newline tail writes the last n lines, if there are
\* more than n.  A last line without a newline goes uncounted: it is written besides.  When
\* there are not more lines than would be written, nothing is, or just the whole file,
\* whatever the bytes below buf are (tail.c:76): the loop may find newlines that
\* are not there, but lseek refuses the length they lead to (tail.c:83).  Never does
\* tail succeed when more lines are asked for than the file has (SP_HW2/README.md:13).
TailRight ==
  tpc \in TailOver \ {"missing"} =>
    LET k == IF Unterminated(file) THEN n + 1 ELSE n
    IN  /\ n >= 0 /\ NumLines(file) > k => tpc = "success" /\ AreLast(output, k)
        /\ tpc = "success" => AreLast(output, k) /\ n <= NumLines(file)
        /\ tpc # "success" => output = <<>>

\* "Print last n (default = 10) lines of file" (SP_HW2/README.md:1), and an error when more
\* lines are asked for than the file has (SP_HW2/README.md:13): when it has that many, or
\* more, they are printed.
PrintsLast ==
  tpc \in {"success", "failure"} /\ n \in 1 .. NumLines(file) =>
    tpc = "success" /\ AreLast(output, n)
=============================================================================
