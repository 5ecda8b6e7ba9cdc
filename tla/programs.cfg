\* my_popen with every type and kind of command, two_pipe with three texts, tail on
\* every small file, and texts of every shape for convert and lookup.
SPECIFICATION FairSpec
CONSTANTS
  Types = {"r", "w", "x"}
  Commands <- SomeCommands
  PopenCap = 2
  PopenKill = TRUE
  Texts = {t1, t2}
  NoText = NoText
  MaxTexts = 3
  TwoKill = TRUE
  Files <- AllFiles
  Newline <- LF
  Counts <- SomeCounts
  BelowBuf = 2
  Inputs <- AllInputs
  Sought <- SomeWords
  NL <- LF
  Junk <- SomeJunk
  MaxAsked = 2
INVARIANT TailRight
PROPERTIES PopenReturns InTurns Shown ConvertRight LookupRight
CHECK_DEADLOCK FALSE
