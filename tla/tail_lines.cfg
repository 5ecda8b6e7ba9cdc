\* Up to two bytes below buf are read.
SPECIFICATION TailSpec
CONSTANTS
  Files <- AllFiles
  Newline <- LF
  Counts <- SomeCounts
  BelowBuf = 2
INVARIANT PrintsLast
CHECK_DEADLOCK FALSE
