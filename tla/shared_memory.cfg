\* Writer and reader with every way to start, producer and consumers with any outcome of
\* the undefined read; calls that fail.
SPECIFICATION MCSpec
CONSTANTS
  InLen = 7
  MaxRead = 3
  MapCells = 3
  Starts = {"late", "fresh", "any"}
  MayFail = TRUE
  N = 2
  DataNum = 3
  BufSize = 2
  Outcomes = {"fault", "return"}
  CallsFail = TRUE
INVARIANTS Exclusive RemovedUnused TotalsAgree InOrder NeverAhead
PROPERTIES HandoffSpec Completed Ends
CHECK_DEADLOCK FALSE
