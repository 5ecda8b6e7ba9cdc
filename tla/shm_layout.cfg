\* The two programs' views of the segment.
SPECIFICATION Spec
CONSTANTS
  InLen = 7
  MaxRead = 3
  MapCells = 3
  Starts = {"late"}
  MayFail = FALSE
INVARIANT OutputIsInput
CHECK_DEADLOCK FALSE
