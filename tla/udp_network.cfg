\* Datagrams lost, duplicated and reordered.
SPECIFICATION FairSpec
CONSTANTS
  Clients = {c1, c2}
  Words = {w1, w2}
  Known = {w1}
  NotFound = NotFound
  MaxQueries = 2
  MaxLost = 1
  MaxDup = 1
INVARIANT AskedIsAnswered
PROPERTY ClientReturns
CHECK_DEADLOCK FALSE
