\* Dialogues of two words over sockets of either kind, clients killed at any point.
SPECIFICATION FairSpec
CONSTANTS
  Clients = {c1, c2}
  Words = {w1, w2}
  Known = {w1}
  NotFound = NotFound
  Junk = Junk
  Families = {"unix", "inet"}
  MaxQueries = 2
  MayKill = TRUE
INVARIANT NeverSlips
PROPERTY ClientReturns
CHECK_DEADLOCK FALSE
