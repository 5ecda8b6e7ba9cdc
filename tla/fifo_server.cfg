\* Every client program, with clients that may be killed, and every server.
SPECIFICATION FairSpec
CONSTANTS
  c1 = c1
  c2 = c2
  c3 = c3
  Clients <- ThreeClients
  Kind <- AllKinds
  Modes = {"block", "nonblock", "nowrite"}
  SeqLens = {2}
  PipeCap = 2
  MaxRuns = 2
  MayKill = TRUE
INVARIANTS PrintedDisjoint NoOrphan
PROPERTIES AllocSpec BlockAnswers NonblockReturns
CHECK_DEADLOCK FALSE
