\* Servers and clients that may die at any call, two servers one after another,
\* a queue with room for every client's message that may be removed.
SPECIFICATION FairSpec
CONSTANTS
  Clients = {c1, c2, c3}
  SeqLens = {0, 2}
  QCap = 3
  MaxRuns = 2
  MayKill = TRUE
  MayRemove = TRUE
INVARIANTS PrintedDisjoint OneStrandedPerCrash ResponseFits
PROPERTIES AllocSpec RequestAnswered RemovalEndsAll
CHECK_DEADLOCK FALSE
