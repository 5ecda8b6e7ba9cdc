\* Clients one after the other or at the same time, two servers.
SPECIFICATION FairSpec
CONSTANTS
  Clients = {c1, c2, c3}
  Files = {f1, f2, f3}
  Readable = {f1, f2}
  MqCap = 3
  MaxRuns = 2
  MaxKills = 1
INVARIANTS RepliesRight ReplyFits
PROPERTY Answered
CHECK_DEADLOCK FALSE
