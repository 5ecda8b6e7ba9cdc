\* One file that can be read and one that cannot.
SPECIFICATION Spec
CONSTANTS
  Clients = {c1, c2}
  Files = {f1, f2}
  Readable = {f1}
  MqCap = 2
  MaxRuns = 1
  MaxKills = 0
INVARIANT HandledApart
CHECK_DEADLOCK FALSE
