\* Two lines in a row, in either shell.
SPECIFICATION FairSpec
CONSTANTS
  AtoiOf <- Atoi
  Openable = {"f"}
  Writable = {"g"}
  Versions = {"hw3", "hw5"}
  Lines <- SomeLines
  Filters = {"cat"}
  Heads = {"head"}
  Endless = {"yes"}
  Brief = {"true"}
  PipeCap = 1
  MaxLines = 2
  MaxCommands = 3
  MaxFails = 1
INVARIANTS Wired PromptBalance
PROPERTY LinesEnd
CHECK_DEADLOCK FALSE
