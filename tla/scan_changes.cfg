\* Users who make, remove and rename; the three programs that scan /proc, with three steps
\* of the other processes, pids used again or not.
SPECIFICATION MCSpec
CONSTANTS
  Names = {"a", "b"}
  MaxDepth = 2
  MaxIno = 3
  MaxQueue = 1
  Users = {"busy", "remover", "maker"}
  Programs = {"process_list", "draw_pid_tree", "file_open_list"}
  MaxPid = 4
  MaxEvents = 3
  Batch = 2
  Size = 2
  MaxFds = 4
INVARIANTS ListRight TreeDrawn ShownRight UndisturbedSucceeds
PROPERTY AnnouncedIsWatched
CHECK_DEADLOCK FALSE
