------------------------------- MODULE MCScan -------------------------------
(***************************************************************************)
(* FileLog and ProcScan for TLC: the programs that read directories while  *)
(* others change them.  One of them runs, the other is left at its start.  *)
(***************************************************************************)
EXTENDS FileLog, ProcScan

VARIABLE running    \* "log" or "proc"

LogOff ==
  /\ user = "busy" /\ tree = <<>> /\ lastIno = 0
  /\ watch = <<>> /\ lastWd = 0 /\ queue = <<>>
  /\ pc = "failure" /\ cur = <<>> /\ at = Root /\ todo = <<>> /\ dir_list = <<>>

ProcOff ==
  /\ program = "process_list" /\ reused = FALSE /\ procs = <<>> /\ events = 0
  /\ spc = "success" /\ names = {} /\ pid = 0 /\ file = 0 /\ fds = 0 /\ head = "NULL"
  /\ nodes = <<>> /\ p_cmd = 0 /\ shown = <<>>
  /\ ended = FALSE /\ steady = {} /\ asked = {}

MCInit ==
  \/ running = "log" /\ Init /\ ProcOff
  \/ running = "proc" /\ ProcInit /\ LogOff
MCNext ==
  /\ UNCHANGED running
  /\ \/ running = "log" /\ Next /\ UNCHANGED procVars
     \/ running = "proc" /\ ProcNext /\ UNCHANGED vars
MCSpec == MCInit /\ [][MCNext]_<<running, vars, procVars>> /\ Fairness
=============================================================================
