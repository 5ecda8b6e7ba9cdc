------------------------------ MODULE MCShared ------------------------------
(***************************************************************************)
(* ShmTransfer and SignalShm for TLC: the two programs that meet in shared *)
(* memory.  One of them runs, the other has ended before it began.         *)
(***************************************************************************)
EXTENDS ShmTransfer, SignalShm

TransferOff ==
  /\ start = "any" /\ shmExists = FALSE /\ semExists = FALSE /\ semW = 0 /\ semR = 0
  /\ cnt = 0 /\ mem = [k \in Cells |-> 0]
  /\ wpc = "failure" /\ pos = 0 /\ wbytes = 0 /\ wxfrs = 0
  /\ rpc = "failure" /\ rbytes = 0 /\ rxfrs = 0 /\ stdout = <<>>
  /\ chunks = <<>> /\ taken = <<>>

SignalOff ==
  /\ received = 0
  /\ mpc = "failure" /\ i = 0 /\ j = 1
  /\ cpc = [c \in Consumers |-> "unborn"]
  /\ usr1 = [c \in Consumers |-> None] /\ int = [c \in Consumers |-> FALSE]
  /\ reg = [c \in Consumers |-> 0]
  /\ got = [c \in Consumers |-> <<>>] /\ counted = [c \in Consumers |-> 0]

MCInit == (Init /\ SignalOff) \/ (TransferOff /\ SigInit)
MCNext ==
  \/ Next /\ UNCHANGED sigVars
  \/ SigNext /\ UNCHANGED vars
MCSpec ==
  /\ MCInit /\ [][MCNext]_<<vars, sigVars>>
  /\ Fairness /\ SigFairness
=============================================================================
