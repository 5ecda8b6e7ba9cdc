------------------------------ MODULE SeqAlloc ------------------------------
(***************************************************************************)
(* What a sequence-number server promises, whatever carries its messages:  *)
(* it hands out consecutive blocks of numbers, at most one to a process,   *)
(* and a process prints only a block that was handed out to it.            *)
(* fifo_server.c (FifoSeq) and msq_server.c (MsgSeq) implement it.  The    *)
(* counter lives in the server's memory, so that a new server starts again *)
(* at 0: the promise of disjoint blocks is per run of the server.          *)
(***************************************************************************)
EXTENDS Naturals

CONSTANTS
  Clients,      \* processes that may ask for a block
  SeqLens       \* block lengths they may ask for

VARIABLES
  next,         \* first number that is not handed out yet in this run
  run,          \* which run of the server is counting
  grants,       \* blocks handed out: [pid, first, len, run]
  printed       \* blocks the clients printed: [pid, first, len]

vars == <<next, run, grants, printed>>

Init == next = 0 /\ run = 0 /\ grants = {} /\ printed = {}

\* The next n numbers go to client c.
Grant(c, n) ==
  /\ \A g \in grants : g.pid # c
  /\ grants' = grants \cup {[pid |-> c, first |-> next, len |-> n, run |-> run]}
  /\ next' = next + n
  /\ UNCHANGED <<run, printed>>

\* The client a block was handed out to prints it.
PrintBlock(g) ==
  /\ printed' = printed \cup {[pid |-> g.pid, first |-> g.first, len |-> g.len]}
  /\ UNCHANGED <<next, run, grants>>

\* A new server takes over and counts from 0.
Restart ==
  /\ next' = 0
  /\ run' = run + 1
  /\ UNCHANGED <<grants, printed>>

Next ==
  \/ \E c \in Clients, n \in SeqLens : Grant(c, n)
  \/ \E g \in grants : PrintBlock(g)
  \/ Restart

Spec == Init /\ [][Next]_vars
=============================================================================
