------------------------------ MODULE SignalShm ------------------------------
(***************************************************************************)
(* A producer that announces messages to its children with sigqueue, and   *)
(* consumers that count what they receive in shared memory                 *)
(* (SP_HW10/shm_consumer_signal.c).                                        *)
(*                                                                         *)
(* SIGUSR1 is a standard signal: while one is pending for a process        *)
(* another one is dropped.  SIGINT is neither caught nor blocked and ends  *)
(* a consumer wherever it is, some time after kill() returns.  The         *)
(* handler's received_num += 1 is a load and a store.  What it then        *)
(* prints, message_buffer[-1], lies before the array: with the allocator   *)
(* of glibc it is the size of the block, no address, and the consumer ends *)
(* with SIGSEGV.                                                           *)
(*                                                                         *)
(* The messages are left out: after fork each process has its own copy of  *)
(* the heap they are in, and no consumer looks at them.                    *)
(***************************************************************************)
EXTENDS Integers, Sequences, FiniteSets

CONSTANTS
  N,            \* consumer
  DataNum,      \* data_num
  BufSize,      \* buf_size
  Outcomes,     \* what printing message_buffer[-1] may do: "fault", "return"
  CallsFail       \* may fork, and the calls the handler makes, fail

ASSUME NAssumption == N \in Nat \ {0}
ASSUME DataNumAssumption == DataNum \in Nat
ASSUME BufSizeAssumption == BufSize \in 1 .. DataNum
ASSUME OutcomesAssumption == Outcomes \subseteq {"fault", "return"}

VARIABLES
  received,     \* received_num in the shared memory
  mpc,          \* where main is
  i, j,         \* the loop counters of main: message and consumer
  cpc,          \* where each consumer is
  usr1,         \* the sival_int of each consumer's pending SIGUSR1, or None
  int,          \* has each consumer a pending SIGINT
  reg,          \* what each handler has loaded from received_num
  got,          \* history: the data each consumer's handler was called with
  counted       \* history: the increments each consumer has made

consumers == <<cpc, usr1, int, reg, got, counted>>
sigVars == <<received, mpc, i, j, consumers>>

Consumers == 1 .. N
None == -1

\* The states in which a consumer is a running process.
Running == {"spin", "load", "store", "print"}

\* SHM_FILE may be left from a run that was interrupted.
SigInit ==
  /\ received \in {0, DataNum}
  /\ mpc = "setup" /\ i = 0 /\ j = 1
  /\ cpc = [c \in Consumers |-> "unborn"]
  /\ usr1 = [c \in Consumers |-> None]
  /\ int = [c \in Consumers |-> FALSE]
  /\ reg = [c \in Consumers |-> 0]
  /\ got = [c \in Consumers |-> <<>>]
  /\ counted = [c \in Consumers |-> 0]
-----------------------------------------------------------------------------
(* main *)

\* Mutant: an existing segment is taken as it is.
MainSetup_Keep ==
  /\ mpc = "setup" /\ mpc' = "fork"
  /\ UNCHANGED <<received, i, j, consumers>>

\* sigaction, shm_open with O_CREAT, ftruncate, mmap; received_num is 0.
MainSetup ==
  /\ mpc = "setup" /\ mpc' = "fork"
  /\ received' = 0
  /\ UNCHANGED <<i, j, consumers>>

\* One round of a loop over the consumers, which leads to next after the last.
EachConsumer(next) ==
  IF j < N THEN j' = j + 1 /\ UNCHANGED mpc
           ELSE j' = 1 /\ mpc' = next

\* The child has the handler from the start and enters while (1).
MainFork ==
  /\ mpc = "fork"
  /\ cpc' = [cpc EXCEPT ![j] = "spin"]
  /\ EachConsumer("message")
  /\ UNCHANGED <<received, i, usr1, int, reg, got, counted>>

\* fork fails: main exits and leaves the consumers it has to themselves.
MainForkFails ==
  /\ CallsFail
  /\ mpc = "fork" /\ mpc' = "failure"
  /\ UNCHANGED <<received, i, j, consumers>>

\* The head of the loop over the messages.
MainMessage ==
  /\ mpc = "message"
  /\ mpc' = IF i < DataNum THEN "queue" ELSE "kill"
  /\ UNCHANGED <<received, i, j, consumers>>

\* Mutant: the signal carries the slot of the message, not its number.
Announced_Slot(k) == k % BufSize

\* mysigval.sival_int = i
Announced(k) == k

\* sigqueue to consumer j.  A process that has ended but was not waited for
\* takes the signal without effect.
MainQueue ==
  /\ mpc = "queue"
  /\ usr1' = IF cpc[j] \in Running /\ usr1[j] = None
               THEN [usr1 EXCEPT ![j] = Announced(i)] ELSE usr1
  /\ EachConsumer("message")
  /\ i' = IF j < N THEN i ELSE i + 1
  /\ UNCHANGED <<received, cpc, int, reg, got, counted>>

\* kill(pid_list[j], SIGINT)
MainKill ==
  /\ mpc = "kill"
  /\ int' = IF cpc[j] \in Running THEN [int EXCEPT ![j] = TRUE] ELSE int
  /\ EachConsumer("wait")
  /\ UNCHANGED <<received, i, cpc, usr1, reg, got, counted>>

\* Mutant: waitpid with WNOHANG.
MainWait_Nohang ==
  /\ mpc = "wait"
  /\ cpc' = IF cpc[j] = "zombie" THEN [cpc EXCEPT ![j] = "reaped"] ELSE cpc
  /\ EachConsumer("print")
  /\ UNCHANGED <<received, i, usr1, int, reg, got, counted>>

\* waitpid(pid_list[j], NULL, 0)
MainWait ==
  /\ mpc = "wait"
  /\ cpc[j] = "zombie"
  /\ cpc' = [cpc EXCEPT ![j] = "reaped"]
  /\ EachConsumer("print")
  /\ UNCHANGED <<received, i, usr1, int, reg, got, counted>>

\* Print the sum and the loss rate, shm_unlink, exit.
MainPrint ==
  /\ mpc = "print" /\ mpc' = "done"
  /\ UNCHANGED <<received, i, j, consumers>>

MainStep == MainSetup \/ MainFork \/ MainForkFails \/ MainMessage \/ MainQueue
              \/ MainKill \/ MainWait \/ MainPrint
-----------------------------------------------------------------------------
(* consume and my_handler *)

Move(c, from, to) == cpc[c] = from /\ cpc' = [cpc EXCEPT ![c] = to]

\* SIGINT takes effect.
ConsumerKilled(c) ==
  /\ int[c] /\ cpc[c] \in Running
  /\ cpc' = [cpc EXCEPT ![c] = "zombie"]
  /\ UNCHANGED <<received, mpc, i, j, usr1, int, reg, got, counted>>

\* The pending SIGUSR1 interrupts while (1), unless there is a SIGINT: that is
\* delivered first.  SIGUSR1 is blocked in its own handler.
HandlerEnter(c) ==
  /\ usr1[c] # None /\ ~int[c]
  /\ Move(c, "spin", "load")
  /\ usr1' = [usr1 EXCEPT ![c] = None]
  /\ got' = [got EXCEPT ![c] = Append(@, usr1[c])]
  /\ UNCHANGED <<received, mpc, i, j, int, reg, counted>>

\* shm_open, ftruncate or mmap fails: the consumer exits.
HandlerFails(c) ==
  /\ CallsFail
  /\ Move(c, "load", "zombie")
  /\ UNCHANGED <<received, mpc, i, j, usr1, int, reg, got, counted>>

\* The two halves of received_num += 1.
HandlerLoad(c) ==
  /\ Move(c, "load", "store")
  /\ reg' = [reg EXCEPT ![c] = received]
  /\ UNCHANGED <<received, mpc, i, j, usr1, int, got, counted>>

HandlerStore(c) ==
  /\ Move(c, "store", "print")
  /\ received' = reg[c] + 1
  /\ counted' = [counted EXCEPT ![c] = @ + 1]
  /\ UNCHANGED <<mpc, i, j, usr1, int, reg, got>>

\* printf of message_buffer[-1]
HandlerPrint(c) ==
  /\ \/ "fault" \in Outcomes /\ Move(c, "print", "zombie")
     \/ "return" \in Outcomes /\ Move(c, "print", "spin")
  /\ UNCHANGED <<received, mpc, i, j, usr1, int, reg, got, counted>>

ConsumerStep(c) == ConsumerKilled(c) \/ HandlerEnter(c) \/ HandlerFails(c)
                     \/ HandlerLoad(c) \/ HandlerStore(c) \/ HandlerPrint(c)
-----------------------------------------------------------------------------
SigNext == MainStep \/ \E c \in Consumers : ConsumerStep(c)

SigSpec == SigInit /\ [][SigNext]_sigVars

\* The producer is scheduled and the kernel delivers SIGINT; beyond that no
\* consumer has to be scheduled.
SigFairness == WF_sigVars(MainStep) /\ \A c \in Consumers : WF_sigVars(ConsumerKilled(c))
-----------------------------------------------------------------------------
(* Properties *)

\* Type invariant of the counter, main, the consumers and the pending signals.
SigTypeOK ==
  /\ received \in Nat
  /\ mpc \in {"setup", "fork", "message", "queue", "kill", "wait", "print", "done", "failure"}
  /\ i \in 0 .. DataNum /\ j \in Consumers
  /\ cpc \in [Consumers -> {"unborn", "zombie", "reaped"} \cup Running]
  /\ usr1 \in [Consumers -> {None} \cup 0 .. DataNum - 1]
  /\ int \in [Consumers -> BOOLEAN]
  /\ reg \in [Consumers -> Nat]
  /\ got \in [Consumers -> Seq(0 .. DataNum - 1)]
  /\ counted \in [Consumers -> Nat]

\* Signals that merge lose messages, they never repeat or reorder them: the data
\* a handler is called with only grow (shm_consumer_signal.c:179-187).
InOrder == \A c \in Consumers : \A k \in 2 .. Len(got[c]) : got[c][k - 1] < got[c][k]

\* The increments all consumers have made, each with its number.
Made == UNION {{c} \X (1 .. counted[c]) : c \in Consumers}
Increments == Cardinality(Made)

\* Lost updates of received_num only ever lose: the counter never runs ahead of
\* the increments made, and there is at most one for each message and consumer,
\* so that the loss rate printed is at least 0 (shm_consumer_signal.c:213).
NeverAhead == mpc # "setup" => received <= Increments /\ Increments <= DataNum * N

\* Main comes to its end, whatever the consumers are doing and however SIGINT
\* races with their handlers, and when it has printed the counter nobody is left
\* who could still change it (shm_consumer_signal.c:199-217).
Ends == <>(mpc = "failure" \/ (mpc = "done" /\ \A c \in Consumers : cpc[c] = "reaped"))
=============================================================================
