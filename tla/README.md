# A verification of the Linux programming exercises

This directory holds TLA+ models of the concurrent programs of this repository,
TLC configurations that check them on small instances, and proofs that TLAPS
checks for every value of the constants. The repository is a set of exercises
(`SP_HW1` to `SP_HW12`), each a program or a few programs that work together;
there is no code they share except by copying. The core of the work is the
programs in which several processes meet: in a FIFO, in a message queue, in
shared memory, on a socket, through pipes and signals, or in the file system; next
to them, three sequential programs whose loops end in unexpected places.

## 1. Inventory

| component | source | state | operations | meets others through |
|---|---|---|---|---|
| FIFO sequence server | `SP_HW8/ch44` | next number `seq_n`; the FIFOs, who has them open, what they hold | open, read request, open client FIFO, write response; the clients' send and receive | `open` that waits for the other end, bounded pipes, the file system |
| Message-queue sequence server | `SP_HW8/ch46` | `seq_num`; one kernel queue for both directions | start (finds or creates the queue), receive, send; clients send, receive | one bounded queue that outlives its processes |
| Shared-memory transfer | `SP_HW9/share_mem_*.c` | count and buffer in the segment, two semaphores, totals | set-up, reserve, transfer, release, removal | shared memory, semaphores, names |
| File server on POSIX queues | `SP_HW9/svmsg_file_*.c` | two queue names, the queues behind them | receive path, open file, open reply queue, send; clients; unlinking at exit | names that are unlinked and made again |
| Signal and shared-memory counter | `SP_HW10` | `received_num`, pending signals, process table | fork, sigqueue, kill, waitpid; the handler | standard signals, shared memory |
| Dictionary over stream sockets | `SP_HW11/part1`, `part2` | connections, the statics of `lookup5` in every child | accept/fork, read, lookup, write; the clients' dialogue | sockets, `fork`, end of file, SIGPIPE |
| Dictionary over UDP | `SP_HW11/part3` | datagrams, the statics of `lookup5` in the server | recvfrom, lookup, sendto; the clients' dialogue | an unreliable network |
| Directory logger | `SP_HW12` | `dir_list`, `wd_num`; the kernel's watches and event queue | `nftw` scan, event loop, adding watches | a file system that changes all the while |
| Shells | `SP_HW3`, `SP_HW5/part2` | the line, who is waited for; in every child an argv, its standard input and output, ends of pipes it holds | parse, builtins, run, redirect, pipe, wait | `fork`, `wait`, pipes |
| popen/pclose, two filters | `SP_HW6` | who holds which end of which pipe, child pids | popen, fgets, pclose; the two-way pipe | pipes |
| System V signal functions | `SP_HW7` | signal mask and disposition | sighold, sigrelse, sigignore, sigpause | signals |
| Dictionary file | `SP_HW5/part3` | line buffer, fixed-length records, record buffer | convert, linear search | a file |
| tail | `SP_HW2` | offset, buffer | backward search for newlines | a file |
| Process-table programs | `SP_HW4` | the names fetched, open descriptors, the list of nodes | readdir, open and read of a status, of a descriptor directory, link and draw | `/proc`, which changes meanwhile |
| copy, tee, small utilities | `SP_HW1`, `SP_HW5/part1`, `SP_HW9/copy.c` | none | whole-file reads and writes | none |

What is hard in each modelled component, and what makes it correct:

* **FIFO server.** Opening a FIFO is a rendezvous, so a server waits for its
  clients and clients for the server; a client may vanish between its request
  and its `open`. Correct: no two clients print overlapping blocks; a client
  that is there is not forgotten; a server is held up only by a client that is
  gone, or by none at all in nonblock mode. A server that is killed leaves its FIFO,
  and its clients keep what is in it alive for the next one. Correct: that costs one
  client at most.
* **Message-queue server.** Requests and responses share a bounded queue; a
  killed server loses the request in its hands and forgets its counter. Correct:
  disjoint blocks within one run of the server, at most one client lost per
  crash, everyone answered, everyone ends when the queue is removed.
* **Shared-memory transfer.** Two semaphores make writer and reader alternate;
  set-up, end and leftovers of earlier runs are where that may break. Correct:
  mutual exclusion, each count handed over once and in order, equal totals,
  removal only after the last use.
* **File server.** One reply queue for all clients, unlinked by each that exits.
  Correct: clients that run one by one get the file they asked for, replies are
  not received twice, the server is not held up.
* **Signal counter.** Signals merge, the counter is updated without a lock, and
  the handler reads before the array. Correct: messages may be lost but not
  repeated or reordered, the counter never runs ahead, the sum is final when it
  is printed and nobody is left.
* **Dictionaries.** `lookup5` keeps the address of the mapped file in an automatic
  variable. Correct: the first answer of a connection is right, answers never
  slip against questions, nobody waits for a dead partner; over UDP, the pairs
  that are printed belong together.
* **Shells.** Every process of a pipeline inherits what its parent has open, and end of
  file and SIGPIPE come only when the last holder of an end has gone; `wait` takes any
  child; redirections are made for a whole line. Correct: each command is
  connected as the line says, commands that can end do, waits and children balance.
* **popen and the filters.** The same, with a parent that reads or waits itself. Correct:
  both sides come to an end, nothing is lost, a buffer at a time in each pipe.
* **Text files.** `feof` is set late, buffers keep old lines, an index runs backwards.
  Correct: the lines, records and answers are those of a plain reading of the file.
* **Process table.** `/proc` is read piece by piece while processes come and go, and a pid
  is all the programs know a process by. Correct: who is there throughout is shown; who
  is shown was there; the tree hangs together.
* **Logger.** A path is found by the index of a watch descriptor, while the tree
  changes. Correct: the index stays in range and the path is the right one, and
  announced directories are watched.

`PROJECT.json` lists the hazards one by one at their lines, with the properties
that would catch them, or the reason why none does yet.

## 2. Modules

Every action is one system call of one process (with the computation up to the
next call), so that TLC interleaves the programs at the points where the kernel
does. `cpc`, `spc`, `wpc`, `rpc`, `mpc` say at which call a process stands; the
other variables have the names of the source.

### `SeqAlloc` and `Handoff`: abstract specifications

`SeqAlloc` is what both sequence servers promise: consecutive blocks, at most one
per process, printed only by the process they were given to; a new server counts
from 0. `Handoff` is a place for one item, filled when empty and emptied when
full. `MsgSeq` and `FifoSeq` implement the first, `ShmTransfer` the second
(`AllocSpec`, `HandoffSpec`: `INSTANCE ... WITH` and a mapping).

### `MsgSeq`: `SP_HW8/ch46`

`requests` and `responses` are the two kinds of message in the one queue, `qnum`
their number, which `QCap` bounds. `ServerStart`, `ServerRcv`, `ServerSnd` and
`ServerFail` are `main` of `msq_server.c`; `ServerKill` ends it by a signal, so
that `removeMsgqueue` does not run and the queue stays. `Client...` are
`msq_client.c`. `Ipcrm` removes the queue from outside. `grants` and `run` are
history variables.

### `FifoSeq`, `MCFifoSeq`: `SP_HW8/ch44`

`mode` is the server (`block`, `nonblock`, or `fifo_server_nowrite.c`), chosen in
`Init` from the constant `Modes`, and `Kind` the program of each client
(`client`, `bad_client`, `c_nonblock`). The
`open` of a FIFO takes two steps when it waits, and the step of the other end
wakes it: a process in `openWait` already counts as a reader. The exit handler
`removeFifo` is part of every exit and of no kill. `ServerKill` ends the server at any
call and `ServerMkfifo` starts another, which counts from 0 in the next `run`. Clients
keep SERVER_FIFO open until they end, so that the requests in it outlive a server;
`Kept` says when they are lost. A client that writes while no server has the FIFO open
dies of SIGPIPE.

### `ShmTransfer`: `SP_HW9`

Data are counted in cells of four bytes, so that the different offsets of `buf`
in the two `struct shm` and a mapping that is shorter than the structure are in
the model. `Init` allows what a killed pair may have left. Reader and writer
fail where `read`, `write` or `semop` may fail. `start` says
how the pair is started: `late`, the reader after the writer's set-up, over
whatever an earlier pair left; `fresh`, at any moment on a system with nothing
left; `any`, both at once. `Orderly`, under which the protocol is meant to work,
is one of the first two.

### `MqFile`: `SP_HW9`

`oneAtATime` says whether the users start their clients one after the other.
Queues are numbered as they are created; `sname` and `cname` are the queues the
two names stand for. An unlinked queue lives on for those who have it open.
Contents are the path that was asked for, so that a wrong file shows. `Waits` says that
a request is in the server's queue, or will be, with nothing before it that cannot be
served.

### `DictStream`, `DictUdp`: `SP_HW11`

`TextsFound` is the undefined value of `addr` from the second call of `lookup5`
on: the right text, "Not Found!", or a fault (`ChildFault`, `ServerFault`).
`family` is `unix` or `inet`: Unix sockets and TCP differ in what happens to
a write or read after the partner's death. The network of `DictUdp` is two bags
of datagrams, which loses, duplicates and reorders within the bounds `MaxLost`,
`MaxDup`.

### `SignalShm`: `SP_HW10`

One pending SIGUSR1 for each consumer, dropped when there is one already;
`received_num += 1` in two steps; `HandlerPrint` is the read of
`message_buffer[-1]`, which faults or returns (`Outcomes`). The messages
themselves are not modelled: no consumer looks at them. Its `SigInit`, `SigNext` and
`SigSpec` have names of their own because one module proves facts about it and about
`ShmTransfer`.

### `FileLog`: `SP_HW12`

`tree` is the file system as inodes, with `Make`, `Unlink` and `Rename` as the
user's actions; `user` is who that user is: one who does anything at any time
(`busy`), one who makes and removes (`remover`), or one who only makes things, and
not while `nftw` is at work (`maker`); `watch`, `lastWd` and `queue` are inotify. `Scan...` is `nftw`
with `find_subdir`, `Handle...` the loop of `main` with `inotify_event`. `nftw`
and `inotify_event` take a step of their own between looking at a path and
adding its watch, in which the tree may change. When `stat` fails, `isDir` reads
a mode that was never set: both outcomes are allowed. `Lookup` is the kernel's walk along
a path, a recursive function on the number of names.

### `CommandLine`, `Shell`, `MCShell`: `SP_HW3`, `SP_HW5/part2`

`CommandLine` is what both shells make of a line, without state: a line is the
sequence of its words, writing NULL over a word cuts the argv, and
`pipe_present` answers with C indices. Its last part is the usual reading of a
line (commands between bars, redirections at the ends) and `ReadAsMeant`, the
lines for which the shell of `SP_HW5` is meant to come to the same: plain commands
between bars, and redirections, to names that are no signs and that can be opened
(`Openable`, `Writable`), where the code handles them. When a file cannot be opened the
line keeps the sign and the name, and the command runs with them (`OpensIn`, `OpensOut`). `Shell` has
both versions of `run_command.c`; `version` says which. A process is a record of its
argv, its input and output, and the ends of pipes it holds besides (`held`); the
steps `Redirect`, `ForkRight`, `Talk`, `Listen`, `ExecLast` are the child on its way
through `run_command.c` and `pipe_command.c`. Commands are not part of the
repository: those of the model copy their input until it ends, copy a line, write for ever, or end at
once. `MCShell` has the lines that are typed.

### `Popen`, `TwoPipe`: `SP_HW6`

`Popen` is `main` with `my_popen` and `my_pclose`; `ends` says which process holds
which end of `pd`. The command prints some lines, and may then read to the end of its
input. `TwoPipe` is `two_pipe.c`; `sent`/`heard` and `answered`/`back` are what went
into its two pipes and came out, each of which implements `Handoff`.

### `Tail`, `DictFile`: `SP_HW2`, `SP_HW5/part3`

`Tail` steps through the file backwards as `tail.c` does, below the buffer too, where
a byte is anything; `NumLines` counts lines, the last of which may lack its newline.
`DictFile` is `convert.c` line by line, with its line
buffer and `feof`, and then `lookup1.c` on the records it wrote. The reference
definitions they are compared with are at the end of each module. `MCTail` has the files
for `Tail`, and `MCPrograms` puts the two with `Popen` and `TwoPipe`.

### `ProcScan`: `SP_HW4`

The three programs share the scan (`Readdir`, `OpenStatus`) and differ in what they do
with a status file: `ReadUid`, `ReadNode`, `ReadName`. `procs` is `/proc`; `Others` changes
it at any time. Before pids have been used up once a parent has a lower pid than
its child (`reused`). A process's name identifies it, so that the model tells a process
from another that has its pid; `exec` is left out. `print_tree` is the recursion of the code
as a function of the level, which ends at the number of nodes: no branch is
longer. `DrawnName` says what the NULL behind a full array of children does. `head` in
`draw_pid_tree.c:104` is read before it has a value: NULL, or the program is `"crashed"`.

### Proof modules

`MsgSeqProofs`, `FifoSeqProofs`, `DictStreamProofs`, `DictUdpProofs` and `MqFileProofs`
extend the module they prove about. `ShmProofs` is about `ShmTransfer` and `SignalShm`,
`ScanProofs` about the two programs that read a directory while it changes, `FileLog` and
`ProcScan`, and `ProgramProofs` about `TwoPipe`, `Tail` and `Shell`.

## 3. Runs

One run for each module asks all of its questions at once: what differs between
questions (the server's mode, the way the programs are started, the kind of socket,
what the user does) is a variable that `Init` chooses and nobody changes, and the
properties say for which choice they hold. Some runs put programs of the same kind
together, of which `Init` chooses one while the others are off: `MCShared` those that meet
in shared memory, `MCScan` those that read directories, `MCPrograms` four that work alone.
Three more runs show where the code disagrees with what the repository says of it.
Deadlock is not checked: all these
systems rightly stop when every client has ended, when the server waits for a
request that nobody sends, when a command waits for its user, or when input is at its end. What must not stop is
stated as a liveness property.

| run | shows |
|---|---|
| `msg_server` | clients and two servers in turn, killed anywhere, and `ipcrm`: disjoint blocks per run of the server, at most one stranded client per dead server, room for every response, `SeqAlloc` implemented; every request is answered unless a server died or the queue is gone, and when it goes everyone ends |
| `fifo_server` | the three client programs and two servers in turn, killed anywhere, for each of the three servers: disjoint blocks per run of the server and `SeqAlloc` implemented; in block mode at most one client is forgotten per dead server, and one that behaves is answered unless a client that is gone holds the server up or the server is killed; in nonblock mode nobody holds it up, and `fifo_client_nonblock` ends without an answer |
| `shared_memory` | writer and reader: every way to start, leftovers, failing calls: for orderly starts mutual exclusion, `Handoff` implemented, removal after the last use, equal totals, and both programs end; for all starts the writer's total is its input. Producer and consumers: merging signals, lost updates, either outcome of the bad read, failing calls, a leftover segment: order kept, counter never ahead, the producer ends and leaves nobody |
| `mq_server` | clients one by one or at once, a server or client that is killed, a file that cannot be opened: clients one by one get the file they asked for, and are answered, by a later server if one is killed or exits, unless it took their request along; no reply is received twice, the reply queue never blocks the server |
| `dict_stream` | both kinds of socket, kills, wild lookups: first answers are right, dialogues do not slip, a client always comes back to its prompt |
| `udp_network` | loss, duplication, reordering, crash: word and text belong together; without duplicates the answer is to the question; only a loss or a crash leaves a client waiting |
| `scan_changes` | the logger with three kinds of user: the index stays in range for all; without renames the list is right until a directory is added twice; for a user who only makes things it stays right, the logger runs on, and announced directories are watched in the end. `/proc` with processes that fork, exit, are reaped and open and close the file during the scan, pids used again or not: the tree has everyone once, below its parent, as long as parents have the lower pids; who is there all the time is shown; who is shown was there, under the right name, but for `file_open_list` with pids used again; a program gives up only when something ended meanwhile or its descriptors are used up |
| `shell_lines` | two lines in a row in either shell: every command of a line that is read as it is meant is the right one and has the right input and output (one output file cannot be opened: such a line is none of them); `wait` takes as many wrong children as it leaves right ones; commands that can end do, and the shell is at its prompt again |
| `programs` | `my_popen` with "r", "w" and a wrong type, commands that print more than the pipe holds, kills: both processes end and everything printed is read, unless the command reads; the two filters take turns and show everything that was typed; `tail` of every file of up to 5 bytes: the last lines when there are more (and one more when the last has no newline), else nothing or the whole file, and an error when more are asked for than there are; conversion of well-formed texts is right; every word in the file is found with its text |
| `shm_layout` | *violation*: the two layouts of `struct shm` shift the output |
| `mq_missing` | *violation*: a file that cannot be opened strands the requests behind it |
| `tail_lines` | *violation*: asked for as many lines as the file has, `tail` fails |

### Bounds

* *Sequence servers*: three clients, the fewest with which one is served, one waits
  and one interferes (and one for each client program). Block lengths
  of 2, so that blocks overlap if they start one apart; for messages also 0, the empty
  block. The System V
  queue holds 3 messages, one for each client (`ResponseFits` and `RequestAnswered`
  depend on that, see section 5); SERVER_FIFO holds 2 requests, so that a writer
  waits. Two servers in turn (`MaxRuns`), so that a restart finds what
  the first one left.
* *Shared memory*: 7 cells of input, at most 3 per `read`, a mapping of 3 cells:
  three or more transfers of any shorter lengths, a full buffer that is longer
  than the mapping, and the empty one at the end.
* *POSIX queues*: three clients with three files, two of them readable; queues of 3;
  two servers and one client that is killed (`MaxRuns`, `MaxKills`).
* *Dictionaries*: two clients, one word that is in the dictionary and one that is
  not, two queries each: the first call, which maps the file, and one with the address
  lost; later calls do as the second. One datagram lost and one duplicated are enough
  for every race of an answer with the next question.
* *Signals*: two consumers, which is what a lost update takes; three messages, so that
  one can be in the handler, one pending and one dropped; two buffers.
* *Logger*: two names, paths of two levels, three inodes: a directory in a watched
  directory, a name that is used again, and events that are older than the tree
  they are handled in. `MaxQueue` holds the user back while an event waits that has
  not been read; the logger is still at work on an earlier one.

* *Shells*: two lines one after the other, of a set of 19 with every construct: a
  background job and a foreground command, two pipelines side by side; three
  commands in a pipeline (its ends and a middle); pipes that hold one line; one fork
  that fails; one output file that can be opened and one that cannot. The commands of `SomeLines` include each way to end: at once, by end of
  file, by SIGPIPE, by the user.
* *Pipes*: a pipe of two lines and commands that print none or three, so that the
  command must wait for its reader; three buffers typed into the filters.
* *Text files*: files of up to 5 bytes, newline or not, and counts from -1 to 3; two
  bytes below the buffer. Texts of up to 4 lines of three kinds, and longer ones with two
  entries and with a last line that has no newline; each word of the texts, prefixes and
  the empty word; what the buffers hold at first is one of two values, a blank line or
  a word.
* *Process table*: three processes and three steps of the others, which is what it takes
  to give a pid to another process (exit, reap, fork); two names fetched at a time; room
  for two children, so that a name is overwritten; four descriptors, so that the fourth
  process is one too many for `file_open_list`.

### Fairness

Every fair specification has weak fairness of each process's own steps: a process
that is not blocked runs again, which the Linux scheduler grants every process.
Beyond that:

* no fairness for kills, `Ipcrm`, losses, duplicates, users' words, lines and ends of
  input, failing forks, the user of the file system, or starting a server, with two exceptions: `MqFile` and `DictUdp`
  assume that a server is started, as their usage comments say;
* `SignalShm` asks nothing of the consumers but that a pending SIGINT takes effect,
  which is the kernel's doing;
* clients in one queue are not granted strong fairness, and need none as long as the
  queue has room for all of them.

## 4. Proofs

TLAPS proves, for every value of the constants that the named assumptions allow, type
correctness of each component below and the properties named. In each case a property is
too weak to be kept by the steps, and what it needs besides is an invariant of its own;
lemmas say what each step does to it.

* **`MsgSeqProofs`.** `TypeCorrect`. `Invariant`: `IInv` follows a client's request
  through the queue. A client whose request is in the queue or in the server's
  hands has no block yet and no second request (`RequestsFresh`, `ReqFresh`);
  blocks of this run end below `seq_num` (`GrantsBelow`) and are apart
  (`GrantsApart`); responses and printed numbers are those of blocks that were
  granted (`ResponsesGranted`, `PrintedGranted`). `PrintedDisjoint` alone is not
  inductive: it says nothing of the responses under way. `Disjointness` and
  `Refinement` (`Spec => AllocSpec`) follow. So does `Room` (`ResponseFits`):
  the messages in the queue, and the request in hand, belong to different clients
  (`OneMessageEach`), of which there are no more than places. `Crashes`
  (`OneStrandedPerCrash`): the kill of a server makes one client stranded at
  most, that of `req`, and no other step makes one (`StrandedStep`).
* **`FifoSeqProofs`.** The same argument where requests are dropped or lost, writes fail,
  and clients and servers vanish, with `FifoThere` (a client that is there has its FIFO
  on disk). `Keeping`: requests are lost only when nobody waits any more. So no step
  makes an orphan (`OrphanStep`) but the kill of a server, which makes one, the client
  of `req` (`KillInductive`): `Attended` (`NoOrphan`). `Disjointness`, `Refinement`.
  Most steps touch only a little of the state; `QuietInductive` treats them together.
* **`ShmProofs`.** `OneToken`: once the semaphores are set up, one token is in a
  semaphore or with a process. `SetupQuiet` covers the time before, when the
  reader may already be in `semop`; `EndAgreed` and `Transfers` say what the
  token's place means for the end and for the counts. `MutualExclusion`,
  `Removal` and `Refinement` (`Spec => HandoffSpec`) follow, each for orderly starts:
  with a reader that comes too early over leftover semaphores none of them holds.
  `Totals` (`TotalsAgree`) adds the sums: what the writer has counted is what it has
  taken from its input, in every circumstance (`WriterSum`), and the reader has counted
  the same but for the transfer under way (`ReaderSum`).
  For `SignalShm`, `Order` (`InOrder`): the datum a handler has and the one that
  is pending are below those main has yet to send (`Ordered`), although main queues messages
  consumer by consumer. `NoGain` (`NeverAhead`): a register that is about to be stored
  holds at most the increments made (`Covered`), since stores only ever write one more than
  a handler has loaded; and a consumer has made one for a message at most
  (`CountedOnce`).
* **`MqFileProofs`.** `Owned`: think of every message in a queue, the request in the server's
  hand and every file received as a token. There is an injection of the tokens into
  the clients that have sent their request, and the owner of a token has asked for its
  file. Every step hands a token on or drops it (`Passed`, `Kept`, `Taken`). So no queue
  holds more messages than there are clients (`Room`: `ReplyFits`), and no file is received
  by more clients than asked for it (`Replies`: `RepliesRight`). That clients who run one by
  one get their own file takes `Alone` (one is active at a time) and `Findable` (its queue
  is still under its name) besides.
* **`DictStreamProofs`.** `Dialogues` (`NeverSlips`): each connection is in one of few
  situations (`Talk`): at the prompt, with nothing on the way; sending; or waiting, with
  one record in one direction or in the child's hands. Steps of others leave a connection as it
  is (`Elsewhere`).
* **`DictUdpProofs`.** `Answered` (`AskedIsAnswered`): text and word belong together on
  every datagram (`TextsFit`); and as long as none was duplicated, a client that waits has
  at most one datagram, query or reply, in the network and the server together
  (`OneToken`), and it is about the last word asked.
* **`ProgramProofs`.** `Turns` (`InTurns`): both pipes of `two_pipe.c` implement
  `Handoff`, since the parent writes only when it has read the answer. `Echo` is the safety half of the
  liveness property `Shown`: what is shown is what was typed, in capitals and in order
  (`Echoed`), since each buffer that went through a pipe is the one that was put in there at its
  place (`Begins`, `Answering`) and the process that has it in hand has passed on all before it
  (`ParentBuffer`, `ChildBuffer`). `LastLines`
  (`TailRight`): while `tail` looks, `offset` counts the newlines in the part of the file
  behind `i`, and below the buffer it may have counted more, whatever the bytes are
  (`Looked`); what `tail` writes is first said in newlines (`TailWrites`) and then in
  lines, since what follows a newline ends as the file does (`EndsAlike`). `Balanced` (`PromptBalance`): while a shell waits there is one foreground
  child more that is left than there are background children taken instead (`Balance`), and no
  step of a child or of a command counts for either (`Unseen`).
  `WiredRight` (`Wired`): `WiredInv` says of every process of a line that the shell reads as
  it is meant (whichever files can be opened) what it still has to do: a process that is not split yet has the words behind
  the bar its place says, up to the redirections at the end (`HasRest`), the input from the
  process before it and the output of the line; one that is has its command alone and somebody
  behind it. For this there is one process at each place of a line and none behind one that is
  not split (`JobsOK`). What the code does with the first bar of the rest (`pipe_present`)
  is compared with the usual reading, in which bars are counted: a bar is the k-th when k
  bars stand up to it (`Rank`, `BarIs`), between two neighbouring bars is a command
  (`SegmentIs`, `SegmentMeant`), the rest behind a bar is empty of bars or splits at the next
  (`NextCommand`), and the two redirections together cut a line just where the last command
  ends (`Redirected`).
* **`ScanProofs`.** For `FileLog`, `LogTypeCorrect` and `LogInvariant`: `LogIInv` says that the
  list has a place for every descriptor (`LogInv`, with the shape of the tree); that without renames it
  names every watched directory until a directory is added twice (`ListSound`), for nothing
  the user does but a rename changes where a path leads (`LookupStays`); and of a
  user who only makes things, that each directory not watched yet is still on its
  way (`MakerInv`): nftw has yet to look at it, or has it in hand, or an event announces it, and
  each of them once. `Listed` (`ListRight`) follows.
  For `ProcScan`, `ScanInvariant`: `ScanInv` is the type of everything, the order of pids and
  parents (`TableOK`: in the first round a parent has the lower pid), what has been
  fetched (`FetchInv`) and read so far (`NodesInv`, `CmdInv`, `AskedInv`), that a
  process that is wanted throughout is fetched, in hand, or shown (`PlacedInv`),
  and how many descriptors are open (`FdsInv`). `Succeeds` and `ShownCorrect`
  (`UndisturbedSucceeds`, `ShownRight`) follow. `TreeCorrect` (`TreeDrawn`) needs lemmas
  about the recursion of `print_tree`: it is defined at each level (`TreeDefined`); every line
  of a drawing is a node from which a chain of parents leads up to its root
  (`Climbs`, `TreeLines`), so that nobody is in two of them (`TreeOnce`); every line but
  the first has its parent as the next line up that is one level further left (`Branches`, `HasAbove`); and
  where parents have lower pids every node hangs from a root (`AllHang`), so that the
  drawing is whole (`DrawingWhole`).

Induction over numbers is done without the library's induction theorems, from the least
number of a set (`LeastNumber`) on, which `ScanProofs` and `ProgramProofs` take from the
well-foundedness of the natural numbers: `UpTo` goes up step by step, `Iteration` shows that a
recursive function on numbers exists. That is how `Lookup`, `print_tree` and the bars of a
line are proved about.

The assumptions say that bounds and capacities are natural numbers (capacities of
at least 1, and descriptors for one open file), that the sets of clients are finite where clients are counted, that a text in
capitals is not an empty read, that there is a
word, a text, a client or a file to choose where one is chosen, that files and lines are sequences,
lines of words with no more commands than the bound, counts integers, and that the shells are the two there are.

Every safety invariant that a run checks and every refinement is a theorem. Only model-checked is liveness,
since fairness and ENABLED are beyond the prover: that requests are answered
(`RequestAnswered`, `BlockAnswers`, `Answered`), programs come to their end or back to their prompt
(`RemovalEndsAll`, `NonblockReturns`, `Completed`, `ClientReturns`, `Ends`, `LinesEnd`,
`PopenReturns`), announced directories are watched (`AnnouncedIsWatched`), and what was typed
is shown, converted and looked up rightly (`Shown`, `ConvertRight`, `LookupRight`).
No theorem is about `Popen` and `DictFile`.

The type invariants (`TypeOK` and the like) are proved and not run.

## 5. Findings

Three violation runs show where the code does other than a comment or a README of the
repository says:

* `shm_layout`: writer and reader disagree on the layout of the segment. (It is also four
  bytes shorter than the writer's structure, `share_mem_writer.c:121`, so that the end of a
  full buffer would not arrive with one layout either.)
* `mq_missing`: `svmsg_file_server.c:80` says that each request is handled "in a separate
  child process", but `main` handles it itself, exits with the first file it cannot open,
  and unlinks the queue in which others are waiting.
* `tail_lines`: `SP_HW2/README.md` promises the last n lines, and an error only when there
  are fewer; `tail` looks for one newline more than it prints lines, and fails, or depends on
  the bytes below its buffer, when there are just n. It counts newlines: a last line without
  one is printed besides the n.

The others are visible in the models as the conditions the passing properties need:

* `BlockAnswers` of `FifoSeq` is about block mode. In nonblock mode, which
  `fifo_server.c:33` offers as the remedy against bad clients, the server drops the
  request of every client that has not opened its FIFO yet, well-behaved ones too.
* `Answered` of `MqFile` is about clients that run one after the other, with no request
  before theirs that cannot be served, and a request that a killed server had not yet
  taken.
* `ClientReturns` of `DictUdp` allows a crashed server: `udp_server.c:51` says "await
  client packet; respond immediately", but from the second packet on `lookup5`
  searches at an address it did not set, and may end the server.
* `RequestAnswered` and `ResponseFits` of `MsgSeq` need room in the queue for a
  message of every client. With a `QCap` below the number of clients, requests
  fill the queue, the server waits for room to answer, and nobody moves.
* `Completed` of `ShmTransfer` needs an orderly start, and lets a program wait whose
  partner has failed. Started side by side, as the usage line of
  `share_mem_writer.c` does, the reader may find no segment, exit, and leave the
  writer waiting; or find the semaphores of an earlier pair.
* `NeverSlips` of `DictStream` grants right answers to first queries only: the stream
  servers have the `addr` of `lookup5` in common with the UDP server. It says nothing of
  what is printed after a child has crashed: `lookup8.c:66` takes the end of the connection
  for a reply, and the old text is printed for the new word.
* `NeverAhead` of `SignalShm` is an inequality: `received_num` is counted without a
  lock, signals merge, and built with glibc each consumer ends in its first handler.
* `ListRight` of `FileLog`: a directory made between the first
  `inotify_add_watch` and `nftw` is added twice, and from then on `dir_list` is
  shifted against the descriptors.
* `Wired` of `Shell` is about `ReadAsMeant`, because of what the shell makes of the
  other lines: a redirection that fails is reported and then ignored, so that `true > /`
  runs `true` with three words, on the terminal; `cat < f | tr a b` loses the pipe and `cat < f > g` the output, since the
  argv is cut at the sign that is handled first; `a |` gives `a` the bar as an argument.
  `PromptBalance` is an equation of two errors: in `SP_HW3` the prompt may
  return before the command has ended, once for every background job. In
  `SP_HW5` the shell waits for the leftmost command of a pipeline only. Lines of blanks,
  the empty line in `SP_HW3`, and `echo` or `builtin` without arguments end the shell
  with a fault (`Parse`, `EchoOutcomes`).
* `PopenReturns` of `Popen` leaves out commands that read: with "w" the command holds
  the writing end of its own input, and `my_pclose` waits for it first.
* `Shown` of `TwoPipe` says nothing of the end: at the end of input the parent waits for
  ever for the answer to nothing.
* `ConvertRight` of `DictFile`: a text whose last definition has no blank line after it is
  converted for ever; a doubled blank line ends the conversion early.
  `LookupRight`: a word that is a prefix of the last word in the file is found.

## 6. Not modelled

* System V signal functions (`SP_HW7`): `sig_function.c` has five wrappers of one or two
  library calls and a `main` that calls none of them; the other two programs leave at
  their first `if`, whose braces are missing, before they install a handler. A
  model would be one of the library.
* `copy.c`, `tee.c`, the utilities of `SP_HW5/part1`: sequential I/O without state.
* Within modelled components: int overflow and negative lengths (`atoi`), pids that
  are used again by the clients of the sequence servers, paths and files beyond a
  message's size, words beyond their field, partial reads on a socket, failing `fork` in
  the dictionary servers, an inotify queue that overflows, a log inside the watched
  directory, processes named as a field of their status file, more than 576 children of
  one process. In `file_open_list` every process has one descriptor at most, so that the
  loop over them (`file_open_list.c:86`) is one step. A wild address in `lookup5` gives a
  right answer, none, or a fault; that it may hit the record itself is left out. So are the
  end of the input at a `gets` of the dictionary programs, and failures of `dup2` and `close`
  in a redirection.
* Writes beyond a buffer, which the models take for harmless: `SIZE` is 10 in the
  message-queue programs and the messages' payload 8 bytes, so that `msgsnd` and `msgrcv`
  pass the end of it; `parse.c:54` gives each word a buffer of the length of the word before;
  `p_open_close.c:47` writes one place past the array it has just made longer.

## 7. Plan

Done: every module above, with a theorem for every safety invariant and refinement that a run checks.

Next, in this order:

1. Extensions: pids that are used again in `MsgSeq` and `FifoSeq`, `seq_num` as a 32-bit integer,
   reads on a TCP socket that return less than a record.
2. Proofs: what `DictFile` has written and found when it is at its prompt, from invariants of the
   conversion line by line.
