------------------------------- MODULE FifoSeq -------------------------------
(***************************************************************************)
(* The sequence-number server over FIFOs (SP_HW8/ch44).  fifo_server.c     *)
(* (block or nonblock) or fifo_server_nowrite.c reads requests from        *)
(* SERVER_FIFO; each client reads its response from a FIFO of its own.     *)
(* Clients are fifo_client.c, fifo_client_malicious.c ("bad_client": it    *)
(* exits without opening its FIFO) or fifo_client_nonblock.c.              *)
(*                                                                         *)
(* open() of a FIFO blocks until the other end is opened; a process that   *)
(* is blocked in open() already counts as a reader or writer for the other *)
(* end, and the arrival of the other end wakes it even when that end goes  *)
(* away at once.  The wake-up is part of the step that causes it.          *)
(*                                                                         *)
(* A server that is killed leaves the file SERVER_FIFO; what is in it      *)
(* lasts while a process has it open, and clients have until they end, so  *)
(* that the next server goes on with their requests.  It counts from 0.    *)
(***************************************************************************)
EXTENDS Integers, Sequences, FiniteSets

CONSTANTS
  Clients,      \* the client processes
  Kind,         \* the program each client runs
  Modes,        \* the servers that may run: "block", "nonblock", "nowrite"
  SeqLens,      \* values of the seq-len argument
  PipeCap,      \* requests SERVER_FIFO holds
  MaxRuns,      \* bound: how many times the server is started
  MayKill       \* may clients be killed by a signal

Kinds == {"client", "bad_client", "c_nonblock"}

ASSUME KindAssumption == Kind \in [Clients -> Kinds]
ASSUME ModesAssumption == Modes \subseteq {"block", "nonblock", "nowrite"}
ASSUME SeqLensAssumption == SeqLens \subseteq Nat
ASSUME PipeCapAssumption == PipeCap \in Nat \ {0}
ASSUME MaxRunsAssumption == MaxRuns \in Nat

VARIABLES
  mode,         \* the server that runs: fifo_server.c with an argument, or "nowrite"
  sfifo,        \* does the file SERVER_FIFO exist
  requests,     \* contents of SERVER_FIFO: [pid, seqLen]
  spc,          \* server: where it is in main; at "start" none is running
  seq_n,        \* server: start of the next block
  req,          \* server: the request read last
  cpc,          \* clients: where they are in main
  seqLen,       \* clients: req.seqLen
  cfifo,        \* clients: does the file CLIENT_FIFO_<pid> exist
  pipe,         \* contents of the client FIFOs: [pid, seqNum]
  got,          \* clients: resp.seqNum, what they print
  run,          \* history: number of servers started so far
  grants        \* history: blocks written, [pid, first, len, run]

server == <<mode, spc, seq_n, req, run, grants>>
vars == <<mode, sfifo, requests, spc, seq_n, req, cpc, seqLen, cfifo, pipe, got,
          run, grants>>

Requests == [pid : Clients, seqLen : SeqLens]
Gone == {"success", "failure", "exited", "killed"}

\* The clients that have SERVER_FIFO open, or are blocked in its open: they close
\* it when they end.  The server has it open from its open to its end.
Holds(c) == cpc[c] \in {"openServerWait", "write", "open", "openWait", "read"}
Listens == spc \notin {"start", "openServer"}

\* What SERVER_FIFO holds is lost when nobody has it open any more.
Kept == requests' = IF (Listens \/ \E c \in Clients : Holds(c))' THEN requests ELSE <<>>

Init ==
  /\ mode \in Modes
  /\ sfifo \in BOOLEAN                       \* an earlier server may have left it
  /\ requests = <<>>
  /\ spc = "start"
  /\ seq_n = 0
  /\ req = CHOOSE r \in Requests : TRUE      \* not read before a read() fills it
  /\ cpc = [c \in Clients |-> "start"]
  /\ seqLen \in [Clients -> SeqLens]
  /\ cfifo = [c \in Clients |-> FALSE]
  /\ pipe = {}
  /\ got = [c \in Clients |-> 0]
  /\ run = 0
  /\ grants = {}
-----------------------------------------------------------------------------
(* The server *)

\* A server is started: mkfifo of SERVER_FIFO; EEXIST is no error.
ServerMkfifo ==
  /\ spc = "start" /\ run < MaxRuns
  /\ sfifo' = TRUE
  /\ seq_n' = 0 /\ run' = run + 1
  /\ spc' = "openServer"
  /\ UNCHANGED <<mode, requests, req, cpc, seqLen, cfifo, pipe, got, grants>>

\* open for reading waits for a first writer, unless clients have the FIFO open
\* already, and wakes those that wait for a reader.  The writing end the server
\* opens next (dummyFd) keeps its read() from ever seeing end of file.
ServerOpen ==
  LET waiting == {c \in Clients : cpc[c] = "openServerWait"} IN
  /\ spc = "openServer"
  /\ spc' = IF \E c \in Clients : Holds(c) THEN "read" ELSE "openServerWait"
  /\ cpc' = [c \in Clients |-> IF c \in waiting THEN "write" ELSE cpc[c]]
  /\ UNCHANGED <<mode, sfifo, requests, seq_n, req, seqLen, cfifo, pipe, got, run, grants>>

\* read() of one request, which arrives whole or not at all; fifo_server_nowrite.c
\* does no more (then = "read"), fifo_server.c goes on to answer (then = "open").
ServerRead(then) ==
  /\ spc = "read"
  /\ requests # <<>>
  /\ req' = Head(requests)
  /\ requests' = Tail(requests)
  /\ spc' = then
  /\ UNCHANGED <<mode, sfifo, seq_n, cpc, seqLen, cfifo, pipe, got, run, grants>>

\* Is somebody reading, or blocked in an open for reading, the FIFO of c.
HasReader(c) == cpc[c] \in {"openWait", "read"}

\* Mutants: O_NONBLOCK is left out in both modes, or set in both.
OpenFails_Never(c) == ~cfifo[c]
OpenFails_Always(c) == ~cfifo[c] \/ ~HasReader(c)

\* open of the client's FIFO fails: the FIFO is gone (ENOENT), or it has no
\* reader and the mode is nonblock (ENXIO).
OpenFails(c) == ~cfifo[c] \/ (mode = "nonblock" /\ ~HasReader(c))

\* Mutant: a dropped request uses up its numbers.
ServerOpenFails_Advance ==
  /\ spc = "open" /\ OpenFails(req.pid)
  /\ spc' = "read" /\ seq_n' = seq_n + req.seqLen
  /\ UNCHANGED <<mode, sfifo, requests, req, cpc, seqLen, cfifo, pipe, got, run, grants>>

\* The request is dropped: continue.
ServerOpenFails ==
  /\ spc = "open" /\ OpenFails(req.pid)
  /\ spc' = "read"
  /\ UNCHANGED <<mode, sfifo, requests, seq_n, req, cpc, seqLen, cfifo, pipe, got, run, grants>>

\* The client's FIFO is opened, which wakes a client blocked in its own open;
\* without a reader the server blocks.
ServerOpenClient ==
  /\ spc = "open" /\ ~OpenFails(req.pid)
  /\ IF HasReader(req.pid)
       THEN spc' = "write" /\ cpc' = [cpc EXCEPT ![req.pid] = "read"]
       ELSE spc' = "openWait" /\ UNCHANGED cpc
  /\ UNCHANGED <<mode, sfifo, requests, seq_n, req, seqLen, cfifo, pipe, got, run, grants>>

\* seq_n += req.seqLen; mutant: the length is forgotten.
SeqN_Forget == seq_n + 1
NextSeqN == seq_n + req.seqLen

\* write of the response and close.  Without a reader the write fails (EPIPE,
\* SIGPIPE being ignored), which is reported and no more: seq_n moves on.
ServerWrite ==
  /\ spc = "write"
  /\ pipe' = IF HasReader(req.pid)
               THEN pipe \cup {[pid |-> req.pid, seqNum |-> seq_n]} ELSE pipe
  /\ grants' = grants \cup
       {[pid |-> req.pid, first |-> seq_n, len |-> req.seqLen, run |-> run]}
  /\ seq_n' = NextSeqN
  /\ spc' = "read"
  /\ UNCHANGED <<mode, sfifo, requests, req, cpc, seqLen, cfifo, got, run>>

\* A signal ends the server, at whichever call it is; SERVER_FIFO stays.
ServerKill ==
  /\ spc # "start" /\ run < MaxRuns
  /\ spc' = "start"
  /\ UNCHANGED <<mode, sfifo, seq_n, req, cpc, seqLen, cfifo, pipe, got, run, grants>>
  /\ Kept

\* The loop of fifo_server.c, and the program fifo_server_nowrite.c.
ServerLoop == ServerRead("open") \/ ServerOpenFails \/ ServerOpenClient \/ ServerWrite
NowriteServer == ServerOpen \/ ServerRead("read")

ServerStep ==
  \/ mode = "nowrite" /\ NowriteServer
  \/ mode # "nowrite" /\ (ServerOpen \/ ServerLoop)
-----------------------------------------------------------------------------
(* The clients *)

\* The process ends: exit() runs removeFifo and closes the descriptors.
Exit(c, status) ==
  /\ cpc' = [cpc EXCEPT ![c] = status]
  /\ cfifo' = [cfifo EXCEPT ![c] = FALSE]
  /\ UNCHANGED server
  /\ Kept

\* Mutant: the FIFO is not there when the request is sent.
ClientMkfifo_Late(c) ==
  /\ cpc[c] = "start"
  /\ cpc' = [cpc EXCEPT ![c] = "openServer"]
  /\ UNCHANGED <<sfifo, requests, server, seqLen, cfifo, pipe, got>>

\* mkfifo of the own FIFO, before the request is sent.
ClientMkfifo(c) ==
  /\ cpc[c] = "start"
  /\ cfifo' = [cfifo EXCEPT ![c] = TRUE]
  /\ cpc' = [cpc EXCEPT ![c] = "openServer"]
  /\ UNCHANGED <<sfifo, requests, server, seqLen, pipe, got>>

\* open of SERVER_FIFO for writing: fails when there is none, else waits for a
\* reader, or wakes the server that waits for a writer.
ClientOpenServer(c) ==
  /\ cpc[c] = "openServer"
  /\ \/ ~sfifo /\ Exit(c, "failure")
     \/ /\ sfifo
        /\ cpc' = [cpc EXCEPT ![c] = IF Listens THEN "write" ELSE "openServerWait"]
        /\ spc' = IF spc = "openServerWait" THEN "read" ELSE spc
        /\ UNCHANGED <<mode, requests, seq_n, req, run, grants, cfifo>>
  /\ UNCHANGED <<sfifo, seqLen, pipe, got>>

\* write of the request, blocked while SERVER_FIFO is full.
ClientWrite(c) ==
  /\ cpc[c] = "write" /\ Listens
  /\ Len(requests) < PipeCap
  /\ requests' = Append(requests, [pid |-> c, seqLen |-> seqLen[c]])
  /\ cpc' = [cpc EXCEPT ![c] = "open"]
  /\ UNCHANGED <<sfifo, server, seqLen, cfifo, pipe, got>>

\* Nobody reads SERVER_FIFO any more: SIGPIPE, and no exit handler.
ClientSigpipe(c) ==
  /\ cpc[c] = "write" /\ ~Listens
  /\ cpc' = [cpc EXCEPT ![c] = "killed"]
  /\ UNCHANGED <<sfifo, server, seqLen, cfifo, pipe, got>>
  /\ Kept

\* Does the client open its FIFO with O_NONBLOCK.
Nonblocking(c) == Kind[c] = "c_nonblock"

\* open of the own FIFO for reading: it wakes a server that waits for this
\* reader; otherwise it waits for the server, unless O_NONBLOCK is set.
ClientOpen(c) ==
  LET awaited == spc = "openWait" /\ req.pid = c IN
  /\ cpc[c] = "open"
  /\ spc' = IF awaited THEN "write" ELSE spc
  /\ cpc' = [cpc EXCEPT ![c] =
       IF awaited \/ Nonblocking(c) THEN "read" ELSE "openWait"]
  /\ UNCHANGED <<mode, sfifo, requests, seq_n, req, run, grants, seqLen, cfifo, pipe, got>>

\* read() with a response in the FIFO: print it and exit.
ClientRead(c) ==
  /\ cpc[c] = "read"
  /\ \E m \in pipe :
       /\ m.pid = c
       /\ got' = [got EXCEPT ![c] = m.seqNum]
       /\ pipe' = pipe \ {m}
  /\ Exit(c, "success")
  /\ UNCHANGED <<sfifo, seqLen>>

\* read() of an empty FIFO returns at once when no writer has it open, or when
\* O_NONBLOCK is set (EAGAIN): the client gives up.
ClientReadFails(c) ==
  /\ cpc[c] = "read"
  /\ \A m \in pipe : m.pid # c
  /\ Nonblocking(c) \/ ~(spc = "write" /\ req.pid = c)
  /\ Exit(c, "failure")
  /\ UNCHANGED <<sfifo, seqLen, pipe, got>>

\* fifo_client_malicious.c ends after its request: the rest is commented out.
BadClientExit(c) ==
  /\ cpc[c] = "open"
  /\ Exit(c, "exited")
  /\ UNCHANGED <<sfifo, seqLen, pipe, got>>

\* A signal ends a client: no exit handler runs, its FIFO stays on disk and what
\* the FIFO held is gone.
ClientKill(c) ==
  /\ MayKill /\ cpc[c] \notin Gone
  /\ cpc' = [cpc EXCEPT ![c] = "killed"]
  /\ pipe' = {m \in pipe : m.pid # c}
  /\ UNCHANGED <<sfifo, server, seqLen, cfifo, got>>
  /\ Kept

ClientSend(c) ==
  ClientMkfifo(c) \/ ClientOpenServer(c) \/ ClientWrite(c) \/ ClientSigpipe(c)
ClientReply(c) == ClientOpen(c) \/ ClientRead(c) \/ ClientReadFails(c)

\* The programs: fifo_client.c and fifo_client_nonblock.c; fifo_client_malicious.c.
ReadingClient(c) == ClientSend(c) \/ ClientReply(c)
BadClient(c) == ClientSend(c) \/ BadClientExit(c)

ClientStep(c) ==
  \/ Kind[c] = "bad_client" /\ BadClient(c)
  \/ Kind[c] # "bad_client" /\ ReadingClient(c)
-----------------------------------------------------------------------------
Next ==
  \/ ServerMkfifo \/ ServerStep \/ ServerKill
  \/ \E c \in Clients : ClientStep(c) \/ ClientKill(c)

Spec == Init /\ [][Next]_vars

\* A process that is not blocked is scheduled again.  Nothing obliges anybody to start
\* a server or to send a signal.
Fairness == WF_vars(ServerStep) /\ \A c \in Clients : WF_vars(ClientStep(c))

FairSpec == Spec /\ Fairness
-----------------------------------------------------------------------------
(* Properties *)

\* Type invariant of the FIFOs, the server and the clients.
TypeOK ==
  /\ mode \in Modes
  /\ sfifo \in BOOLEAN
  /\ requests \in Seq(Requests)
  /\ spc \in {"start", "openServer", "openServerWait", "read", "open", "openWait", "write"}
  /\ seq_n \in Nat
  /\ spc \in {"open", "openWait", "write"} => req \in Requests
  /\ cpc \in [Clients -> {"start", "openServer", "openServerWait", "write", "open",
                          "openWait", "read"} \cup Gone]
  /\ seqLen \in [Clients -> SeqLens]
  /\ cfifo \in [Clients -> BOOLEAN]
  /\ pipe \subseteq [pid : Clients, seqNum : Nat]
  /\ got \in [Clients -> Nat]
  /\ run \in Nat /\ (spc # "start" => run > 0)
  /\ grants \subseteq [pid : Clients, first : Nat, len : SeqLens, run : Nat]

\* Two half-open ranges of numbers have none in common.
Apart(a, m, b, n) == m = 0 \/ n = 0 \/ a + m <= b \/ b + n <= a

\* No number is printed as its own by two clients that the same server answered,
\* although seq_n is advanced only after the response is out (fifo_server.c:122) and
\* also when the write failed.
PrintedDisjoint ==
  \A g, h \in grants :
     g.pid # h.pid /\ g.run = h.run
       /\ cpc[g.pid] = "success" /\ cpc[h.pid] = "success"
     => Apart(got[g.pid], seqLen[g.pid], got[h.pid], seqLen[h.pid])

\* The client waits to open or to read its FIFO.
Waits(c) == cpc[c] \in {"open", "openWait", "read"}

\* The client's request waits in SERVER_FIFO, is being served, or is answered.
InFlight(c) ==
  \/ \E i \in DOMAIN requests : requests[i].pid = c
  \/ spc \in {"open", "openWait", "write"} /\ req.pid = c
  \/ \E m \in pipe : m.pid = c

\* Clients that wait for an answer that nobody has or will send.
Orphans == {c \in Clients : Waits(c) /\ ~InFlight(c)}

\* Servers that are no more.
DeadServers == IF spc = "start" THEN run ELSE run - 1

\* A server in block mode never drops the request of a client that is still
\* there (this is what creating the FIFO before sending the request is for,
\* fifo_client.c:46), and a server that is killed takes at most one request with it
\* (fifo_server.c:99): those in SERVER_FIFO outlive it, for their clients keep it open.
NoOrphan ==
  mode = "block" => IsFiniteSet(Orphans) /\ Cardinality(Orphans) <= DeadServers

\* A server in block mode answers every fifo_client whose request it or an earlier
\* server has received, unless it is held up for good, and then by a client that
\* ended between its request and the opening of its FIFO, not by one that is merely
\* slow; or unless it is killed.
BlockAnswers ==
  mode = "block" =>
    \A c \in Clients : Kind[c] = "client" /\ Waits(c) /\ InFlight(c) ~>
      \/ cpc[c] \in {"success", "killed"}
      \/ spc = "start"
      \/ spc = "openWait" /\ cpc[req.pid] \in Gone

\* O_NONBLOCK on either side keeps the other from holding it up.  A server in
\* nonblock mode comes back to its read() or is killed, whatever the clients do (fifo_server.c:33,
\* "solution" for clients that never open their FIFO), at the price of the requests of
\* clients that are merely slow; and a client that opens its FIFO with it ends with any
\* server, also with one that never writes (fifo_server.c:42).
NonblockReturns ==
  /\ mode = "nonblock" => (spc \in {"open", "openWait", "write"} ~> spc \in {"read", "start"})
  /\ \A c \in Clients : Kind[c] = "c_nonblock" /\ cpc[c] = "open" ~> cpc[c] \in Gone

\* The server implements the sequence allocator.
Alloc == INSTANCE SeqAlloc WITH
  next <- seq_n,
  printed <- {[pid |-> c, first |-> got[c], len |-> seqLen[c]] :
                c \in {d \in Clients : cpc[d] = "success"}}

\* Dropped requests, failed writes, clients that vanish and servers that are killed
\* included, each server hands out consecutive blocks, at most one per client, and a client
\* prints its own.
AllocSpec == Alloc!Spec
=============================================================================
