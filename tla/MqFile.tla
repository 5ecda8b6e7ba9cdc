------------------------------- MODULE MqFile -------------------------------
(***************************************************************************)
(* The file server over POSIX message queues (SP_HW9):                     *)
(* svmsg_file_server.c and several svmsg_file_client.c.  A request is a    *)
(* path name, the reply the contents of the file.  Requests go to the      *)
(* queue SERVER_NAME; the replies for ALL clients go to the one queue      *)
(* CLIENT_NAME, which every client unlinks when it exits.                  *)
(*                                                                         *)
(* A queue that is unlinked lives on for the processes that have it open;  *)
(* the next mq_open with O_CREAT makes another one under the same name.    *)
(* Queues are numbered in the order they are created, 0 is no queue.       *)
(***************************************************************************)
EXTENDS Naturals, Sequences, FiniteSets

CONSTANTS
  Clients,      \* the client processes
  Files,        \* path names they may ask for
  Readable,     \* the path names that open() and read() accept
  MqCap,        \* messages a queue holds (mq_maxmsg)
  MaxRuns,      \* bound: how many times the server is started
  MaxKills      \* bound: how many clients are killed by a signal

ASSUME ClientsAssumption == IsFiniteSet(Clients)
ASSUME FilesAssumption == Files # {}
ASSUME ReadableAssumption == Readable \subseteq Files
ASSUME MqCapAssumption == MqCap \in Nat \ {0}
ASSUME BoundsAssumption == MaxRuns \in Nat /\ MaxKills \in Nat

VARIABLES
  oneAtATime,   \* is a client started only when no other one is active
  sname, cname, \* the queues SERVER_NAME and CLIENT_NAME stand for
  msgs,         \* the messages of every queue made so far
  spc,          \* server: "down", "receive", "open", "send", "exited"
  smqd,         \* server: its request queue
  buf,          \* server: the path name received last
  rmqd,         \* server: the queue it replies to
  runs,         \* servers started so far
  cpc,          \* clients: "start", "send", "open", "receive", "exit", then
                \* "success", "failure" or "killed"
  path,         \* clients: argv[1]
  cmqd,         \* clients: the queue they use (server_mqd, later client_mqd)
  got           \* clients: the file whose contents were received

names == <<sname, cname>>
server == <<spc, smqd, buf, rmqd, runs>>
vars == <<oneAtATime, sname, cname, msgs, spc, smqd, buf, rmqd, runs, cpc, path, cmqd, got>>

Init ==
  /\ oneAtATime \in BOOLEAN
  /\ sname = 0 /\ cname = 0 /\ msgs = <<>>
  /\ spc = "down" /\ smqd = 0 /\ rmqd = 0 /\ runs = 0
  /\ path \in [Clients -> Files]
  /\ buf = CHOOSE f \in Files : TRUE         \* not read before mq_receive fills it
  /\ got = [c \in Clients |-> buf]           \* neither is this
  /\ cpc = [c \in Clients |-> "start"]
  /\ cmqd = [c \in Clients |-> 0]

\* mq_open with O_CREAT: the queue a name stands for afterwards, and all queues.
Opened(name) == IF name # 0 THEN name ELSE Len(msgs) + 1
MsgsAfterOpen(name) == IF name # 0 THEN msgs ELSE Append(msgs, <<>>)

\* mq_send of a message, blocked while the queue is full; mq_receive of the
\* oldest one, blocked while it is empty.
Send(q, m) ==
  /\ Len(msgs[q]) < MqCap
  /\ msgs' = [msgs EXCEPT ![q] = Append(@, m)]
Receive_Peek(q) == msgs[q] # <<>> /\ UNCHANGED msgs       \* mutant: it stays there
Receive(q) ==
  /\ msgs[q] # <<>>
  /\ msgs' = [msgs EXCEPT ![q] = Tail(@)]
-----------------------------------------------------------------------------
(* svmsg_file_server.c *)

\* Mutant: the server unlinks the queue of an earlier one, to start with an empty one.
ServerStart_Anew ==
  /\ spc \in {"down", "exited"} /\ runs < MaxRuns
  /\ sname' = Len(msgs) + 1 /\ smqd' = Len(msgs) + 1
  /\ msgs' = Append(msgs, <<>>)
  /\ spc' = "receive" /\ runs' = runs + 1
  /\ UNCHANGED <<oneAtATime, cname, buf, rmqd, cpc, path, cmqd, got>>

ServerStart ==
  /\ spc \in {"down", "exited"} /\ runs < MaxRuns
  /\ sname' = Opened(sname) /\ smqd' = Opened(sname)
  /\ msgs' = MsgsAfterOpen(sname)
  /\ spc' = "receive" /\ runs' = runs + 1
  /\ UNCHANGED <<oneAtATime, cname, buf, rmqd, cpc, path, cmqd, got>>

ServerReceive ==
  /\ spc = "receive" /\ spc' = "open"
  /\ Receive(smqd) /\ buf' = Head(msgs[smqd])
  /\ UNCHANGED <<oneAtATime, names, smqd, rmqd, runs, cpc, path, cmqd, got>>

\* open and read the file, mq_open of the queue for the reply.
ServerOpen ==
  /\ spc = "open" /\ buf \in Readable
  /\ cname' = Opened(cname) /\ rmqd' = Opened(cname)
  /\ msgs' = MsgsAfterOpen(cname)
  /\ spc' = "send"
  /\ UNCHANGED <<oneAtATime, sname, smqd, buf, runs, cpc, path, cmqd, got>>

\* The file cannot be opened: exit, and removeQueue unlinks SERVER_NAME.
ServerMissing ==
  /\ spc = "open" /\ buf \notin Readable
  /\ spc' = "exited"
  /\ sname' = 0
  /\ UNCHANGED <<oneAtATime, cname, msgs, smqd, buf, rmqd, runs, cpc, path, cmqd, got>>

\* Mutant: the reply is sent to the queue the requests come from.
ServerSend_Self ==
  /\ spc = "send" /\ spc' = "receive"
  /\ Send(smqd, buf)
  /\ UNCHANGED <<oneAtATime, names, smqd, buf, rmqd, runs, cpc, path, cmqd, got>>

\* mq_send of the contents, close, mq_close.
ServerSend ==
  /\ spc = "send" /\ spc' = "receive"
  /\ Send(rmqd, buf)
  /\ UNCHANGED <<oneAtATime, names, smqd, buf, rmqd, runs, cpc, path, cmqd, got>>

\* A signal ends the server; the queues and their names stay.
ServerKill ==
  /\ spc \in {"receive", "open", "send"} /\ runs < MaxRuns
  /\ spc' = "down"
  /\ UNCHANGED <<oneAtATime, names, msgs, smqd, buf, rmqd, runs, cpc, path, cmqd, got>>

ServerStep == ServerReceive \/ ServerOpen \/ ServerMissing \/ ServerSend
-----------------------------------------------------------------------------
(* svmsg_file_client.c *)

Killed == {c \in Clients : cpc[c] = "killed"}
Active(c) == cpc[c] \in {"send", "open", "receive", "exit"}

\* mq_open of SERVER_NAME, which the client creates if there is no server yet.
ClientStart(c) ==
  /\ cpc[c] = "start"
  /\ oneAtATime => \A d \in Clients : ~Active(d)
  /\ sname' = Opened(sname)
  /\ msgs' = MsgsAfterOpen(sname)
  /\ cmqd' = [cmqd EXCEPT ![c] = Opened(sname)]
  /\ cpc' = [cpc EXCEPT ![c] = "send"]
  /\ UNCHANGED <<oneAtATime, cname, server, path, got>>

\* Mutant: the request is sent again and again.
ClientSend_Again(c) ==
  /\ cpc[c] = "send" /\ Send(cmqd[c], path[c])
  /\ UNCHANGED <<oneAtATime, names, server, cpc, path, cmqd, got>>

ClientSend(c) ==
  /\ cpc[c] = "send" /\ cpc' = [cpc EXCEPT ![c] = "open"]
  /\ Send(cmqd[c], path[c])
  /\ UNCHANGED <<oneAtATime, names, server, path, cmqd, got>>

\* mq_open of CLIENT_NAME, before or after the server's.
ClientOpen(c) ==
  /\ cpc[c] = "open" /\ cpc' = [cpc EXCEPT ![c] = "receive"]
  /\ cname' = Opened(cname)
  /\ msgs' = MsgsAfterOpen(cname)
  /\ cmqd' = [cmqd EXCEPT ![c] = Opened(cname)]
  /\ UNCHANGED <<oneAtATime, sname, server, path, got>>

ClientReceive(c) ==
  /\ cpc[c] = "receive" /\ cpc' = [cpc EXCEPT ![c] = "exit"]
  /\ Receive(cmqd[c]) /\ got' = [got EXCEPT ![c] = Head(msgs[cmqd[c]])]
  /\ UNCHANGED <<oneAtATime, names, server, path, cmqd>>

\* exit runs removeQueue: it unlinks CLIENT_NAME, whoever uses the queue, and
\* fails if another client was first.
ClientExit(c) ==
  /\ cpc[c] = "exit"
  /\ cpc' = [cpc EXCEPT ![c] = IF cname = 0 THEN "failure" ELSE "success"]
  /\ cname' = 0
  /\ UNCHANGED <<oneAtATime, sname, msgs, server, path, cmqd, got>>

\* A signal ends a client: CLIENT_NAME stays, with a reply that may come yet.
ClientKill(c) ==
  /\ Active(c) /\ Cardinality(Killed) < MaxKills
  /\ cpc' = [cpc EXCEPT ![c] = "killed"]
  /\ UNCHANGED <<oneAtATime, names, msgs, server, path, cmqd, got>>

ClientStep(c) == ClientStart(c) \/ ClientSend(c) \/ ClientOpen(c)
                   \/ ClientReceive(c) \/ ClientExit(c)
-----------------------------------------------------------------------------
Next ==
  \/ ServerStart \/ ServerStep \/ ServerKill
  \/ \E c \in Clients : ClientStep(c) \/ ClientKill(c)

Spec == Init /\ [][Next]_vars

\* As the usage comment has it, a server is started; processes that are not
\* blocked are scheduled.
FairSpec ==
  /\ Spec
  /\ WF_vars(ServerStart) /\ WF_vars(ServerStep)
  /\ \A c \in Clients : WF_vars(ClientStep(c))
-----------------------------------------------------------------------------
(* Properties *)

\* Type invariant of the queues, the server and the clients.
TypeOK ==
  /\ msgs \in Seq(Seq(Files))
  /\ sname \in 0 .. Len(msgs) /\ cname \in 0 .. Len(msgs)
  /\ spc \in {"down", "receive", "open", "send", "exited"}
  /\ spc \in {"receive", "open", "send"} => smqd \in 1 .. Len(msgs)
  /\ spc = "send" => rmqd \in 1 .. Len(msgs)
  /\ buf \in Files /\ runs \in 0 .. MaxRuns
  /\ cpc \in [Clients -> {"start", "send", "open", "receive", "exit", "success",
                          "failure", "killed"}]
  /\ path \in [Clients -> Files] /\ got \in [Clients -> Files]
  /\ cmqd \in [Clients -> 0 .. Len(msgs)]
  /\ \A c \in Clients : cpc[c] \in {"send", "receive"} => cmqd[c] # 0

Contents(q) == {msgs[q][k] : k \in DOMAIN msgs[q]}
Received(c) == cpc[c] \in {"exit", "success", "failure"}

\* Clients that run one after the other receive the file they asked for and
\* find their queue to remove, across crashes and restarts of the server,
\* although the queue for the replies has one name for all of them
\* (svmsg_file_client.c:66).  Clients that run at the same time may receive each
\* other's files, and unlink the queue another one waits for, but no request is
\* answered twice: a file is received by no more clients than have asked for it.
RepliesRight ==
  /\ oneAtATime /\ Killed = {} =>
       \A c \in Clients : Received(c) => got[c] = path[c] /\ cpc[c] # "failure"
  /\ \A f \in Files :
       Cardinality({c \in Clients : Received(c) /\ got[c] = f})
         <= Cardinality({c \in Clients : cpc[c] \notin {"start", "send"} /\ path[c] = f})

\* The server is not held up in mq_send (svmsg_file_server.c:103) by replies
\* that nobody fetched, as long as the queue has room for one per client.
ReplyFits ==
  MqCap >= Cardinality(Clients) /\ spc = "send" => Len(msgs[rmqd]) < MqCap

\* The request of a client is on its way to the server, or will be when it is sent, and
\* nothing that cannot be served is before it.
Waits(c) ==
  /\ sname # 0 /\ path[c] \in Readable
  /\ \/ cpc[c] = "send" /\ cmqd[c] = sname
     \/ cpc[c] \in {"open", "receive"} /\ path[c] \in Contents(sname)
  /\ Contents(sname) \subseteq Readable
  /\ spc = "open" => buf \in Readable

\* A client that runs alone is answered and exits with success, by the server that runs or
\* by one that is started later: what an earlier server left in its queue, which
\* svmsg_file_server.c:59 opens again, is served.  Only a server that is killed with the
\* request in its hands takes it along.
Answered ==
  \A c \in Clients :
    (oneAtATime /\ Waits(c) /\ (spc = "exited" => runs < MaxRuns))
      ~> cpc[c] \in {"success", "killed"} \/ (spc = "down" /\ ~Waits(c))

\* "Read requests, handle each in a separate child process" (svmsg_file_server.c:80): a
\* request that cannot be served ends its child, and no other request is stranded in the
\* queue of a server that has exited.
HandledApart == spc = "exited" => Contents(smqd) \cap Readable = {}
=============================================================================
