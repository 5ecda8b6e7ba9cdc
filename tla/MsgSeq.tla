------------------------------- MODULE MsgSeq -------------------------------
(***************************************************************************)
(* The sequence-number server over one System V message queue              *)
(* (SP_HW8/ch46): msq_server.c and any number of msq_client.c processes.   *)
(*                                                                         *)
(* Requests (mtype 1) and responses (mtype = pid of the client) travel in  *)
(* the SAME queue, which holds QCap messages (msg_qbytes / SIZE); msgsnd   *)
(* blocks while it is full.  The queue outlives the processes: a server    *)
(* killed by a signal runs no exit handler and leaves it behind, and the   *)
(* next server goes on with the messages it finds there.                   *)
(***************************************************************************)
EXTENDS Integers, Sequences, FiniteSets

CONSTANTS
  Clients,      \* the client processes (each run of msq_client has its own pid)
  SeqLens,      \* values of the seq-len argument
  QCap,         \* messages the kernel keeps in the queue
  MaxRuns,      \* bound: how many times the server is started
  MayKill,      \* may clients be killed by a signal
  MayRemove     \* may the queue be removed from outside (ipcrm)

ASSUME ClientsAssumption == IsFiniteSet(Clients)
ASSUME QCapAssumption == QCap \in Nat \ {0}
ASSUME SeqLensAssumption == SeqLens \subseteq Nat
ASSUME MaxRunsAssumption == MaxRuns \in Nat

VARIABLES
  queue,        \* the queue of SERVER_KEY: "none", "live" or "removed"
  requests,     \* its messages of type 1, in order: [pid, seqLen]
  responses,    \* its other messages: [mtype, seqNum]
  spc,          \* server: "down", "rcv" (line 77), "snd" (line 87) or "exited"
  seq_num,      \* server: start of the next block
  req,          \* server: the request received last
  cpc,          \* clients: "start", "snd", "rcv", "success", "failure", "killed"
  seqLen,       \* clients: req.seqLen
  got,          \* clients: resp.seqNum, what they print
  run,          \* history: number of servers started so far
  grants        \* history: blocks sent, [pid, first, len, run]

server == <<spc, seq_num, req, run>>
clients == <<cpc, seqLen, got>>
vars == <<queue, requests, responses, spc, seq_num, req, cpc, seqLen, got, run, grants>>

Requests == [pid : Clients, seqLen : SeqLens]

\* Messages in the queue, of either kind.
qnum == Len(requests) + Cardinality(responses)

Init ==
  /\ queue = "none"
  /\ requests = <<>>
  /\ responses = {}
  /\ spc = "down"
  /\ seq_num = 0
  /\ req = CHOOSE r \in Requests : TRUE     \* not read before a msgrcv fills it
  /\ cpc = [c \in Clients |-> "start"]
  /\ seqLen \in [Clients -> SeqLens]
  /\ got = [c \in Clients |-> 0]
  /\ run = 0
  /\ grants = {}
-----------------------------------------------------------------------------
(* msq_server.c *)

\* Mutant: the length of the block is forgotten.
SeqNum_Forget == seq_num + 1

\* seq_num += req.seqLen
NextSeqNum == seq_num + req.seqLen

\* Mutant: the server starts with an empty queue of its own.
ServerStart_Flush ==
  /\ spc = "down" /\ queue # "removed" /\ run < MaxRuns
  /\ queue' = "live" /\ requests' = <<>> /\ responses' = {}
  /\ seq_num' = 0 /\ run' = run + 1 /\ spc' = "rcv"
  /\ UNCHANGED <<req, clients, grants>>

\* main up to the loop: msgget with IPC_CREAT finds the queue a killed server
\* left, or creates it; seq_num starts at 0 either way.
ServerStart ==
  /\ spc = "down" /\ queue # "removed"
  /\ run < MaxRuns
  /\ queue' = "live"
  /\ seq_num' = 0
  /\ run' = run + 1
  /\ spc' = "rcv"
  /\ UNCHANGED <<requests, responses, req, clients, grants>>

\* msgrcv(qid, &req, SIZE, 1, 0): the oldest message of type 1.
ServerRcv ==
  /\ spc = "rcv" /\ queue = "live"
  /\ requests # <<>>
  /\ req' = Head(requests)
  /\ requests' = Tail(requests)
  /\ spc' = "snd"
  /\ UNCHANGED <<queue, responses, seq_num, run, clients, grants>>

\* resp.mtype = req.pid; msgsnd, blocked while the queue is full; then
\* seq_num += req.seqLen.
ServerSnd ==
  /\ spc = "snd" /\ queue = "live"
  /\ qnum < QCap
  /\ responses' = responses \cup {[mtype |-> req.pid, seqNum |-> seq_num]}
  /\ seq_num' = NextSeqNum
  /\ grants' = grants \cup
       {[pid |-> req.pid, first |-> seq_num, len |-> req.seqLen, run |-> run]}
  /\ spc' = "rcv"
  /\ UNCHANGED <<queue, requests, req, run, clients>>

\* Mutant: continue in the place of break.
ServerFail_Continue == spc \in {"rcv", "snd"} /\ queue = "removed" /\ UNCHANGED vars

\* msgrcv or msgsnd returns -1 (EIDRM, EINVAL): break, exit, and removeMsgqueue
\* finds nothing left to remove.
ServerFail ==
  /\ spc \in {"rcv", "snd"} /\ queue = "removed"
  /\ spc' = "exited"
  /\ UNCHANGED <<queue, requests, responses, seq_num, req, run, clients, grants>>

\* A signal ends the server, at whichever call it is; the queue stays.
ServerKill ==
  /\ spc \in {"rcv", "snd"}
  /\ run < MaxRuns
  /\ spc' = "down"
  /\ UNCHANGED <<queue, requests, responses, seq_num, req, run, clients, grants>>
-----------------------------------------------------------------------------
(* msq_client.c *)

\* msgget without IPC_CREAT: no queue, no service.
ClientStart(c) ==
  /\ cpc[c] = "start"
  /\ cpc' = [cpc EXCEPT ![c] = IF queue = "live" THEN "snd" ELSE "failure"]
  /\ UNCHANGED <<queue, requests, responses, server, seqLen, got, grants>>

\* Mutant: the request is sent again and again.
ClientSnd_Again(c) ==
  /\ cpc[c] = "snd" /\ queue = "live" /\ qnum < QCap
  /\ requests' = Append(requests, [pid |-> c, seqLen |-> seqLen[c]])
  /\ UNCHANGED <<queue, responses, server, clients, grants>>

\* msgsnd of the request, blocked while the queue is full.
ClientSnd(c) ==
  /\ cpc[c] = "snd" /\ queue = "live"
  /\ qnum < QCap
  /\ requests' = Append(requests, [pid |-> c, seqLen |-> seqLen[c]])
  /\ cpc' = [cpc EXCEPT ![c] = "rcv"]
  /\ UNCHANGED <<queue, responses, server, seqLen, got, grants>>

\* The msgtyp argument selects the messages for the own pid; mutant: msgtyp 0
\* takes any message.
Selects_Any(c, m) == TRUE
Selects(c, m) == m.mtype = c

\* msgrcv of a message whose type is the own pid; print it and exit.
ClientRcv(c) ==
  /\ cpc[c] = "rcv" /\ queue = "live"
  /\ \E m \in responses :
       /\ Selects(c, m)
       /\ got' = [got EXCEPT ![c] = m.seqNum]
       /\ responses' = responses \ {m}
  /\ cpc' = [cpc EXCEPT ![c] = "success"]
  /\ UNCHANGED <<queue, requests, server, seqLen, grants>>

\* msgsnd or msgrcv returns -1: the queue is gone.
ClientFail(c) ==
  /\ cpc[c] \in {"snd", "rcv"} /\ queue = "removed"
  /\ cpc' = [cpc EXCEPT ![c] = "failure"]
  /\ UNCHANGED <<queue, requests, responses, server, seqLen, got, grants>>

\* A signal ends a client; its messages stay in the queue.
ClientKill(c) ==
  /\ MayKill
  /\ cpc[c] \in {"start", "snd", "rcv"}
  /\ cpc' = [cpc EXCEPT ![c] = "killed"]
  /\ UNCHANGED <<queue, requests, responses, server, seqLen, got, grants>>
-----------------------------------------------------------------------------
\* The queue is removed from outside (ipcrm), with whatever it holds.
Ipcrm ==
  /\ MayRemove /\ queue = "live"
  /\ queue' = "removed"
  /\ requests' = <<>>
  /\ responses' = {}
  /\ UNCHANGED <<server, clients, grants>>

ServerStep == ServerRcv \/ ServerSnd \/ ServerFail
ClientStep(c) == ClientStart(c) \/ ClientSnd(c) \/ ClientRcv(c) \/ ClientFail(c)

Next ==
  \/ ServerStart \/ ServerStep \/ ServerKill
  \/ \E c \in Clients : ClientStep(c) \/ ClientKill(c)
  \/ Ipcrm

Spec == Init /\ [][Next]_vars

\* Every process that is not blocked is scheduled again.  Nothing obliges
\* anybody to start a server or to send a signal.
Fairness == WF_vars(ServerStep) /\ \A c \in Clients : WF_vars(ClientStep(c))

FairSpec == Spec /\ Fairness
-----------------------------------------------------------------------------
(* Properties *)

\* Type invariant of the queue, the server and the clients (the structures of
\* msq_server.c and msq_client.c).
TypeOK ==
  /\ queue \in {"none", "live", "removed"}
  /\ requests \in Seq(Requests)
  /\ responses \subseteq [mtype : Clients, seqNum : Nat]
  /\ spc \in {"down", "rcv", "snd", "exited"}
  /\ seq_num \in Nat
  /\ spc = "snd" => req \in Requests
  /\ cpc \in [Clients -> {"start", "snd", "rcv", "success", "failure", "killed"}]
  /\ seqLen \in [Clients -> SeqLens]
  /\ got \in [Clients -> Nat]
  /\ run \in Nat
  /\ grants \subseteq [pid : Clients, first : Nat, len : SeqLens, run : Nat]

\* Two half-open ranges of numbers have none in common.
Apart(a, m, b, n) == m = 0 \/ n = 0 \/ a + m <= b \/ b + n <= a

\* No number is printed as its own by two clients that the same run of the
\* server answered: the increment after msgsnd (msq_server.c:92) comes before
\* the next response, whatever clients and messages do in between.
PrintedDisjoint ==
  \A g, h \in grants :
     g.pid # h.pid /\ g.run = h.run
       /\ cpc[g.pid] = "success" /\ cpc[h.pid] = "success"
     => Apart(got[g.pid], seqLen[g.pid], got[h.pid], seqLen[h.pid])

\* The client's message is somewhere between its msgsnd and its msgrcv.
InFlight(c) ==
  \/ \E i \in DOMAIN requests : requests[i].pid = c
  \/ spc = "snd" /\ req.pid = c
  \/ \E m \in responses : m.mtype = c

\* Clients blocked in msgrcv for a response that nobody will ever send.
Stranded == {c \in Clients : cpc[c] = "rcv" /\ queue = "live" /\ ~InFlight(c)}

\* A killed server takes at most one request with it: of the clients waiting in
\* msgrcv (msq_client.c:65) at most one per dead server is stranded, and the
\* others' requests survive in the queue for the next server.
OneStrandedPerCrash ==
  Cardinality(Stranded) <= IF spc = "down" THEN run ELSE run - 1

\* When the queue is as large as the number of clients, msgsnd of a response
\* (msq_server.c:87) finds room however many clients race to send requests.
ResponseFits ==
  QCap >= Cardinality(Clients) /\ spc = "snd" /\ queue = "live" => qnum < QCap

\* As long as the server runs, every client that gets through msgget is answered
\* ("Read requests and send repose by pid", msq_server.c:73), and so is every
\* client that sent its request to an earlier server, unless that server took
\* the request with it.
RequestAnswered ==
  \A c \in Clients :
    cpc[c] = "snd" \/ (cpc[c] = "rcv" /\ InFlight(c))
      ~> cpc[c] \in {"success", "killed"} \/ spc = "down" \/ queue = "removed"

\* Removing the queue frees every process that was blocked on it: the error
\* returns of msgrcv and msgsnd lead out of main on both sides.
RemovalEndsAll ==
  queue = "removed" ~> /\ spc \in {"exited", "down"}
                       /\ \A c \in Clients : cpc[c] \in {"success", "failure", "killed"}

\* The server and its queue implement the sequence allocator.
Alloc == INSTANCE SeqAlloc WITH
  next <- seq_num,
  printed <- {[pid |-> c, first |-> got[c], len |-> seqLen[c]] :
                c \in {d \in Clients : cpc[d] = "success"}}

\* Every behaviour of server, queue and clients (crashes of either, removal of
\* the queue) is one of the allocator: blocks are consecutive within a run, one
\* per client, and a client prints the block it asked for and was given.
AllocSpec == Alloc!Spec
=============================================================================
