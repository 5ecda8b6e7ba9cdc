---------------------------- MODULE FifoSeqProofs ----------------------------
(***************************************************************************)
(* Proofs about FifoSeq for any set of clients, whichever programs they    *)
(* run, for each of the servers and any number of restarts: type           *)
(* correctness, disjointness of the blocks that are printed, at most one   *)
(* orphaned client for each dead server when the server blocks, and        *)
(* refinement of SeqAlloc.                                                 *)
(***************************************************************************)
EXTENDS FifoSeq, FiniteSetTheorems, TLAPS

\* What read() takes from the front of SERVER_FIFO is a request, and requests
\* are left.
LEMMA HeadTail ==
  ASSUME NEW S, NEW s \in Seq(S), s # <<>>
  PROVE  /\ Head(s) \in S /\ Tail(s) \in Seq(S) /\ Len(s) \in Nat /\ Len(s) > 0
         /\ Head(s) = s[1] /\ Len(Tail(s)) = Len(s) - 1
         /\ \A i \in 1 .. Len(s) - 1 : Tail(s)[i] = s[i + 1]
  OBVIOUS

\* A step is a step of one of the actions, or none.
LEMMA Steps ==
  ASSUME [Next]_vars
  PROVE  \/ ServerMkfifo \/ ServerKill \/ ServerOpen \/ ServerRead("open")
         \/ mode = "nowrite" /\ ServerRead("read")
         \/ ServerOpenFails \/ ServerOpenClient \/ ServerWrite
         \/ \E c \in Clients :
              \/ ClientMkfifo(c) \/ ClientOpenServer(c) \/ ClientWrite(c) \/ ClientSigpipe(c)
              \/ ClientOpen(c) \/ ClientRead(c) \/ ClientReadFails(c) \/ BadClientExit(c) \/ ClientKill(c)
         \/ UNCHANGED vars
  BY DEF Next, ServerStep, ServerLoop, NowriteServer, ClientStep, ClientSend,
         ClientReply, ReadingClient, BadClient

\* SERVER_FIFO keeps its requests as long as a client waits for an answer.
LEMMA Keeping ==
  ASSUME Kept
  PROVE  requests' = requests \/ (requests' = <<>> /\ \A c \in Clients : ~Waits(c)')
  BY DEF Kept, Holds, Waits

\* Type correctness of FIFOs, server and clients.
THEOREM TypeCorrect == Spec => []TypeOK
<1>1. Init => TypeOK
  BY DEF Init, TypeOK, Gone
<1>2. TypeOK /\ [Next]_vars => TypeOK'
  <2> SUFFICES ASSUME TypeOK, [Next]_vars PROVE TypeOK'
    OBVIOUS
  <2> USE SeqLensAssumption DEF TypeOK
  <2>k. Kept => requests' \in Seq(Requests)
    BY DEF Kept
  <2>1. CASE ServerMkfifo
    BY <2>1 DEF ServerMkfifo
  <2>0. CASE ServerKill
    BY <2>0, <2>k DEF ServerKill
  <2>2. CASE ServerOpen
    BY <2>2 DEF ServerOpen
  <2>3. ASSUME NEW v \in {"open", "read"}, ServerRead(v) PROVE TypeOK'
    <3>1. Head(requests) \in Requests /\ Tail(requests) \in Seq(Requests)
      BY <2>3, HeadTail DEF ServerRead
    <3>2. QED
      BY <2>3, <3>1 DEF ServerRead
  <2>4. CASE ServerOpenFails
    BY <2>4 DEF ServerOpenFails
  <2>5. CASE ServerOpenClient
    BY <2>5 DEF ServerOpenClient
  <2>6. CASE ServerWrite
    <3>1. req.pid \in Clients /\ req.seqLen \in SeqLens /\ req \in Requests
      BY <2>6 DEF ServerWrite, Requests
    <3>2. seq_n' \in Nat
      <4>1. req.seqLen \in Nat /\ seq_n \in Nat
        BY <3>1
      <4>2. seq_n' = seq_n + req.seqLen
        BY <2>6 DEF ServerWrite, NextSeqN
      <4>3. QED
        BY <4>1, <4>2
    <3>3. pipe' \subseteq [pid : Clients, seqNum : Nat]
      BY <2>6, <3>1 DEF ServerWrite
    <3>4. grants' \subseteq [pid : Clients, first : Nat, len : SeqLens, run : Nat]
      BY <2>6, <3>1 DEF ServerWrite
    <3>5. QED
      BY <2>6, <3>1, <3>2, <3>3, <3>4 DEF ServerWrite
  <2>7. ASSUME NEW c \in Clients, ClientMkfifo(c) PROVE TypeOK'
    BY <2>7 DEF ClientMkfifo, server
  <2>8. ASSUME NEW c \in Clients, ClientOpenServer(c) PROVE TypeOK'
    BY <2>8, <2>k DEF ClientOpenServer, Exit, Gone, server, Listens
  <2>9. ASSUME NEW c \in Clients, ClientWrite(c) PROVE TypeOK'
    BY <2>9 DEF ClientWrite, server, Requests
  <2>16. ASSUME NEW c \in Clients, ClientSigpipe(c) PROVE TypeOK'
    BY <2>16, <2>k DEF ClientSigpipe, server, Gone
  <2>10. ASSUME NEW c \in Clients, ClientOpen(c) PROVE TypeOK'
    BY <2>10 DEF ClientOpen
  <2>11. ASSUME NEW c \in Clients, ClientRead(c) PROVE TypeOK'
    BY <2>11, <2>k DEF ClientRead, Exit, server, Gone
  <2>12. ASSUME NEW c \in Clients, ClientReadFails(c) PROVE TypeOK'
    BY <2>12, <2>k DEF ClientReadFails, Exit, server, Gone
  <2>13. ASSUME NEW c \in Clients, BadClientExit(c) PROVE TypeOK'
    BY <2>13, <2>k DEF BadClientExit, Exit, server, Gone
  <2>14. ASSUME NEW c \in Clients, ClientKill(c) PROVE TypeOK'
    BY <2>14, <2>k DEF ClientKill, server, Gone
  <2>15. CASE UNCHANGED vars
    BY <2>15 DEF vars
  <2>17. QED
    BY <2>0, <2>1, <2>2, <2>3, <2>4, <2>5, <2>6, <2>7, <2>8, <2>9, <2>10, <2>11, <2>12, <2>13,
       <2>14, <2>15, <2>16, Steps
<1>3. QED
  BY <1>1, <1>2, PTL DEF Spec
-----------------------------------------------------------------------------
(* The inductive invariant behind PrintedDisjoint, NoOrphan and AllocSpec. *)

\* Before its request is written.
Early == {"start", "openServer", "openServerWait", "write"}

\* The server is at work on the request in req.
Handling == spc \in {"open", "openWait", "write"}

\* Client c has sent its request and has not been given a block.
Fresh(c) == cpc[c] \notin Early /\ \A g \in grants : g.pid # c

\* A request in SERVER_FIFO is its client's only one, and nobody granted it yet.
RequestsFresh ==
  \A i \in 1 .. Len(requests) :
    /\ Fresh(requests[i].pid)
    /\ requests[i].seqLen = seqLen[requests[i].pid]
    /\ Handling => req.pid # requests[i].pid
    /\ \A j \in 1 .. Len(requests) : requests[i].pid = requests[j].pid => i = j

\* So is the request that the server is handling; by the time it writes the
\* response the client has opened its FIFO, or is gone.
ReqFresh ==
  /\ Handling => Fresh(req.pid) /\ req.seqLen = seqLen[req.pid]
  /\ spc = "write" => cpc[req.pid] # "open"

\* The blocks of this run lie below seq_n.
GrantsBelow ==
  \A g \in grants :
    /\ cpc[g.pid] \notin Early
    /\ g.len = seqLen[g.pid]
    /\ g.run <= run
    /\ g.run = run => g.first + g.len <= seq_n

\* A client has one block, and blocks of the same run do not overlap.
GrantsApart ==
  \A g, h \in grants :
    /\ g.pid = h.pid => g = h
    /\ g.run = h.run /\ g.pid # h.pid => Apart(g.first, g.len, h.first, h.len)

\* Responses announce blocks, and clients print what was announced to them.
PipeGranted == \A m \in pipe : \E g \in grants : g.pid = m.pid /\ g.first = m.seqNum
PrintedGranted ==
  \A c \in Clients :
    cpc[c] = "success" => \E g \in grants : g.pid = c /\ g.first = got[c]

\* A client's FIFO is there as long as the client is.
FifoThere == \A c \in Clients : cpc[c] \notin {"start"} \cup Gone => cfifo[c]

IInv == RequestsFresh /\ ReqFresh /\ GrantsBelow /\ GrantsApart /\ PipeGranted
          /\ PrintedGranted /\ FifoThere /\ NoOrphan

\* What the proofs use of the type invariant.
LEMMA Typed ==
  ASSUME TypeOK
  PROVE
         /\ requests \in Seq(Requests) /\ Len(requests) \in Nat /\ seq_n \in Nat
         /\ run \in Nat
         /\ Handling => req.pid \in Clients /\ req.seqLen \in Nat
         /\ cpc \in [Clients -> Early \cup {"open", "openWait", "read"} \cup Gone]
         /\ seqLen \in [Clients -> Nat] /\ got \in [Clients -> Nat]
         /\ cfifo \in [Clients -> BOOLEAN]
         /\ \A g \in grants : g.pid \in Clients /\ g.first \in Nat /\ g.len \in Nat /\ g.run \in Nat
         /\ \A m \in pipe : m.pid \in Clients /\ m.seqNum \in Nat
         /\ \A i \in 1 .. Len(requests) : requests[i].pid \in Clients
<1>1. /\ requests \in Seq(Requests) /\ Len(requests) \in Nat
      /\ seq_n \in Nat /\ run \in Nat /\ got \in [Clients -> Nat] /\ cfifo \in [Clients -> BOOLEAN]
      /\ cpc \in [Clients -> Early \cup {"open", "openWait", "read"} \cup Gone]
  BY DEF TypeOK, Early
<1>2. Handling => req.pid \in Clients /\ req.seqLen \in Nat
  BY SeqLensAssumption DEF TypeOK, Requests, Handling
<1>3. seqLen \in [Clients -> Nat]
  BY SeqLensAssumption DEF TypeOK
<1>4. ASSUME NEW g \in grants 
      PROVE g.pid \in Clients /\ g.first \in Nat /\ g.len \in Nat /\ g.run \in Nat
  <2>1. g \in [pid : Clients, first : Nat, len : SeqLens, run : Nat]
    BY DEF TypeOK
  <2>2. g.len \in SeqLens
    BY <2>1
  <2>3. QED
    BY <2>1, <2>2, SeqLensAssumption
<1>5. \A m \in pipe : m.pid \in Clients /\ m.seqNum \in Nat
  BY DEF TypeOK
<1>6. ASSUME NEW i \in 1 .. Len(requests) PROVE requests[i].pid \in Clients
  <2>1. requests[i] \in Requests
    BY <1>1
  <2>2. QED
    BY <2>1 DEF Requests
<1>7. QED
  BY <1>1, <1>2, <1>3, <1>4, <1>5, <1>6

\* As long as nobody is orphaned anew, the bound on the orphans is kept.
LEMMA OrphanStep ==
  ASSUME NoOrphan, UNCHANGED mode, DeadServers \in Int,
         mode = "block" => Orphans' \subseteq Orphans /\ DeadServers' = DeadServers
  PROVE  NoOrphan'
<1> SUFFICES ASSUME mode = "block"
             PROVE  IsFiniteSet(Orphans') /\ Cardinality(Orphans') <= DeadServers'
  BY DEF NoOrphan
<1>1. IsFiniteSet(Orphans) /\ Cardinality(Orphans) <= DeadServers
  BY DEF NoOrphan
<1>2. IsFiniteSet(Orphans') /\ Cardinality(Orphans') <= Cardinality(Orphans)
  BY <1>1, FS_Subset
<1>3. Cardinality(Orphans) \in Nat /\ Cardinality(Orphans') \in Nat
  BY <1>1, <1>2, FS_CardinalityType
<1>4. DeadServers' = DeadServers /\ DeadServers \in Int
  OBVIOUS
<1>5. QED
  BY <1>1, <1>2, <1>3, <1>4

\* A step that leaves the blocks and the responses alone, and the requests as well
\* unless they are lost and nobody waits, keeps the server at the same request or
\* lets it drop a request whose client is gone, and moves clients only among the
\* states after their request or among the states before it.
Quiet ==
  /\ UNCHANGED <<mode, seq_n, req, seqLen, run, grants, got, pipe>>
  /\ requests' = requests \/ (requests' = <<>> /\ \A c \in Clients : ~Waits(c)')
  /\ \A c \in Clients :
       /\ cpc'[c] \in Early => cpc[c] \in Early
       /\ cpc[c] \in Early => cpc'[c] \in Early \cup Gone
       /\ cpc'[c] = "success" => cpc[c] = "success"
       /\ cpc[c] \in Gone => cpc'[c] = cpc[c]
       /\ cpc'[c] = "open" => cpc[c] = "open"
  /\ spc' = "write" => spc \in {"open", "openWait", "write"} /\ cpc'[req.pid] # "open"
  /\ spc' = "start" <=> spc = "start"
  /\ Handling' => Handling
  /\ mode = "block" /\ Handling /\ ~Handling' =>
       cpc'[req.pid] \notin {"open", "openWait", "read"}

\* Quiet steps preserve the invariant.
LEMMA QuietInductive ==
  ASSUME TypeOK, IInv, Quiet, cpc' \in [Clients -> Early \cup {"open", "openWait", "read"} \cup Gone],
         FifoThere'
  PROVE  IInv'
<1>t.
      /\ requests \in Seq(Requests) /\ Len(requests) \in Nat /\ seq_n \in Nat
      /\ Handling => req.pid \in Clients /\ req.seqLen \in Nat
      /\ cpc \in [Clients -> Early \cup {"open", "openWait", "read"} \cup Gone]
      /\ \A g \in grants : g.pid \in Clients
      /\ \A i \in 1 .. Len(requests) : requests[i].pid \in Clients
  BY Typed
<1>i. /\ RequestsFresh /\ ReqFresh /\ GrantsBelow /\ GrantsApart /\ PipeGranted
      /\ PrintedGranted /\ FifoThere /\ NoOrphan
  BY DEF IInv
<1> USE DEF Quiet
<1>1. RequestsFresh'
  <2>1. CASE requests' = requests
    BY <1>i, <1>t, <2>1 DEF RequestsFresh, Fresh
  <2>2. CASE requests' = <<>>
    BY <2>2 DEF RequestsFresh
  <2>3. QED
    BY <2>1, <2>2
<1>2. ReqFresh'
  BY <1>i, <1>t DEF ReqFresh, Fresh
<1>3. GrantsBelow' /\ GrantsApart' /\ PipeGranted' /\ PrintedGranted'
  BY <1>i, <1>t DEF GrantsBelow, GrantsApart, PipeGranted, PrintedGranted
<1>4. NoOrphan'
  <2>1. ASSUME mode = "block", NEW c \in Orphans' PROVE c \in Orphans
    <3>1. c \in Clients /\ Waits(c)' /\ ~InFlight(c)'
      BY <2>1 DEF Orphans
    <3>2. Waits(c) /\ requests' = requests
      BY <1>t, <3>1 DEF Waits, Gone, Early
    <3>3. ~InFlight(c)
      BY <2>1, <3>1, <3>2 DEF InFlight, Handling, Waits
    <3>4. QED
      BY <3>1, <3>2, <3>3 DEF Orphans
  <2>2. DeadServers' = DeadServers /\ DeadServers \in Int
    BY Typed DEF DeadServers
  <2>3. QED
    BY <1>i, <2>1, <2>2, OrphanStep
<1>5. QED
  BY <1>1, <1>2, <1>3, <1>4 DEF IInv

\* Setting up, opening FIFOs and giving up are quiet.
LEMMA QuietSteps ==
  ASSUME TypeOK, IInv,
         \/ ServerOpen \/ ServerOpenFails \/ ServerOpenClient
         \/ \E c \in Clients : ClientMkfifo(c) \/ ClientOpenServer(c) \/ ClientSigpipe(c)
                               \/ ClientOpen(c) \/ ClientReadFails(c) \/ BadClientExit(c)
         \/ UNCHANGED vars
  PROVE  Quiet /\ FifoThere'
<1>t. /\ cpc \in [Clients -> Early \cup {"open", "openWait", "read"} \cup Gone]
      /\ cfifo \in [Clients -> BOOLEAN]
      /\ Handling => req.pid \in Clients
  BY Typed
<1>i. ReqFresh /\ FifoThere
  BY DEF IInv
<1> USE DEF Quiet, Handling, Early, Gone, FifoThere
<1>2. CASE ServerOpen
  BY <1>2, <1>t, <1>i DEF ServerOpen
<1>3. CASE ServerOpenFails
  <2>1. mode = "block" => cpc[req.pid] \in Gone
    BY <1>3, <1>t, <1>i DEF ServerOpenFails, OpenFails, ReqFresh, Fresh
  <2>2. QED
    BY <1>3, <2>1, <1>t, <1>i DEF ServerOpenFails
<1>4. CASE ServerOpenClient
  BY <1>4, <1>t, <1>i DEF ServerOpenClient, HasReader
<1>5. ASSUME NEW c \in Clients, ClientMkfifo(c) PROVE Quiet /\ FifoThere'
  BY <1>5, <1>t, <1>i DEF ClientMkfifo, server, ReqFresh, Fresh
<1>6. ASSUME NEW c \in Clients, ClientOpenServer(c) PROVE Quiet /\ FifoThere'
  <2>1. CASE sfifo
    BY <1>6, <2>1, <1>t, <1>i DEF ClientOpenServer, Listens, ReqFresh, Fresh
  <2>2. CASE ~sfifo
    BY <1>6, <2>2, <1>t, <1>i, Keeping DEF ClientOpenServer, Exit, server, ReqFresh, Fresh
  <2>3. QED
    BY <2>1, <2>2
<1>7. ASSUME NEW c \in Clients, ClientOpen(c) PROVE Quiet /\ FifoThere'
  BY <1>7, <1>t, <1>i DEF ClientOpen, ReqFresh, Fresh
<1>8. ASSUME NEW c \in Clients, ClientReadFails(c) PROVE Quiet /\ FifoThere'
  BY <1>8, <1>t, <1>i, Keeping DEF ClientReadFails, Exit, server, ReqFresh
<1>9. ASSUME NEW c \in Clients, BadClientExit(c) PROVE Quiet /\ FifoThere'
  BY <1>9, <1>t, <1>i, Keeping DEF BadClientExit, Exit, server, ReqFresh
<1>10. ASSUME NEW c \in Clients, ClientSigpipe(c) PROVE Quiet /\ FifoThere'
  BY <1>10, <1>t, <1>i, Keeping DEF ClientSigpipe, server, ReqFresh
<1>11. CASE UNCHANGED vars
  BY <1>11, <1>t, <1>i DEF vars, ReqFresh
<1>12. QED
  BY <1>2, <1>3, <1>4, <1>5, <1>6, <1>7, <1>8, <1>9, <1>10, <1>11

\* A new server finds the requests that were left; it counts in a run of its own.
LEMMA RestartInductive ==
  ASSUME TypeOK, IInv, ServerMkfifo
  PROVE  IInv'
<1>t. /\ run \in Nat /\ \A g \in grants : g.pid \in Clients /\ g.run \in Nat
      /\ \A i \in 1 .. Len(requests) : requests[i].pid \in Clients
  BY Typed
<1>i. /\ RequestsFresh /\ ReqFresh /\ GrantsBelow /\ GrantsApart /\ PipeGranted
      /\ PrintedGranted /\ FifoThere /\ NoOrphan
  BY DEF IInv
<1>1. /\ spc = "start" /\ spc' = "openServer" /\ run' = run + 1
      /\ UNCHANGED <<mode, requests, req, cpc, seqLen, cfifo, pipe, got, grants>>
  BY DEF ServerMkfifo
<1>2. RequestsFresh' /\ ReqFresh' /\ FifoThere'
  BY <1>i, <1>1 DEF RequestsFresh, ReqFresh, FifoThere, Fresh, Handling
<1>3. GrantsApart' /\ PipeGranted' /\ PrintedGranted'
  BY <1>i, <1>1 DEF GrantsApart, PipeGranted, PrintedGranted
<1>4. GrantsBelow'
  BY <1>i, <1>t, <1>1 DEF GrantsBelow
<1>5. NoOrphan'
  <2>1. Orphans' \subseteq Orphans
    BY <1>1 DEF Orphans, Waits, InFlight
  <2>2. DeadServers' = DeadServers /\ DeadServers \in Int
    BY <1>t, <1>1 DEF DeadServers
  <2>3. QED
    BY <1>i, <1>1, <2>1, <2>2, OrphanStep
<1>6. QED
  BY <1>2, <1>3, <1>4, <1>5 DEF IInv

\* A server that is killed orphans the client of the request in its hands, at most.
LEMMA KillInductive ==
  ASSUME TypeOK, IInv, ServerKill
  PROVE  IInv'
<1>t. /\ run \in Nat
      /\ cpc \in [Clients -> Early \cup {"open", "openWait", "read"} \cup Gone]
  BY Typed
<1>i. /\ RequestsFresh /\ ReqFresh /\ GrantsBelow /\ GrantsApart /\ PipeGranted
      /\ PrintedGranted /\ FifoThere /\ NoOrphan
  BY DEF IInv
<1>1. /\ spc # "start" /\ spc' = "start"
      /\ requests' = requests \/ (requests' = <<>> /\ \A c \in Clients : ~Waits(c)')
      /\ UNCHANGED <<mode, seq_n, req, cpc, seqLen, cfifo, pipe, got, run, grants>>
  BY Keeping DEF ServerKill
<1>2. RequestsFresh'
  <2>1. CASE requests' = requests
    BY <1>i, <1>1, <2>1 DEF RequestsFresh, Fresh, Handling
  <2>2. CASE requests' = <<>>
    BY <2>2 DEF RequestsFresh
  <2>3. QED
    BY <1>1, <2>1, <2>2
<1>3. ReqFresh' /\ FifoThere' /\ GrantsBelow' /\ GrantsApart' /\ PipeGranted' /\ PrintedGranted'
  BY <1>i, <1>1 DEF ReqFresh, FifoThere, GrantsBelow, GrantsApart, PipeGranted, PrintedGranted,
     Handling
<1>4. NoOrphan'
  <2> SUFFICES ASSUME mode = "block"
               PROVE  IsFiniteSet(Orphans') /\ Cardinality(Orphans') <= DeadServers'
    BY <1>1 DEF NoOrphan
  <2>1. IsFiniteSet(Orphans) /\ Cardinality(Orphans) <= DeadServers
    BY <1>i DEF NoOrphan
  <2>2. Orphans' \subseteq Orphans \cup {req.pid}
    <3> SUFFICES ASSUME NEW c \in Orphans', c # req.pid PROVE c \in Orphans
      OBVIOUS
    <3>1. c \in Clients /\ Waits(c)' /\ ~InFlight(c)'
      BY DEF Orphans
    <3>2. Waits(c) /\ requests' = requests
      BY <1>1, <3>1 DEF Waits
    <3>3. ~InFlight(c)
      BY <1>1, <3>1, <3>2 DEF InFlight
    <3>4. QED
      BY <3>1, <3>2, <3>3 DEF Orphans
  <2>3. /\ IsFiniteSet(Orphans \cup {req.pid})
        /\ Cardinality(Orphans \cup {req.pid}) <= Cardinality(Orphans) + 1
        /\ Cardinality(Orphans) \in Nat
    <3>1. Cardinality(Orphans) \in Nat
      BY <2>1, FS_CardinalityType
    <3>2. /\ IsFiniteSet(Orphans \cup {req.pid})
          /\ \/ Cardinality(Orphans \cup {req.pid}) = Cardinality(Orphans)
             \/ Cardinality(Orphans \cup {req.pid}) = Cardinality(Orphans) + 1
      BY <2>1, FS_AddElement
    <3>3. QED
      BY <3>1, <3>2
  <2>4. /\ IsFiniteSet(Orphans')
        /\ Cardinality(Orphans') <= Cardinality(Orphans \cup {req.pid})
    BY <2>2, <2>3, FS_Subset
  <2>5. /\ Cardinality(Orphans') \in Nat
        /\ Cardinality(Orphans \cup {req.pid}) \in Nat
    BY <2>3, <2>4, FS_CardinalityType
  <2>6. DeadServers' = run /\ DeadServers = run - 1
    BY <1>1 DEF DeadServers
  <2>7. QED
    BY <1>t, <2>1, <2>3, <2>4, <2>5, <2>6
<1>5. QED
  BY <1>2, <1>3, <1>4 DEF IInv

\* Reading a request off SERVER_FIFO.
LEMMA ReadInductive ==
  ASSUME TypeOK, IInv, NEW v, ServerRead(v), v = "open" \/ (v = "read" /\ mode = "nowrite")
  PROVE  IInv'
<1>t. /\ requests \in Seq(Requests) /\ Len(requests) \in Nat
      /\ \A i \in 1 .. Len(requests) : requests[i].pid \in Clients
  BY Typed
<1>i. /\ RequestsFresh /\ ReqFresh /\ GrantsBelow /\ GrantsApart /\ PipeGranted
      /\ PrintedGranted /\ FifoThere /\ NoOrphan
  BY DEF IInv
<1>1. /\ spc = "read" /\ spc' = v /\ spc' # "write" /\ req' = requests[1]
      /\ UNCHANGED <<mode, seq_n, cpc, seqLen, cfifo, pipe, got, run, grants>>
      /\ Len(requests) > 0 /\ Len(requests') = Len(requests) - 1
      /\ \A i \in 1 .. Len(requests) - 1 : requests'[i] = requests[i + 1]
      /\ requests' \in Seq(Requests)
  BY <1>t, HeadTail DEF ServerRead
<1>2. RequestsFresh'
  <2>1. SUFFICES ASSUME NEW i \in 1 .. Len(requests')
                 PROVE  /\ Fresh(requests[i].pid)'
                        /\ requests'[i].seqLen = seqLen'[requests'[i].pid]
                        /\ req'.pid # requests'[i].pid
                        /\ \A j \in 1 .. Len(requests') :
                             requests'[i].pid = requests'[j].pid => i = j
    BY DEF RequestsFresh
  <2>2. /\ i + 1 \in 1 .. Len(requests) /\ 1 \in 1 .. Len(requests)
        /\ requests'[i] = requests[i + 1] /\ i + 1 # 1
    BY <1>t, <1>1, <2>1
  <2>3. /\ Fresh(requests[i + 1].pid)
        /\ requests[i + 1].seqLen = seqLen[requests[i + 1].pid]
        /\ \A j \in 1 .. Len(requests) : requests[i + 1].pid = requests[j].pid => i + 1 = j
    BY <1>i, <2>2 DEF RequestsFresh
  <2>4. \A j \in 1 .. Len(requests') : requests'[i].pid = requests'[j].pid => i = j
    BY <1>t, <1>1, <2>1, <2>2, <2>3
  <2>5. QED
    BY <1>1, <2>2, <2>3, <2>4 DEF Fresh
<1>3. ReqFresh'
  BY <1>i, <1>t, <1>1 DEF RequestsFresh, ReqFresh, Fresh
<1>4. GrantsBelow' /\ GrantsApart' /\ PipeGranted' /\ PrintedGranted' /\ FifoThere'
  BY <1>i, <1>1 DEF GrantsBelow, GrantsApart, PipeGranted, PrintedGranted, FifoThere
<1>5. NoOrphan'
  <2>1. ASSUME mode = "block", NEW c \in Clients, InFlight(c) PROVE InFlight(c)'
    <3>1. CASE \E i \in DOMAIN requests : requests[i].pid = c
      <4>1. PICK i \in 1 .. Len(requests) : requests[i].pid = c
        BY <1>t, <3>1
      <4>2. CASE i = 1
        BY <1>1, <2>1, <4>1, <4>2 DEF InFlight
      <4>3. CASE i # 1
        <5>1. i - 1 \in 1 .. Len(requests) - 1 /\ requests'[i - 1] = requests[i]
          BY <1>t, <1>1, <4>1, <4>3
        <5>2. DOMAIN requests' = 1 .. Len(requests) - 1
          BY <1>1
        <5>3. QED
          BY <4>1, <5>1, <5>2 DEF InFlight
      <4>4. QED
        BY <4>2, <4>3
    <3>2. CASE \E m \in pipe : m.pid = c
      BY <1>1, <3>2 DEF InFlight
    <3>3. QED
      BY <1>1, <2>1, <3>1, <3>2 DEF InFlight
  <2>2. mode = "block" => Orphans' \subseteq Orphans
    BY <1>1, <2>1 DEF Orphans, Waits
  <2>3. DeadServers' = DeadServers /\ DeadServers \in Int
    BY <1>1, Typed DEF DeadServers
  <2>4. QED
    BY <1>i, <1>1, <2>2, <2>3, OrphanStep
<1>6. QED
  BY <1>2, <1>3, <1>4, <1>5 DEF IInv

\* Writing a response.
LEMMA WriteInductive ==
  ASSUME TypeOK, IInv, ServerWrite
  PROVE  IInv'
<1>t. /\ Len(requests) \in Nat /\ seq_n \in Nat /\ run \in Nat
      /\ seqLen \in [Clients -> Nat]
      /\ Handling => req.pid \in Clients /\ req.seqLen \in Nat
      /\ \A g \in grants : g.pid \in Clients /\ g.first \in Nat /\ g.len \in Nat /\ g.run \in Nat
      /\ \A i \in 1 .. Len(requests) : requests[i].pid \in Clients
  BY Typed
<1>i. /\ RequestsFresh /\ ReqFresh /\ GrantsBelow /\ GrantsApart /\ PipeGranted
      /\ PrintedGranted /\ FifoThere /\ NoOrphan
  BY DEF IInv
<1> DEFINE new == [pid |-> req.pid, first |-> seq_n, len |-> req.seqLen, run |-> run]
           msg == [pid |-> req.pid, seqNum |-> seq_n]
<1>1. /\ spc = "write" /\ spc' = "read" /\ grants' = grants \cup {new}
      /\ pipe' = IF HasReader(req.pid) THEN pipe \cup {msg} ELSE pipe
      /\ seq_n' = seq_n + req.seqLen
      /\ UNCHANGED <<mode, requests, req, cpc, seqLen, cfifo, got, run>>
  BY DEF ServerWrite, NextSeqN
<1>2. /\ new.pid = req.pid /\ new.first = seq_n /\ new.len = req.seqLen /\ new.run = run
      /\ msg.pid = req.pid /\ msg.seqNum = seq_n
  OBVIOUS
<1>h. Handling /\ ~Handling'
  BY <1>1 DEF Handling
<1>3. /\ Fresh(req.pid) /\ req.seqLen = seqLen[req.pid]
      /\ req.pid \in Clients /\ req.seqLen \in Nat /\ cpc[req.pid] # "open"
  BY <1>i, <1>t, <1>1, <1>h DEF ReqFresh
<1> HIDE DEF new, msg
<1>4. RequestsFresh'
  BY <1>i, <1>t, <1>1, <1>2, <1>h DEF RequestsFresh, Fresh
<1>5. ReqFresh' /\ FifoThere' /\ PrintedGranted'
  BY <1>i, <1>1, <1>h DEF ReqFresh, FifoThere, PrintedGranted
<1>6. GrantsBelow'
  BY <1>i, <1>t, <1>1, <1>2, <1>3 DEF GrantsBelow, Fresh
<1>7. GrantsApart'
  <2> SUFFICES ASSUME NEW g \in grants', NEW h \in grants'
               PROVE  /\ g.pid = h.pid => g = h
                      /\ g.run = h.run /\ g.pid # h.pid =>
                           Apart(g.first, g.len, h.first, h.len)
    BY DEF GrantsApart
  <2>1. CASE g \in grants /\ h \in grants
    BY <1>i, <2>1 DEF GrantsApart
  <2>2. CASE g = new /\ h = new
    BY <2>2
  <2>3. CASE g = new /\ h \in grants
    BY <1>i, <1>t, <1>2, <1>3, <2>3 DEF GrantsBelow, Fresh, Apart
  <2>4. CASE g \in grants /\ h = new
    BY <1>i, <1>t, <1>2, <1>3, <2>4 DEF GrantsBelow, Fresh, Apart
  <2>5. QED
    BY <1>1, <2>1, <2>2, <2>3, <2>4
<1>8. PipeGranted'
  BY <1>i, <1>1, <1>2 DEF PipeGranted
<1>9. NoOrphan'
  <2>1. ASSUME NEW c \in Clients, Waits(c), InFlight(c) PROVE InFlight(c)'
    <3>1. CASE c = req.pid
      <4>1. msg \in pipe' /\ msg.pid = c
        BY <1>1, <1>2, <1>3, <2>1, <3>1 DEF HasReader, Waits
      <4>2. QED
        BY <4>1 DEF InFlight
    <3>2. CASE c # req.pid
      BY <1>1, <2>1, <3>2 DEF InFlight
    <3>3. QED
      BY <3>1, <3>2
  <2>2. Orphans' \subseteq Orphans
    BY <1>1, <2>1 DEF Orphans, Waits
  <2>3. DeadServers' = DeadServers /\ DeadServers \in Int
    BY <1>1, Typed DEF DeadServers
  <2>4. QED
    BY <1>i, <1>1, <2>2, <2>3, OrphanStep
<1>10. QED
  BY <1>4, <1>5, <1>6, <1>7, <1>8, <1>9 DEF IInv

\* Writing a request.
LEMMA RequestInductive ==
  ASSUME TypeOK, IInv, NEW c \in Clients, ClientWrite(c)
  PROVE  IInv'
<1>t. /\ requests \in Seq(Requests) /\ Len(requests) \in Nat
      /\ cpc \in [Clients -> Early \cup {"open", "openWait", "read"} \cup Gone]
      /\ Handling => req.pid \in Clients
      /\ \A g \in grants : g.pid \in Clients
      /\ \A i \in 1 .. Len(requests) : requests[i].pid \in Clients
  BY Typed
<1>i. /\ RequestsFresh /\ ReqFresh /\ GrantsBelow /\ GrantsApart /\ PipeGranted
      /\ PrintedGranted /\ FifoThere /\ NoOrphan
  BY DEF IInv
<1> DEFINE r == [pid |-> c, seqLen |-> seqLen[c]]
<1>1. /\ cpc[c] = "write" /\ cpc' = [cpc EXCEPT ![c] = "open"]
      /\ requests' = Append(requests, r)
      /\ UNCHANGED <<mode, spc, seq_n, req, seqLen, cfifo, pipe, got, run, grants>>
  BY DEF ClientWrite, server
<1>2. /\ Len(requests') = Len(requests) + 1 /\ requests'[Len(requests) + 1] = r
      /\ DOMAIN requests' = 1 .. Len(requests) + 1
      /\ \A i \in 1 .. Len(requests) : requests'[i] = requests[i]
  BY <1>t, <1>1
<1>3. r.pid = c /\ r.seqLen = seqLen[c]
  OBVIOUS
<1>4. /\ \A g \in grants : g.pid # c
      /\ \A i \in 1 .. Len(requests) : requests[i].pid # c
      /\ Handling => req.pid # c
  BY <1>i, <1>1 DEF GrantsBelow, RequestsFresh, ReqFresh, Fresh, Early
<1>5. Handling' = Handling
  BY <1>1 DEF Handling
<1> HIDE DEF r
<1>6. RequestsFresh'
  BY <1>i, <1>t, <1>1, <1>2, <1>3, <1>4, <1>5 DEF RequestsFresh, Fresh, Early
<1>7. ReqFresh'
  BY <1>i, <1>t, <1>1, <1>4, <1>5 DEF ReqFresh, Fresh, Handling
<1>8. GrantsBelow' /\ GrantsApart' /\ PipeGranted' /\ PrintedGranted'
  BY <1>i, <1>t, <1>1 DEF GrantsBelow, GrantsApart, PipeGranted, PrintedGranted, Early
<1>9. FifoThere'
  BY <1>i, <1>t, <1>1 DEF FifoThere, Gone
<1>10. NoOrphan'
  <2>1. InFlight(c)'
    BY <1>t, <1>2, <1>3 DEF InFlight
  <2>2. ASSUME NEW d \in Clients, InFlight(d) PROVE InFlight(d)'
    BY SMTT(30), <1>t, <1>1, <1>2, <2>2 DEF InFlight
  <2>3. \A d \in Clients : d # c /\ Waits(d)' => Waits(d)
    BY <1>t, <1>1 DEF Waits
  <2>4. Orphans' \subseteq Orphans
    BY <2>1, <2>2, <2>3 DEF Orphans
  <2>5. DeadServers' = DeadServers /\ DeadServers \in Int
    BY <1>1, Typed DEF DeadServers
  <2>6. QED
    BY <1>i, <1>1, <2>4, <2>5, OrphanStep
<1>11. QED
  BY <1>6, <1>7, <1>8, <1>9, <1>10 DEF IInv

\* A client takes its response, or is killed.
LEMMA EndInductive ==
  ASSUME TypeOK, IInv, NEW c \in Clients, ClientRead(c) \/ ClientKill(c)
  PROVE  IInv'
<1>t. /\ requests \in Seq(Requests) /\ Len(requests) \in Nat
      /\ cpc \in [Clients -> Early \cup {"open", "openWait", "read"} \cup Gone]
      /\ got \in [Clients -> Nat] /\ cfifo \in [Clients -> BOOLEAN]
      /\ Handling => req.pid \in Clients
      /\ \A g \in grants : g.pid \in Clients
      /\ \A i \in 1 .. Len(requests) : requests[i].pid \in Clients
  BY Typed
<1>i. /\ RequestsFresh /\ ReqFresh /\ GrantsBelow /\ GrantsApart /\ PipeGranted
      /\ PrintedGranted /\ FifoThere /\ NoOrphan
  BY DEF IInv
<1>1. /\ cpc' = [cpc EXCEPT ![c] = "success"] \/ cpc' = [cpc EXCEPT ![c] = "killed"]
      /\ cfifo' = [cfifo EXCEPT ![c] = FALSE] \/ cfifo' = cfifo
      /\ pipe' \subseteq pipe /\ \A m \in pipe : m.pid # c => m \in pipe'
      /\ UNCHANGED <<mode, spc, seq_n, req, seqLen, run, grants>>
      /\ requests' = requests \/ (requests' = <<>> /\ \A d \in Clients : ~Waits(d)')
  BY Keeping DEF ClientRead, ClientKill, Exit, server
<1>2. Handling' = Handling
  BY <1>1 DEF Handling
<1>3. RequestsFresh' /\ ReqFresh'
  <2>1. \A d \in Clients : Fresh(d) => Fresh(d)'
    BY <1>t, <1>1 DEF Fresh, Early
  <2>2. RequestsFresh'
    <3>1. CASE requests' = requests
      BY <1>i, <1>t, <1>1, <1>2, <2>1, <3>1 DEF RequestsFresh
    <3>2. CASE requests' = <<>>
      BY <3>2 DEF RequestsFresh
    <3>3. QED
      BY <1>1, <3>1, <3>2
  <2>3. ReqFresh'
    BY <1>i, <1>t, <1>1, <1>2, <2>1 DEF ReqFresh, Handling
  <2>4. QED
    BY <2>2, <2>3
<1>4. GrantsBelow' /\ GrantsApart' /\ PipeGranted'
  BY <1>i, <1>t, <1>1 DEF GrantsBelow, GrantsApart, PipeGranted, Early
<1>5. PrintedGranted'
  <2>1. CASE ClientKill(c)
    BY <1>i, <1>t, <2>1 DEF ClientKill, PrintedGranted, server
  <2>2. CASE ClientRead(c)
    <3>1. PICK m \in pipe : m.pid = c /\ got' = [got EXCEPT ![c] = m.seqNum]
      BY <2>2 DEF ClientRead
    <3>2. cpc' = [cpc EXCEPT ![c] = "success"] /\ grants' = grants
      BY <2>2 DEF ClientRead, Exit, server
    <3>3. QED
      BY SMTT(30), <1>i, <1>t, <3>1, <3>2 DEF PipeGranted, PrintedGranted
  <2>3. QED
    BY <2>1, <2>2
<1>6. FifoThere'
  BY <1>i, <1>t, <1>1 DEF FifoThere, Gone
<1>7. NoOrphan'
  <2>1. ASSUME NEW d \in Orphans' PROVE d \in Orphans
    <3>1. d \in Clients /\ Waits(d)' /\ ~InFlight(d)'
      BY DEF Orphans
    <3>2. d # c /\ Waits(d) /\ requests' = requests
      BY <1>t, <1>1, <3>1 DEF Waits
    <3>3. ~InFlight(d)
      BY <1>1, <3>1, <3>2 DEF InFlight
    <3>4. QED
      BY <3>1, <3>2, <3>3 DEF Orphans
  <2>2. DeadServers' = DeadServers /\ DeadServers \in Int
    BY <1>1, Typed DEF DeadServers
  <2>3. QED
    BY <1>i, <1>1, <2>1, <2>2, OrphanStep
<1>8. QED
  BY <1>3, <1>4, <1>5, <1>6, <1>7 DEF IInv

\* Every reachable state satisfies the inductive invariant.
THEOREM Invariant == Spec => [](TypeOK /\ IInv)
<1>1. Init => IInv
  <2> SUFFICES ASSUME Init PROVE IInv
    OBVIOUS
  <2>1. RequestsFresh /\ ReqFresh /\ GrantsBelow /\ GrantsApart /\ PipeGranted
        /\ PrintedGranted /\ FifoThere
    BY DEF Init, RequestsFresh, ReqFresh, GrantsBelow, GrantsApart, PipeGranted,
           PrintedGranted, FifoThere, Handling
  <2>2. Orphans = {} /\ DeadServers = 0
    BY DEF Init, Orphans, Waits, DeadServers
  <2>3. NoOrphan
    BY <2>2, FS_EmptySet DEF NoOrphan
  <2>4. QED
    BY <2>1, <2>3 DEF IInv
<1>2. TypeOK /\ TypeOK' /\ IInv /\ [Next]_vars => IInv'
  <2> SUFFICES ASSUME TypeOK, TypeOK', IInv, [Next]_vars PROVE IInv'
    OBVIOUS
  <2>0. CASE ServerMkfifo \/ ServerKill
    BY <2>0, RestartInductive, KillInductive
  <2>1. CASE \/ ServerOpen \/ ServerOpenFails \/ ServerOpenClient
             \/ \E c \in Clients : ClientMkfifo(c) \/ ClientOpenServer(c) \/ ClientSigpipe(c)
                                   \/ ClientOpen(c) \/ ClientReadFails(c) \/ BadClientExit(c)
             \/ UNCHANGED vars
    <3>1. Quiet /\ FifoThere'
      BY <2>1, QuietSteps
    <3>2. cpc' \in [Clients -> Early \cup {"open", "openWait", "read"} \cup Gone]
      BY DEF TypeOK, Early
    <3>3. QED
      BY <3>1, <3>2, QuietInductive
  <2>2. CASE ServerRead("open") \/ (mode = "nowrite" /\ ServerRead("read"))
    BY <2>2, ReadInductive
  <2>3. CASE ServerWrite
    BY <2>3, WriteInductive
  <2>4. ASSUME NEW c \in Clients, ClientWrite(c) PROVE IInv'
    BY <2>4, RequestInductive
  <2>5. ASSUME NEW c \in Clients, ClientRead(c) \/ ClientKill(c) PROVE IInv'
    BY <2>5, EndInductive
  <2>6. QED
    BY <2>0, <2>1, <2>2, <2>3, <2>4, <2>5, Steps
<1>3. QED
  BY <1>1, <1>2, TypeCorrect, PTL DEF Spec

\* Clients that the same run of the server answered print disjoint blocks.
THEOREM Disjointness == Spec => []PrintedDisjoint
<1>1. TypeOK /\ IInv => PrintedDisjoint
  <2> SUFFICES ASSUME TypeOK, IInv, NEW g \in grants, NEW h \in grants,
                      g.pid # h.pid, g.run = h.run,
                      cpc[g.pid] = "success", cpc[h.pid] = "success"
               PROVE  Apart(got[g.pid], seqLen[g.pid], got[h.pid], seqLen[h.pid])
    BY DEF PrintedDisjoint
  <2>t. g.pid \in Clients /\ h.pid \in Clients
    BY Typed
  <2>1. PICK i \in grants : i.pid = g.pid /\ i.first = got[g.pid]
    BY <2>t DEF IInv, PrintedGranted
  <2>2. PICK j \in grants : j.pid = h.pid /\ j.first = got[h.pid]
    BY <2>t DEF IInv, PrintedGranted
  <2>3. i = g /\ j = h
    BY <2>1, <2>2 DEF IInv, GrantsApart
  <2>4. seqLen[g.pid] = g.len /\ seqLen[h.pid] = h.len
    BY DEF IInv, GrantsBelow
  <2>5. QED
    BY <2>1, <2>2, <2>3, <2>4 DEF IInv, GrantsApart
<1>2. QED
  BY <1>1, Invariant, PTL

\* In block mode at most one waiting client is forgotten for each server killed.
THEOREM Attended == Spec => []NoOrphan
<1>1. IInv => NoOrphan
  BY DEF IInv
<1>2. QED
  BY <1>1, Invariant, PTL

\* What the clients print, as the refinement mapping sees it.
PrintedBlocks == {[pid |-> c, first |-> got[c], len |-> seqLen[c]] :
                    c \in {d \in Clients : cpc[d] = "success"}}

\* The server, its FIFOs and its clients implement the sequence allocator.
THEOREM Refinement == Spec => AllocSpec
<1>1. Init => Alloc!Init
  BY DEF Init, Alloc!Init
<1>2. TypeOK /\ IInv /\ [Next]_vars => [Alloc!Next]_(Alloc!vars)
  <2> SUFFICES ASSUME TypeOK, IInv, [Next]_vars
               PROVE  Alloc!Next \/ UNCHANGED Alloc!vars
    OBVIOUS
  <2>t. cpc \in [Clients -> Early \cup {"open", "openWait", "read"} \cup Gone]
    BY Typed
  <2>1. CASE ServerWrite
    <3>1. req.pid \in Clients /\ req.seqLen \in SeqLens
      BY <2>1 DEF ServerWrite, TypeOK, Requests
    <3>2. \A g \in grants : g.pid # req.pid
      BY <2>1 DEF ServerWrite, IInv, ReqFresh, Fresh, Handling
    <3>3. Alloc!Grant(req.pid, req.seqLen)
      BY <2>1, <3>2 DEF ServerWrite, NextSeqN, Alloc!Grant
    <3>4. QED
      BY <3>1, <3>3 DEF Alloc!Next
  <2>2. ASSUME NEW c \in Clients, ClientRead(c) PROVE Alloc!Next
    <3>1. PICK m \in pipe : m.pid = c /\ got' = [got EXCEPT ![c] = m.seqNum]
      BY <2>2 DEF ClientRead
    <3>2. PICK g \in grants : g.pid = c /\ g.first = m.seqNum
      BY <3>1 DEF IInv, PipeGranted
    <3>3. g.len = seqLen[c]
      BY <3>2 DEF IInv, GrantsBelow
    <3>4. /\ cpc' = [cpc EXCEPT ![c] = "success"] /\ cpc[c] = "read"
          /\ UNCHANGED <<seq_n, run, seqLen, grants>>
      BY <2>2 DEF ClientRead, Exit, server
    <3>5. /\ {d \in Clients : cpc'[d] = "success"} = {d \in Clients : cpc[d] = "success"} \cup {c}
          /\ got'[c] = g.first
          /\ \A d \in Clients : d # c => got'[d] = got[d]
      BY <2>t, <3>1, <3>2, <3>4, Typed
    <3>6. PrintedBlocks' = PrintedBlocks \cup {[pid |-> g.pid, first |-> g.first, len |-> g.len]}
      BY <3>2, <3>3, <3>4, <3>5 DEF PrintedBlocks
    <3>7. Alloc!PrintBlock(g)
      BY <3>4, <3>6 DEF Alloc!PrintBlock, PrintedBlocks
    <3>8. QED
      BY <3>7 DEF Alloc!Next
  <2>0. CASE ServerMkfifo
    <3>1. UNCHANGED <<cpc, seqLen, got, grants>> /\ seq_n' = 0 /\ run' = run + 1
      BY <2>0 DEF ServerMkfifo
    <3>2. PrintedBlocks' = PrintedBlocks
      BY <3>1 DEF PrintedBlocks
    <3>3. Alloc!Restart
      BY <3>1, <3>2 DEF Alloc!Restart, PrintedBlocks
    <3>4. QED
      BY <3>3 DEF Alloc!Next
  <2>3. CASE \/ ServerKill \/ ServerOpen \/ ServerOpenFails \/ ServerOpenClient
             \/ ServerRead("open") \/ ServerRead("read") \/ UNCHANGED vars
             \/ \E c \in Clients :
                  \/ ClientMkfifo(c) \/ ClientOpenServer(c) \/ ClientWrite(c) \/ ClientSigpipe(c)
                  \/ ClientOpen(c) \/ ClientReadFails(c) \/ BadClientExit(c) \/ ClientKill(c)
    <3>1. UNCHANGED <<seq_n, run, grants, seqLen, got>>
      BY <2>3 DEF ServerKill, ServerOpen, ServerOpenFails, ServerOpenClient, ServerRead, vars,
         ClientMkfifo, ClientOpenServer, ClientWrite, ClientSigpipe, ClientOpen, ClientReadFails,
         BadClientExit, ClientKill, Exit, server
    <3>2. \A d \in Clients : cpc'[d] = "success" <=> cpc[d] = "success"
      BY <2>3, <2>t DEF ServerKill, ServerOpen, ServerOpenFails, ServerOpenClient, ServerRead,
         vars, ClientMkfifo, ClientOpenServer, ClientWrite, ClientSigpipe, ClientOpen, ClientReadFails,
         BadClientExit, ClientKill, Exit, Gone, HasReader
    <3>3. {d \in Clients : cpc'[d] = "success"} = {d \in Clients : cpc[d] = "success"}
      BY <3>2
    <3>4. PrintedBlocks' = PrintedBlocks
      BY <3>1, <3>3 DEF PrintedBlocks
    <3>5. QED
      BY <3>1, <3>4 DEF PrintedBlocks, Alloc!vars
  <2>4. QED
    BY <2>0, <2>1, <2>2, <2>3, Steps
<1>3. QED
  BY <1>1, <1>2, Invariant, PTL DEF Spec, AllocSpec, Alloc!Spec
=============================================================================
