---------------------------- MODULE MsgSeqProofs ----------------------------
(***************************************************************************)
(* Proofs about MsgSeq for any number of clients, any queue capacity and   *)
(* any number of server runs: type correctness, disjointness of the blocks *)
(* that are printed, refinement of SeqAlloc, room for every response, and  *)
(* the clients that dead servers leave without one.                        *)
(***************************************************************************)
EXTENDS MsgSeq, FunctionTheorems, FiniteSetTheorems, TLAPS

\* What msgrcv takes from the front of the requests is a request, and requests
\* are left.
LEMMA HeadTail ==
  ASSUME NEW S, NEW s \in Seq(S), s # <<>>
  PROVE  /\ Head(s) \in S /\ Tail(s) \in Seq(S) /\ Len(s) \in Nat /\ Len(s) > 0
         /\ Head(s) = s[1] /\ Len(Tail(s)) = Len(s) - 1
         /\ \A i \in 1 .. Len(s) - 1 : Tail(s)[i] = s[i + 1]
  OBVIOUS

\* Type correctness of server, queue and clients.
THEOREM TypeCorrect == Spec => []TypeOK
<1>1. Init => TypeOK
  BY DEF Init, TypeOK, Requests
<1>2. TypeOK /\ [Next]_vars => TypeOK'
  <2> SUFFICES ASSUME TypeOK, [Next]_vars PROVE TypeOK'
    OBVIOUS
  <2> USE SeqLensAssumption DEF TypeOK
  <2>1. CASE ServerStart
    BY <2>1 DEF ServerStart, clients
  <2>2. CASE ServerRcv
    <3>1. Head(requests) \in Requests /\ Tail(requests) \in Seq(Requests)
      BY <2>2, HeadTail DEF ServerRcv
    <3>2. QED
      BY <2>2, <3>1 DEF ServerRcv, clients
  <2>3. CASE ServerSnd
    <3>1. req.pid \in Clients /\ req.seqLen \in SeqLens /\ req \in Requests
      BY <2>3 DEF ServerSnd, Requests
    <3>2. seq_num' \in Nat
      <4>1. req.seqLen \in Nat /\ seq_num \in Nat
        BY <3>1
      <4>2. seq_num' = seq_num + req.seqLen
        BY <2>3 DEF ServerSnd, NextSeqNum
      <4>3. QED
        BY <4>1, <4>2
    <3>3. responses' \subseteq [mtype : Clients, seqNum : Nat]
      BY <2>3, <3>1 DEF ServerSnd
    <3>4. grants' \subseteq [pid : Clients, first : Nat, len : SeqLens, run : Nat]
      BY <2>3, <3>1 DEF ServerSnd
    <3>5. QED
      BY <2>3, <3>1, <3>2, <3>3, <3>4 DEF ServerSnd, clients
  <2>4. CASE ServerFail
    BY <2>4 DEF ServerFail, clients
  <2>5. CASE ServerKill
    BY <2>5 DEF ServerKill, clients
  <2>6. ASSUME NEW c \in Clients, ClientStart(c) PROVE TypeOK'
    BY <2>6 DEF ClientStart, server
  <2>7. ASSUME NEW c \in Clients, ClientSnd(c) PROVE TypeOK'
    BY <2>7 DEF ClientSnd, server, Requests
  <2>8. ASSUME NEW c \in Clients, ClientRcv(c) PROVE TypeOK'
    BY <2>8 DEF ClientRcv, server
  <2>9. ASSUME NEW c \in Clients, ClientFail(c) PROVE TypeOK'
    BY <2>9 DEF ClientFail, server
  <2>10. ASSUME NEW c \in Clients, ClientKill(c) PROVE TypeOK'
    BY <2>10 DEF ClientKill, server
  <2>11. CASE Ipcrm
    BY <2>11 DEF Ipcrm, server, clients
  <2>12. CASE UNCHANGED vars
    BY <2>12 DEF vars
  <2>13. QED
    BY <2>1, <2>2, <2>3, <2>4, <2>5, <2>6, <2>7, <2>8, <2>9, <2>10, <2>11, <2>12
    DEF Next, ServerStep, ClientStep
<1>3. QED
  BY <1>1, <1>2, PTL DEF Spec
-----------------------------------------------------------------------------
(* The inductive invariant behind PrintedDisjoint and AllocSpec. *)

\* Client c has sent its request and has not been given a block.
Fresh(c) ==
  cpc[c] \notin {"start", "snd"} /\ \A g \in grants : g.pid # c

\* A request in the queue is its client's only one, and nobody granted it yet.
RequestsFresh ==
  \A i \in 1 .. Len(requests) :
    /\ Fresh(requests[i].pid)
    /\ requests[i].seqLen = seqLen[requests[i].pid]
    /\ spc = "snd" => req.pid # requests[i].pid
    /\ \A j \in 1 .. Len(requests) : requests[i].pid = requests[j].pid => i = j

\* So is the request that the server is about to answer.
ReqFresh == spc = "snd" => Fresh(req.pid) /\ req.seqLen = seqLen[req.pid]

\* The blocks of this run lie below seq_num.
GrantsBelow ==
  \A g \in grants :
    /\ cpc[g.pid] \notin {"start", "snd"}
    /\ g.len = seqLen[g.pid]
    /\ g.run <= run
    /\ g.run = run => g.first + g.len <= seq_num

\* A client has one block, and blocks of the same run do not overlap.
GrantsApart ==
  \A g, h \in grants :
    /\ g.pid = h.pid => g = h
    /\ g.run = h.run /\ g.pid # h.pid => Apart(g.first, g.len, h.first, h.len)

\* Responses announce blocks, and clients print what was announced to them.
ResponsesGranted ==
  \A m \in responses : \E g \in grants : g.pid = m.mtype /\ g.first = m.seqNum
PrintedGranted ==
  \A c \in Clients :
    cpc[c] = "success" => \E g \in grants : g.pid = c /\ g.first = got[c]

IInv == RequestsFresh /\ ReqFresh /\ GrantsBelow /\ GrantsApart
          /\ ResponsesGranted /\ PrintedGranted

\* What the proofs use of the type invariant.
LEMMA Typed ==
  ASSUME TypeOK
  PROVE  /\ requests \in Seq(Requests) /\ Len(requests) \in Nat
         /\ seq_num \in Nat /\ run \in Nat
         /\ spc = "snd" => req.pid \in Clients /\ req.seqLen \in Nat
         /\ cpc \in [Clients -> {"start", "snd", "rcv", "success", "failure", "killed"}]
         /\ seqLen \in [Clients -> Nat] /\ got \in [Clients -> Nat]
         /\ \A g \in grants : g.pid \in Clients /\ g.first \in Nat /\ g.len \in Nat /\ g.run \in Nat
         /\ \A m \in responses : m.mtype \in Clients /\ m.seqNum \in Nat
         /\ \A i \in 1 .. Len(requests) : requests[i].pid \in Clients
<1>1. /\ requests \in Seq(Requests) /\ Len(requests) \in Nat
      /\ seq_num \in Nat /\ run \in Nat /\ got \in [Clients -> Nat]
      /\ cpc \in [Clients -> {"start", "snd", "rcv", "success", "failure", "killed"}]
  BY DEF TypeOK
<1>2. spc = "snd" => req.pid \in Clients /\ req.seqLen \in Nat
  BY SeqLensAssumption DEF TypeOK, Requests
<1>3. seqLen \in [Clients -> Nat]
  BY SeqLensAssumption DEF TypeOK
<1>4. ASSUME NEW g \in grants
      PROVE  g.pid \in Clients /\ g.first \in Nat /\ g.len \in Nat /\ g.run \in Nat
  <2>1. g \in [pid : Clients, first : Nat, len : SeqLens, run : Nat]
    BY DEF TypeOK
  <2>2. g.len \in SeqLens
    BY <2>1
  <2>3. QED
    BY <2>1, <2>2, SeqLensAssumption
<1>5. \A m \in responses : m.mtype \in Clients /\ m.seqNum \in Nat
  BY DEF TypeOK
<1>6. ASSUME NEW i \in 1 .. Len(requests) PROVE requests[i].pid \in Clients
  <2>1. requests[i] \in Requests
    BY <1>1
  <2>2. QED
    BY <2>1 DEF Requests
<1>7. QED
  BY <1>1, <1>2, <1>3, <1>4, <1>5, <1>6

\* Every step of server, clients and queue preserves the invariant.
LEMMA Inductive == TypeOK /\ IInv /\ [Next]_vars => IInv'
<1> SUFFICES ASSUME TypeOK, IInv, [Next]_vars PROVE IInv'
  OBVIOUS
<1>t. /\ requests \in Seq(Requests) /\ Len(requests) \in Nat
      /\ seq_num \in Nat /\ run \in Nat
      /\ spc = "snd" => req.pid \in Clients /\ req.seqLen \in Nat
      /\ cpc \in [Clients -> {"start", "snd", "rcv", "success", "failure", "killed"}]
      /\ seqLen \in [Clients -> Nat] /\ got \in [Clients -> Nat]
      /\ \A g \in grants : g.pid \in Clients /\ g.first \in Nat /\ g.len \in Nat /\ g.run \in Nat
      /\ \A m \in responses : m.mtype \in Clients /\ m.seqNum \in Nat
      /\ \A i \in 1 .. Len(requests) : requests[i].pid \in Clients
  BY Typed
<1>i. RequestsFresh /\ ReqFresh /\ GrantsBelow /\ GrantsApart /\ ResponsesGranted /\ PrintedGranted
  BY DEF IInv
<1> HIDE DEF IInv, TypeOK
<1>s. CASE ServerStep \/ ServerStart \/ ServerKill \/ Ipcrm \/ UNCHANGED vars
  <2>1. CASE ServerStart
    <3> USE <2>1 DEF ServerStart, clients
    <3>1. RequestsFresh'
      BY <1>i, <1>t DEF RequestsFresh, Fresh
    <3>2. ReqFresh'
      BY DEF ReqFresh
    <3>3. GrantsBelow'
      BY <1>i, <1>t DEF GrantsBelow
    <3>4. GrantsApart' /\ ResponsesGranted' /\ PrintedGranted'
      BY <1>i DEF GrantsApart, ResponsesGranted, PrintedGranted
    <3>5. QED
      BY <3>1, <3>2, <3>3, <3>4 DEF IInv
  <2>2. CASE ServerRcv
    <3> USE <2>2 DEF ServerRcv, clients
    <3>1. /\ Len(requests) > 0 /\ req' = requests[1]
          /\ Len(requests') = Len(requests) - 1
          /\ \A i \in 1 .. Len(requests) - 1 : requests'[i] = requests[i + 1]
      BY <1>t, HeadTail
    <3>2. RequestsFresh'
      BY <1>i, <1>t, <3>1 DEF RequestsFresh, Fresh
    <3>3. ReqFresh'
      BY <1>i, <1>t, <3>1 DEF RequestsFresh, ReqFresh, Fresh
    <3>4. GrantsBelow' /\ GrantsApart' /\ ResponsesGranted' /\ PrintedGranted'
      BY <1>i DEF GrantsBelow, GrantsApart, ResponsesGranted, PrintedGranted
    <3>5. QED
      BY <3>2, <3>3, <3>4 DEF IInv
  <2>3. CASE ServerSnd
    <3> DEFINE new == [pid |-> req.pid, first |-> seq_num, len |-> req.seqLen, run |-> run]
    <3>1. /\ spc = "snd" /\ spc' = "rcv" /\ grants' = grants \cup {new}
          /\ responses' = responses \cup {[mtype |-> req.pid, seqNum |-> seq_num]}
          /\ seq_num' = seq_num + req.seqLen
          /\ UNCHANGED <<requests, req, run, cpc, seqLen, got>>
      BY <2>3 DEF ServerSnd, NextSeqNum, clients
    <3>2. new.pid = req.pid /\ new.first = seq_num /\ new.len = req.seqLen /\ new.run = run
      OBVIOUS
    <3>3. /\ Fresh(req.pid) /\ req.seqLen = seqLen[req.pid]
          /\ req.pid \in Clients /\ req.seqLen \in Nat
      BY <1>i, <1>t, <3>1 DEF ReqFresh
    <3> HIDE DEF new
    <3>4. RequestsFresh'
      BY <1>i, <1>t, <3>1, <3>2 DEF RequestsFresh, Fresh
    <3>5. ReqFresh'
      BY <3>1 DEF ReqFresh
    <3>6. GrantsBelow'
      BY <1>i, <1>t, <3>1, <3>2, <3>3 DEF GrantsBelow, Fresh
    <3>7. GrantsApart'
      <4> SUFFICES ASSUME NEW g \in grants', NEW h \in grants'
                   PROVE  /\ g.pid = h.pid => g = h
                          /\ g.run = h.run /\ g.pid # h.pid
                               => Apart(g.first, g.len, h.first, h.len)
        BY DEF GrantsApart
      <4>1. CASE g \in grants /\ h \in grants
        BY <1>i, <4>1 DEF GrantsApart
      <4>2. CASE g = new /\ h = new
        BY <4>2
      <4>3. CASE g = new /\ h \in grants
        BY <1>i, <1>t, <3>2, <3>3, <4>3 DEF GrantsBelow, Fresh, Apart
      <4>4. CASE g \in grants /\ h = new
        BY <1>i, <1>t, <3>2, <3>3, <4>4 DEF GrantsBelow, Fresh, Apart
      <4>5. QED
        BY <3>1, <4>1, <4>2, <4>3, <4>4
    <3>8. ResponsesGranted'
      BY <1>i, <3>1, <3>2 DEF ResponsesGranted
    <3>9. PrintedGranted'
      BY <1>i, <3>1 DEF PrintedGranted
    <3>10. QED
      BY <3>4, <3>5, <3>6, <3>7, <3>8, <3>9 DEF IInv
  <2>4. CASE ServerFail \/ ServerKill
    <3>1. /\ spc' # "snd"
          /\ UNCHANGED <<requests, responses, seq_num, req, run, cpc, seqLen, got, grants>>
      BY <2>4 DEF ServerFail, ServerKill, clients
    <3>2. RequestsFresh' /\ ReqFresh' /\ GrantsBelow'
      BY <1>i, <3>1 DEF RequestsFresh, ReqFresh, GrantsBelow, Fresh
    <3>3. GrantsApart' /\ ResponsesGranted' /\ PrintedGranted'
      BY <1>i, <3>1 DEF GrantsApart, ResponsesGranted, PrintedGranted
    <3>4. QED
      BY <3>2, <3>3 DEF IInv
  <2>5. CASE Ipcrm
    <3> USE <2>5 DEF Ipcrm, server, clients
    <3>1. RequestsFresh' /\ ResponsesGranted'
      BY DEF RequestsFresh, ResponsesGranted
    <3>2. ReqFresh' /\ GrantsBelow' /\ GrantsApart' /\ PrintedGranted'
      BY <1>i DEF ReqFresh, Fresh, GrantsBelow, GrantsApart, PrintedGranted
    <3>3. QED
      BY <3>1, <3>2 DEF IInv
  <2>6. CASE UNCHANGED vars
    BY <1>i, <2>6 DEF vars, IInv, RequestsFresh, ReqFresh, Fresh, GrantsBelow, GrantsApart,
                ResponsesGranted, PrintedGranted
  <2>7. QED
    BY <1>s, <2>1, <2>2, <2>3, <2>4, <2>5, <2>6 DEF ServerStep
<1>c. ASSUME NEW c \in Clients, ClientStep(c) \/ ClientKill(c) PROVE IInv'
  <2>1. CASE ClientStart(c) \/ ClientFail(c) \/ ClientKill(c)
    <3>1. /\ cpc[c] \in {"start", "snd", "rcv"}
          /\ \E v \in {"snd", "failure", "killed"} :
               cpc' = [cpc EXCEPT ![c] = v] /\ (v = "snd" => cpc[c] = "start")
          /\ UNCHANGED <<requests, responses, spc, seq_num, req, run, seqLen, got, grants>>
      BY <2>1 DEF ClientStart, ClientFail, ClientKill, server
    <3>2. RequestsFresh' /\ ReqFresh'
      BY <1>i, <1>t, <3>1 DEF RequestsFresh, ReqFresh, Fresh
    <3>3. GrantsBelow' /\ GrantsApart'
      BY <1>i, <1>t, <3>1 DEF GrantsBelow, GrantsApart
    <3>4. ResponsesGranted' /\ PrintedGranted'
      BY <1>i, <1>t, <3>1 DEF ResponsesGranted, PrintedGranted
    <3>5. QED
      BY <3>2, <3>3, <3>4 DEF IInv
  <2>2. CASE ClientSnd(c)
    <3> DEFINE r == [pid |-> c, seqLen |-> seqLen[c]]
    <3>1. /\ cpc[c] = "snd" /\ cpc' = [cpc EXCEPT ![c] = "rcv"]
          /\ requests' = Append(requests, r)
          /\ UNCHANGED <<responses, spc, seq_num, req, run, seqLen, got, grants>>
      BY <2>2 DEF ClientSnd, server
    <3>2. /\ Len(requests') = Len(requests) + 1 /\ requests'[Len(requests) + 1] = r
          /\ \A i \in 1 .. Len(requests) : requests'[i] = requests[i]
      BY <1>t, <3>1
    <3>3. r.pid = c /\ r.seqLen = seqLen[c]
      OBVIOUS
    <3>4. /\ \A g \in grants : g.pid # c
          /\ \A i \in 1 .. Len(requests) : requests[i].pid # c
          /\ spc = "snd" => req.pid # c
      BY <1>i, <3>1 DEF GrantsBelow, RequestsFresh, ReqFresh, Fresh
    <3> HIDE DEF r
    <3>5. RequestsFresh'
      BY <1>i, <1>t, <3>1, <3>2, <3>3, <3>4 DEF RequestsFresh, Fresh
    <3>6. ReqFresh' /\ GrantsBelow'
      BY <1>i, <1>t, <3>1 DEF ReqFresh, Fresh, GrantsBelow
    <3>7. GrantsApart' /\ ResponsesGranted' /\ PrintedGranted'
      BY <1>i, <1>t, <3>1 DEF GrantsApart, ResponsesGranted, PrintedGranted
    <3>8. QED
      BY <3>5, <3>6, <3>7 DEF IInv
  <2>3. CASE ClientRcv(c)
    <3>1. PICK m \in responses :
            /\ m.mtype = c
            /\ got' = [got EXCEPT ![c] = m.seqNum]
            /\ responses' = responses \ {m}
      BY <2>3 DEF ClientRcv, Selects
    <3>2. /\ cpc[c] = "rcv" /\ cpc' = [cpc EXCEPT ![c] = "success"]
          /\ UNCHANGED <<requests, spc, seq_num, req, run, seqLen, grants>>
      BY <2>3 DEF ClientRcv, server
    <3>3. RequestsFresh' /\ ReqFresh'
      BY <1>i, <1>t, <3>2 DEF RequestsFresh, ReqFresh, Fresh
    <3>4. GrantsBelow' /\ GrantsApart'
      BY <1>i, <1>t, <3>2 DEF GrantsBelow, GrantsApart
    <3>5. ResponsesGranted'
      BY <1>i, <3>1, <3>2 DEF ResponsesGranted
    <3>6. PICK g \in grants : g.pid = c /\ g.first = m.seqNum
      BY <1>i, <3>1 DEF ResponsesGranted
    <3>7. got'[c] = g.first
      BY <1>t, <3>1, <3>6
    <3>8. \A d \in Clients : d # c => cpc'[d] = cpc[d] /\ got'[d] = got[d]
      BY <1>t, <3>1, <3>2
    <3>9. PrintedGranted'
      BY <1>i, <3>2, <3>6, <3>7, <3>8 DEF PrintedGranted
    <3>10. QED
      BY <3>3, <3>4, <3>5, <3>9 DEF IInv
  <2>4. QED
    BY <1>c, <2>1, <2>2, <2>3 DEF ClientStep
<1>q. QED
  BY <1>s, <1>c DEF Next

\* The invariant holds in every reachable state.
THEOREM Invariant == Spec => [](TypeOK /\ IInv)
<1>1. Init => IInv
  BY DEF Init, IInv, RequestsFresh, ReqFresh, GrantsBelow, GrantsApart, ResponsesGranted,
         PrintedGranted
<1>2. QED
  BY <1>1, TypeCorrect, Inductive, PTL DEF Spec

\* Clients that the same run of the server answered print disjoint blocks.
THEOREM Disjointness == Spec => []PrintedDisjoint
<1>1. TypeOK /\ IInv => PrintedDisjoint
  <2> SUFFICES ASSUME TypeOK, IInv, NEW g \in grants, NEW h \in grants,
                      g.pid # h.pid, g.run = h.run,
                      cpc[g.pid] = "success", cpc[h.pid] = "success"
               PROVE  Apart(got[g.pid], seqLen[g.pid], got[h.pid], seqLen[h.pid])
    BY DEF PrintedDisjoint
  <2>1. g.pid \in Clients /\ h.pid \in Clients
    BY Typed
  <2>2. got[g.pid] = g.first /\ got[h.pid] = h.first
    BY <2>1 DEF IInv, PrintedGranted, GrantsApart
  <2>3. seqLen[g.pid] = g.len /\ seqLen[h.pid] = h.len
    BY DEF IInv, GrantsBelow
  <2>4. QED
    BY <2>2, <2>3 DEF IInv, GrantsApart
<1>2. QED
  BY <1>1, Invariant, PTL

\* What the clients print, as the refinement mapping sees it.
PrintedBlocks == {[pid |-> c, first |-> got[c], len |-> seqLen[c]] :
                    c \in {d \in Clients : cpc[d] = "success"}}

\* The server, its queue and its clients implement the sequence allocator.
THEOREM Refinement == Spec => AllocSpec
<1>1. Init => Alloc!Init
  BY DEF Init, Alloc!Init
<1>2. TypeOK /\ IInv /\ [Next]_vars => [Alloc!Next]_(Alloc!vars)
  <2> SUFFICES ASSUME TypeOK, IInv, [Next]_vars
               PROVE  Alloc!Next \/ UNCHANGED Alloc!vars
    OBVIOUS
  <2> USE DEF Alloc!vars
  <2>1. CASE ServerStart
    <3>1. Alloc!Restart
      BY <2>1 DEF ServerStart, clients, Alloc!Restart
    <3>2. QED
      BY <3>1 DEF Alloc!Next
  <2>2. CASE ServerSnd
    <3>1. req.pid \in Clients /\ req.seqLen \in SeqLens
      BY <2>2 DEF ServerSnd, TypeOK, Requests
    <3>2. \A g \in grants : g.pid # req.pid
      BY <2>2 DEF ServerSnd, IInv, ReqFresh, Fresh
    <3>3. Alloc!Grant(req.pid, req.seqLen)
      BY <2>2, <3>2 DEF ServerSnd, NextSeqNum, clients, Alloc!Grant
    <3>4. QED
      BY <3>1, <3>3 DEF Alloc!Next
  <2>3. CASE ServerRcv \/ ServerFail \/ ServerKill \/ Ipcrm \/ UNCHANGED vars
    BY <2>3 DEF ServerRcv, ServerFail, ServerKill, Ipcrm, server, clients, vars
  <2>4. ASSUME NEW c \in Clients, ClientRcv(c) PROVE Alloc!Next
    <3>1. PICK m \in responses : m.mtype = c /\ got' = [got EXCEPT ![c] = m.seqNum]
      BY <2>4 DEF ClientRcv, Selects
    <3>2. PICK g \in grants : g.pid = c /\ g.first = m.seqNum
      BY <3>1 DEF IInv, ResponsesGranted
    <3>3. g.len = seqLen[c]
      BY <3>2 DEF IInv, GrantsBelow
    <3>4. /\ cpc' = [cpc EXCEPT ![c] = "success"] /\ cpc[c] = "rcv"
          /\ UNCHANGED <<seq_num, run, seqLen, grants>>
      BY <2>4 DEF ClientRcv, server
    <3>5. /\ {d \in Clients : cpc'[d] = "success"} = {d \in Clients : cpc[d] = "success"} \cup {c}
          /\ got'[c] = g.first
          /\ \A d \in Clients : d # c => got'[d] = got[d]
      BY <3>1, <3>2, <3>4, Typed
    <3>6. PrintedBlocks' = PrintedBlocks \cup {[pid |-> g.pid, first |-> g.first, len |-> g.len]}
      BY <3>2, <3>3, <3>4, <3>5 DEF PrintedBlocks
    <3>7. Alloc!PrintBlock(g)
      BY <3>4, <3>6 DEF Alloc!PrintBlock, PrintedBlocks
    <3>8. QED
      BY <3>7 DEF Alloc!Next
  <2>5. ASSUME NEW c \in Clients, ClientStart(c) \/ ClientSnd(c) \/ ClientFail(c) \/ ClientKill(c)
        PROVE  UNCHANGED Alloc!vars
    <3>1. /\ UNCHANGED <<seq_num, run, grants, seqLen, got>>
          /\ cpc[c] # "success"
          /\ \E v \in {"snd", "rcv", "failure", "killed"} : cpc' = [cpc EXCEPT ![c] = v]
      BY <2>5 DEF ClientStart, ClientSnd, ClientFail, ClientKill, server
    <3>2. {d \in Clients : cpc'[d] = "success"} = {d \in Clients : cpc[d] = "success"}
      BY <3>1, Typed
    <3>3. PrintedBlocks' = PrintedBlocks
      BY <3>1, <3>2 DEF PrintedBlocks
    <3>4. QED
      BY <3>1, <3>3 DEF PrintedBlocks
  <2>6. QED
    BY <2>1, <2>2, <2>3, <2>4, <2>5 DEF Next, ServerStep, ClientStep
<1>3. QED
  BY <1>1, <1>2, Invariant, PTL DEF Spec, AllocSpec, Alloc!Spec
-----------------------------------------------------------------------------
(* Room for the response: a count of the messages. *)

\* A function that maps different elements to different values has as many values
\* as elements, and not more than there is room for.
LEMMA Counting ==
  ASSUME NEW S, NEW T, IsFiniteSet(T), NEW f \in [S -> T],
         \A x, y \in S : f[x] = f[y] => x = y
  PROVE  /\ IsFiniteSet(S) /\ IsFiniteSet(Range(f))
         /\ Cardinality(S) \in Nat /\ Cardinality(Range(f)) = Cardinality(S)
<1>1. f \in Injection(S, T)
  BY Fun_IsInj
<1>2. IsFiniteSet(S)
  BY <1>1, FS_Injection
<1>3. f \in Bijection(S, Range(f))
  BY <1>1, Fun_InjMeansBijImage
<1>4. ExistsBijection(S, Range(f))
  BY <1>3 DEF ExistsBijection
<1>5. QED
  BY <1>2, <1>4, FS_Bijection, FS_CardinalityType

\* Every message in the queue is of another client, and none is of the one that
\* the server is about to answer.
LEMMA OneMessageEach ==
  ASSUME TypeOK, IInv, spc = "snd"
  PROVE  /\ qnum \in Nat /\ Cardinality(Clients) \in Nat
         /\ qnum < Cardinality(Clients)
<1> DEFINE I == 1 .. Len(requests)
           p == [i \in I |-> requests[i].pid]
           r == [m \in responses |-> m.mtype]
<1>t. /\ Len(requests) \in Nat /\ req.pid \in Clients
      /\ \A m \in responses : m.mtype \in Clients /\ m.seqNum \in Nat
      /\ \A i \in I : requests[i].pid \in Clients
  BY Typed
<1>1. IsFiniteSet(Clients) /\ IsFiniteSet(Range(p)) /\ Cardinality(Range(p)) = Len(requests)
  <2>1. p \in [I -> Clients]
    BY <1>t
  <2>2. \A i, j \in I : p[i] = p[j] => i = j
    BY DEF IInv, RequestsFresh
  <2>3. Cardinality(I) = Len(requests)
    <3>1. Len(requests) \in Int /\ 1 \in Int /\ Len(requests) >= 0
      BY <1>t
    <3>2. Cardinality(I) = IF 1 > Len(requests) THEN 0 ELSE Len(requests) - 1 + 1
      BY <3>1, FS_Interval
    <3>3. QED
      BY <3>1, <3>2
  <2> HIDE DEF p, I
  <2>4. QED
    BY <2>1, <2>2, <2>3, Counting, ClientsAssumption
<1>2. IsFiniteSet(Range(r)) /\ Cardinality(Range(r)) = Cardinality(responses)
  <2>1. r \in [responses -> Clients]
    BY <1>t
  <2>2. ASSUME NEW m \in responses, NEW n \in responses, r[m] = r[n] PROVE m = n
    <3>1. m.mtype = n.mtype
      BY <2>2
    <3>2. m.seqNum = n.seqNum
      BY <3>1 DEF IInv, ResponsesGranted, GrantsApart
    <3>3. m \in [mtype : Clients, seqNum : Nat] /\ n \in [mtype : Clients, seqNum : Nat]
      BY DEF TypeOK
    <3>4. QED
      BY <3>1, <3>2, <3>3
  <2> HIDE DEF r
  <2>3. QED
    BY <2>1, <2>2, Counting, ClientsAssumption
<1>3. /\ Range(p) = {requests[i].pid : i \in I}
      /\ Range(r) = {m.mtype : m \in responses}
  BY DEF Range
<1> HIDE DEF p, r, I
<1>4. Range(p) \cap Range(r) = {}
  BY <1>3 DEF IInv, RequestsFresh, Fresh, ResponsesGranted, I
<1>5. req.pid \notin Range(p) \cup Range(r)
  BY <1>3 DEF IInv, RequestsFresh, ReqFresh, Fresh, ResponsesGranted, I
<1>6. /\ IsFiniteSet(Range(p) \cup Range(r))
      /\ Cardinality(Range(p) \cup Range(r)) = qnum
  <2>1. Cardinality(Range(p) \cap Range(r)) = 0
    BY <1>4, FS_EmptySet
  <2>2. Cardinality(Range(p)) \in Nat /\ Cardinality(Range(r)) \in Nat
    BY <1>1, <1>2, FS_CardinalityType
  <2>3. /\ IsFiniteSet(Range(p) \cup Range(r))
        /\ Cardinality(Range(p) \cup Range(r))
             = Cardinality(Range(p)) + Cardinality(Range(r)) - Cardinality(Range(p) \cap Range(r))
    BY <1>1, <1>2, FS_Union
  <2>4. QED
    BY <1>1, <1>2, <2>1, <2>2, <2>3 DEF qnum
<1>7. Range(p) \cup Range(r) \cup {req.pid} \subseteq Clients
  BY <1>t, <1>3
<1>8. Cardinality(Range(p) \cup Range(r) \cup {req.pid}) = qnum + 1
  BY <1>5, <1>6, FS_AddElement
<1>9. qnum + 1 <= Cardinality(Clients)
  BY <1>1, <1>7, <1>8, FS_Subset
<1>10. qnum \in Nat /\ Cardinality(Clients) \in Nat
  BY <1>1, <1>6, FS_CardinalityType
<1>11. QED
  BY <1>9, <1>10

\* In a queue with room for a message of every client the server always finds room
\* for its response.
THEOREM Room == Spec => []ResponseFits
<1>1. TypeOK /\ IInv => ResponseFits
  <2> SUFFICES ASSUME TypeOK, IInv, QCap >= Cardinality(Clients), spc = "snd"
               PROVE  qnum < QCap
    BY DEF ResponseFits
  <2>1. QED
    BY OneMessageEach, QCapAssumption
<1>2. QED
  BY <1>1, Invariant, PTL
-----------------------------------------------------------------------------
(* Clients that a dead server left waiting. *)

\* Nobody waits before there is a queue, and a server that runs has been started.
Begun ==
  /\ queue = "none" => \A c \in Clients : cpc[c] \notin {"snd", "rcv"}
  /\ spc # "down" => run > 0

\* Stranded clients are counted by a natural number, which does not grow when they
\* become fewer, and grows by at most one when there is at most one more.
LEMMA StrandedCount ==
  ASSUME NEW S, NEW T, S \subseteq Clients
  PROVE  /\ Cardinality(S) \in Nat
         /\ T = {} => Cardinality(T) = 0
         /\ T \subseteq S => Cardinality(T) <= Cardinality(S)
         /\ \A c : T \subseteq S \cup {c} => Cardinality(T) <= Cardinality(S) + 1
<1>1. IsFiniteSet(S) /\ Cardinality(S) \in Nat
  BY ClientsAssumption, FS_Subset, FS_CardinalityType
<1>2. T = {} => Cardinality(T) = 0
  BY FS_EmptySet
<1>3. T \subseteq S => Cardinality(T) <= Cardinality(S)
  BY <1>1, FS_Subset
<1>4. ASSUME NEW c, T \subseteq S \cup {c} PROVE Cardinality(T) <= Cardinality(S) + 1
  <2>1. /\ IsFiniteSet(S \cup {c}) /\ Cardinality(S \cup {c}) \in Nat
        /\ Cardinality(S \cup {c}) <= Cardinality(S) + 1
    BY <1>1, FS_AddElement, FS_CardinalityType
  <2>2. IsFiniteSet(T) /\ Cardinality(T) <= Cardinality(S \cup {c})
    BY <1>4, <2>1, FS_Subset
  <2>3. Cardinality(T) \in Nat
    BY <2>2, FS_CardinalityType
  <2>4. QED
    BY <1>1, <2>1, <2>2, <2>3
<1>5. QED
  BY <1>1, <1>2, <1>3, <1>4

\* Only the kill of a server strands a client, at most the one whose request the
\* server had taken.
LEMMA StrandedStep ==
  ASSUME TypeOK, Begun, [Next]_vars
  PROVE  \/ Stranded' \subseteq Stranded /\ run' >= run /\ (spc = "down" <=> spc' = "down")
         \/ Stranded' = {}
         \/ Stranded' \subseteq Stranded /\ run' = run + 1 /\ spc = "down" /\ spc' # "down"
         \/ ServerKill /\ Stranded' \subseteq Stranded \cup {req.pid}
<1>t. /\ requests \in Seq(Requests) /\ Len(requests) \in Nat /\ run \in Nat
      /\ DOMAIN requests = 1 .. Len(requests)
      /\ cpc \in [Clients -> {"start", "snd", "rcv", "success", "failure", "killed"}]
  BY Typed
<1>1. CASE ServerStart
  <2>1. CASE queue = "none"
    BY <1>1, <2>1 DEF ServerStart, clients, Begun, Stranded
  <2>2. CASE queue # "none"
    BY <1>1, <2>2 DEF ServerStart, clients, Stranded, InFlight, TypeOK
  <2>3. QED
    BY <2>1, <2>2
<1>2. CASE ServerRcv
  <2>1. /\ Len(requests) > 0 /\ req' = requests[1] /\ spc' = "snd" /\ spc = "rcv"
        /\ DOMAIN requests' = 1 .. Len(requests) - 1
        /\ \A i \in 1 .. Len(requests) - 1 : requests'[i] = requests[i + 1]
        /\ UNCHANGED <<queue, responses, run, cpc>>
    BY <1>t, <1>2, HeadTail DEF ServerRcv, clients
  <2>2. ASSUME NEW c \in Clients, InFlight(c) PROVE InFlight(c)'
    <3>1. CASE \E m \in responses : m.mtype = c
      BY <2>1, <3>1 DEF InFlight
    <3>2. ASSUME NEW i \in 1 .. Len(requests), requests[i].pid = c PROVE InFlight(c)'
      <4>1. CASE i = 1
        BY <2>1, <3>2, <4>1 DEF InFlight
      <4>2. CASE i # 1
        <5>1. i - 1 \in 1 .. Len(requests) - 1 /\ requests'[i - 1] = requests[i]
          BY <1>t, <2>1, <4>2
        <5>2. QED
          BY <2>1, <3>2, <5>1 DEF InFlight
      <4>3. QED
        BY <4>1, <4>2
    <3>3. QED
      BY <1>t, <2>1, <2>2, <3>1, <3>2 DEF InFlight
  <2>3. Stranded' \subseteq Stranded
    BY <2>1, <2>2 DEF Stranded
  <2>4. QED
    BY <1>t, <2>1, <2>3
<1>3. CASE ServerSnd
  <2>1. /\ spc = "snd" /\ spc' = "rcv"
        /\ responses' = responses \cup {[mtype |-> req.pid, seqNum |-> seq_num]}
        /\ UNCHANGED <<queue, requests, run, cpc>>
    BY <1>3 DEF ServerSnd, clients
  <2>2. \E m \in responses' : m.mtype = req.pid
    <3> DEFINE new == [mtype |-> req.pid, seqNum |-> seq_num]
    <3>1. new \in responses' /\ new.mtype = req.pid
      BY <2>1
    <3>2. QED
      BY <3>1
  <2>3. \A c \in Clients : InFlight(c) => InFlight(c)'
    BY <2>1, <2>2 DEF InFlight
  <2>4. QED
    BY <1>t, <2>1, <2>3 DEF Stranded
<1>4. CASE ServerFail \/ Ipcrm
  BY <1>4 DEF ServerFail, Ipcrm, server, clients, Stranded
<1>5. CASE ServerKill
  BY <1>5 DEF ServerKill, clients, Stranded, InFlight
<1>6. ASSUME NEW c \in Clients,
             ClientStart(c) \/ ClientRcv(c) \/ ClientFail(c) \/ ClientKill(c)
      PROVE  Stranded' \subseteq Stranded
  <2>1. /\ \E v \in {"snd", "success", "failure", "killed"} : cpc' = [cpc EXCEPT ![c] = v]
        /\ UNCHANGED <<queue, requests, spc, req>>
        /\ \A m \in responses : m.mtype # c => m \in responses'
    BY <1>6 DEF ClientStart, ClientRcv, Selects, ClientFail, ClientKill, server
  <2>2. \A d \in Clients : cpc'[d] = "rcv" => d # c /\ cpc[d] = "rcv"
    BY <1>t, <2>1
  <2>3. \A d \in Clients : d # c /\ InFlight(d) => InFlight(d)'
    BY <2>1 DEF InFlight
  <2>4. QED
    BY <2>1, <2>2, <2>3 DEF Stranded
<1>7. ASSUME NEW c \in Clients, ClientSnd(c) PROVE Stranded' \subseteq Stranded
  <2>1. /\ cpc' = [cpc EXCEPT ![c] = "rcv"]
        /\ requests' = Append(requests, [pid |-> c, seqLen |-> seqLen[c]])
        /\ UNCHANGED <<queue, responses, spc, req>>
    BY <1>7 DEF ClientSnd, server
  <2>2. /\ DOMAIN requests' = 1 .. Len(requests) + 1 /\ requests'[Len(requests) + 1].pid = c
        /\ \A i \in 1 .. Len(requests) : requests'[i] = requests[i]
    BY <1>t, <2>1
  <2>3. \A d \in Clients : InFlight(d) => InFlight(d)'
    BY <1>t, <2>1, <2>2 DEF InFlight
  <2>4. InFlight(c)'
    BY <1>t, <2>2 DEF InFlight
  <2>5. \A d \in Clients : cpc'[d] = "rcv" /\ d # c => cpc[d] = "rcv"
    BY <1>t, <2>1
  <2>6. QED
    BY <2>1, <2>3, <2>4, <2>5 DEF Stranded
<1>8. CASE UNCHANGED vars
  BY <1>t, <1>8 DEF vars, Stranded, InFlight
<1>9. (\E c \in Clients : ClientStep(c) \/ ClientKill(c)) => UNCHANGED <<spc, run>>
  BY DEF ClientStep, ClientStart, ClientSnd, ClientRcv, ClientFail, ClientKill, server
<1>10. QED
  BY <1>t, <1>1, <1>2, <1>3, <1>4, <1>5, <1>6, <1>7, <1>8, <1>9 DEF Next, ServerStep, ClientStep

\* Steps keep what is true before there is a queue or a server.
LEMMA BegunInductive == TypeOK /\ Begun /\ [Next]_vars => Begun'
<1> SUFFICES ASSUME TypeOK, Begun, [Next]_vars PROVE Begun'
  OBVIOUS
<1>t. /\ run \in Nat
      /\ cpc \in [Clients -> {"start", "snd", "rcv", "success", "failure", "killed"}]
  BY Typed
<1>1. CASE ServerStart \/ ServerStep \/ ServerKill \/ Ipcrm \/ UNCHANGED vars
  BY <1>t, <1>1 DEF ServerStart, ServerStep, ServerRcv, ServerSnd, ServerFail, ServerKill, Ipcrm,
                    server, clients, vars, Begun
<1>2. ASSUME NEW c \in Clients, ClientStep(c) \/ ClientKill(c) PROVE Begun'
  <2>1. /\ UNCHANGED <<queue, spc, run>>
        /\ queue = "none" => \E v \in {"failure", "killed"} : cpc' = [cpc EXCEPT ![c] = v]
    BY <1>2 DEF ClientStep, ClientStart, ClientSnd, ClientRcv, ClientFail, ClientKill, server
  <2>2. QED
    BY <1>t, <2>1 DEF Begun
<1>3. QED
  BY <1>1, <1>2 DEF Next

\* A server that is killed strands at most one client.
THEOREM Crashes == Spec => []OneStrandedPerCrash
<1>1. Init => Begun /\ OneStrandedPerCrash
  <2> SUFFICES ASSUME Init PROVE Begun /\ OneStrandedPerCrash
    OBVIOUS
  <2>1. Stranded = {}
    BY DEF Init, Stranded
  <2>2. Cardinality(Stranded) = 0
    BY <2>1, FS_EmptySet
  <2>3. QED
    BY <2>2 DEF Init, Begun, OneStrandedPerCrash
<1>2. TypeOK /\ Begun /\ OneStrandedPerCrash /\ [Next]_vars => OneStrandedPerCrash'
  <2> SUFFICES ASSUME TypeOK, Begun, OneStrandedPerCrash, [Next]_vars PROVE OneStrandedPerCrash'
    OBVIOUS
  <2>1. run \in Nat /\ run' \in Nat /\ Begun'
    <3>1. run' \in {run, run + 1}
      BY DEF Next, ServerStep, ClientStep, ServerStart, ServerRcv, ServerSnd, ServerFail, ServerKill,
             ClientStart, ClientSnd, ClientRcv, ClientFail, ClientKill, Ipcrm, server, vars
    <3>2. QED
      BY <3>1, BegunInductive, Typed
  <2>2. Cardinality(Stranded) <= IF spc = "down" THEN run ELSE run - 1
    BY DEF OneStrandedPerCrash
  <2>3. /\ Cardinality(Stranded) \in Nat
        /\ Stranded' = {} => Cardinality(Stranded') = 0
        /\ Stranded' \subseteq Stranded => Cardinality(Stranded') <= Cardinality(Stranded)
        /\ \A c : Stranded' \subseteq Stranded \cup {c}
                  => Cardinality(Stranded') <= Cardinality(Stranded) + 1
    <3>1. Stranded \subseteq Clients
      BY DEF Stranded
    <3>2. QED
      BY <3>1, StrandedCount
  <2>4. Cardinality(Stranded') \in Nat
    <3>1. Stranded' \subseteq Clients
      BY DEF Stranded
    <3>2. QED
      BY <3>1, StrandedCount
  <2>5. ServerKill => spc # "down" /\ spc' = "down" /\ run' = run
    BY DEF ServerKill
  <2>6. spc' # "down" => run' > 0
    BY <2>1 DEF Begun
  <2>7. Cardinality(Stranded') <= IF spc' = "down" THEN run' ELSE run' - 1
    BY <2>1, <2>2, <2>3, <2>4, <2>5, <2>6, StrandedStep
  <2>8. QED
    BY <2>7 DEF OneStrandedPerCrash
<1>3. QED
  BY <1>1, <1>2, BegunInductive, TypeCorrect, PTL DEF Spec
=============================================================================
