---------------------------- MODULE DictUdpProofs ----------------------------
(***************************************************************************)
(* Proofs about DictUdp for any number of clients, words, lost and         *)
(* duplicated datagrams: type correctness, and that the answer to a        *)
(* question is never taken for that to another.                            *)
(***************************************************************************)
EXTENDS DictUdp, SequenceTheorems, TLAPS

\* One more copy of x in a bag: the other elements are as before.
LEMMA Added ==
  ASSUME NEW B, NEW x, IsABag(B)
  PROVE  /\ IsABag(BagAdd(B, x))
         /\ BagToSet(BagAdd(B, x)) = BagToSet(B) \cup {x}
         /\ x \notin BagToSet(B) => BagAdd(B, x)[x] = 1
         /\ \A y \in BagToSet(B) : y # x => BagAdd(B, x)[y] = B[y]
BY DEF IsABag, BagToSet, BagAdd

\* One copy of x less.
LEMMA Removed ==
  ASSUME NEW B, NEW x, IsABag(B), x \in BagToSet(B)
  PROVE  /\ IsABag(BagRemove(B, x))
         /\ BagToSet(BagRemove(B, x)) \subseteq BagToSet(B)
         /\ B[x] = 1 => BagToSet(BagRemove(B, x)) = BagToSet(B) \ {x}
         /\ \A y \in BagToSet(BagRemove(B, x)) : y # x => BagRemove(B, x)[y] = B[y]
BY DEF IsABag, BagToSet, BagRemove

\* Adding to, or taking from, a bag of elements of S.
LEMMA BagSteps ==
  ASSUME NEW B, NEW S, IsABag(B), BagToSet(B) \subseteq S
  PROVE  /\ \A x \in S : IsABag(BagAdd(B, x)) /\ BagToSet(BagAdd(B, x)) \subseteq S
         /\ \A x \in BagToSet(B) : IsABag(BagRemove(B, x)) /\ BagToSet(BagRemove(B, x)) \subseteq S
<1>1. ASSUME NEW x \in S PROVE IsABag(BagAdd(B, x)) /\ BagToSet(BagAdd(B, x)) \subseteq S
  BY Added
<1>2. ASSUME NEW x \in BagToSet(B)
      PROVE  IsABag(BagRemove(B, x)) /\ BagToSet(BagRemove(B, x)) \subseteq S
  BY Removed
<1>3. QED
  BY <1>1, <1>2

\* What the network does to the bags, for whatever reason.
NetStep ==
  /\ \/ Loses(toServer) /\ UNCHANGED toClient
     \/ Loses(toClient) /\ UNCHANGED toServer
  /\ UNCHANGED <<srv, dups, clients>>

\* Type correctness of the network, the server and the clients.
THEOREM TypeCorrect == Spec => []TypeOK
<1>0. /\ \A r \in Query : r.from \in Clients /\ r.word \in Words
      /\ \A r \in Reply : r.to \in Clients /\ [word |-> r.word, text |-> r.text] \in Dictrec
      /\ \A c \in Clients, w \in Words : [from |-> c, word |-> w] \in Query
      /\ \A c \in Clients, w \in Words, t \in Words \cup {NotFound} :
           [to |-> c, word |-> w, text |-> t] \in Reply
  BY DEF Query, Reply, Dictrec
<1>1. Init => TypeOK
  <2> SUFFICES ASSUME Init PROVE TypeOK
    OBVIOUS
  <2>1. tryit \in Query
    BY SomeAssumption DEF Init, Query
  <2>2. IsABag(EmptyBag) /\ BagToSet(EmptyBag) = {}
    BY DEF IsABag, BagToSet, EmptyBag, SetToBag
  <2>3. asked \in [Clients -> Seq(Words)] /\ printed \in [Clients -> Seq(Dictrec)]
    BY EmptySeq DEF Init
  <2>4. first_time \in BOOLEAN /\ cpc \in [Clients -> {"prompt", "recvfrom", "done"}]
    BY DEF Init
  <2>5. QED
    BY <2>1, <2>2, <2>3, <2>4, BoundsAssumption DEF Init, TypeOK
<1>2. TypeOK /\ [Next]_vars => TypeOK'
  <2> SUFFICES ASSUME TypeOK, [Next]_vars PROVE TypeOK'
    OBVIOUS
  <2> USE DEF TypeOK, srv, net, clients
  <2>1. CASE ServerStart \/ ServerFault
    BY <2>1 DEF ServerStart, ServerFault
  <2>2. CASE ServerRecv
    <3>1. PICK d \in BagToSet(toServer) : tryit' = d /\ toServer' = BagRemove(toServer, d)
      BY <2>2 DEF ServerRecv
    <3>2. tryit' \in Query /\ IsABag(toServer') /\ BagToSet(toServer') \subseteq Query
      BY <3>1, BagSteps
    <3>3. QED
      BY <2>2, <3>2 DEF ServerRecv
  <2>3. CASE ServerLookup
    <3>1. found' \in Words \cup {NotFound} /\ first_time' \in BOOLEAN
      BY <1>0, <2>3, KnownAssumption DEF ServerLookup, TextsFound, TextOf
    <3>2. QED
      BY <2>3, <3>1 DEF ServerLookup
  <2>4. CASE ServerSend
    <3> DEFINE r == [to |-> tryit.from, word |-> tryit.word, text |-> found]
    <3>1. r \in Reply /\ toClient' = BagAdd(toClient, r)
      BY <1>0, <2>4 DEF ServerSend, ReplyTo
    <3> HIDE DEF r
    <3>2. IsABag(toClient') /\ BagToSet(toClient') \subseteq Reply
      BY <3>1, BagSteps
    <3>3. QED
      BY <2>4, <3>2 DEF ServerSend
  <2>5. CASE Unreachable \/ Lose
    <3>1. UNCHANGED <<srv, dups, clients>> /\ lost' \in Nat
      BY <2>5 DEF Unreachable, Lose
    <3>2. NetStep
      BY <2>5, <3>1 DEF Unreachable, Lose, NetStep
    <3>3. CASE Loses(toServer) /\ UNCHANGED toClient
      <4>1. PICK d \in BagToSet(toServer) : toServer' = BagRemove(toServer, d)
        BY <3>3 DEF Loses
      <4>2. IsABag(toServer') /\ BagToSet(toServer') \subseteq Query
        BY <4>1, BagSteps
      <4>3. QED
        BY <3>1, <3>3, <4>2
    <3>4. CASE Loses(toClient) /\ UNCHANGED toServer
      <4>1. PICK d \in BagToSet(toClient) : toClient' = BagRemove(toClient, d)
        BY <3>4 DEF Loses
      <4>2. IsABag(toClient') /\ BagToSet(toClient') \subseteq Reply
        BY <4>1, BagSteps
      <4>3. QED
        BY <3>1, <3>4, <4>2
    <3>5. QED
      BY <3>2, <3>3, <3>4 DEF NetStep
  <2>6. CASE Duplicate
    <3>1. UNCHANGED <<srv, lost, clients>> /\ dups' \in 0 .. MaxDup
      BY <2>6, BoundsAssumption DEF Duplicate
    <3>2. CASE Doubles(toServer) /\ UNCHANGED toClient
      <4>1. PICK d \in BagToSet(toServer) : toServer' = BagAdd(toServer, d)
        BY <3>2 DEF Doubles
      <4>2. IsABag(toServer') /\ BagToSet(toServer') \subseteq Query
        BY <4>1, BagSteps
      <4>3. QED
        BY <3>1, <3>2, <4>2
    <3>3. CASE Doubles(toClient) /\ UNCHANGED toServer
      <4>1. PICK d \in BagToSet(toClient) : toClient' = BagAdd(toClient, d)
        BY <3>3 DEF Doubles
      <4>2. IsABag(toClient') /\ BagToSet(toClient') \subseteq Reply
        BY <4>1, BagSteps
      <4>3. QED
        BY <3>1, <3>3, <4>2
    <3>4. QED
      BY <2>6, <3>2, <3>3 DEF Duplicate
  <2>7. ASSUME NEW c \in Clients, ClientRecv(c) PROVE TypeOK'
    <3>1. PICK d \in BagToSet(toClient) :
            /\ toClient' = BagRemove(toClient, d)
            /\ printed' = [printed EXCEPT ![c] = Append(printed[c], [word |-> d.word, text |-> d.text])]
      BY <2>7 DEF ClientRecv
    <3>2. IsABag(toClient') /\ BagToSet(toClient') \subseteq Reply
      BY <3>1, BagSteps
    <3>3. Append(printed[c], [word |-> d.word, text |-> d.text]) \in Seq(Dictrec)
      BY <1>0, <3>1, AppendProperties
    <3>4. printed' \in [Clients -> Seq(Dictrec)]
      BY <3>1, <3>3
    <3>5. QED
      BY <2>7, <3>2, <3>4 DEF ClientRecv
  <2>8. ASSUME NEW c \in Clients, Quit(c) PROVE TypeOK'
    BY <2>8 DEF Quit
  <2>9. ASSUME NEW c \in Clients, NEW w \in Words, Ask(c, w) PROVE TypeOK'
    <3>1. IsABag(toServer') /\ BagToSet(toServer') \subseteq Query
      BY <1>0, <2>9, BagSteps DEF Ask
    <3>2. asked' \in [Clients -> Seq(Words)]
      BY <2>9 DEF Ask
    <3>3. QED
      BY <2>9, <3>1, <3>2 DEF Ask
  <2>10. CASE UNCHANGED vars
    BY <2>10 DEF vars
  <2>11. QED
    BY <2>1, <2>2, <2>3, <2>4, <2>5, <2>6, <2>7, <2>8, <2>9, <2>10 DEF Next, ServerStep
<1>3. QED
  BY <1>1, <1>2, PTL DEF Spec
-----------------------------------------------------------------------------
(* The texts. *)

\* What lookup found, what is on its way and what was printed is the text of the
\* word it comes with, or "Not Found!".
TextFits(w, t) == t \in {TextOf(w), NotFound}
TextsFit ==
  /\ spc = "sendto" => TextFits(tryit.word, found)
  /\ \A d \in BagToSet(toClient) : TextFits(d.word, d.text)
  /\ \A c \in Clients : \A i \in 1 .. Len(printed[c]) :
       TextFits(printed[c][i].word, printed[c][i].text)

LEMMA TextsInductive ==
  ASSUME TypeOK, TextsFit, [Next]_vars
  PROVE  TextsFit'
<1> USE DEF TextsFit, srv, net, clients
<1>1. CASE ServerStart \/ ServerRecv \/ ServerFault
  BY <1>1 DEF ServerStart, ServerRecv, ServerFault
<1>2. CASE ServerLookup
  BY <1>2 DEF ServerLookup, TextsFound, TextFits
<1>3. CASE ServerSend
  <2> DEFINE r == [to |-> tryit.from, word |-> tryit.word, text |-> found]
  <2>1. toClient' = BagAdd(toClient, r) /\ TextFits(r.word, r.text)
    BY <1>3 DEF ServerSend, ReplyTo
  <2> HIDE DEF r
  <2>2. \A d \in BagToSet(toClient') : d = r \/ d \in BagToSet(toClient)
    BY <2>1, Added DEF TypeOK
  <2>3. QED
    BY <1>3, <2>1, <2>2 DEF ServerSend
<1>4. CASE Unreachable \/ Lose \/ Duplicate
  <2>1. UNCHANGED <<srv, clients>>
    BY <1>4 DEF Unreachable, Lose, Duplicate
  <2>2. BagToSet(toClient') \subseteq BagToSet(toClient)
    <3>1. toClient' = toClient \/ Loses(toClient) \/ Doubles(toClient)
      BY <1>4 DEF Unreachable, Lose, Duplicate
    <3>2. IsABag(toClient)
      BY DEF TypeOK
    <3>3. Loses(toClient) => BagToSet(toClient') \subseteq BagToSet(toClient)
      BY <3>2, Removed DEF Loses
    <3>4. Doubles(toClient) => BagToSet(toClient') \subseteq BagToSet(toClient)
      BY <3>2, Added DEF Doubles
    <3>5. QED
      BY <3>1, <3>3, <3>4
  <2>3. QED
    BY <2>1, <2>2
<1>5. ASSUME NEW c \in Clients, ClientRecv(c) PROVE TextsFit'
  <2>1. PICK d \in BagToSet(toClient) :
          /\ toClient' = BagRemove(toClient, d)
          /\ printed' = [printed EXCEPT ![c] = Append(printed[c], [word |-> d.word, text |-> d.text])]
    BY <1>5 DEF ClientRecv
  <2> DEFINE r == [word |-> d.word, text |-> d.text]
  <2>2. TextFits(r.word, r.text)
    OBVIOUS
  <2>3. printed[c] \in Seq(Dictrec) /\ printed'[c] = Append(printed[c], r)
        /\ \A e \in Clients \ {c} : printed'[e] = printed[e]
    BY <2>1 DEF TypeOK
  <2> HIDE DEF r
  <2>4. \A e \in Clients : \A i \in 1 .. Len(printed'[e]) :
          TextFits(printed'[e][i].word, printed'[e][i].text)
    <3> TAKE e \in Clients
    <3>1. CASE e # c
      BY <2>3, <3>1
    <3>2. CASE e = c
      <4>1. /\ Len(printed'[c]) = Len(printed[c]) + 1 /\ printed'[c][Len(printed[c]) + 1] = r
            /\ Len(printed[c]) \in Nat
            /\ \A i \in 1 .. Len(printed[c]) : printed'[c][i] = printed[c][i]
        BY <2>3
      <4>2. QED
        BY SMTT(30), <2>2, <3>2, <4>1
    <3>3. QED
      BY <3>1, <3>2
  <2>5. BagToSet(toClient') \subseteq BagToSet(toClient)
    BY <2>1, Removed DEF TypeOK
  <2>6. QED
    BY <1>5, <2>4, <2>5 DEF ClientRecv
<1>6. ASSUME NEW c \in Clients, NEW w \in Words, Quit(c) \/ Ask(c, w) PROVE TextsFit'
  BY <1>6 DEF Quit, Ask
<1>7. CASE UNCHANGED vars
  BY <1>7 DEF vars
<1>8. QED
  <2>1. Words # {}
    BY SomeAssumption
  <2>2. QED
    BY <1>1, <1>2, <1>3, <1>4, <1>5, <1>6, <1>7, <2>1 DEF Next, ServerStep
-----------------------------------------------------------------------------
(* The questions, as long as nothing was duplicated. *)

LastAsked(c) == asked[c][Len(asked[c])]
AtServer(c) == spc \in {"lookup", "sendto"} /\ tryit.from = c
NoQuery(c) == \A d \in BagToSet(toServer) : d.from # c
NoReply(c) == \A d \in BagToSet(toClient) : d.to # c

\* The question of a waiting client, or its answer, is in one place at most, once;
\* of another client there is nothing.
OneToken(c) ==
  /\ cpc[c] # "recvfrom" =>
       /\ Len(asked[c]) = Len(printed[c])
       /\ NoQuery(c) /\ NoReply(c) /\ ~AtServer(c)
  /\ cpc[c] = "recvfrom" => Len(asked[c]) = Len(printed[c]) + 1
  /\ \A d \in BagToSet(toServer) : d.from = c =>
       d.word = LastAsked(c) /\ toServer[d] = 1 /\ NoReply(c) /\ ~AtServer(c)
  /\ AtServer(c) => tryit.word = LastAsked(c) /\ NoReply(c)
  /\ \A d \in BagToSet(toClient) : d.to = c => d.word = LastAsked(c) /\ toClient[d] = 1
  /\ \A d, e \in BagToSet(toClient) : d.to = c /\ e.to = c => d = e

\* What was printed answered what was asked.
Heard(c) == \A i \in 1 .. Len(printed[c]) : printed[c][i].word = asked[c][i]

Undoubled == dups = 0 => \A c \in Clients : OneToken(c) /\ Heard(c)

\* The network only ever takes away.
LEMMA TokenLost ==
  ASSUME TypeOK, NEW c \in Clients, OneToken(c), Heard(c), NetStep
  PROVE  OneToken(c)' /\ Heard(c)'
<1>1. UNCHANGED <<spc, tryit, cpc, asked, printed>>
  BY DEF NetStep, srv, clients
<1>2. Heard(c)'
  BY <1>1 DEF Heard
<1>3. CASE Loses(toServer) /\ UNCHANGED toClient
  <2>1. PICK x \in BagToSet(toServer) : toServer' = BagRemove(toServer, x)
    BY <1>3 DEF Loses
  <2>2. \A d \in BagToSet(toServer') : d \in BagToSet(toServer) /\ (toServer[d] = 1 => toServer'[d] = 1)
    BY <2>1, Removed DEF TypeOK
  <2>3. OneToken(c)'
    BY <1>1, <1>3, <2>2 DEF OneToken, NoQuery, NoReply, AtServer, LastAsked
  <2>4. QED
    BY <1>2, <2>3
<1>4. CASE Loses(toClient) /\ UNCHANGED toServer
  <2>1. PICK x \in BagToSet(toClient) : toClient' = BagRemove(toClient, x)
    BY <1>4 DEF Loses
  <2>2. \A d \in BagToSet(toClient') : d \in BagToSet(toClient) /\ (toClient[d] = 1 => toClient'[d] = 1)
    BY <2>1, Removed DEF TypeOK
  <2>3. OneToken(c)'
    BY <1>1, <1>4, <2>2 DEF OneToken, NoQuery, NoReply, AtServer, LastAsked
  <2>4. QED
    BY <1>2, <2>3
<1>5. QED
  BY <1>3, <1>4 DEF NetStep

\* The server takes one question, answers it and forgets it.
LEMMA TokenServed ==
  ASSUME TypeOK, NEW c \in Clients, OneToken(c), Heard(c), ServerStart \/ ServerStep
  PROVE  OneToken(c)' /\ Heard(c)'
<1>1. UNCHANGED <<cpc, asked, printed>>
  BY DEF ServerStart, ServerStep, ServerRecv, ServerLookup, ServerFault, ServerSend, clients
<1>2. Heard(c)' /\ LastAsked(c)' = LastAsked(c)
  BY <1>1 DEF Heard, LastAsked
<1>3. CASE ServerStart \/ ServerLookup \/ ServerFault
  <2>1. UNCHANGED <<toServer, toClient, tryit>> /\ (AtServer(c)' => AtServer(c))
    BY <1>3 DEF ServerStart, ServerLookup, ServerFault, net, AtServer
  <2>2. OneToken(c)'
    BY <1>1, <1>2, <2>1 DEF OneToken, NoQuery, NoReply
  <2>3. QED
    BY <1>2, <2>2
<1>4. CASE ServerRecv
  <2>1. PICK x \in BagToSet(toServer) : tryit' = x /\ toServer' = BagRemove(toServer, x)
    BY <1>4 DEF ServerRecv
  <2>2. /\ \A d \in BagToSet(toServer') : d \in BagToSet(toServer) /\ (toServer[d] = 1 => toServer'[d] = 1)
        /\ toServer[x] = 1 => x \notin BagToSet(toServer')
    BY SMTT(30), <2>1, Removed DEF TypeOK
  <2>3. ~AtServer(c) /\ (AtServer(c)' <=> x.from = c) /\ toClient' = toClient
    BY <1>4, <2>1 DEF ServerRecv, AtServer
  <2>4. CASE x.from = c
    <3>1. cpc[c] = "recvfrom" /\ x.word = LastAsked(c) /\ toServer[x] = 1 /\ NoReply(c)
      BY <2>1, <2>4 DEF OneToken, NoQuery
    <3>2. \A d \in BagToSet(toServer) : d.from = c => d = x
      <4>1. \A d \in BagToSet(toServer) : d = [from |-> d.from, word |-> d.word]
        BY DEF TypeOK, Query
      <4>2. \A d \in BagToSet(toServer) : d.from = c => d.word = x.word
        BY <3>1 DEF OneToken
      <4>3. QED
        BY <2>1, <2>4, <4>1, <4>2
    <3>3. NoQuery(c)' /\ NoReply(c)'
      BY <2>2, <2>3, <3>1, <3>2 DEF NoQuery, NoReply
    <3>4. OneToken(c)'
      BY <1>1, <1>2, <2>1, <2>3, <3>1, <3>3 DEF OneToken, NoQuery, NoReply
    <3>5. QED
      BY <1>2, <3>4
  <2>5. CASE x.from # c
    <3>1. OneToken(c)'
      BY <1>1, <1>2, <2>2, <2>3, <2>5 DEF OneToken, NoQuery, NoReply
    <3>2. QED
      BY <1>2, <3>1
  <2>6. QED
    BY <2>4, <2>5
<1>5. CASE ServerSend
  <2> DEFINE r == [to |-> tryit.from, word |-> tryit.word, text |-> found]
  <2>1. /\ toClient' = BagAdd(toClient, r) /\ toServer' = toServer /\ ~AtServer(c)'
        /\ (AtServer(c) <=> r.to = c) /\ r.word = tryit.word
    BY <1>5 DEF ServerSend, ReplyTo, AtServer
  <2> HIDE DEF r
  <2>2. /\ BagToSet(toClient') = BagToSet(toClient) \cup {r}
        /\ r \notin BagToSet(toClient) => toClient'[r] = 1
        /\ \A d \in BagToSet(toClient) : d # r => toClient'[d] = toClient[d]
    BY <2>1, Added DEF TypeOK
  <2>3. CASE r.to = c
    <3>1. cpc[c] = "recvfrom" /\ r.word = LastAsked(c) /\ NoReply(c) /\ NoQuery(c)
      BY <2>1, <2>3 DEF OneToken, NoQuery
    <3>2. \A d \in BagToSet(toClient') : d.to = c => d = r /\ toClient'[d] = 1
      BY <2>2, <2>3, <3>1 DEF NoReply
    <3>3. NoQuery(c)'
      BY <2>1, <3>1 DEF NoQuery
    <3>4. OneToken(c)'
      BY <1>1, <1>2, <2>1, <3>1, <3>2, <3>3 DEF OneToken, NoQuery
    <3>5. QED
      BY <1>2, <3>4
  <2>4. CASE r.to # c
    <3>1. /\ \A d \in BagToSet(toClient') : d.to = c => d \in BagToSet(toClient) /\ toClient'[d] = toClient[d]
          /\ NoReply(c) => NoReply(c)' /\ (NoQuery(c) => NoQuery(c)')
      BY <2>1, <2>2, <2>4 DEF NoReply, NoQuery
    <3>2. OneToken(c)'
      BY <1>1, <1>2, <2>1, <3>1 DEF OneToken
    <3>3. QED
      BY <1>2, <3>2
  <2>5. QED
    BY <2>3, <2>4
<1>6. QED
  BY <1>3, <1>4, <1>5 DEF ServerStep

\* A client asks, with nothing of its own on the way.
LEMMA TokenAsked ==
  ASSUME TypeOK, NEW c \in Clients, OneToken(c), Heard(c), NEW e \in Clients, NEW w \in Words, Ask(e, w)
  PROVE  OneToken(c)' /\ Heard(c)'
<1> DEFINE q == [from |-> e, word |-> w]
<1>1. /\ UNCHANGED <<spc, tryit, toClient, printed>> /\ toServer' = BagAdd(toServer, q)
      /\ AtServer(c)' = AtServer(c) /\ NoReply(c)' = NoReply(c) /\ q.from = e /\ q.word = w
  BY DEF Ask, srv, AtServer, NoReply
<1> HIDE DEF q
<1>2. /\ BagToSet(toServer') = BagToSet(toServer) \cup {q}
      /\ q \notin BagToSet(toServer) => toServer'[q] = 1
      /\ \A d \in BagToSet(toServer) : d # q => toServer'[d] = toServer[d]
  BY <1>1, Added DEF TypeOK
<1>3. CASE e # c
  <2>1. cpc'[c] = cpc[c] /\ asked'[c] = asked[c] /\ LastAsked(c)' = LastAsked(c)
    BY <1>3 DEF Ask, TypeOK, LastAsked
  <2>2. /\ \A d \in BagToSet(toServer') : d.from = c => d \in BagToSet(toServer) /\ toServer'[d] = toServer[d]
        /\ NoQuery(c) => NoQuery(c)'
    BY <1>1, <1>2, <1>3 DEF NoQuery
  <2>3. OneToken(c)'
    BY <1>1, <2>1, <2>2 DEF OneToken
  <2>4. QED
    BY <1>1, <2>1, <2>3 DEF Heard
<1>4. CASE e = c
  <2>1. cpc[c] = "prompt" /\ cpc'[c] = "recvfrom" /\ asked'[c] = Append(asked[c], w)
    BY <1>4 DEF Ask, TypeOK
  <2>2. /\ Len(asked[c]) = Len(printed[c]) /\ NoQuery(c) /\ NoReply(c) /\ ~AtServer(c)
    BY <2>1 DEF OneToken
  <2>3. /\ Len(asked'[c]) = Len(asked[c]) + 1 /\ Len(asked[c]) \in Nat /\ LastAsked(c)' = w
        /\ \A i \in 1 .. Len(asked[c]) : asked'[c][i] = asked[c][i]
    BY <2>1 DEF TypeOK, LastAsked
  <2>4. \A d \in BagToSet(toServer') : d.from = c => d = q /\ toServer'[d] = 1
    BY <1>1, <1>2, <1>4, <2>2 DEF NoQuery
  <2>5. OneToken(c)'
    BY <1>1, <2>1, <2>2, <2>3, <2>4 DEF OneToken, NoReply
  <2>6. Heard(c)'
    BY <1>1, <2>2, <2>3 DEF Heard
  <2>7. QED
    BY <2>5, <2>6
<1>5. QED
  BY <1>3, <1>4

\* A client takes the one answer there is for it.
LEMMA TokenTaken ==
  ASSUME TypeOK, NEW c \in Clients, OneToken(c), Heard(c), NEW e \in Clients, ClientRecv(e)
  PROVE  OneToken(c)' /\ Heard(c)'
<1>1. PICK x \in BagToSet(toClient) :
        /\ x.to = e /\ toClient' = BagRemove(toClient, x)
        /\ printed' = [printed EXCEPT ![e] = Append(printed[e], [word |-> x.word, text |-> x.text])]
  BY DEF ClientRecv
<1>2. /\ UNCHANGED <<spc, tryit, toServer, asked>> /\ AtServer(c)' = AtServer(c)
      /\ NoQuery(c)' = NoQuery(c) /\ LastAsked(c)' = LastAsked(c)
  BY DEF ClientRecv, srv, AtServer, NoQuery, LastAsked
<1>3. /\ \A d \in BagToSet(toClient') : d \in BagToSet(toClient) /\ (toClient[d] = 1 => toClient'[d] = 1)
      /\ toClient[x] = 1 => x \notin BagToSet(toClient')
  BY <1>1, Removed DEF TypeOK
<1>4. CASE e # c
  <2>1. cpc'[c] = cpc[c] /\ printed'[c] = printed[c]
    BY <1>1, <1>4 DEF ClientRecv, TypeOK
  <2>2. NoReply(c) => NoReply(c)'
    BY <1>3 DEF NoReply
  <2>3. OneToken(c)'
    BY <1>2, <1>3, <2>1, <2>2 DEF OneToken
  <2>4. QED
    BY <1>2, <2>1, <2>3 DEF Heard
<1>5. CASE e = c
  <2> DEFINE r == [word |-> x.word, text |-> x.text]
  <2>1. cpc[c] = "recvfrom" /\ cpc'[c] = "prompt" /\ printed'[c] = Append(printed[c], r) /\ r.word = x.word
    BY <1>1, <1>5 DEF ClientRecv, TypeOK
  <2> HIDE DEF r
  <2>2. /\ x.word = LastAsked(c) /\ toClient[x] = 1 /\ Len(asked[c]) = Len(printed[c]) + 1
        /\ NoQuery(c) /\ ~AtServer(c) /\ \A d \in BagToSet(toClient) : d.to = c => d = x
    BY <1>1, <1>5, <2>1 DEF OneToken, NoReply, NoQuery
  <2>3. NoReply(c)'
    BY <1>3, <2>2 DEF NoReply
  <2>4. /\ Len(printed'[c]) = Len(printed[c]) + 1 /\ printed'[c][Len(printed[c]) + 1] = r
        /\ Len(printed[c]) \in Nat
        /\ \A i \in 1 .. Len(printed[c]) : printed'[c][i] = printed[c][i]
    BY <2>1 DEF TypeOK
  <2>5. OneToken(c)'
    BY <1>2, <2>1, <2>2, <2>3, <2>4 DEF OneToken, NoQuery, NoReply
  <2>6. Heard(c)'
    BY <1>2, <2>1, <2>2, <2>4 DEF Heard, LastAsked
  <2>7. QED
    BY <2>5, <2>6
<1>6. QED
  BY <1>4, <1>5

LEMMA UndoubledInductive ==
  ASSUME TypeOK, Undoubled, [Next]_vars
  PROVE  Undoubled'
<1> SUFFICES ASSUME dups' = 0, NEW c \in Clients PROVE OneToken(c)' /\ Heard(c)'
  BY DEF Undoubled
<1>1. ~Duplicate
  BY BoundsAssumption DEF TypeOK, Duplicate
<1>2. dups = 0
  BY <1>1 DEF Next, ServerStart, ServerStep, ServerRecv, ServerLookup, ServerFault, ServerSend,
              Unreachable, Lose, ClientRecv, Quit, Ask, net, vars
<1>3. OneToken(c) /\ Heard(c)
  BY <1>2 DEF Undoubled
<1>4. CASE ServerStart \/ ServerStep
  BY <1>3, <1>4, TokenServed
<1>5. CASE Unreachable \/ Lose
  <2>1. NetStep
    BY <1>5 DEF Unreachable, Lose, NetStep
  <2>2. QED
    BY <1>3, <2>1, TokenLost
<1>6. ASSUME NEW e \in Clients, Quit(e) PROVE OneToken(c)' /\ Heard(c)'
  <2>1. /\ UNCHANGED <<spc, tryit, toServer, toClient, asked, printed>>
        /\ cpc'[c] = cpc[c] \/ (cpc[c] # "recvfrom" /\ cpc'[c] # "recvfrom")
    BY <1>6 DEF Quit, srv, net, TypeOK
  <2>2. QED
    BY <1>3, <2>1 DEF OneToken, Heard, NoQuery, NoReply, AtServer, LastAsked
<1>7. CASE UNCHANGED vars
  BY <1>3, <1>7 DEF vars, OneToken, Heard, NoQuery, NoReply, AtServer, LastAsked
<1>8. QED
  BY <1>1, <1>3, <1>4, <1>5, <1>6, <1>7, TokenAsked, TokenTaken DEF Next

\* No client prints one word with the text of another; as long as nothing is
\* duplicated, it prints the answer to what it has just asked.
THEOREM Answered == Spec => []AskedIsAnswered
<1>1. Init => TextsFit /\ Undoubled
  <2> SUFFICES ASSUME Init PROVE TextsFit /\ Undoubled
    OBVIOUS
  <2>1. BagToSet(toServer) = {} /\ BagToSet(toClient) = {} /\ spc = "down"
    BY DEF Init, BagToSet, EmptyBag, SetToBag
  <2>2. \A c \in Clients : cpc[c] = "prompt" /\ asked[c] = <<>> /\ printed[c] = <<>>
    BY DEF Init
  <2>3. QED
    BY <2>1, <2>2 DEF TextsFit, Undoubled, OneToken, Heard, NoQuery, NoReply, AtServer
<1>2. TextsFit /\ Undoubled => AskedIsAnswered
  BY DEF TextsFit, TextFits, Undoubled, Heard, AskedIsAnswered
<1>3. QED
  BY <1>1, <1>2, TypeCorrect, TextsInductive, UndoubledInductive, PTL DEF Spec
=============================================================================
