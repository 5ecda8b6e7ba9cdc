-------------------------- MODULE DictStreamProofs --------------------------
(***************************************************************************)
(* Proofs about DictStream for any number of clients, words and queries:   *)
(* type correctness and the dialogue that never slips.                     *)
(***************************************************************************)
EXTENDS DictStream, SequenceTheorems, TLAPS

\* What lookup5 has found is a text of the dictionary.
LookedUp == \A c \in Clients : child[c] = "write" => tryit[c] \in Answers

\* Whatever runs on either side of the connection of c.
ChildStep(c) ==
  \/ Accept(c) \/ ChildRead(c) \/ ChildLookup(c) \/ ChildFault(c) \/ ChildWrite(c)
  \/ ChildWriteLost(c, "crashed") \/ ChildWriteLost(c, "read")
UserStep(c) == Quit(c) \/ \E w \in Words : Ask(c, w)
AskerStep(c) ==
  \/ Connect(c) \/ ClientWrite(c) \/ ClientWriteLost(c, "killed") \/ ClientWriteLost(c, "read")
  \/ ClientRead(c) \/ ClientReadEnd(c) \/ ClientReadFails(c) \/ ClientKill(c)

\* Both families run these steps and no others.
LEMMA Steps ==
  ASSUME [Next]_vars
  PROVE  \/ ServerStart
         \/ \E c \in Clients : ChildStep(c) \/ UserStep(c) \/ AskerStep(c)
         \/ UNCHANGED vars
BY DEF Next, ServerStep, UnixServer, InetServer, Dialogue, ClientStep, UnixClient, InetClient,
       ChildStep, UserStep, AskerStep

\* A record with one field replaced.
LEMMA Fields ==
  ASSUME NEW r \in Dictrec, NEW w, NEW t
  PROVE  /\ [r EXCEPT !.text = t] = [word |-> r.word, text |-> t]
         /\ [r EXCEPT !.word = w] = [word |-> w, text |-> r.text]
BY DEF Dictrec

\* Type correctness of the connections, the children and the clients.
THEOREM TypeCorrect == Spec => [](TypeOK /\ LookedUp)
<1>0. /\ Answers \subseteq Dictrec
      /\ \A r \in Dictrec : r.word \in Words
      /\ \A w \in Words, t \in Words \cup {NotFound} : [word |-> w, text |-> t] \in Answers
      /\ \A w \in Words, r \in Dictrec : [word |-> w, text |-> r.text] \in Dictrec
  BY DEF Answers, Dictrec, Texts
<1>1. Init => TypeOK /\ LookedUp
  <2> SUFFICES ASSUME Init PROVE TypeOK /\ LookedUp
    OBVIOUS
  <2> DEFINE blank == [word |-> CHOOSE w \in Words : TRUE, text |-> Junk]
  <2>1. blank \in Dictrec
    BY WordsAssumption DEF Dictrec, Texts
  <2>2. tryit = [c \in Clients |-> blank] /\ sought = [c \in Clients |-> blank]
    BY DEF Init
  <2> HIDE DEF blank
  <2>3. /\ child = [c \in Clients |-> "none"] /\ cpc = [c \in Clients |-> "prompt"]
        /\ first_time = [c \in Clients |-> TRUE] /\ listening = FALSE /\ family \in Families
    BY DEF Init
  <2>4. /\ up = [c \in Clients |-> <<>>] /\ down = [c \in Clients |-> <<>>]
        /\ asked = [c \in Clients |-> <<>>] /\ printed = [c \in Clients |-> <<>>]
    BY DEF Init
  <2>5. tryit \in [Clients -> Dictrec] /\ sought \in [Clients -> Dictrec]
    BY <2>1, <2>2
  <2>6. listening \in BOOLEAN /\ first_time \in [Clients -> BOOLEAN]
    BY <2>3
  <2>7. /\ up \in [Clients -> Seq(Dictrec)] /\ down \in [Clients -> Seq(Answers)]
        /\ asked \in [Clients -> Seq(Words)] /\ printed \in [Clients -> Seq(Dictrec)]
    BY <2>4, EmptySeq
  <2>8. LookedUp
    BY <2>3 DEF LookedUp
  <2>9. QED
    BY <2>3, <2>5, <2>6, <2>7, <2>8 DEF TypeOK, Gone
<1>2. TypeOK /\ LookedUp /\ [Next]_vars => TypeOK' /\ LookedUp'
  <2> SUFFICES ASSUME TypeOK, LookedUp, [Next]_vars PROVE TypeOK' /\ LookedUp'
    OBVIOUS
  <2> USE DEF TypeOK, LookedUp, Gone, conn, srv
  <2>1. CASE ServerStart
    BY <2>1 DEF ServerStart
  <2>2. ASSUME NEW c \in Clients, ChildStep(c) PROVE TypeOK' /\ LookedUp'
    <3>1. CASE Accept(c)
      BY <3>1 DEF Accept
    <3>2. CASE ChildRead(c)
      <4>1. CASE up[c] = <<>>
        BY <3>2, <4>1 DEF ChildRead
      <4>2. CASE up[c] # <<>>
        <5>1. Head(up[c]) \in Dictrec /\ Tail(up[c]) \in Seq(Dictrec)
          BY <4>2
        <5>2. /\ tryit' = [tryit EXCEPT ![c] = Head(up[c])] /\ up' = [up EXCEPT ![c] = Tail(up[c])]
              /\ child' = [child EXCEPT ![c] = "lookup"]
          BY <3>2, <4>2 DEF ChildRead
        <5>3. up' \in [Clients -> Seq(Dictrec)]
          BY <5>1, <5>2
        <5>4. QED
          BY <3>2, <5>1, <5>2, <5>3 DEF ChildRead
      <4>3. QED
        BY <4>1, <4>2
    <3>3. CASE ChildLookup(c)
      <4>1. PICK t \in TextsFound(tryit[c].word, first_time[c]) :
              tryit' = [tryit EXCEPT ![c].text = t]
        BY <3>3 DEF ChildLookup
      <4>2. t \in Words \cup {NotFound}
        BY KnownAssumption DEF TextsFound, TextOf
      <4>3. tryit' = [tryit EXCEPT ![c] = [word |-> tryit[c].word, text |-> t]]
        <5>1. tryit' = [tryit EXCEPT ![c] = [tryit[c] EXCEPT !.text = t]]
          BY <4>1
        <5>2. QED
          BY <5>1, Fields
      <4>4. [word |-> tryit[c].word, text |-> t] \in Answers
        BY <1>0, <4>2
      <4>5. QED
        BY <1>0, <3>3, <4>3, <4>4 DEF ChildLookup
    <3>4. CASE ChildFault(c)
      BY <3>4 DEF ChildFault
    <3>5. CASE ChildWrite(c)
      <4>1. Append(down[c], tryit[c]) \in Seq(Answers)
        BY <3>5 DEF ChildWrite
      <4>2. down' \in [Clients -> Seq(Answers)]
        BY <3>5, <4>1 DEF ChildWrite
      <4>3. QED
        BY <3>5, <4>2 DEF ChildWrite
    <3>6. CASE ChildWriteLost(c, "crashed") \/ ChildWriteLost(c, "read")
      BY <3>6 DEF ChildWriteLost
    <3>7. QED
      BY <2>2, <3>1, <3>2, <3>3, <3>4, <3>5, <3>6 DEF ChildStep
  <2>3. ASSUME NEW c \in Clients, UserStep(c) PROVE TypeOK' /\ LookedUp'
    <3>1. CASE Quit(c)
      BY <3>1 DEF Quit
    <3>2. ASSUME NEW w \in Words, Ask(c, w) PROVE TypeOK' /\ LookedUp'
      <4>1. sought' = [sought EXCEPT ![c] = [word |-> w, text |-> sought[c].text]]
        <5>1. sought' = [sought EXCEPT ![c] = [sought[c] EXCEPT !.word = w]]
          BY <3>2 DEF Ask
        <5>2. QED
          BY <5>1, Fields
      <4>2. sought' \in [Clients -> Dictrec]
        BY <1>0, <4>1
      <4>3. asked' \in [Clients -> Seq(Words)]
        BY <3>2 DEF Ask
      <4>4. QED
        BY <3>2, <4>2, <4>3 DEF Ask
    <3>3. QED
      BY <2>3, <3>1, <3>2 DEF UserStep
  <2>4. ASSUME NEW c \in Clients, AskerStep(c) PROVE TypeOK' /\ LookedUp'
    <3>1. CASE Connect(c)
      BY <3>1 DEF Connect
    <3>2. CASE ClientWrite(c)
      <4>1. Append(up[c], sought[c]) \in Seq(Dictrec)
        OBVIOUS
      <4>2. up' \in [Clients -> Seq(Dictrec)]
        BY <3>2, <4>1 DEF ClientWrite
      <4>3. QED
        BY <3>2, <4>2 DEF ClientWrite
    <3>3. CASE ClientWriteLost(c, "killed") \/ ClientWriteLost(c, "read")
      BY <3>3 DEF ClientWriteLost
    <3>4. CASE ClientRead(c)
      <4>1. Head(down[c]) \in Answers /\ Tail(down[c]) \in Seq(Answers)
        BY <3>4 DEF ClientRead
      <4>2. Head(down[c]) \in Dictrec
        BY <1>0, <4>1
      <4>3. Append(printed[c], Head(down[c])) \in Seq(Dictrec)
        BY <4>2
      <4>4. down' \in [Clients -> Seq(Answers)] /\ printed' \in [Clients -> Seq(Dictrec)]
        BY <3>4, <4>1, <4>3 DEF ClientRead, PrintRecord
      <4>5. QED
        BY <3>4, <4>2, <4>4 DEF ClientRead
    <3>5. CASE ClientReadEnd(c)
      <4>1. Append(printed[c], sought[c]) \in Seq(Dictrec)
        OBVIOUS
      <4>2. printed' \in [Clients -> Seq(Dictrec)]
        BY <3>5, <4>1 DEF ClientReadEnd, PrintRecord
      <4>3. QED
        BY <3>5, <4>2 DEF ClientReadEnd
    <3>6. CASE ClientReadFails(c) \/ ClientKill(c)
      BY <3>6 DEF ClientReadFails, ClientKill
    <3>7. QED
      BY <2>4, <3>1, <3>2, <3>3, <3>4, <3>5, <3>6 DEF AskerStep
  <2>5. CASE UNCHANGED vars
    BY <2>5 DEF vars
  <2>6. QED
    BY <2>1, <2>2, <2>3, <2>4, <2>5, Steps
<1>3. QED
  BY <1>1, <1>2, PTL DEF Spec
-----------------------------------------------------------------------------
(* The dialogue of one connection. *)

\* What NeverSlips says of one client.
Heard(c) ==
  \A i \in 1 .. Len(printed[c]) :
    \/ Right(c, i)
    \/ i > 1 /\ printed[c][i] = [word |-> asked[c][i], text |-> NotFound]
    \/ i > 1 /\ child[c] = "crashed"

\* One word has been asked and not answered; what answers it.
Due(c) == Len(asked[c]) = Len(printed[c]) + 1
LastAsked(c) == asked[c][Len(asked[c])]
Fits(c, r) ==
  /\ r.word = LastAsked(c)
  /\ r.text = TextOf(LastAsked(c)) \/ (Len(asked[c]) > 1 /\ r.text = NotFound)

\* Nothing is on its way; the child has not come to its first lookup.
Quiet(c) == up[c] = <<>> /\ down[c] = <<>>
Fresh(c) == Len(printed[c]) = 0 => first_time[c]

Prompting(c) ==
  /\ Len(asked[c]) = Len(printed[c]) /\ Quiet(c) /\ Fresh(c)
  /\ child[c] = IF Len(asked[c]) = 0 THEN "none" ELSE IF Dead(c) THEN "crashed" ELSE "read"

Connecting(c) ==
  /\ Due(c) /\ Len(asked[c]) = 1 /\ sought[c].word = LastAsked(c)
  /\ Quiet(c) /\ Fresh(c) /\ child[c] = "none"

Sending(c) ==
  /\ Due(c) /\ sought[c].word = LastAsked(c) /\ Quiet(c) /\ Fresh(c)
  /\ \/ child[c] \in {"backlog", "read"}
     \/ child[c] = "crashed" /\ Len(asked[c]) > 1

\* The question or its answer is in one place, or lost with the child.
Waiting(c) ==
  /\ Due(c)
  /\ \/ /\ child[c] \in {"backlog", "read"} /\ Fresh(c)
        /\ Len(up[c]) = 1 /\ up[c][1].word = LastAsked(c) /\ down[c] = <<>>
     \/ child[c] = "lookup" /\ Fresh(c) /\ tryit[c].word = LastAsked(c) /\ Quiet(c)
     \/ child[c] = "write" /\ Fits(c, tryit[c]) /\ Quiet(c)
     \/ child[c] = "read" /\ up[c] = <<>> /\ Len(down[c]) = 1 /\ Fits(c, down[c][1])
     \/ child[c] = "crashed" /\ Len(asked[c]) > 1 /\ Quiet(c)

Talk(c) ==
  /\ Len(printed[c]) <= Len(asked[c])
  /\ cpc[c] = "prompt" => Prompting(c)
  /\ cpc[c] = "connect" => Connecting(c)
  /\ cpc[c] = "write" => Sending(c)
  /\ cpc[c] = "read" => Waiting(c)

\* Nothing that Talk and Heard speak of changes.
Same(c) ==
  /\ child'[c] = child[c] /\ first_time'[c] = first_time[c] /\ tryit'[c] = tryit[c]
  /\ up'[c] = up[c] /\ down'[c] = down[c] /\ cpc'[c] = cpc[c] /\ sought'[c] = sought[c]
  /\ asked'[c] = asked[c] /\ printed'[c] = printed[c]

\* A client of which nothing changes talks as before.
LEMMA Frame ==
  ASSUME NEW c \in Clients, Talk(c), Heard(c), Same(c)
  PROVE  Talk(c)' /\ Heard(c)'
<1> USE DEF Same
<1>1. Heard(c)'
  BY DEF Heard, Right
<1>2. /\ Prompting(c) => Prompting(c)'
      /\ Connecting(c) => Connecting(c)'
      /\ Sending(c) => Sending(c)'
      /\ Waiting(c) => Waiting(c)'
  BY DEF Prompting, Connecting, Sending, Waiting, Due, LastAsked, Quiet, Fresh, Fits, Dead
<1>3. QED
  BY <1>1, <1>2 DEF Talk

\* The steps of one client and its child leave the others alone.
LEMMA Elsewhere ==
  ASSUME TypeOK, NEW c \in Clients, NEW d \in Clients, d # c,
         ChildStep(c) \/ UserStep(c) \/ AskerStep(c)
  PROVE  Same(d)
<1> USE DEF TypeOK, Same, conn, srv
<1>1. CASE ChildStep(c)
  <2>1. CASE Accept(c) \/ ChildFault(c)
    BY <2>1 DEF Accept, ChildFault
  <2>2. CASE ChildRead(c)
    BY <2>2 DEF ChildRead
  <2>3. CASE ChildLookup(c)
    BY <2>3 DEF ChildLookup
  <2>4. CASE ChildWrite(c)
    BY <2>4 DEF ChildWrite
  <2>5. CASE ChildWriteLost(c, "crashed") \/ ChildWriteLost(c, "read")
    BY <2>5 DEF ChildWriteLost
  <2>6. QED
    BY <1>1, <2>1, <2>2, <2>3, <2>4, <2>5 DEF ChildStep
<1>2. CASE UserStep(c)
  <2>1. CASE Quit(c)
    BY <2>1 DEF Quit
  <2>2. ASSUME NEW w \in Words, Ask(c, w) PROVE Same(d)
    BY <2>2 DEF Ask
  <2>3. QED
    BY <1>2, <2>1, <2>2 DEF UserStep
<1>3. CASE AskerStep(c)
  <2>1. CASE Connect(c)
    BY <2>1 DEF Connect
  <2>2. CASE ClientWrite(c)
    BY <2>2 DEF ClientWrite
  <2>3. CASE ClientWriteLost(c, "killed") \/ ClientWriteLost(c, "read")
    BY <2>3 DEF ClientWriteLost
  <2>4. CASE ClientRead(c)
    BY <2>4 DEF ClientRead, PrintRecord
  <2>5. CASE ClientReadEnd(c)
    BY <2>5 DEF ClientReadEnd, PrintRecord
  <2>6. CASE ClientReadFails(c) \/ ClientKill(c)
    BY <2>6 DEF ClientReadFails, ClientKill
  <2>7. QED
    BY <1>3, <2>1, <2>2, <2>3, <2>4, <2>5, <2>6 DEF AskerStep
<1>4. QED
  BY <1>1, <1>2, <1>3

\* Taking the only element of a sequence.
LEMMA Single ==
  ASSUME NEW S, NEW s \in Seq(S), Len(s) = 1
  PROVE  Head(s) = s[1] /\ Tail(s) = <<>> /\ s # <<>>
<1>1. s # <<>> /\ Head(s) = s[1]
  OBVIOUS
<1>2. Tail(s) \in Seq(S) /\ Len(Tail(s)) = 0
  BY <1>1, HeadTailProperties
<1>3. QED
  BY <1>1, <1>2, EmptySeq

\* What has been heard stays right when nothing more is printed: a dead child
\* stays dead, and more words do not touch the words asked.
LEMMA HeardKept ==
  ASSUME TypeOK, NEW c \in Clients, Heard(c), Len(printed[c]) <= Len(asked[c]),
         printed'[c] = printed[c], child[c] = "crashed" => child'[c] = "crashed",
         asked'[c] = asked[c] \/ \E w \in Words : asked'[c] = Append(asked[c], w)
  PROVE  Heard(c)'
<1>1. \A i \in 1 .. Len(printed[c]) : asked'[c][i] = asked[c][i]
  BY DEF TypeOK
<1>2. QED
  BY <1>1 DEF Heard, Right

\* The child's side of the dialogue.
LEMMA ChildTalks ==
  ASSUME TypeOK, NEW c \in Clients, Talk(c), Heard(c), ChildStep(c)
  PROVE  Talk(c)' /\ Heard(c)'
<1>0. UNCHANGED <<cpc, sought, asked, printed>> /\ Len(printed[c]) <= Len(asked[c])
  BY DEF ChildStep, Accept, ChildRead, ChildLookup, ChildFault, ChildWrite, ChildWriteLost, conn, Talk
<1>1. Heard(c)'
  <2>1. child[c] # "crashed"
    BY DEF ChildStep, Accept, ChildRead, ChildLookup, ChildFault, ChildWrite, ChildWriteLost
  <2>2. QED
    BY <1>0, <2>1, HeardKept
<1>2. CASE cpc[c] \in Gone
  BY <1>0, <1>1, <1>2 DEF Talk, Gone
<1>3. CASE cpc[c] \notin Gone
  <2> USE DEF TypeOK, conn
  <2>1. CASE cpc[c] \in {"prompt", "connect"}
    <3>1. FALSE
      BY <1>3, <2>1 DEF Talk, Prompting, Connecting, Quiet, ChildStep, Accept, ChildRead, ChildLookup,
                 ChildFault, ChildWrite, ChildWriteLost, Dead
    <3>2. QED
      BY <3>1
  <2>2. CASE cpc[c] = "write"
    <3>1. child[c] = "backlog" /\ child'[c] = "read" /\ Sending(c)
      BY <1>3, <2>2 DEF Talk, Sending, Quiet, ChildStep, Accept, ChildRead, ChildLookup,
                 ChildFault, ChildWrite, ChildWriteLost
    <3>2. UNCHANGED <<first_time, up, down>>
      BY <3>1 DEF ChildStep, Accept, ChildRead, ChildLookup, ChildFault, ChildWrite, ChildWriteLost
    <3>3. Sending(c)'
      BY <1>0, <3>1, <3>2 DEF Sending, Due, LastAsked, Quiet, Fresh
    <3>4. QED
      BY <1>0, <1>1, <2>2, <3>3 DEF Talk
  <2>3. CASE cpc[c] = "read"
    <3>0. Waiting(c) /\ Due(c) /\ Due(c)' /\ LastAsked(c)' = LastAsked(c)
      BY <1>0, <2>3 DEF Talk, Waiting, Due, LastAsked
    <3>1. CASE Accept(c)
      <4>1. child[c] = "backlog" /\ child'[c] = "read" /\ UNCHANGED <<first_time, up, down>>
        BY <3>1 DEF Accept
      <4>2. Waiting(c)'
        BY <1>0, <3>0, <4>1 DEF Waiting, Fresh
      <4>3. QED
        BY <1>0, <1>1, <2>3, <4>2 DEF Talk
    <3>2. CASE ChildRead(c)
      <4>1. /\ child[c] = "read" /\ child'[c] = "lookup" /\ up[c] # <<>> /\ tryit'[c] = Head(up[c])
            /\ up'[c] = Tail(up[c]) /\ UNCHANGED <<first_time, down>>
        BY <1>3, <3>2 DEF ChildRead
      <4>2. Fresh(c) /\ Len(up[c]) = 1 /\ up[c][1].word = LastAsked(c) /\ down[c] = <<>>
        BY <3>0, <4>1 DEF Waiting, Quiet
      <4>3. tryit'[c] = up[c][1] /\ up'[c] = <<>>
        BY <4>1, <4>2, Single
      <4>4. Waiting(c)'
        BY <1>0, <3>0, <4>1, <4>2, <4>3 DEF Waiting, Fresh, Quiet
      <4>5. QED
        BY <1>0, <1>1, <2>3, <4>4 DEF Talk
    <3>3. CASE ChildLookup(c)
      <4>1. PICK t \in TextsFound(tryit[c].word, first_time[c]) :
              tryit' = [tryit EXCEPT ![c] = [tryit[c] EXCEPT !.text = t]]
        BY <3>3 DEF ChildLookup
      <4>2. tryit'[c] = [word |-> tryit[c].word, text |-> t]
        BY <4>1, Fields
      <4>3. child[c] = "lookup" /\ child'[c] = "write" /\ UNCHANGED <<up, down>>
        BY <3>3 DEF ChildLookup
      <4>4. Fresh(c) /\ tryit[c].word = LastAsked(c) /\ Quiet(c)
        BY <3>0, <4>3 DEF Waiting
      <4>5. t = TextOf(LastAsked(c)) \/ (Len(asked[c]) > 1 /\ t = NotFound)
        BY <3>0, <4>1, <4>4 DEF TextsFound, Fresh, Due
      <4>6. Fits(c, tryit[c])'
        BY <1>0, <3>0, <4>2, <4>4, <4>5 DEF Fits
      <4>7. Waiting(c)'
        BY <3>0, <4>3, <4>4, <4>6 DEF Waiting, Quiet
      <4>8. QED
        BY <1>0, <1>1, <2>3, <4>7 DEF Talk
    <3>4. CASE ChildFault(c)
      <4>1. /\ child[c] = "lookup" /\ child'[c] = "crashed" /\ ~first_time[c]
            /\ UNCHANGED <<up, down>>
        BY <3>4 DEF ChildFault
      <4>2. Fresh(c) /\ Quiet(c)
        BY <3>0, <4>1 DEF Waiting
      <4>3. Len(asked'[c]) > 1
        BY <1>0, <3>0, <4>1, <4>2 DEF Fresh, Due
      <4>4. Waiting(c)'
        BY <3>0, <4>1, <4>2, <4>3 DEF Waiting, Quiet
      <4>5. QED
        BY <1>0, <1>1, <2>3, <4>4 DEF Talk
    <3>5. CASE ChildWrite(c)
      <4>1. /\ child[c] = "write" /\ child'[c] = "read" /\ up' = up
            /\ down'[c] = Append(down[c], tryit[c])
        BY <3>5 DEF ChildWrite
      <4>2. Fits(c, tryit[c]) /\ Quiet(c)
        BY <3>0, <4>1 DEF Waiting
      <4>3. Len(down'[c]) = 1 /\ down'[c][1] = tryit[c]
        BY <4>1, <4>2 DEF Quiet
      <4>4. Fits(c, down[c][1])'
        BY <1>0, <3>0, <4>2, <4>3 DEF Fits
      <4>5. Waiting(c)'
        BY <3>0, <4>1, <4>2, <4>3, <4>4 DEF Waiting, Quiet
      <4>6. QED
        BY <1>0, <1>1, <2>3, <4>5 DEF Talk
    <3>6. QED
      BY <1>3, <3>1, <3>2, <3>3, <3>4, <3>5 DEF ChildStep, ChildWriteLost
  <2>4. QED
    BY <1>3, <2>1, <2>2, <2>3
<1>4. QED
  BY <1>2, <1>3

\* One more record is printed, for the word that was due.
LEMMA OneHeard ==
  ASSUME TypeOK, NEW c \in Clients, Heard(c), Due(c), NEW r \in Dictrec,
         Fits(c, r) \/ (Len(asked[c]) > 1 /\ child[c] = "crashed"),
         printed'[c] = Append(printed[c], r), asked'[c] = asked[c], child'[c] = child[c]
  PROVE  Heard(c)' /\ Len(printed'[c]) = Len(asked'[c]) /\ Len(printed'[c]) # 0
<1> DEFINE n == Len(printed[c]) + 1
<1>1. /\ Len(printed'[c]) = n /\ n \in Nat \ {0} /\ printed'[c][n] = r
      /\ \A i \in 1 .. Len(printed[c]) : printed'[c][i] = printed[c][i]
  BY DEF TypeOK
<1>2. n = Len(asked[c])
  BY DEF Due
<1>3. r = [word |-> r.word, text |-> r.text]
  BY DEF Dictrec
<1>4. ASSUME NEW i \in 1 .. Len(printed'[c])
      PROVE  \/ Right(c, i)'
             \/ i > 1 /\ printed'[c][i] = [word |-> asked'[c][i], text |-> NotFound]
             \/ i > 1 /\ child'[c] = "crashed"
  <2>1. CASE i = n
    <3>1. CASE Fits(c, r)
      <4>1. r.word = asked[c][n]
        BY <1>2, <3>1 DEF Fits, LastAsked
      <4>2. r.text = TextOf(asked[c][n]) \/ (n > 1 /\ r.text = NotFound)
        BY <1>2, <3>1 DEF Fits, LastAsked
      <4>3. QED
        BY <1>1, <1>3, <2>1, <4>1, <4>2 DEF Right
    <3>2. CASE Len(asked[c]) > 1 /\ child[c] = "crashed"
      BY <1>2, <2>1, <3>2
    <3>3. QED
      BY <3>1, <3>2
  <2>2. CASE i \in 1 .. Len(printed[c])
    BY <1>1, <2>2 DEF Heard, Right
  <2>3. QED
    BY <1>1, <1>4, <2>1, <2>2
<1>5. QED
  BY <1>1, <1>2, <1>4 DEF Heard

\* The client's side of the dialogue.
LEMMA ClientTalks ==
  ASSUME TypeOK, NEW c \in Clients, Talk(c), Heard(c), AskerStep(c)
  PROVE  Talk(c)' /\ Heard(c)'
<1> USE DEF srv, conn
<1>0. Len(printed[c]) <= Len(asked[c]) /\ asked' = asked
  BY DEF AskerStep, Connect, ClientWrite, ClientWriteLost, ClientRead, ClientReadEnd, ClientReadFails,
         ClientKill, Talk
<1>1. ASSUME printed' = printed, child[c] = "crashed" => child'[c] = "crashed",
             cpc'[c] \in Gone \/ (cpc'[c] = "write" /\ Sending(c)') \/ (cpc'[c] = "read" /\ Waiting(c)')
      PROVE  Talk(c)' /\ Heard(c)'
  <2>1. Heard(c)'
    BY <1>0, <1>1, HeardKept
  <2>2. QED
    BY <1>0, <1>1, <2>1 DEF Talk, Gone
<1>2. ASSUME NEW r \in Dictrec, Due(c), printed'[c] = Append(printed[c], r), child' = child,
             Fits(c, r) \/ (Len(asked[c]) > 1 /\ child[c] = "crashed"),
             cpc'[c] = "prompt", Quiet(c)', child[c] \in {"read", "crashed"}
      PROVE  Talk(c)' /\ Heard(c)'
  <2>1. Heard(c)' /\ Len(printed'[c]) = Len(asked'[c]) /\ Len(printed'[c]) # 0
    BY <1>0, <1>2, OneHeard
  <2>2. Prompting(c)'
    BY <1>2, <2>1 DEF Prompting, Fresh, Dead
  <2>3. QED
    BY <1>0, <1>2, <2>1, <2>2 DEF Talk, TypeOK
<1>3. CASE Connect(c)
  <2>1. Connecting(c) /\ UNCHANGED <<first_time, tryit, up, down, sought, printed>>
    BY <1>3 DEF Connect, Talk
  <2>2. CASE listening
    <3>1. cpc'[c] = "write" /\ child'[c] = "backlog"
      BY <1>3, <2>2 DEF Connect, TypeOK
    <3>2. Sending(c)'
      BY <1>0, <2>1, <3>1 DEF Connecting, Sending, Due, LastAsked, Quiet, Fresh
    <3>3. QED
      BY <1>1, <2>1, <3>1, <3>2 DEF Connecting
  <2>3. CASE ~listening
    <3>1. cpc'[c] = "failure" /\ child'[c] = child[c]
      BY <1>3, <2>3 DEF Connect, TypeOK
    <3>2. QED
      BY <1>1, <2>1, <3>1 DEF Gone
  <2>4. QED
    BY <2>2, <2>3
<1>4. CASE ClientWrite(c)
  <2>1. /\ Sending(c) /\ child[c] \in {"backlog", "read"} /\ cpc'[c] = "read"
        /\ up'[c] = Append(up[c], sought[c])
        /\ UNCHANGED <<child, first_time, tryit, down, sought, printed>>
    BY <1>4 DEF ClientWrite, Talk, Sending, Dead, TypeOK
  <2>2. Len(up'[c]) = 1 /\ up'[c][1] = sought[c]
    BY <2>1 DEF Sending, Quiet
  <2>3. Waiting(c)'
    BY <1>0, <2>1, <2>2 DEF Sending, Waiting, Due, LastAsked, Quiet, Fresh
  <2>4. QED
    BY <1>1, <2>1, <2>3
<1>5. ASSUME NEW next \in {"killed", "read"}, ClientWriteLost(c, next) PROVE Talk(c)' /\ Heard(c)'
  <2>1. /\ Sending(c) /\ child[c] = "crashed" /\ Len(asked[c]) > 1 /\ cpc'[c] = next
        /\ UNCHANGED <<child, up, down, printed>>
    BY <1>5 DEF ClientWriteLost, Talk, Sending, Dead, TypeOK
  <2>2. Waiting(c)'
    BY <1>0, <2>1 DEF Sending, Waiting, Due, Quiet
  <2>3. QED
    BY <1>1, <2>1, <2>2 DEF Gone
<1>6. CASE ClientRead(c)
  <2>1. /\ Waiting(c) /\ down[c] # <<>> /\ cpc'[c] = "prompt" /\ down'[c] = Tail(down[c])
        /\ printed'[c] = Append(printed[c], Head(down[c])) /\ UNCHANGED <<child, up>>
    BY <1>6 DEF ClientRead, PrintRecord, Talk, TypeOK
  <2>2. /\ child[c] = "read" /\ up[c] = <<>> /\ Len(down[c]) = 1 /\ Fits(c, down[c][1]) /\ Due(c)
    BY <2>1 DEF Waiting, Quiet
  <2>3. Head(down[c]) = down[c][1] /\ down'[c] = <<>>
    BY <2>1, <2>2, Single DEF TypeOK
  <2>4. down[c][1] \in Dictrec
    <3>1. down[c][1] \in Answers
      <4>1. down[c] \in Seq(Answers) /\ 1 \in 1 .. Len(down[c])
        BY <2>2 DEF TypeOK
      <4>2. QED
        BY <4>1
    <3>2. QED
      BY <3>1 DEF Answers, Dictrec, Texts
  <2>5. QED
    BY <1>2, <2>1, <2>2, <2>3, <2>4 DEF Quiet
<1>7. CASE ClientReadEnd(c)
  <2>1. /\ Waiting(c) /\ Dead(c) /\ cpc'[c] = "prompt" /\ sought[c] \in Dictrec
        /\ printed'[c] = Append(printed[c], sought[c]) /\ UNCHANGED <<child, up, down>>
    BY <1>7 DEF ClientReadEnd, PrintRecord, Talk, TypeOK
  <2>2. child[c] = "crashed" /\ Len(asked[c]) > 1 /\ Quiet(c) /\ Due(c)
    BY <2>1 DEF Waiting, Dead
  <2>3. QED
    BY <1>2, <2>1, <2>2 DEF Quiet
<1>8. CASE ClientReadFails(c) \/ ClientKill(c)
  <2>1. cpc'[c] \in Gone /\ UNCHANGED <<child, printed>>
    BY <1>8 DEF ClientReadFails, ClientKill, TypeOK, Gone
  <2>2. QED
    BY <1>1, <2>1
<1>9. QED
  BY <1>3, <1>4, <1>5, <1>6, <1>7, <1>8 DEF AskerStep

\* The user's side.
LEMMA UserTalks ==
  ASSUME TypeOK, NEW c \in Clients, Talk(c), Heard(c), UserStep(c)
  PROVE  Talk(c)' /\ Heard(c)'
<1> USE DEF srv, conn
<1>1. CASE Quit(c)
  <2>1. cpc'[c] = "done" /\ UNCHANGED <<child, asked, printed>> /\ Len(printed[c]) <= Len(asked[c])
    BY <1>1 DEF Quit, TypeOK, Talk
  <2>2. QED
    BY <2>1, HeardKept DEF Talk
<1>2. ASSUME NEW w \in Words, Ask(c, w) PROVE Talk(c)' /\ Heard(c)'
  <2>1. /\ Prompting(c) /\ asked'[c] = Append(asked[c], w)
        /\ UNCHANGED <<child, first_time, tryit, up, down, printed>>
        /\ cpc'[c] = IF asked[c] = <<>> THEN "connect" ELSE "write"
    BY <1>2 DEF Ask, TypeOK, Talk
  <2>2. sought'[c].word = w
    <3>1. sought'[c] = [sought[c] EXCEPT !.word = w] /\ sought[c] \in Dictrec
      BY <1>2 DEF Ask, TypeOK
    <3>2. QED
      BY <3>1, Fields
  <2>3. /\ Len(asked'[c]) = Len(asked[c]) + 1 /\ Len(asked[c]) \in Nat
        /\ LastAsked(c)' = w /\ (asked[c] = <<>> <=> Len(asked[c]) = 0)
    <3>1. asked[c] \in Seq(Words)
      BY DEF TypeOK
    <3>2. QED
      BY <2>1, <3>1, AppendProperties, EmptySeq DEF LastAsked
  <2>4. Due(c)' /\ Quiet(c)' /\ Fresh(c)'
    BY <2>1, <2>3 DEF Prompting, Due, Quiet, Fresh
  <2>5. CASE asked[c] = <<>>
    <3>1. Connecting(c)'
      BY <2>1, <2>2, <2>3, <2>4, <2>5 DEF Prompting, Connecting
    <3>2. Len(printed'[c]) <= Len(asked'[c]) /\ Len(printed[c]) <= Len(asked[c])
      BY <2>1, <2>3 DEF Prompting
    <3>3. QED
      BY <1>2, <2>1, <2>5, <3>1, <3>2, HeardKept DEF Talk
  <2>6. CASE asked[c] # <<>>
    <3>1. child[c] \in {"read", "crashed"} /\ Len(asked'[c]) > 1
      BY <2>1, <2>3, <2>6 DEF Prompting
    <3>2. Sending(c)'
      BY <2>1, <2>2, <2>3, <2>4, <3>1 DEF Sending
    <3>3. Len(printed'[c]) <= Len(asked'[c]) /\ Len(printed[c]) <= Len(asked[c])
      BY <2>1, <2>3 DEF Prompting
    <3>4. QED
      BY <1>2, <2>1, <2>6, <3>2, <3>3, HeardKept DEF Talk
  <2>7. QED
    BY <2>5, <2>6
<1>3. QED
  BY <1>1, <1>2 DEF UserStep

\* The dialogue never slips by one answer, whatever the other children and clients
\* do and wherever lookup5 searches.
THEOREM Dialogues == Spec => []NeverSlips
<1> DEFINE AllTalk == \A c \in Clients : Talk(c) /\ Heard(c)
<1>1. Init => AllTalk
  BY DEF Init, Talk, Heard, Prompting, Quiet, Fresh
<1>2. TypeOK /\ AllTalk /\ [Next]_vars => AllTalk'
  <2> SUFFICES ASSUME TypeOK, AllTalk, [Next]_vars, NEW d \in Clients PROVE Talk(d)' /\ Heard(d)'
    OBVIOUS
  <2>1. CASE ServerStart \/ UNCHANGED vars
    <3>1. Same(d)
      BY <2>1 DEF ServerStart, Same, vars, conn
    <3>2. QED
      BY <3>1, Frame
  <2>2. ASSUME NEW c \in Clients, ChildStep(c) \/ UserStep(c) \/ AskerStep(c)
        PROVE  Talk(d)' /\ Heard(d)'
    <3>1. CASE d = c
      BY <2>2, <3>1, ChildTalks, UserTalks, ClientTalks
    <3>2. CASE d # c
      BY <2>2, <3>2, Elsewhere, Frame
    <3>3. QED
      BY <3>1, <3>2
  <2>3. QED
    BY <2>1, <2>2, Steps
<1>3. AllTalk => NeverSlips
  BY DEF Heard, NeverSlips
<1>4. QED
  BY <1>1, <1>2, <1>3, TypeCorrect, PTL DEF Spec
=============================================================================
