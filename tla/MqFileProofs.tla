---------------------------- MODULE MqFileProofs ----------------------------
(***************************************************************************)
(* Proofs about MqFile for any number of clients, files, server runs and   *)
(* crashes: type correctness; that every message around belongs to a       *)
(* client of its own, so that no reply is in excess; and that clients that *)
(* run one after the other receive what they asked for.                    *)
(***************************************************************************)
EXTENDS MqFile, SequenceTheorems, FunctionTheorems, FiniteSetTheorems, TLAPS

Queues == 1 .. Len(msgs)

\* mq_open changes no queue that is there, and finds or makes one.
LEMMA Opening ==
  ASSUME msgs \in Seq(Seq(Files)), NEW name \in 0 .. Len(msgs), msgs' = MsgsAfterOpen(name)
  PROVE  /\ msgs' \in Seq(Seq(Files)) /\ Len(msgs) <= Len(msgs') /\ Len(msgs') \in Nat
         /\ Opened(name) \in 1 .. Len(msgs')
         /\ \A q \in Queues : msgs'[q] = msgs[q]
         /\ \A q \in 1 .. Len(msgs') : q \notin Queues => msgs'[q] = <<>>
<1>0. Len(msgs) \in Nat
  OBVIOUS
<1>1. CASE name # 0
  BY <1>0, <1>1 DEF MsgsAfterOpen, Opened, Queues
<1>2. CASE name = 0
  <2>1. msgs' = Append(msgs, <<>>) /\ <<>> \in Seq(Files)
    BY <1>2, EmptySeq DEF MsgsAfterOpen
  <2>2. /\ msgs' \in Seq(Seq(Files)) /\ Len(msgs') = Len(msgs) + 1 /\ msgs'[Len(msgs) + 1] = <<>>
        /\ \A q \in Queues : msgs'[q] = msgs[q]
    BY <2>1, AppendProperties DEF Queues
  <2>3. QED
    BY SMTT(30), <1>0, <1>2, <2>2 DEF Opened, Queues
<1>3. QED
  BY <1>1, <1>2

\* mq_send: one more message, at the end of its queue.
LEMMA Sending ==
  ASSUME msgs \in Seq(Seq(Files)), NEW q \in Queues, NEW m \in Files, Send(q, m)
  PROVE  /\ msgs' \in Seq(Seq(Files)) /\ Len(msgs') = Len(msgs)
         /\ Len(msgs[q]) \in Nat /\ Len(msgs'[q]) = Len(msgs[q]) + 1
         /\ \A k \in 1 .. Len(msgs[q]) : msgs'[q][k] = msgs[q][k]
         /\ msgs'[q][Len(msgs[q]) + 1] = m
         /\ \A r \in Queues : r # q => msgs'[r] = msgs[r]
<1>1. msgs[q] \in Seq(Files)
  BY ElementOfSeq DEF Queues
<1>2. /\ Append(msgs[q], m) \in Seq(Files) /\ Len(Append(msgs[q], m)) = Len(msgs[q]) + 1
      /\ Len(msgs[q]) \in Nat /\ Append(msgs[q], m)[Len(msgs[q]) + 1] = m
      /\ \A k \in 1 .. Len(msgs[q]) : Append(msgs[q], m)[k] = msgs[q][k]
  BY <1>1, AppendProperties
<1>3. msgs' = [msgs EXCEPT ![q] = Append(msgs[q], m)]
  BY DEF Send
<1>4. msgs' \in Seq(Seq(Files)) /\ Len(msgs') = Len(msgs)
  BY <1>2, <1>3, ExceptSeq DEF Queues
<1>5. \A r \in Queues : msgs'[r] = IF r = q THEN Append(msgs[q], m) ELSE msgs[r]
  BY <1>2, <1>3, ExceptSeq DEF Queues
<1>6. QED
  BY <1>2, <1>4, <1>5

\* mq_receive: the first message goes, the others move up.
LEMMA Receiving ==
  ASSUME msgs \in Seq(Seq(Files)), NEW q \in Queues, Receive(q)
  PROVE  /\ msgs' \in Seq(Seq(Files)) /\ Len(msgs') = Len(msgs)
         /\ Len(msgs[q]) \in Nat \ {0} /\ Len(msgs'[q]) = Len(msgs[q]) - 1
         /\ \A k \in 1 .. Len(msgs'[q]) : msgs'[q][k] = msgs[q][k + 1]
         /\ Head(msgs[q]) = msgs[q][1] /\ Head(msgs[q]) \in Files
         /\ \A r \in Queues : r # q => msgs'[r] = msgs[r]
<1>1. msgs[q] \in Seq(Files) /\ msgs[q] # <<>>
  BY ElementOfSeq DEF Queues, Receive
<1>2. /\ Tail(msgs[q]) \in Seq(Files) /\ Len(Tail(msgs[q])) = Len(msgs[q]) - 1
      /\ Head(msgs[q]) \in Files /\ Len(msgs[q]) \in Nat \ {0}
      /\ \A k \in 1 .. Len(Tail(msgs[q])) : Tail(msgs[q])[k] = msgs[q][k + 1]
  BY <1>1, HeadTailProperties, EmptySeq
<1>3. msgs' = [msgs EXCEPT ![q] = Tail(msgs[q])]
  BY DEF Receive
<1>4. msgs' \in Seq(Seq(Files)) /\ Len(msgs') = Len(msgs)
  BY <1>2, <1>3, ExceptSeq DEF Queues
<1>5. \A r \in Queues : msgs'[r] = IF r = q THEN Tail(msgs[q]) ELSE msgs[r]
  BY <1>2, <1>3, ExceptSeq DEF Queues
<1>6. Head(msgs[q]) = msgs[q][1]
  BY <1>1
<1>7. QED
  BY <1>2, <1>4, <1>5, <1>6

LEMMA TypeInit == Init => TypeOK
<1> SUFFICES ASSUME Init PROVE TypeOK
  OBVIOUS
<1>1. buf \in Files /\ got \in [Clients -> Files] /\ path \in [Clients -> Files]
  BY FilesAssumption DEF Init
<1>2. msgs \in Seq(Seq(Files)) /\ Len(msgs) = 0
  BY EmptySeq DEF Init
<1>3. QED
  BY <1>1, <1>2, BoundsAssumption DEF Init, TypeOK

LEMMA TypeStep == TypeOK /\ [Next]_vars => TypeOK'
<1> SUFFICES ASSUME TypeOK, [Next]_vars PROVE TypeOK'
  OBVIOUS
<1>0. msgs \in Seq(Seq(Files)) /\ sname \in 0 .. Len(msgs) /\ cname \in 0 .. Len(msgs) /\ Len(msgs) \in Nat
  BY DEF TypeOK
<1> USE <1>0, BoundsAssumption DEF names, server
<1>1. CASE ServerStart
  <2>1. /\ msgs' \in Seq(Seq(Files)) /\ Len(msgs) <= Len(msgs') /\ Len(msgs') \in Nat
        /\ sname' \in 1 .. Len(msgs') /\ smqd' = sname'
    BY <1>1, Opening DEF ServerStart
  <2>2. QED
    BY <1>1, <2>1 DEF TypeOK, ServerStart
<1>2. CASE ServerReceive
  <2>1. smqd \in Queues
    BY <1>2 DEF TypeOK, ServerReceive, Queues
  <2>2. msgs' \in Seq(Seq(Files)) /\ Len(msgs') = Len(msgs) /\ buf' \in Files
    BY <1>2, <2>1, Receiving DEF ServerReceive
  <2>3. QED
    BY <1>2, <2>2 DEF TypeOK, ServerReceive
<1>3. CASE ServerOpen
  <2>1. /\ msgs' \in Seq(Seq(Files)) /\ Len(msgs) <= Len(msgs') /\ Len(msgs') \in Nat
        /\ cname' \in 1 .. Len(msgs') /\ rmqd' = cname'
    BY <1>3, Opening DEF ServerOpen
  <2>2. smqd' \in 1 .. Len(msgs') /\ sname' \in 0 .. Len(msgs')
    BY <1>3, <2>1 DEF TypeOK, ServerOpen
  <2>3. cmqd' \in [Clients -> 0 .. Len(msgs')]
    BY <1>3, <2>1 DEF TypeOK, ServerOpen
  <2>4. spc' = "send" /\ rmqd' \in 1 .. Len(msgs') /\ cname' \in 0 .. Len(msgs')
    BY <1>3, <2>1 DEF ServerOpen
  <2>5. QED
    BY <1>3, <2>1, <2>2, <2>3, <2>4 DEF TypeOK, ServerOpen
<1>4. CASE ServerMissing \/ ServerKill
  BY <1>4 DEF TypeOK, ServerMissing, ServerKill
<1>5. CASE ServerSend
  <2>1. rmqd \in Queues /\ buf \in Files
    BY <1>5 DEF TypeOK, ServerSend, Queues
  <2>2. msgs' \in Seq(Seq(Files)) /\ Len(msgs') = Len(msgs)
    BY <1>5, <2>1, Sending DEF ServerSend
  <2>3. QED
    BY <1>5, <2>2 DEF TypeOK, ServerSend
<1>6. ASSUME NEW c \in Clients, ClientStart(c) PROVE TypeOK'
  <2>1. /\ msgs' \in Seq(Seq(Files)) /\ Len(msgs) <= Len(msgs') /\ Len(msgs') \in Nat
        /\ sname' \in 1 .. Len(msgs') /\ cmqd' = [cmqd EXCEPT ![c] = sname']
    BY <1>6, Opening DEF ClientStart
  <2>2. QED
    BY SMTT(30), <1>6, <2>1 DEF TypeOK, ClientStart
<1>7. ASSUME NEW c \in Clients, ClientSend(c) PROVE TypeOK'
  <2>1. cmqd[c] \in Queues /\ path[c] \in Files
    BY <1>7 DEF TypeOK, ClientSend, Queues
  <2>2. msgs' \in Seq(Seq(Files)) /\ Len(msgs') = Len(msgs)
    BY <1>7, <2>1, Sending DEF ClientSend
  <2>3. QED
    BY <1>7, <2>2 DEF TypeOK, ClientSend
<1>8. ASSUME NEW c \in Clients, ClientOpen(c) PROVE TypeOK'
  <2>1. /\ msgs' \in Seq(Seq(Files)) /\ Len(msgs) <= Len(msgs') /\ Len(msgs') \in Nat
        /\ cname' \in 1 .. Len(msgs') /\ cmqd' = [cmqd EXCEPT ![c] = cname']
    BY <1>8, Opening DEF ClientOpen
  <2>2. QED
    BY SMTT(30), <1>8, <2>1 DEF TypeOK, ClientOpen
<1>9. ASSUME NEW c \in Clients, ClientReceive(c) PROVE TypeOK'
  <2>1. cmqd[c] \in Queues
    BY <1>9 DEF TypeOK, ClientReceive, Queues
  <2>2. msgs' \in Seq(Seq(Files)) /\ Len(msgs') = Len(msgs) /\ got' \in [Clients -> Files]
    BY <1>9, <2>1, Receiving DEF ClientReceive, TypeOK
  <2>3. QED
    BY <1>9, <2>2 DEF TypeOK, ClientReceive
<1>10. ASSUME NEW c \in Clients, ClientExit(c) \/ ClientKill(c) PROVE TypeOK'
  <2>1. /\ cpc' \in [Clients -> {"start", "send", "open", "receive", "exit", "success",
                                "failure", "killed"}]
        /\ \A d \in Clients : cpc'[d] \in {"send", "receive"} => cpc[d] = cpc'[d]
    BY <1>10 DEF TypeOK, ClientExit, ClientKill
  <2>2. cname' \in 0 .. Len(msgs) /\ UNCHANGED <<sname, msgs, server, path, cmqd, got>>
    BY <1>10 DEF ClientExit, ClientKill
  <2>3. QED
    BY <2>1, <2>2 DEF TypeOK
<1>11. CASE UNCHANGED vars
  BY <1>11 DEF TypeOK, vars
<1>12. QED
  BY <1>1, <1>2, <1>3, <1>4, <1>5, <1>6, <1>7, <1>8, <1>9, <1>10, <1>11
     DEF Next, ServerStep, ClientStep

\* Type correctness of the queues, the server and the clients.
THEOREM TypeCorrect == Spec => []TypeOK
BY TypeInit, TypeStep, PTL DEF Spec
-----------------------------------------------------------------------------
(***************************************************************************)
(* Every message in a queue, the one the server works on, and every file   *)
(* received is a token, and each has an owner of its own, who sent a       *)
(* request for that file.                                                  *)
(***************************************************************************)
Message(q, k) == <<"queue", q, k>>
InHand == <<"server", 0, 0>>
Held(c) == <<"client", c, 0>>

Token == ({"queue"} \X Nat \X Nat) \cup {InHand} \cup ({"client"} \X Clients \X {0})

Present(t) ==
  \/ t[1] = "queue" /\ t[2] \in Queues /\ t[3] \in 1 .. Len(msgs[t[2]])
  \/ t[1] = "server" /\ spc \in {"open", "send"}
  \/ t[1] = "client" /\ Received(t[2])

Tokens == {t \in Token : Present(t)}

FileOf(t) ==
  IF t[1] = "queue" THEN msgs[t[2]][t[3]] ELSE IF t[1] = "server" THEN buf ELSE got[t[2]]

Sent == {c \in Clients : cpc[c] \notin {"start", "send"}}

\* No client is started before the others have ended, and none was killed.
Orderly == oneAtATime /\ Killed = {}

\* With clients in order, each owns the file it received.
Owners(own) ==
  /\ own \in [Tokens -> Sent]
  /\ \A t, u \in Tokens : own[t] = own[u] => t = u
  /\ \A t \in Tokens : path[own[t]] = FileOf(t)
  /\ Orderly => \A c \in Clients : Received(c) => own[Held(c)] = c

Owned == \E own \in [Tokens -> Sent] : Owners(own)

\* The three kinds of token are different things.
LEMMA Apart ==
  /\ \A q, k : Message(q, k)[1] = "queue" /\ Message(q, k)[2] = q /\ Message(q, k)[3] = k
  /\ InHand[1] = "server"
  /\ \A c : Held(c)[1] = "client" /\ Held(c)[2] = c
BY DEF Message, InHand, Held

\* What the tokens are, before and after a step.
LEMMA Kinds ==
  /\ \A q \in Queues : \A k \in 1 .. Len(msgs[q]) : Message(q, k) \in Tokens
  /\ spc \in {"open", "send"} <=> InHand \in Tokens
  /\ \A c \in Clients : Received(c) <=> Held(c) \in Tokens
  /\ \A t \in Tokens : \/ \E q \in Queues : \E k \in 1 .. Len(msgs[q]) : t = Message(q, k)
                       \/ t = InHand
                       \/ \E c \in Clients : t = Held(c)
<1>1. ASSUME NEW q \in Queues, NEW k \in 1 .. Len(msgs[q]) PROVE Message(q, k) \in Tokens
  <2>1. Message(q, k) \in Token
    BY DEF Token, Message, Queues
  <2>2. Present(Message(q, k))
    BY Apart DEF Present
  <2>3. QED
    BY <2>1, <2>2 DEF Tokens
<1>2. spc \in {"open", "send"} <=> InHand \in Tokens
  <2>1. InHand \in Token
    BY DEF Token
  <2>2. Present(InHand) <=> spc \in {"open", "send"}
    BY Apart DEF Present
  <2>3. QED
    BY <2>1, <2>2 DEF Tokens
<1>3. ASSUME NEW c \in Clients PROVE Received(c) <=> Held(c) \in Tokens
  <2>1. Held(c) \in Token
    BY DEF Token, Held
  <2>2. Present(Held(c)) <=> Received(c)
    BY Apart DEF Present
  <2>3. QED
    BY <2>1, <2>2 DEF Tokens
<1>4. ASSUME NEW t \in Tokens
      PROVE  \/ \E q \in Queues : \E k \in 1 .. Len(msgs[q]) : t = Message(q, k)
             \/ t = InHand
             \/ \E c \in Clients : t = Held(c)
  <2>1. t \in Token /\ Present(t)
    BY DEF Tokens
  <2>2. CASE t \in {"queue"} \X Nat \X Nat
    <3>1. t = Message(t[2], t[3]) /\ t[1] = "queue"
      BY <2>2 DEF Message
    <3>2. t[2] \in Queues /\ t[3] \in 1 .. Len(msgs[t[2]])
      BY <2>1, <3>1 DEF Present
    <3>3. QED
      BY <3>1, <3>2
  <2>3. CASE t \in {"client"} \X Clients \X {0}
    <3>1. t = Held(t[2]) /\ t[2] \in Clients
      BY <2>3 DEF Held
    <3>2. QED
      BY <3>1
  <2>4. QED
    BY <2>1, <2>2, <2>3 DEF Token
<1>5. QED
  BY <1>1, <1>2, <1>3, <1>4

LEMMA KindsAfter ==
  /\ \A q \in Queues' : \A k \in 1 .. Len(msgs'[q]) : Message(q, k) \in Tokens'
  /\ spc' \in {"open", "send"} <=> InHand \in Tokens'
  /\ \A c \in Clients : Received(c)' <=> Held(c) \in Tokens'
  /\ \A t \in Tokens' : \/ \E q \in Queues' : \E k \in 1 .. Len(msgs'[q]) : t = Message(q, k)
                        \/ t = InHand
                        \/ \E c \in Clients : t = Held(c)
<1>1. ASSUME NEW q \in Queues', NEW k \in 1 .. Len(msgs'[q]) PROVE Message(q, k) \in Tokens'
  <2>1. Message(q, k) \in Token
    BY DEF Token, Message, Queues
  <2>2. Present(Message(q, k))'
    BY Apart DEF Present
  <2>3. QED
    BY <2>1, <2>2 DEF Tokens
<1>2. spc' \in {"open", "send"} <=> InHand \in Tokens'
  <2>1. InHand \in Token
    BY DEF Token
  <2>2. Present(InHand)' <=> spc' \in {"open", "send"}
    BY Apart DEF Present
  <2>3. QED
    BY <2>1, <2>2 DEF Tokens
<1>3. ASSUME NEW c \in Clients PROVE Received(c)' <=> Held(c) \in Tokens'
  <2>1. Held(c) \in Token
    BY DEF Token, Held
  <2>2. Present(Held(c))' <=> Received(c)'
    BY Apart DEF Present
  <2>3. QED
    BY <2>1, <2>2 DEF Tokens
<1>4. ASSUME NEW t \in Tokens'
      PROVE  \/ \E q \in Queues' : \E k \in 1 .. Len(msgs'[q]) : t = Message(q, k)
             \/ t = InHand
             \/ \E c \in Clients : t = Held(c)
  <2>1. t \in Token /\ Present(t)'
    BY DEF Tokens
  <2>2. CASE t \in {"queue"} \X Nat \X Nat
    <3>1. t = Message(t[2], t[3]) /\ t[1] = "queue"
      BY <2>2 DEF Message
    <3>2. t[2] \in Queues' /\ t[3] \in 1 .. Len(msgs'[t[2]])
      BY <2>1, <3>1 DEF Present
    <3>3. QED
      BY <3>1, <3>2
  <2>3. CASE t \in {"client"} \X Clients \X {0}
    <3>1. t = Held(t[2]) /\ t[2] \in Clients
      BY <2>3 DEF Held
    <3>2. QED
      BY <3>1
  <2>4. QED
    BY <2>1, <2>2, <2>3 DEF Token
<1>5. QED
  BY <1>1, <1>2, <1>3, <1>4

\* A step that hands tokens on, each keeping its file, lets each keep its owner.
LEMMA Passed ==
  ASSUME NEW own, Owners(own), NEW g \in [Tokens' -> Tokens],
         \A t, u \in Tokens' : g[t] = g[u] => t = u,
         \A t \in Tokens' : FileOf(t)' = FileOf(g[t]),
         path' = path, Sent \subseteq Sent',
         Orderly' => \A c \in Clients : Received(c)' => own[g[Held(c)]] = c
  PROVE  Owned'
<1>0. PICK new : new = [t \in Tokens' |-> own[g[t]]]
  OBVIOUS
<1>1. new \in [Tokens' -> Sent']
  BY <1>0 DEF Owners
<1>2. \A t, u \in Tokens' : new[t] = new[u] => t = u
  BY <1>0 DEF Owners
<1>3. ASSUME NEW t \in Tokens' PROVE path'[new[t]] = FileOf(t)'
  BY <1>0 DEF Owners
<1>4. Orderly' => \A c \in Clients : Received(c)' => new[Held(c)] = c
  BY <1>0, KindsAfter
<1>5. Owners(new)'
  BY <1>1, <1>2, <1>3, <1>4 DEF Owners
<1>6. QED
  BY <1>1, <1>5 DEF Owned

\* A step that only keeps tokens, or drops some.
LEMMA Kept ==
  ASSUME Owned, Tokens' \subseteq Tokens,
         \A t \in Tokens' : FileOf(t)' = FileOf(t),
         path' = path, Sent \subseteq Sent', Orderly' => Orderly
  PROVE  Owned'
<1>1. PICK own \in [Tokens -> Sent] : Owners(own)
  BY DEF Owned
<1> DEFINE g == [t \in Tokens' |-> t]
<1>2. g \in [Tokens' -> Tokens] /\ \A t \in Tokens' : g[t] = t
  OBVIOUS
<1>3. \A t, u \in Tokens' : g[t] = g[u] => t = u
  BY <1>2
<1>4. \A t \in Tokens' : FileOf(t)' = FileOf(g[t])
  BY <1>2
<1>5. ASSUME Orderly', NEW c \in Clients, Received(c)' PROVE own[g[Held(c)]] = c
  <2>1. Held(c) \in Tokens'
    BY <1>5, KindsAfter
  <2>2. Received(c)
    BY <2>1, Kinds
  <2>3. QED
    BY <1>1, <1>2, <1>5, <2>1, <2>2 DEF Owners
<1> HIDE DEF g
<1>6. QED
  BY <1>1, <1>2, <1>3, <1>4, <1>5, Passed

\* The file of each kind of token, before and after a step.
LEMMA FilesOf ==
  /\ \A q, k : FileOf(Message(q, k)) = msgs[q][k] /\ FileOf(Message(q, k))' = msgs'[q][k]
  /\ FileOf(InHand) = buf /\ FileOf(InHand)' = buf'
  /\ \A c : FileOf(Held(c)) = got[c] /\ FileOf(Held(c))' = got'[c]
BY Apart DEF FileOf

\* No queue loses or gains a message, no file is taken into hand.
LEMMA Unmoved ==
  ASSUME Owned, Queues \subseteq Queues',
         \A q \in Queues : msgs'[q] = msgs[q],
         \A q \in Queues' : q \notin Queues => msgs'[q] = <<>>,
         spc' \in {"open", "send"} => spc \in {"open", "send"},
         \A c \in Clients : Received(c)' => Received(c),
         buf' = buf, got' = got, path' = path,
         Sent \subseteq Sent', Orderly' => Orderly
  PROVE  Owned'
<1>1. ASSUME NEW t \in Tokens' PROVE t \in Tokens /\ FileOf(t)' = FileOf(t)
  <2>1. ASSUME NEW q \in Queues', NEW k \in 1 .. Len(msgs'[q]), t = Message(q, k)
        PROVE  t \in Tokens /\ FileOf(t)' = FileOf(t)
    <3>1. q \in Queues
      <4>1. SUFFICES ASSUME q \notin Queues PROVE FALSE
        OBVIOUS
      <4>2. msgs'[q] = <<>> /\ Len(<<>>) = 0
        BY <4>1
      <4>3. QED
        BY <2>1, <4>2
    <3>2. QED
      BY <2>1, <3>1, Kinds, FilesOf
  <2>2. CASE t = InHand
    BY <2>2, Kinds, KindsAfter, FilesOf
  <2>3. ASSUME NEW c \in Clients, t = Held(c) PROVE t \in Tokens /\ FileOf(t)' = FileOf(t)
    BY <2>3, Kinds, KindsAfter, FilesOf
  <2>4. QED
    BY <2>1, <2>2, <2>3, KindsAfter
<1>2. QED
  BY <1>1, Kept

\* mq_receive: the first message of the queue becomes token h.
LEMMA Taken ==
  ASSUME msgs \in Seq(Seq(Files)), NEW own, Owners(own),
         NEW q \in Queues, Receive(q),
         NEW h, h[1] # "queue", h \notin Tokens, FileOf(h)' = Head(msgs[q]),
         \A t \in Tokens' : t[1] # "queue" /\ t # h => t \in Tokens /\ FileOf(t)' = FileOf(t),
         path' = path, Sent \subseteq Sent',
         Orderly' => \A c \in Clients : Received(c)' =>
                       /\ Held(c) = h => own[Message(q, 1)] = c
                       /\ Held(c) # h => own[Held(c)] = c
  PROVE  Owned'
<1>1. /\ Len(msgs') = Len(msgs) /\ Len(msgs[q]) \in Nat \ {0} /\ Len(msgs'[q]) = Len(msgs[q]) - 1
      /\ \A k \in 1 .. Len(msgs'[q]) : msgs'[q][k] = msgs[q][k + 1]
      /\ Head(msgs[q]) = msgs[q][1]
      /\ \A r \in Queues : r # q => msgs'[r] = msgs[r]
  BY Receiving
<1>2. Queues' = Queues
  BY <1>1 DEF Queues
<1> DEFINE From(t) == IF t = h THEN Message(q, 1)
                      ELSE IF t[1] = "queue" /\ t[2] = q THEN Message(q, t[3] + 1) ELSE t
           g == [t \in Tokens' |-> From(t)]
<1>3. ASSUME NEW t \in Tokens' PROVE From(t) \in Tokens /\ FileOf(t)' = FileOf(From(t))
  <2>1. CASE t = h
    BY <1>1, <2>1, Kinds, FilesOf
  <2>2. CASE t # h /\ t[1] # "queue"
    BY <2>2
  <2>3. CASE t # h /\ t[1] = "queue"
    <3>0. PICK r \in Queues : \E k \in 1 .. Len(msgs'[r]) : t = Message(r, k)
      <4>1. t # InHand /\ \A c : t # Held(c)
        BY <2>3, Apart
      <4>2. QED
        BY <1>2, <4>1, KindsAfter
    <3>1. PICK k \in 1 .. Len(msgs'[r]) : t = Message(r, k)
      BY <3>0
    <3>2. CASE r = q
      <4>1. From(t) = Message(q, k + 1) /\ k + 1 \in 1 .. Len(msgs[q])
        BY <1>1, <2>3, <3>1, <3>2, Apart
      <4>2. FileOf(t)' = msgs'[q][k] /\ msgs'[q][k] = msgs[q][k + 1]
        BY <1>1, <3>1, <3>2, FilesOf
      <4>3. FileOf(Message(q, k + 1)) = msgs[q][k + 1] /\ Message(q, k + 1) \in Tokens
        BY <4>1, Kinds, FilesOf
      <4>4. QED
        BY <4>1, <4>2, <4>3
    <3>3. CASE r # q
      <4>1. From(t) = Message(r, k) /\ msgs'[r] = msgs[r]
        BY <1>1, <2>3, <3>1, <3>3, Apart
      <4>2. Message(r, k) \in Tokens
        BY <3>1, <4>1, Kinds
      <4>3. FileOf(t)' = msgs'[r][k] /\ FileOf(Message(r, k)) = msgs[r][k]
        BY <3>1, FilesOf
      <4>4. QED
        BY <4>1, <4>2, <4>3
    <3>4. QED
      BY <3>2, <3>3
  <2>4. QED
    BY <2>1, <2>2, <2>3
<1>4. ASSUME NEW t \in Tokens', NEW u \in Tokens', From(t) = From(u) PROVE t = u
  <2>1. ASSUME NEW v \in Tokens'
        PROVE  \/ v = h /\ From(v) = Message(q, 1)
               \/ v # h /\ v[1] # "queue" /\ From(v) = v
               \/ \E r \in Queues : \E k \in Nat \ {0} :
                    v # h /\ v = Message(r, k) /\ From(v) = IF r = q THEN Message(q, k + 1) ELSE v
    <3>1. CASE v = h \/ v[1] # "queue"
      BY <3>1
    <3>2. CASE v # h /\ v[1] = "queue"
      <4>0. PICK r \in Queues : \E k \in 1 .. Len(msgs'[r]) : v = Message(r, k)
        BY <1>2, <3>2, KindsAfter, Apart
      <4>1. PICK k \in 1 .. Len(msgs'[r]) : v = Message(r, k)
        BY <4>0
      <4>2. From(v) = IF r = q THEN Message(q, k + 1) ELSE v
        BY <3>2, <4>1, Apart
      <4>3. QED
        BY <3>2, <4>1, <4>2
    <3>3. QED
      BY <3>1, <3>2
  <2> HIDE DEF From
  <2>2. CASE t = h
    <3>1. From(u) = Message(q, 1)
      BY <1>4, <2>1, <2>2, Apart
    <3>2. QED
      BY <2>1, <2>2, <3>1, Apart
  <2>3. CASE t # h /\ t[1] # "queue"
    BY <1>4, <2>1, <2>3, Apart
  <2>4. CASE t # h /\ t[1] = "queue"
    <3>1. PICK r \in Queues, k \in Nat \ {0} :
            t = Message(r, k) /\ From(t) = IF r = q THEN Message(q, k + 1) ELSE t
      BY <2>1, <2>4
    <3>2. PICK s \in Queues, j \in Nat \ {0} :
            u = Message(s, j) /\ From(u) = IF s = q THEN Message(q, j + 1) ELSE u
      <4>1. From(t)[1] = "queue" /\ From(t) # Message(q, 1)
        <5>1. CASE r = q
          <6>1. From(t) = Message(q, k + 1) /\ k + 1 # 1
            BY <3>1, <5>1
          <6>2. From(t)[3] = k + 1 /\ From(t)[1] = "queue" /\ Message(q, 1)[3] = 1
            BY <6>1, Apart
          <6>3. QED
            BY <6>1, <6>2
        <5>2. CASE r # q
          <6>1. From(t) = Message(r, k)
            BY <3>1, <5>2
          <6>2. From(t)[2] = r /\ From(t)[1] = "queue" /\ Message(q, 1)[2] = q
            BY <6>1, Apart
          <6>3. QED
            BY <5>2, <6>2
        <5>3. QED
          BY <5>1, <5>2
      <4>2. From(u)[1] = "queue" /\ From(u) # Message(q, 1)
        BY <1>4, <4>1
      <4>3. QED
        BY <2>1, <4>2, Apart
    <3>3. r = s
      BY <1>4, <3>1, <3>2, Apart
    <3>4. CASE r = q
      <4>1. k + 1 = j + 1
        <5>1. From(t) = Message(q, k + 1) /\ From(u) = Message(q, j + 1)
          BY <3>1, <3>2, <3>3, <3>4
        <5>2. Message(q, k + 1)[3] = k + 1 /\ Message(q, j + 1)[3] = j + 1
          BY Apart
        <5>3. QED
          BY <1>4, <5>1, <5>2
      <4>2. QED
        BY <3>1, <3>2, <3>3, <4>1
    <3>5. CASE r # q
      BY <1>4, <3>1, <3>2, <3>3, <3>5
    <3>6. QED
      BY <3>4, <3>5
  <2>5. QED
    BY <2>2, <2>3, <2>4
<1>5. ASSUME Orderly', NEW c \in Clients, Received(c)' PROVE own[From(Held(c))] = c
  BY <1>5, Apart
<1> HIDE DEF From
<1>6. g \in [Tokens' -> Tokens] /\ \A t \in Tokens' : g[t] = From(t)
  BY <1>3
<1> HIDE DEF g
<1>7. \A t, u \in Tokens' : g[t] = g[u] => t = u
  BY <1>4, <1>6
<1>8. \A t \in Tokens' : FileOf(t)' = FileOf(g[t])
  BY <1>3, <1>6
<1>9. Orderly' => \A c \in Clients : Received(c)' => own[g[Held(c)]] = c
  BY <1>5, <1>6, KindsAfter
<1>10. QED
  BY SMTT(30), <1>6, <1>7, <1>8, <1>9, Passed

\* mq_send: the queue has one token more, its last message.
LEMMA Longer ==
  ASSUME msgs \in Seq(Seq(Files)), NEW q \in Queues, NEW m \in Files, Send(q, m),
         NEW last, last = Message(q, Len(msgs[q]) + 1)
  PROVE  /\ last \notin Tokens /\ last[1] = "queue" /\ FileOf(last)' = m
         /\ \A t \in Tokens' : t[1] = "queue" /\ t # last => t \in Tokens /\ FileOf(t)' = FileOf(t)
<1>1. /\ Len(msgs') = Len(msgs) /\ Len(msgs[q]) \in Nat /\ Len(msgs'[q]) = Len(msgs[q]) + 1
      /\ \A k \in 1 .. Len(msgs[q]) : msgs'[q][k] = msgs[q][k]
      /\ msgs'[q][Len(msgs[q]) + 1] = m
      /\ \A r \in Queues : r # q => msgs'[r] = msgs[r]
  BY Sending
<1>2. Queues' = Queues
  BY <1>1 DEF Queues
<1>3. last[1] = "queue" /\ last[2] = q /\ last[3] = Len(msgs[q]) + 1
  BY Apart
<1>4. last \notin Tokens
  <2>1. ~Present(last)
    BY <1>1, <1>3 DEF Present
  <2>2. QED
    BY <2>1 DEF Tokens
<1>5. FileOf(last)' = m
  BY <1>1, FilesOf
<1>6. ASSUME NEW t \in Tokens', t[1] = "queue", t # last
      PROVE  t \in Tokens /\ FileOf(t)' = FileOf(t)
  <2>1. PICK r \in Queues : \E k \in 1 .. Len(msgs'[r]) : t = Message(r, k)
    <3>1. t # InHand /\ \A c : t # Held(c)
      BY <1>6, Apart
    <3>2. QED
      BY <1>2, <3>1, KindsAfter
  <2>2. PICK k \in 1 .. Len(msgs'[r]) : t = Message(r, k)
    BY <2>1
  <2>3. k \in 1 .. Len(msgs[r]) /\ msgs'[r][k] = msgs[r][k]
    <3>1. CASE r = q
      <4>1. k # Len(msgs[q]) + 1
        BY <1>6, <2>2, <3>1
      <4>2. k \in 1 .. Len(msgs[q])
        BY <1>1, <3>1, <4>1
      <4>3. QED
        BY <1>1, <3>1, <4>2
    <3>2. CASE r # q
      BY <1>1, <3>2
    <3>3. QED
      BY <3>1, <3>2
  <2>4. QED
    BY <2>2, <2>3, Kinds, FilesOf
<1>7. QED
  BY <1>3, <1>4, <1>5, <1>6

\* A request: the client that sends it owns it.
LEMMA Asked ==
  ASSUME TypeOK, Owned, NEW c \in Clients, ClientSend(c)
  PROVE  Owned'
<1>1. PICK own \in [Tokens -> Sent] : Owners(own)
  BY DEF Owned
<1>2. cpc[c] = "send" /\ cpc' = [cpc EXCEPT ![c] = "open"] /\ UNCHANGED <<oneAtATime, spc, buf, path, got>>
  BY DEF ClientSend, server
<1>3. Send(cmqd[c], path[c])
  BY DEF ClientSend
<1>4. msgs \in Seq(Seq(Files)) /\ path[c] \in Files /\ cmqd[c] \in Queues
  <2>1. msgs \in Seq(Seq(Files)) /\ path[c] \in Files /\ cmqd[c] \in 0 .. Len(msgs) /\ cmqd[c] # 0
    BY <1>2 DEF TypeOK
  <2>2. QED
    BY <2>1 DEF Queues
<1>5. cpc' = [d \in Clients |-> IF d = c THEN "open" ELSE cpc[d]]
  BY <1>2 DEF TypeOK
<1>6. PICK q \in Queues, m \in Files : q = cmqd[c] /\ m = path[c]
  BY <1>4
<1>7. PICK last : last = Message(q, Len(msgs[q]) + 1)
  OBVIOUS
<1>8. Send(q, m)
  BY <1>3, <1>6
<1>9. /\ last \notin Tokens /\ last[1] = "queue" /\ FileOf(last)' = m
      /\ \A t \in Tokens' : t[1] = "queue" /\ t # last => t \in Tokens /\ FileOf(t)' = FileOf(t)
  BY <1>4, <1>7, <1>8, Longer
<1>10. /\ last \notin Tokens /\ last[1] = "queue" /\ FileOf(last)' = path[c]
       /\ \A t \in Tokens' : t[1] = "queue" /\ t # last => t \in Tokens /\ FileOf(t)' = FileOf(t)
  BY <1>6, <1>9
<1>11. /\ \A d \in Clients : Received(d)' <=> Received(d)
       /\ Sent \subseteq Sent' /\ c \in Sent' /\ c \notin Sent
       /\ Orderly' => Orderly
  BY <1>2, <1>5 DEF Received, Sent, Orderly, Killed
<1>12. ASSUME NEW t \in Tokens', t # last PROVE t \in Tokens /\ FileOf(t)' = FileOf(t)
  <2>1. CASE t[1] = "queue"
    BY <1>10, <1>12, <2>1
  <2>2. CASE t[1] # "queue"
    <3>1. t = InHand \/ \E d \in Clients : t = Held(d)
      BY <2>2, KindsAfter, Apart
    <3>2. QED
      BY <1>2, <1>11, <3>1, Kinds, KindsAfter, FilesOf
  <2>3. QED
    BY <2>1, <2>2
<1>13. PICK new : new = [t \in Tokens' |-> IF t = last THEN c ELSE own[t]]
  OBVIOUS
<1>14. new \in [Tokens' -> Sent']
  BY <1>1, <1>11, <1>12, <1>13
<1>15. \A t, u \in Tokens' : new[t] = new[u] => t = u
  BY <1>1, <1>11, <1>12, <1>13 DEF Owners
<1>16. \A t \in Tokens' : path'[new[t]] = FileOf(t)'
  BY <1>1, <1>2, <1>10, <1>12, <1>13 DEF Owners
<1>17. Orderly' => \A d \in Clients : Received(d)' => new[Held(d)] = d
  <2>1. \A d : Held(d) # last
    BY <1>10, Apart
  <2>2. QED
    BY <1>1, <1>11, <1>13, <2>1, KindsAfter DEF Owners
<1>18. Owners(new)'
  BY <1>14, <1>15, <1>16, <1>17 DEF Owners
<1>19. QED
  BY <1>14, <1>18 DEF Owned

\* A reply: the token in the server's hand becomes a message.
LEMMA Replied ==
  ASSUME TypeOK, Owned, ServerSend
  PROVE  Owned'
<1>1. PICK own \in [Tokens -> Sent] : Owners(own)
  BY DEF Owned
<1>2. /\ msgs \in Seq(Seq(Files)) /\ rmqd \in Queues /\ buf \in Files
      /\ Send(rmqd, buf) /\ spc = "send" /\ spc' = "receive"
      /\ UNCHANGED <<oneAtATime, cpc, buf, path, got>>
  BY DEF ServerSend, TypeOK, Queues, names
<1>3. PICK last : last = Message(rmqd, Len(msgs[rmqd]) + 1)
  OBVIOUS
<1>4. /\ last \notin Tokens /\ last[1] = "queue" /\ FileOf(last)' = buf
      /\ \A t \in Tokens' : t[1] = "queue" /\ t # last => t \in Tokens /\ FileOf(t)' = FileOf(t)
  BY <1>2, <1>3, Longer
<1>5. Sent' = Sent /\ (Orderly' => Orderly) /\ \A d \in Clients : Received(d)' <=> Received(d)
  BY <1>2 DEF Received, Sent, Orderly, Killed
<1>6. ASSUME NEW t \in Tokens', t # last
      PROVE  t \in Tokens /\ FileOf(t)' = FileOf(t) /\ t # InHand
  <2>1. CASE t[1] = "queue"
    BY <1>4, <1>6, <2>1, Apart
  <2>2. CASE t[1] # "queue"
    <3>1. InHand \notin Tokens'
      BY <1>2, KindsAfter
    <3>2. PICK d \in Clients : t = Held(d)
      BY <2>2, <3>1, KindsAfter, Apart
    <3>3. QED
      BY <1>2, <1>5, <3>1, <3>2, Kinds, KindsAfter, FilesOf
  <2>3. QED
    BY <2>1, <2>2
<1>7. InHand \in Tokens /\ FileOf(InHand) = buf
  BY <1>2, Kinds, FilesOf
<1> DEFINE g == [t \in Tokens' |-> IF t = last THEN InHand ELSE t]
<1>8. g \in [Tokens' -> Tokens] /\ \A t \in Tokens' : g[t] = IF t = last THEN InHand ELSE t
  BY <1>6, <1>7
<1> HIDE DEF g
<1>9. \A t, u \in Tokens' : g[t] = g[u] => t = u
  BY <1>6, <1>8
<1>10. \A t \in Tokens' : FileOf(t)' = FileOf(g[t])
  BY <1>4, <1>6, <1>7, <1>8
<1>11. ASSUME Orderly', NEW c \in Clients, Received(c)' PROVE own[g[Held(c)]] = c
  <2>1. Held(c) # last /\ Held(c) \in Tokens'
    BY <1>4, <1>11, KindsAfter, Apart
  <2>2. QED
    BY <1>1, <1>5, <1>8, <1>11, <2>1 DEF Owners
<1>12. QED
  BY <1>1, <1>2, <1>5, <1>8, <1>9, <1>10, <1>11, Passed
-----------------------------------------------------------------------------
(***************************************************************************)
(* Clients in order: one is active at a time, and it finds the queue it    *)
(* has to remove.                                                          *)
(***************************************************************************)
Alone == oneAtATime => \A c, d \in Clients : Active(c) /\ Active(d) => c = d

Findable == Orderly => \A c \in Clients : /\ cpc[c] \in {"receive", "exit"} => cname # 0
                                          /\ cpc[c] # "failure"

OwnedInv == TypeOK /\ Alone /\ Findable /\ Owned

\* A client's step changes its own pc only.
LEMMA Turns ==
  ASSUME TypeOK, NEW c \in Clients, ClientStep(c) \/ ClientKill(c)
  PROVE  /\ \A d \in Clients : d # c => cpc'[d] = cpc[d]
         /\ \/ cpc[c] = "start" /\ cpc'[c] = "send"
            \/ cpc[c] = "send" /\ cpc'[c] = "open"
            \/ cpc[c] = "open" /\ cpc'[c] = "receive"
            \/ cpc[c] = "receive" /\ cpc'[c] = "exit"
            \/ cpc[c] = "exit" /\ cpc'[c] = (IF cname = 0 THEN "failure" ELSE "success")
            \/ Active(c) /\ cpc'[c] = "killed"
         /\ oneAtATime' = oneAtATime /\ path' = path
<1>1. cpc \in [Clients -> {"start", "send", "open", "receive", "exit", "success", "failure", "killed"}]
  BY DEF TypeOK
<1>2. CASE ClientStart(c) \/ ClientSend(c) \/ ClientOpen(c)
  BY <1>1, <1>2 DEF ClientStart, ClientSend, ClientOpen
<1>3. CASE ClientReceive(c) \/ ClientExit(c) \/ ClientKill(c)
  BY <1>1, <1>3 DEF ClientReceive, ClientExit, ClientKill
<1>4. QED
  BY <1>2, <1>3 DEF ClientStep

\* So order is not gained on the way, and who has sent a request stays so.
LEMMA Lasting ==
  ASSUME TypeOK, NEW c \in Clients, ClientStep(c) \/ ClientKill(c)
  PROVE  /\ Sent \subseteq Sent' /\ (Orderly' => Orderly)
         /\ \A d \in Clients : d # c => (Received(d)' <=> Received(d)) /\ (Active(d)' <=> Active(d))
         /\ Orderly' => cpc'[c] # "killed"
<1>1. Sent \subseteq Sent'
  BY Turns DEF Sent, Active
<1>2. Killed \subseteq Killed'
  BY Turns DEF Killed, Active
<1>3. \A d \in Clients : d # c => (Received(d)' <=> Received(d)) /\ (Active(d)' <=> Active(d))
  BY Turns DEF Received, Active
<1>4. Orderly' => cpc'[c] # "killed"
  BY DEF Orderly, Killed
<1>5. QED
  BY <1>1, <1>2, <1>3, <1>4, Turns DEF Orderly

\* The server's steps leave the clients alone.
LEMMA Undisturbed ==
  ASSUME UNCHANGED <<oneAtATime, cpc>>
  PROVE  /\ Sent' = Sent /\ Orderly' = Orderly
         /\ \A d \in Clients : Received(d)' = Received(d) /\ Active(d)' = Active(d)
BY DEF Sent, Orderly, Killed, Received, Active

LEMMA AloneStep ==
  ASSUME TypeOK, Alone, [Next]_vars
  PROVE  Alone'
<1>1. ASSUME NEW c \in Clients, ClientStep(c) \/ ClientKill(c) PROVE Alone'
  <2>1. CASE cpc[c] = "start"
    <3>1. oneAtATime => \A d \in Clients : ~Active(d)
      BY <1>1, <2>1 DEF ClientStep, ClientStart, ClientSend, ClientOpen, ClientReceive,
                        ClientExit, ClientKill, Active
    <3>2. QED
      BY <1>1, <3>1, Turns, Lasting DEF Alone
  <2>2. CASE cpc[c] # "start"
    <3>1. Active(c)
      BY <1>1, <2>2, Turns DEF Active
    <3>2. QED
      BY <1>1, <3>1, Turns, Lasting DEF Alone
  <2>3. QED
    BY <2>1, <2>2
<1>2. CASE ServerStart \/ ServerStep \/ ServerKill \/ UNCHANGED vars
  <2>1. UNCHANGED <<oneAtATime, cpc>>
    BY <1>2 DEF ServerStart, ServerStep, ServerReceive, ServerOpen, ServerMissing, ServerSend,
                ServerKill, vars
  <2>2. QED
    BY <2>1, Undisturbed DEF Alone
<1>3. QED
  BY <1>1, <1>2 DEF Next

LEMMA FindableStep ==
  ASSUME TypeOK, Alone, Findable, [Next]_vars
  PROVE  Findable'
<1>1. ASSUME NEW c \in Clients, ClientStep(c) \/ ClientKill(c) PROVE Findable'
  <2> SUFFICES ASSUME Orderly', NEW d \in Clients
               PROVE  /\ cpc'[d] \in {"receive", "exit"} => cname' # 0
                      /\ cpc'[d] # "failure"
    BY DEF Findable
  <2>1. Orderly /\ oneAtATime
    BY <1>1, Lasting DEF Orderly
  <2>2. \A e \in Clients : /\ cpc[e] \in {"receive", "exit"} => cname # 0
                           /\ cpc[e] # "failure"
    BY <2>1 DEF Findable
  <2>3. CASE ClientExit(c)
    <3>1. cpc[c] = "exit" /\ cname # 0
      BY <2>2, <2>3 DEF ClientExit
    <3>2. CASE d = c
      BY <1>1, <3>1, <3>2, Turns
    <3>3. CASE d # c
      <4>1. ~Active(d)
        BY <2>1, <3>1, <3>3 DEF Alone, Active
      <4>2. cpc'[d] = cpc[d]
        BY <1>1, <3>3, Turns
      <4>3. QED
        BY <2>2, <4>1, <4>2 DEF Active
    <3>4. QED
      BY <3>2, <3>3
  <2>4. CASE ClientOpen(c)
    <3>1. cname' # 0
      BY <2>4 DEF ClientOpen, Opened, TypeOK
    <3>2. cpc'[d] # "failure"
      BY <1>1, <2>2, <2>4, Turns DEF ClientOpen
    <3>3. QED
      BY <3>1, <3>2
  <2>5. CASE ClientStart(c) \/ ClientSend(c) \/ ClientReceive(c) \/ ClientKill(c)
    <3>1. cname' = cname
      BY <2>5 DEF ClientStart, ClientSend, ClientReceive, ClientKill, names
    <3>2. cpc'[c] \in {"receive", "exit"} => cpc[c] = "receive"
      <4>1. cpc \in [Clients -> {"start", "send", "open", "receive", "exit", "success", "failure", "killed"}]
        BY DEF TypeOK
      <4>2. cpc'[c] \in {"send", "open", "killed"} \/ cpc[c] = "receive"
        BY <2>5, <4>1 DEF ClientStart, ClientSend, ClientReceive, ClientKill
      <4>3. QED
        BY <4>2
    <3>3. cpc'[c] # "failure"
      BY <1>1, <2>2, Turns
    <3>4. QED
      BY <1>1, <2>2, <3>1, <3>2, <3>3, Turns
  <2>6. QED
    BY <1>1, <2>3, <2>4, <2>5 DEF ClientStep
<1>2. CASE ServerStart \/ ServerStep \/ ServerKill \/ UNCHANGED vars
  <2>1. UNCHANGED <<oneAtATime, cpc>>
    BY <1>2 DEF ServerStart, ServerStep, ServerReceive, ServerOpen, ServerMissing, ServerSend,
                ServerKill, vars
  <2>2. cname' = cname \/ cname' = Opened(cname)
    BY <1>2 DEF ServerStart, ServerStep, ServerReceive, ServerOpen, ServerMissing, ServerSend,
                ServerKill, vars, names
  <2>3. cname # 0 => cname' # 0
    BY <2>2 DEF Opened
  <2>4. QED
    BY <2>1, <2>3, Undisturbed DEF Findable
<1>3. QED
  BY <1>1, <1>2 DEF Next

\* The server takes a request into hand.
LEMMA RequestTaken ==
  ASSUME TypeOK, Owned, ServerReceive
  PROVE  Owned'
<1>1. PICK own \in [Tokens -> Sent] : Owners(own)
  BY DEF Owned
<1>2. /\ msgs \in Seq(Seq(Files)) /\ smqd \in Queues
      /\ Receive(smqd) /\ spc = "receive" /\ spc' = "open" /\ buf' = Head(msgs[smqd])
      /\ UNCHANGED <<oneAtATime, cpc, path, got>>
  BY DEF ServerReceive, TypeOK, Queues
<1>3. InHand[1] # "queue" /\ InHand \notin Tokens /\ FileOf(InHand)' = Head(msgs[smqd])
  BY <1>2, Apart, Kinds, FilesOf
<1>4. Sent' = Sent /\ Orderly' = Orderly /\ \A c \in Clients : Received(c)' = Received(c)
  BY <1>2, Undisturbed
<1>5. ASSUME NEW t \in Tokens', t[1] # "queue", t # InHand
      PROVE  t \in Tokens /\ FileOf(t)' = FileOf(t)
  <2>1. PICK c \in Clients : t = Held(c)
    BY <1>5, KindsAfter, Apart
  <2>2. QED
    BY <1>2, <1>4, <2>1, Kinds, KindsAfter, FilesOf
<1>6. ASSUME Orderly', NEW c \in Clients, Received(c)'
      PROVE  Held(c) # InHand /\ own[Held(c)] = c
  BY <1>1, <1>4, <1>6, Apart DEF Owners
<1>7. QED
  BY <1>1, <1>2, <1>3, <1>4, <1>5, <1>6, Taken

\* A client takes a reply.  In order, the reply is its own: every other client
\* that has sent a request has received a file, and owns that one.
LEMMA ReplyTaken ==
  ASSUME TypeOK, Owned, Alone, NEW c \in Clients, ClientReceive(c)
  PROVE  Owned'
<1>1. PICK own \in [Tokens -> Sent] : Owners(own)
  BY DEF Owned
<1>2. cpc[c] = "receive" /\ Receive(cmqd[c]) /\ UNCHANGED <<oneAtATime, spc, buf, path>>
  BY DEF ClientReceive, server
<1>3. msgs \in Seq(Seq(Files)) /\ cmqd[c] \in Queues
  BY <1>2 DEF TypeOK, Queues
<1>4. PICK q \in Queues : q = cmqd[c]
  BY <1>3
<1>5. Receive(q) /\ cpc'[c] = "exit" /\ got'[c] = Head(msgs[q])
  BY <1>4 DEF ClientReceive, TypeOK
<1>6. \A d \in Clients : d # c => got'[d] = got[d]
  BY DEF ClientReceive, TypeOK
<1>7. ClientStep(c)
  BY DEF ClientStep
<1>8. /\ Sent \subseteq Sent' /\ (Orderly' => Orderly)
      /\ \A d \in Clients : d # c => (Received(d)' <=> Received(d))
  BY <1>7, Lasting
<1>9. Held(c)[1] # "queue" /\ Held(c) \notin Tokens /\ FileOf(Held(c))' = Head(msgs[q])
  BY <1>2, <1>5, Apart, Kinds, FilesOf DEF Received
<1>10. ASSUME NEW t \in Tokens', t[1] # "queue", t # Held(c)
       PROVE  t \in Tokens /\ FileOf(t)' = FileOf(t)
  <2>1. CASE t = InHand
    BY <1>2, <2>1, Kinds, KindsAfter, FilesOf
  <2>2. CASE t # InHand
    <3>1. PICK d \in Clients : t = Held(d)
      BY <1>10, <2>2, KindsAfter, Apart
    <3>2. QED
      BY <1>6, <1>8, <1>10, <3>1, Kinds, KindsAfter, FilesOf
  <2>3. QED
    BY <2>1, <2>2
<1>11. Len(msgs[q]) \in Nat \ {0} /\ Message(q, 1) \in Tokens
  BY <1>3, <1>5, Receiving, Kinds
<1>12. ASSUME Orderly' PROVE own[Message(q, 1)] = c
  <2> DEFINE d == own[Message(q, 1)]
  <2>1. Orderly /\ oneAtATime /\ Killed = {} /\ d \in Sent
    BY <1>1, <1>8, <1>11, <1>12 DEF Orderly
  <2>2. ~Received(d)
    <3>1. SUFFICES ASSUME Received(d) PROVE FALSE
      OBVIOUS
    <3>2. Held(d) \in Tokens /\ own[Held(d)] = d
      BY <1>1, <2>1, <3>1, Kinds DEF Owners, Sent
    <3>3. Held(d) = Message(q, 1)
      BY <1>1, <1>11, <3>2 DEF Owners
    <3>4. QED
      BY <3>3, Apart
  <2>3. Active(d) /\ Active(c)
    BY <1>2, <2>1, <2>2 DEF Active, Received, Sent, Killed, TypeOK
  <2>4. QED
    BY <2>1, <2>3 DEF Alone, Sent
<1>13. ASSUME Orderly', NEW d \in Clients, Received(d)'
       PROVE  /\ Held(d) = Held(c) => own[Message(q, 1)] = d
              /\ Held(d) # Held(c) => own[Held(d)] = d
  <2>1. Held(d) = Held(c) => d = c
    BY Apart
  <2>2. CASE d = c
    BY <1>12, <1>13, <2>2
  <2>3. CASE d # c
    BY <1>1, <1>8, <1>13, <2>1, <2>3 DEF Owners
  <2>4. QED
    BY <2>2, <2>3
<1> DEFINE h == Held(c)
<1>14. /\ h[1] # "queue" /\ h \notin Tokens /\ FileOf(h)' = Head(msgs[q])
       /\ \A t \in Tokens' : t[1] # "queue" /\ t # h => t \in Tokens /\ FileOf(t)' = FileOf(t)
       /\ Orderly' => \A d \in Clients : Received(d)' =>
                        /\ Held(d) = h => own[Message(q, 1)] = d
                        /\ Held(d) # h => own[Held(d)] = d
  BY <1>9, <1>10, <1>13
<1>15. QED
  BY <1>1, <1>2, <1>3, <1>5, <1>8, <1>14, Taken

LEMMA OwnedStep ==
  ASSUME TypeOK, Alone, Owned, [Next]_vars
  PROVE  Owned'
<1>0. msgs \in Seq(Seq(Files)) /\ sname \in 0 .. Len(msgs) /\ cname \in 0 .. Len(msgs) /\ Len(msgs) \in Nat
  BY DEF TypeOK
<1>1. ASSUME msgs' = msgs \/ msgs' = MsgsAfterOpen(sname) \/ msgs' = MsgsAfterOpen(cname)
      PROVE  /\ Queues \subseteq Queues' /\ \A q \in Queues : msgs'[q] = msgs[q]
             /\ \A q \in Queues' : q \notin Queues => msgs'[q] = <<>>
  <2>1. CASE msgs' = msgs
    BY <2>1 DEF Queues
  <2>2. CASE msgs' = MsgsAfterOpen(sname) \/ msgs' = MsgsAfterOpen(cname)
    <3>1. /\ Len(msgs) <= Len(msgs') /\ Len(msgs') \in Nat
          /\ \A q \in Queues : msgs'[q] = msgs[q]
          /\ \A q \in 1 .. Len(msgs') : q \notin Queues => msgs'[q] = <<>>
      BY <1>0, <2>2, Opening
    <3>2. QED
      BY <1>0, <3>1 DEF Queues
  <2>3. QED
    BY <1>1, <2>1, <2>2
<1>2. CASE ServerStart \/ ServerOpen \/ ServerMissing \/ ServerKill \/ UNCHANGED vars
  <2>1. /\ UNCHANGED <<oneAtATime, cpc, path, got, buf>>
        /\ spc' \in {"open", "send"} => spc \in {"open", "send"}
        /\ msgs' = msgs \/ msgs' = MsgsAfterOpen(sname) \/ msgs' = MsgsAfterOpen(cname)
    BY <1>2 DEF ServerStart, ServerOpen, ServerMissing, ServerKill, vars
  <2>2. Sent' = Sent /\ Orderly' = Orderly /\ \A c \in Clients : Received(c)' = Received(c)
    BY <2>1, Undisturbed
  <2>3. QED
    BY <1>1, <2>1, <2>2, Unmoved
<1>3. ASSUME NEW c \in Clients, ClientStart(c) \/ ClientOpen(c) \/ ClientExit(c) \/ ClientKill(c)
      PROVE  Owned'
  <2>1. /\ UNCHANGED <<spc, path, got, buf>>
        /\ msgs' = msgs \/ msgs' = MsgsAfterOpen(sname) \/ msgs' = MsgsAfterOpen(cname)
    BY <1>3 DEF ClientStart, ClientOpen, ClientExit, ClientKill, server
  <2>2. ClientStep(c) \/ ClientKill(c)
    BY <1>3 DEF ClientStep
  <2>3. /\ Sent \subseteq Sent' /\ (Orderly' => Orderly)
        /\ \A d \in Clients : d # c => (Received(d)' <=> Received(d))
    BY <2>2, Lasting
  <2>4. Received(c)' => Received(c)
    <3>1. cpc \in [Clients -> {"start", "send", "open", "receive", "exit", "success", "failure", "killed"}]
      BY DEF TypeOK
    <3>2. cpc'[c] \in {"send", "receive", "killed"} \/ cpc[c] = "exit"
      BY <1>3, <3>1 DEF ClientStart, ClientOpen, ClientExit, ClientKill
    <3>3. QED
      BY <3>2 DEF Received
  <2>5. QED
    BY <1>1, <2>1, <2>3, <2>4, Unmoved
<1>4. CASE ServerReceive
  BY <1>4, RequestTaken
<1>5. CASE ServerSend
  BY <1>5, Replied
<1>6. ASSUME NEW c \in Clients, ClientSend(c) PROVE Owned'
  BY <1>6, Asked
<1>7. ASSUME NEW c \in Clients, ClientReceive(c) PROVE Owned'
  BY <1>7, ReplyTaken
<1>8. QED
  BY <1>2, <1>3, <1>4, <1>5, <1>6, <1>7 DEF Next, ServerStep, ClientStep

\* Every request sent, and every reply, has a client of its own behind it; with
\* clients in order one is active at a time and each holds its own file.
THEOREM Invariant == Spec => []OwnedInv
<1>1. Init => OwnedInv
  <2> SUFFICES ASSUME Init PROVE OwnedInv
    OBVIOUS
  <2>1. TypeOK
    BY TypeInit
  <2>2. \A c \in Clients : cpc[c] = "start"
    BY DEF Init
  <2>3. Alone /\ Findable
    BY <2>2 DEF Alone, Findable, Active
  <2>4. Tokens = {}
    <3>1. Len(msgs) = 0 /\ spc = "down"
      BY DEF Init
    <3>2. Queues = {}
      BY <3>1 DEF Queues
    <3>3. \A c \in Clients : ~Received(c)
      BY <2>2 DEF Received
    <3>4. ASSUME NEW t \in Tokens PROVE FALSE
      BY <3>1, <3>2, <3>3, Kinds
    <3>5. QED
      BY <3>4
  <2>5. PICK own : own = [t \in Tokens |-> t]
    OBVIOUS
  <2>6. own \in [Tokens -> Sent]
    BY <2>4, <2>5
  <2>7. Owners(own)
    BY <2>2, <2>4, <2>6 DEF Owners, Received
  <2>8. QED
    BY <2>1, <2>3, <2>6, <2>7 DEF OwnedInv, Owned
<1>2. OwnedInv /\ [Next]_vars => OwnedInv'
  <2> SUFFICES ASSUME TypeOK, Alone, Findable, Owned, [Next]_vars PROVE OwnedInv'
    BY DEF OwnedInv
  <2>1. TypeOK'
    BY TypeStep
  <2>2. Alone' /\ Findable' /\ Owned'
    BY AloneStep, FindableStep, OwnedStep
  <2>3. QED
    BY <2>1, <2>2 DEF OwnedInv
<1>3. QED
  BY <1>1, <1>2, PTL DEF Spec

\* The server is not held up by replies nobody fetched: the messages in the
\* queue it replies to, and the one in its hand, have clients of their own.
THEOREM Room == Spec => []ReplyFits
<1>1. OwnedInv => ReplyFits
  <2> SUFFICES ASSUME OwnedInv, MqCap >= Cardinality(Clients), spc = "send"
               PROVE  Len(msgs[rmqd]) < MqCap
    BY DEF ReplyFits
  <2>1. PICK own \in [Tokens -> Sent] : Owners(own)
    BY DEF OwnedInv, Owned
  <2>2. rmqd \in Queues /\ msgs \in Seq(Seq(Files))
    BY DEF OwnedInv, TypeOK, Queues
  <2> DEFINE n == Len(msgs[rmqd])
             Nth(i) == IF i = 0 THEN InHand ELSE Message(rmqd, i)
             f == [i \in 0 .. n |-> own[Nth(i)]]
  <2>3. n \in Nat
    BY <2>2, ElementOfSeq DEF Queues
  <2> HIDE DEF n
  <2>4. ASSUME NEW i \in 0 .. n PROVE Nth(i) \in Tokens
    <3>1. InHand \in Tokens
      BY Kinds
    <3>2. i # 0 => i \in 1 .. n
      BY <2>3
    <3>3. i # 0 => Message(rmqd, i) \in Tokens
      BY <2>2, <3>2, Kinds DEF n
    <3>4. QED
      BY <3>1, <3>3
  <2>5. ASSUME NEW i \in 0 .. n, NEW j \in 0 .. n, Nth(i) = Nth(j) PROVE i = j
    BY <2>5, Apart
  <2> HIDE DEF Nth
  <2>6. f \in [0 .. n -> Clients]
    BY <2>1, <2>4 DEF Sent
  <2>7. \A i, j \in 0 .. n : f[i] = f[j] => i = j
    BY <2>1, <2>4, <2>5 DEF Owners
  <2> HIDE DEF f
  <2>8. Cardinality(0 .. n) <= Cardinality(Clients)
    <3>1. f \in Injection(0 .. n, Clients)
      BY <2>6, <2>7, Fun_IsInj
    <3>2. QED
      BY <3>1, FS_Injection, ClientsAssumption
  <2>9. Cardinality(0 .. n) = n + 1
    BY <2>3, FS_Interval
  <2>10. Cardinality(Clients) \in Nat
    BY FS_CardinalityType, ClientsAssumption
  <2>11. QED
    BY <2>3, <2>8, <2>9, <2>10, MqCapAssumption DEF n
<1>2. QED
  BY <1>1, Invariant, PTL

\* Clients in order receive what they asked for and succeed, and of no file more
\* copies are received than were asked for, whatever the order.
THEOREM Replies == Spec => []RepliesRight
<1>1. OwnedInv => RepliesRight
  <2> SUFFICES ASSUME OwnedInv PROVE RepliesRight
    OBVIOUS
  <2>1. PICK own \in [Tokens -> Sent] : Owners(own)
    BY DEF OwnedInv, Owned
  <2>2. ASSUME NEW c \in Clients, Received(c)
        PROVE  Held(c) \in Tokens /\ path[own[Held(c)]] = got[c]
    BY <2>1, <2>2, Kinds, FilesOf DEF Owners
  <2>3. ASSUME oneAtATime, Killed = {}, NEW c \in Clients, Received(c)
        PROVE  got[c] = path[c] /\ cpc[c] # "failure"
    <3>1. Orderly
      BY <2>3 DEF Orderly
    <3>2. own[Held(c)] = c
      BY <2>1, <2>3, <3>1 DEF Owners
    <3>3. QED
      BY <2>2, <2>3, <3>1, <3>2 DEF OwnedInv, Findable
  <2>4. ASSUME NEW f \in Files
        PROVE  Cardinality({c \in Clients : Received(c) /\ got[c] = f})
                 <= Cardinality({c \in Clients : cpc[c] \notin {"start", "send"} /\ path[c] = f})
    <3> DEFINE S == {c \in Clients : Received(c) /\ got[c] = f}
               R == {c \in Clients : cpc[c] \notin {"start", "send"} /\ path[c] = f}
               h == [c \in S |-> own[Held(c)]]
    <3>1. IsFiniteSet(R)
      BY FS_Subset, ClientsAssumption
    <3>2. \A c \in S : c \in Clients /\ Received(c) /\ got[c] = f
      OBVIOUS
    <3>3. \A c \in Clients : c \in R <=> c \in Sent /\ path[c] = f
      BY DEF Sent
    <3> HIDE DEF S, R
    <3>4. ASSUME NEW c \in S PROVE own[Held(c)] \in R
      <4>1. own[Held(c)] \in Sent /\ path[own[Held(c)]] = f
        BY <2>1, <2>2, <3>2
      <4>2. QED
        BY <3>3, <4>1 DEF Sent
    <3>5. ASSUME NEW c \in S, NEW d \in S, own[Held(c)] = own[Held(d)] PROVE c = d
      <4>1. Held(c) = Held(d)
        BY <2>1, <2>2, <3>2, <3>5 DEF Owners
      <4>2. QED
        BY <4>1, Apart
    <3>6. h \in [S -> R] /\ \A c, d \in S : h[c] = h[d] => c = d
      BY <3>4, <3>5
    <3> HIDE DEF h
    <3>7. Cardinality(S) <= Cardinality(R)
      BY <3>1, <3>6, Fun_IsInj, FS_Injection
    <3>8. QED
      BY <3>7 DEF S, R
  <2>5. QED
    BY <2>3, <2>4 DEF RepliesRight
<1>2. QED
  BY <1>1, Invariant, PTL
=============================================================================
