--------------------------- MODULE ProgramProofs ----------------------------
(***************************************************************************)
(* Proofs about TwoPipe, Tail and Shell: the two processes of two_pipe.c   *)
(* take turns, whatever is typed and whoever is killed; tail.c writes the  *)
(* lines asked for of a file that has more, and else nothing or all of it; *)
(* the shells wait for as many wrong children as they leave right ones,    *)
(* and that of SP_HW5 wires the commands of a line as the line says.       *)
(***************************************************************************)
EXTENDS TwoPipe, Tail, Shell, SequenceTheorems, FunctionTheorems, FiniteSetTheorems, WellFoundedInduction,
        TLAPS

\* What the child answers: a buffer in capitals.
Answers == {Capitals(t) : t \in Texts}

\* Type correctness of the buffers and of what went through the pipes.
TwoTypeOK ==
  /\ tppc \in {"read", "send", "wait", "print", "killed"}
  /\ tcpc \in {"read", "write", "killed"}
  /\ tppc = "send" => p_buf \in Texts \cup {NoText}
  /\ c_buf \in Texts \cup {NoText}
  /\ sent \in Seq(Texts) /\ heard \in Seq(Texts) /\ Len(heard) <= Len(sent)
  /\ answered \in Seq(Answers) /\ back \in Seq(Answers) /\ Len(back) <= Len(answered)

\* While both are there, the parent waits whenever something is under way, which
\* is in the first pipe, with the child, or in the second pipe.
Turn ==
  "killed" \notin {tppc, tcpc} =>
    \/ Len(sent) = Len(heard) /\ Len(answered) = Len(back) /\ tcpc = "read"
    \/ /\ tppc = "wait"
       /\ \/ Len(sent) = Len(heard) + 1 /\ Len(answered) = Len(back) /\ tcpc = "read"
          \/ Len(sent) = Len(heard) /\ Len(answered) = Len(back) /\ tcpc = "write"
          \/ Len(sent) = Len(heard) /\ Len(answered) = Len(back) + 1 /\ tcpc = "read"

TwoInv == TwoTypeOK /\ Turn

\* What is written is an item more, or nothing.
LEMMA Writing ==
  ASSUME NEW S, NEW w \in Seq(S), NEW t, t \in S \/ t = NoText
  PROVE  /\ Written(w, t) \in Seq(S)
         /\ \/ t = NoText /\ Written(w, t) = w
            \/ t \in S /\ Written(w, t) = Append(w, t) /\ Len(Written(w, t)) = Len(w) + 1
BY AppendProperties DEF Written

\* What is read is the oldest item.
LEMMA Reading ==
  ASSUME NEW S, NEW w \in Seq(S), NEW r \in Seq(S), Waiting(w, r)
  PROVE  /\ Oldest(w, r) \in S /\ Append(r, Oldest(w, r)) \in Seq(S)
         /\ Len(Append(r, Oldest(w, r))) = Len(r) + 1 /\ Len(r) + 1 <= Len(w)
<1>1. Len(w) \in Nat /\ Len(r) \in Nat /\ Len(r) < Len(w)
  BY LenProperties DEF Waiting
<1>2. Oldest(w, r) \in S
  BY <1>1, ElementOfSeq DEF Oldest
<1>3. QED
  BY <1>1, <1>2, AppendProperties

LEMMA TwoStep ==
  ASSUME TwoInv, TwoNext
  PROVE  TwoInv' /\ [There!Next]_<<sent, heard>> /\ [Back!Next]_<<answered, back>>
<1>0. /\ Len(sent) \in Nat /\ Len(heard) \in Nat /\ Len(answered) \in Nat /\ Len(back) \in Nat
      /\ TwoTypeOK /\ Turn
  BY LenProperties DEF TwoInv, TwoTypeOK
<1>1. CASE ParentRead \/ ParentSendLost \/ ParentPrint \/ ChildWriteLost \/ TwoParentKill \/ TwoChildKill
  <2>1. UNCHANGED <<sent, heard, answered, back>>
    BY <1>1 DEF ParentRead, ParentSendLost, ParentPrint, ChildWriteLost, TwoParentKill, TwoChildKill
  <2>2. TwoTypeOK'
    BY <1>0, <1>1, <2>1 DEF ParentRead, ParentSendLost, ParentPrint, ChildWriteLost,
                            TwoParentKill, TwoChildKill, TwoTypeOK
  <2>3. Turn'
    BY <1>0, <1>1, <2>1 DEF ParentRead, ParentSendLost, ParentPrint, ChildWriteLost,
                            TwoParentKill, TwoChildKill, Turn
  <2>4. QED
    BY <2>1, <2>2, <2>3 DEF TwoInv
<1>2. CASE ParentSend
  <2>1. /\ sent' = Written(sent, p_buf) /\ p_buf \in Texts \cup {NoText} /\ sent \in Seq(Texts)
        /\ tppc = "send" /\ tppc' = "wait" /\ (tcpc # "killed" \/ p_buf = NoText)
        /\ UNCHANGED <<tcpc, c_buf, heard, answered, back>>
    BY <1>0, <1>2 DEF ParentSend, TwoTypeOK
  <2>2. /\ sent' \in Seq(Texts)
        /\ \/ p_buf = NoText /\ sent' = sent
           \/ p_buf \in Texts /\ sent' = Append(sent, p_buf) /\ Len(sent') = Len(sent) + 1
    BY <2>1, Writing
  <2>3. TwoTypeOK'
    BY <1>0, <2>1, <2>2 DEF TwoTypeOK
  <2>4. Turn'
    BY <1>0, <2>1, <2>2 DEF Turn
  <2>5. p_buf \in Texts => Len(sent) = Len(heard)
    BY <1>0, <2>1, NoTextAssumption DEF Turn
  <2>6. [There!Next]_<<sent, heard>>
    BY <2>1, <2>2, <2>5 DEF There!Next, There!Put
  <2>7. QED
    BY <2>1, <2>3, <2>4, <2>6 DEF TwoInv
<1>3. CASE ParentWait
  <2>1. CASE Waiting(answered, back) /\ p_buf' = Oldest(answered, back) /\ back' = Append(back, p_buf')
    <3>1. /\ back' = Append(back, Oldest(answered, back))
          /\ answered \in Seq(Answers) /\ back \in Seq(Answers)
          /\ tppc = "wait" /\ tppc' = "print" /\ UNCHANGED <<tcpc, c_buf, sent, heard, answered>>
      BY <1>0, <1>3, <2>1 DEF ParentWait, TwoTypeOK
    <3>2. back' \in Seq(Answers) /\ Len(back') = Len(back) + 1 /\ Len(back) + 1 <= Len(answered)
      BY <2>1, <3>1, Reading
    <3>3. TwoTypeOK'
      BY <1>0, <3>1, <3>2 DEF TwoTypeOK
    <3>4. Turn'
      BY <1>0, <3>1, <3>2 DEF Turn
    <3>5. Back!Take
      BY <1>0, <3>1, <3>2 DEF Back!Take, Oldest
    <3>6. QED
      BY <3>1, <3>3, <3>4, <3>5 DEF TwoInv, Back!Next
  <2>2. CASE ~Waiting(answered, back) /\ tcpc = "killed" /\ p_buf' = NoText /\ UNCHANGED back
    <3>1. UNCHANGED <<tcpc, c_buf, sent, heard, answered, back>> /\ tppc' = "print"
      BY <1>3, <2>2 DEF ParentWait
    <3>2. QED
      BY <1>0, <2>2, <3>1 DEF TwoInv, TwoTypeOK, Turn
  <2>3. QED
    BY <1>3, <2>1, <2>2 DEF ParentWait
<1>4. CASE ChildRead
  <2>1. CASE Waiting(sent, heard) /\ c_buf' = Oldest(sent, heard) /\ heard' = Append(heard, c_buf')
    <3>1. /\ heard' = Append(heard, Oldest(sent, heard)) /\ c_buf' = Oldest(sent, heard)
          /\ sent \in Seq(Texts) /\ heard \in Seq(Texts)
          /\ tcpc = "read" /\ tcpc' = "write" /\ UNCHANGED <<tppc, p_buf, sent, answered, back>>
      BY <1>0, <1>4, <2>1 DEF ChildRead, TwoTypeOK
    <3>2. /\ c_buf' \in Texts
          /\ heard' \in Seq(Texts) /\ Len(heard') = Len(heard) + 1 /\ Len(heard) + 1 <= Len(sent)
      BY <2>1, <3>1, Reading
    <3>3. TwoTypeOK'
      BY <1>0, <3>1, <3>2 DEF TwoTypeOK
    <3>4. Turn'
      BY <1>0, <3>1, <3>2 DEF Turn
    <3>5. There!Take
      BY <1>0, <3>1, <3>2 DEF There!Take, Oldest
    <3>6. QED
      BY <3>1, <3>3, <3>4, <3>5 DEF TwoInv, There!Next
  <2>2. CASE ~Waiting(sent, heard) /\ tppc = "killed" /\ c_buf' = NoText /\ UNCHANGED heard
    <3>1. UNCHANGED <<tppc, p_buf, sent, heard, answered, back>> /\ tcpc' = "write"
      BY <1>4, <2>2 DEF ChildRead
    <3>2. QED
      BY <1>0, <2>2, <3>1 DEF TwoInv, TwoTypeOK, Turn
  <2>3. QED
    BY <1>4, <2>1, <2>2 DEF ChildRead
<1>5. CASE ChildWrite
  <2>1. /\ answered' = Written(answered, Capitals(c_buf)) /\ answered \in Seq(Answers)
        /\ tcpc = "write" /\ tcpc' = "read" /\ (tppc # "killed" \/ c_buf = NoText)
        /\ c_buf \in Texts \cup {NoText}
        /\ UNCHANGED <<tppc, p_buf, c_buf, sent, heard, back>>
    BY <1>0, <1>5 DEF ChildWrite, TwoTypeOK
  <2>2. \/ c_buf = NoText /\ Capitals(c_buf) = NoText
        \/ c_buf \in Texts /\ Capitals(c_buf) \in Answers
    BY <2>1 DEF Capitals, Answers
  <2>3. /\ answered' \in Seq(Answers)
        /\ \/ Capitals(c_buf) = NoText /\ answered' = answered
           \/ /\ Capitals(c_buf) \in Answers /\ answered' = Append(answered, Capitals(c_buf))
              /\ Len(answered') = Len(answered) + 1
    BY <2>1, <2>2, Writing
  <2>4. TwoTypeOK'
    BY <1>0, <2>1, <2>3 DEF TwoTypeOK
  <2>5. Turn'
    BY <1>0, <2>1, <2>3 DEF Turn
  <2>6. tppc # "killed" => Len(answered) = Len(back)
    BY <1>0, <2>1 DEF Turn
  <2>7. [Back!Next]_<<answered, back>>
    <3>1. CASE answered' = answered
      BY <2>1, <3>1
    <3>2. CASE answered' # answered
      <4>1. answered' = Append(answered, Capitals(c_buf)) /\ Capitals(c_buf) # NoText
        <5>1. answered' = Written(answered, Capitals(c_buf))
          BY <2>1
        <5>2. QED
          BY <3>2, <5>1 DEF Written
      <4>2. tppc # "killed" /\ c_buf \in Texts
        <5>1. c_buf # NoText
          BY <4>1 DEF Capitals
        <5>2. QED
          BY <2>1, <5>1
      <4>3. Back!Put(Capitals(c_buf)) /\ Capitals(c_buf) \in {Capitals(t) : t \in Texts}
        BY <2>1, <2>6, <4>1, <4>2 DEF Back!Put
      <4>4. QED
        BY <4>3 DEF Back!Next
    <3>3. QED
      BY <3>1, <3>2
  <2>8. QED
    BY <2>1, <2>4, <2>5, <2>7 DEF TwoInv
<1>6. QED
  BY <1>1, <1>2, <1>3, <1>4, <1>5 DEF TwoNext, TwoParent, TwoChild

\* Each pipe of two_pipe.c is a place for one buffer, filled when it is empty.
THEOREM Turns == TwoSpec => InTurns
<1>1. TwoInit => TwoInv /\ There!Init /\ Back!Init
  BY EmptySeq DEF TwoInit, TwoState, TwoInv, TwoTypeOK, Turn, There!Init, Back!Init
<1>2. TwoInv /\ [TwoNext]_twoVars
        => TwoInv' /\ [There!Next]_<<sent, heard>> /\ [Back!Next]_<<answered, back>>
  <2>1. CASE TwoNext
    BY <2>1, TwoStep
  <2>2. CASE UNCHANGED twoVars
    BY <2>2 DEF twoVars, TwoInv, TwoTypeOK, Turn
  <2>3. QED
    BY <2>1, <2>2
<1>3. QED
  BY <1>1, <1>2, PTL DEF TwoSpec, InTurns, There!Spec, Back!Spec

\* What was read of what was written, and what became of it.
Begins(r, w) == Len(r) <= Len(w) /\ \A e \in 1 .. Len(r) : r[e] = w[e]
Answering(r, w) == Len(r) <= Len(w) /\ \A e \in 1 .. Len(r) : r[e] = Capitals(w[e])

EchoTypes ==
  /\ typed \in Seq(Texts) /\ sent \in Seq(Texts) /\ heard \in Seq(Texts)
  /\ answered \in Seq(Answers) /\ back \in Seq(Answers) /\ shown \in Seq(Answers)

\* The buffer of the parent is the last one typed or the last one that came back, that of
\* the child the last one heard; all before it have gone on.
ParentBuffer ==
  /\ tppc = "send" /\ p_buf # NoText => Len(typed) = Len(sent) + 1 /\ p_buf = typed[Len(typed)]
  /\ tppc \in {"read", "wait", "print"} \/ (tppc = "send" /\ p_buf = NoText) => Len(typed) = Len(sent)
  /\ tppc = "print" /\ p_buf # NoText => Len(back) = Len(shown) + 1 /\ p_buf = back[Len(back)]
  /\ tppc \in {"read", "send", "wait"} \/ (tppc = "print" /\ p_buf = NoText) => Len(back) = Len(shown)
ChildBuffer ==
  /\ tcpc = "write" /\ c_buf # NoText => Len(heard) = Len(answered) + 1 /\ c_buf = heard[Len(heard)]
  /\ tcpc = "read" \/ (tcpc = "write" /\ c_buf = NoText) => Len(heard) = Len(answered)

EchoInv ==
  /\ EchoTypes /\ ParentBuffer /\ ChildBuffer
  /\ Begins(sent, typed) /\ Begins(heard, sent) /\ Answering(answered, heard)
  /\ Begins(back, answered) /\ Begins(shown, back)

\* What was read so far is still read, when more is written.
LEMMA BeginsStill ==
  ASSUME NEW S, NEW r \in Seq(S), NEW w \in Seq(S), NEW v \in S
  PROVE  Begins(r, w) => Begins(r, Append(w, v))
<1>1. Len(r) \in Nat /\ Len(w) \in Nat /\ Len(Append(w, v)) = Len(w) + 1
      /\ \A e \in 1 .. Len(w) : Append(w, v)[e] = w[e]
  BY AppendProperties
<1>2. QED
  BY <1>1 DEF Begins

\* The next item is read.
LEMMA BeginsNext ==
  ASSUME NEW S, NEW r \in Seq(S), NEW w \in Seq(S), Begins(r, w), Len(r) < Len(w),
         NEW v \in S, v = w[Len(r) + 1]
  PROVE  Begins(Append(r, v), w)
<1>1. /\ Len(r) \in Nat /\ Len(w) \in Nat /\ Len(Append(r, v)) = Len(r) + 1
      /\ Append(r, v)[Len(r) + 1] = v /\ \A e \in 1 .. Len(r) : Append(r, v)[e] = r[e]
  BY AppendProperties
<1>2. QED
  BY <1>1 DEF Begins

LEMMA AnsweringStill ==
  ASSUME NEW r \in Seq(Answers), NEW w \in Seq(Texts), NEW v \in Texts
  PROVE  Answering(r, w) => Answering(r, Append(w, v))
<1>1. Len(r) \in Nat /\ Len(w) \in Nat /\ Len(Append(w, v)) = Len(w) + 1
      /\ \A e \in 1 .. Len(w) : Append(w, v)[e] = w[e]
  BY AppendProperties
<1>2. QED
  BY <1>1 DEF Answering

LEMMA AnsweringNext ==
  ASSUME NEW r \in Seq(Answers), NEW w \in Seq(Texts), Answering(r, w), Len(r) < Len(w),
         NEW v \in Answers, v = Capitals(w[Len(r) + 1])
  PROVE  Answering(Append(r, v), w)
<1>1. /\ Len(r) \in Nat /\ Len(w) \in Nat /\ Len(Append(r, v)) = Len(r) + 1
      /\ Append(r, v)[Len(r) + 1] = v /\ \A e \in 1 .. Len(r) : Append(r, v)[e] = r[e]
  BY AppendProperties
<1>2. QED
  BY <1>1 DEF Answering

LEMMA EchoStep ==
  ASSUME EchoInv, [TwoNext]_twoVars
  PROVE  EchoInv'
<1>0. /\ EchoTypes /\ ParentBuffer /\ ChildBuffer
      /\ Begins(sent, typed) /\ Begins(heard, sent) /\ Answering(answered, heard)
      /\ Begins(back, answered) /\ Begins(shown, back)
      /\ Len(typed) \in Nat /\ Len(sent) \in Nat /\ Len(heard) \in Nat
      /\ Len(answered) \in Nat /\ Len(back) \in Nat /\ Len(shown) \in Nat
  BY DEF EchoInv, EchoTypes
<1>1. CASE ParentRead
  <2>1. UNCHANGED <<tcpc, c_buf, sent, heard, answered, back, shown>> /\ tppc = "read" /\ tppc' = "send"
    BY <1>1 DEF ParentRead
  <2>2. CASE p_buf' = NoText /\ UNCHANGED typed
    BY <1>0, <2>1, <2>2 DEF EchoInv, EchoTypes, ParentBuffer, ChildBuffer
  <2>3. ASSUME NEW t \in Texts, p_buf' = t, typed' = Append(typed, t)
        PROVE  EchoInv'
    <3>1. typed' \in Seq(Texts) /\ Len(typed') = Len(typed) + 1 /\ typed'[Len(typed')] = t
      BY <1>0, <2>3, AppendProperties DEF EchoTypes
    <3>2. Begins(sent, typed')
      BY <1>0, <2>3, BeginsStill DEF EchoTypes
    <3>3. ParentBuffer'
      BY <1>0, <2>1, <2>3, <3>1, NoTextAssumption DEF ParentBuffer
    <3>4. QED
      BY <1>0, <2>1, <3>1, <3>2, <3>3 DEF EchoInv, EchoTypes, ChildBuffer
  <2>4. QED
    BY <1>1, <2>2, <2>3 DEF ParentRead
<1>2. CASE ParentSend
  <2>1. /\ UNCHANGED <<tcpc, p_buf, c_buf, heard, answered, back, typed, shown>>
        /\ tppc = "send" /\ tppc' = "wait" /\ sent' = Written(sent, p_buf)
    BY <1>2 DEF ParentSend
  <2>2. CASE p_buf = NoText
    BY <1>0, <2>1, <2>2 DEF EchoInv, EchoTypes, ParentBuffer, ChildBuffer, Written
  <2>3. CASE p_buf # NoText
    <3>1. sent' = Append(sent, p_buf) /\ Len(typed) = Len(sent) + 1 /\ p_buf = typed[Len(typed)]
      BY <1>0, <2>1, <2>3 DEF Written, ParentBuffer
    <3>2. p_buf \in Texts
      BY <1>0, <3>1, ElementOfSeq DEF EchoTypes
    <3>3. sent' \in Seq(Texts) /\ Len(sent') = Len(sent) + 1
      BY <1>0, <3>1, <3>2, AppendProperties DEF EchoTypes
    <3>4. Begins(sent', typed) /\ Begins(heard, sent')
      <4>1. Len(sent) < Len(typed) /\ p_buf = typed[Len(sent) + 1]
        BY <1>0, <3>1
      <4>2. Begins(sent', typed)
        BY <1>0, <3>1, <3>2, <4>1, BeginsNext DEF EchoTypes
      <4>3. Begins(heard, sent')
        BY <1>0, <3>1, <3>2, BeginsStill DEF EchoTypes
      <4>4. QED
        BY <4>2, <4>3
    <3>5. QED
      BY <1>0, <2>1, <3>1, <3>3, <3>4 DEF EchoInv, EchoTypes, ParentBuffer, ChildBuffer
  <2>4. QED
    BY <2>2, <2>3
<1>3. CASE ParentWait
  <2>1. UNCHANGED <<tcpc, c_buf, sent, heard, answered, typed, shown>> /\ tppc = "wait" /\ tppc' = "print"
    BY <1>3 DEF ParentWait
  <2>2. CASE Waiting(answered, back) /\ p_buf' = Oldest(answered, back) /\ back' = Append(back, p_buf')
    <3>1. PICK v : v = answered[Len(back) + 1]
      OBVIOUS
    <3>2. p_buf' = v /\ back' = Append(back, v) /\ Len(back) < Len(answered)
      BY <2>2, <3>1 DEF Waiting, Oldest
    <3>3. v \in Answers
      BY <1>0, <3>1, <3>2, ElementOfSeq DEF EchoTypes
    <3>4. back' \in Seq(Answers) /\ Len(back') = Len(back) + 1 /\ back'[Len(back')] = v
      BY <1>0, <3>2, <3>3, AppendProperties DEF EchoTypes
    <3>5. Begins(back', answered) /\ Begins(shown, back')
      BY <1>0, <3>1, <3>2, <3>3, BeginsStill, BeginsNext DEF EchoTypes
    <3>6. v # NoText
      BY <3>3, NoTextAssumption DEF Answers, Capitals
    <3>7. QED
      BY <1>0, <2>1, <3>2, <3>4, <3>5, <3>6 DEF EchoInv, EchoTypes, ParentBuffer, ChildBuffer
  <2>3. CASE p_buf' = NoText /\ UNCHANGED back
    BY <1>0, <2>1, <2>3 DEF EchoInv, EchoTypes, ParentBuffer, ChildBuffer
  <2>4. QED
    BY <1>3, <2>2, <2>3 DEF ParentWait
<1>4. CASE ParentPrint
  <2>1. /\ UNCHANGED <<tcpc, p_buf, c_buf, sent, heard, answered, back, typed>>
        /\ tppc = "print" /\ tppc' = "read" /\ shown' = Written(shown, p_buf)
    BY <1>4 DEF ParentPrint
  <2>2. CASE p_buf = NoText
    BY <1>0, <2>1, <2>2 DEF EchoInv, EchoTypes, ParentBuffer, ChildBuffer, Written
  <2>3. CASE p_buf # NoText
    <3>1. shown' = Append(shown, p_buf) /\ Len(back) = Len(shown) + 1 /\ p_buf = back[Len(back)]
      BY <1>0, <2>1, <2>3 DEF Written, ParentBuffer
    <3>2. p_buf \in Answers
      BY <1>0, <3>1, ElementOfSeq DEF EchoTypes
    <3>3. shown' \in Seq(Answers) /\ Len(shown') = Len(shown) + 1
      BY <1>0, <3>1, <3>2, AppendProperties DEF EchoTypes
    <3>4. Begins(shown', back)
      <4>1. Len(shown) < Len(back) /\ p_buf = back[Len(shown) + 1]
        BY <1>0, <3>1
      <4>2. QED
        BY <1>0, <3>1, <3>2, <4>1, BeginsNext DEF EchoTypes
    <3>5. QED
      BY <1>0, <2>1, <3>1, <3>3, <3>4 DEF EchoInv, EchoTypes, ParentBuffer, ChildBuffer
  <2>4. QED
    BY <2>2, <2>3
<1>5. CASE ChildRead
  <2>1. UNCHANGED <<tppc, p_buf, sent, answered, back, typed, shown>> /\ tcpc = "read" /\ tcpc' = "write"
    BY <1>5 DEF ChildRead
  <2>2. CASE Waiting(sent, heard) /\ c_buf' = Oldest(sent, heard) /\ heard' = Append(heard, c_buf')
    <3>1. PICK v : v = sent[Len(heard) + 1]
      OBVIOUS
    <3>2. c_buf' = v /\ heard' = Append(heard, v) /\ Len(heard) < Len(sent)
      BY <2>2, <3>1 DEF Waiting, Oldest
    <3>3. v \in Texts
      BY <1>0, <3>1, <3>2, ElementOfSeq DEF EchoTypes
    <3>4. heard' \in Seq(Texts) /\ Len(heard') = Len(heard) + 1 /\ heard'[Len(heard')] = v
      BY <1>0, <3>2, <3>3, AppendProperties DEF EchoTypes
    <3>5. Begins(heard', sent) /\ Answering(answered, heard')
      BY <1>0, <3>1, <3>2, <3>3, AnsweringStill, BeginsNext DEF EchoTypes
    <3>6. v # NoText
      BY <3>3, NoTextAssumption
    <3>7. QED
      BY <1>0, <2>1, <3>2, <3>4, <3>5, <3>6 DEF EchoInv, EchoTypes, ParentBuffer, ChildBuffer
  <2>3. CASE c_buf' = NoText /\ UNCHANGED heard
    BY <1>0, <2>1, <2>3 DEF EchoInv, EchoTypes, ParentBuffer, ChildBuffer
  <2>4. QED
    BY <1>5, <2>2, <2>3 DEF ChildRead
<1>6. CASE ChildWrite
  <2>1. /\ UNCHANGED <<tppc, p_buf, c_buf, sent, heard, back, typed, shown>>
        /\ tcpc = "write" /\ tcpc' = "read" /\ answered' = Written(answered, Capitals(c_buf))
    BY <1>6 DEF ChildWrite
  <2>2. CASE c_buf = NoText
    BY <1>0, <2>1, <2>2 DEF EchoInv, EchoTypes, ParentBuffer, ChildBuffer, Written, Capitals
  <2>3. CASE c_buf # NoText
    <3>1. Len(heard) = Len(answered) + 1 /\ c_buf = heard[Len(heard)]
      BY <1>0, <2>1, <2>3 DEF ChildBuffer
    <3>2. c_buf \in Texts
      BY <1>0, <3>1, ElementOfSeq DEF EchoTypes
    <3>3. PICK v : v = Capitals(c_buf)
      OBVIOUS
    <3>4. v \in Answers /\ v # NoText
      BY <3>2, <3>3, NoTextAssumption DEF Answers, Capitals
    <3>5. answered' = Append(answered, v)
      BY <2>1, <3>3, <3>4 DEF Written
    <3>6. answered' \in Seq(Answers) /\ Len(answered') = Len(answered) + 1
      BY <1>0, <3>4, <3>5, AppendProperties DEF EchoTypes
    <3>7. Begins(back, answered')
      BY <1>0, <3>4, <3>5, BeginsStill DEF EchoTypes
    <3>8. Answering(answered', heard)
      <4>1. v = Capitals(heard[Len(answered) + 1]) /\ Len(answered) < Len(heard)
        BY <1>0, <3>1, <3>3
      <4>2. QED
        BY <1>0, <3>4, <3>5, <4>1, AnsweringNext DEF EchoTypes
    <3>9. QED
      BY <1>0, <2>1, <3>1, <3>6, <3>7, <3>8 DEF EchoInv, EchoTypes, ParentBuffer, ChildBuffer
  <2>4. QED
    BY <2>2, <2>3
<1>7. CASE ParentSendLost \/ ChildWriteLost \/ TwoParentKill \/ TwoChildKill
  <2>1. UNCHANGED <<p_buf, c_buf, sent, heard, answered, back, typed, shown>>
    BY <1>7 DEF ParentSendLost, ChildWriteLost, TwoParentKill, TwoChildKill
  <2>2. tppc' \in {tppc, "killed"} /\ tcpc' \in {tcpc, "killed"}
    BY <1>7 DEF ParentSendLost, ChildWriteLost, TwoParentKill, TwoChildKill
  <2>3. QED
    BY <1>0, <2>1, <2>2 DEF EchoInv, EchoTypes, ParentBuffer, ChildBuffer
<1>8. CASE UNCHANGED twoVars
  BY <1>0, <1>8 DEF twoVars, EchoInv, EchoTypes, ParentBuffer, ChildBuffer
<1>9. QED
  BY <1>1, <1>2, <1>3, <1>4, <1>5, <1>6, <1>7, <1>8 DEF TwoNext, TwoParent, TwoChild

\* What is shown is what was typed, in capitals, in order, and nothing in between is missing,
\* whoever is killed (two_pipe.c:88, :94): what Shown says is shown in the end is all there is.
Echoed == Len(shown) <= Len(typed) /\ \A e \in 1 .. Len(shown) : shown[e] = Capitals(typed[e])

THEOREM Echo == TwoSpec => []Echoed
<1>1. TwoInit => EchoInv
  BY EmptySeq DEF TwoInit, TwoState, EchoInv, EchoTypes, ParentBuffer, ChildBuffer, Begins, Answering
<1>2. EchoInv /\ [TwoNext]_twoVars => EchoInv'
  BY EchoStep
<1>3. EchoInv => Echoed
  <2>1. SUFFICES ASSUME EchoInv PROVE Echoed
    OBVIOUS
  <2>2. /\ Len(typed) \in Nat /\ Len(sent) \in Nat /\ Len(heard) \in Nat
        /\ Len(answered) \in Nat /\ Len(back) \in Nat /\ Len(shown) \in Nat
    BY <2>1 DEF EchoInv, EchoTypes
  <2>3. Len(heard) <= Len(typed) /\ \A e \in 1 .. Len(heard) : heard[e] = typed[e]
    BY <2>1, <2>2 DEF EchoInv, Begins
  <2>4. Len(shown) <= Len(answered) /\ \A e \in 1 .. Len(shown) : shown[e] = answered[e]
    BY <2>1, <2>2 DEF EchoInv, Begins
  <2>5. Len(answered) <= Len(heard) /\ \A e \in 1 .. Len(answered) : answered[e] = Capitals(heard[e])
    BY <2>1 DEF EchoInv, Answering
  <2>6. Len(shown) <= Len(typed)
    BY <2>2, <2>3, <2>4, <2>5
  <2>7. ASSUME NEW e \in 1 .. Len(shown) PROVE shown[e] = Capitals(typed[e])
    <3>1. e \in 1 .. Len(answered) /\ e \in 1 .. Len(heard)
      BY <2>2, <2>4, <2>5
    <3>2. QED
      BY <2>3, <2>4, <2>5, <3>1
  <2>8. QED
    BY <2>6, <2>7 DEF Echoed
<1>4. QED
  BY <1>1, <1>2, <1>3, PTL DEF TwoSpec
-----------------------------------------------------------------------------
(***************************************************************************)
(* tail.c: what has been looked at is the end of the file, and offset says *)
(* how many newlines are in it.                                            *)
(***************************************************************************)
NewlinesIn(f, k) == {j \in k .. Len(f) : f[j] = Newline}

TailTypeOK ==
  /\ file \in Files /\ n \in Int /\ offset \in Int /\ to_write \in Int /\ i \in Int
  /\ i < Len(file) /\ to_write = Len(file) - 2 - i

\* Looking ends with the newline before the lines asked for, or goes on below
\* buf, where each byte may be taken for one newline more.
Looked ==
  /\ i >= -1 => offset = n - Cardinality(NewlinesIn(file, i + 2))
  /\ i < -1 => /\ Newlines(file) <= n /\ offset <= n - Newlines(file)
               /\ offset >= n - Newlines(file) + 1 + i
  /\ n < 0 => i = Len(file) - 1
  /\ n >= 0 => offset >= -1
  /\ n >= 0 /\ offset = -1 /\ i >= -1 => i + 2 \in 1 .. Len(file) /\ file[i + 2] = Newline

\* How far the program is, and how it ended.
Ending ==
  /\ tpc \in {"count", "lseek", "read", "success", "failure", "crashed", "missing"}
  /\ tpc \in {"lseek", "read", "success", "failure"} => offset < 0
  /\ tpc = "crashed" => i < 0 /\ offset >= 0
  /\ tpc \in {"read", "success"} => to_write <= Len(file)
  /\ tpc = "success" => to_write >= 0 /\ output = SubSeq(file, Len(file) - to_write + 1, Len(file))
  /\ tpc # "success" => output = <<>>
  /\ tpc = "failure" => to_write > Len(file) \/ to_write < 0

TailInv == TailTypeOK /\ Looked /\ Ending

\* A file is a sequence, and the newlines in a part of it can be counted.
LEMMA Bytes ==
  ASSUME NEW f \in Files
  PROVE  /\ Len(f) \in Nat /\ Newlines(f) = Cardinality(NewlinesIn(f, 1))
         /\ \A k \in Int : k >= 1 => IsFiniteSet(NewlinesIn(f, k)) /\ Cardinality(NewlinesIn(f, k)) \in Nat
         /\ NewlinesIn(f, Len(f) + 1) = {} /\ Cardinality(NewlinesIn(f, Len(f) + 1)) = 0
<1>1. Len(f) \in Nat
  BY FilesAssumption, LenProperties
<1>2. ASSUME NEW k \in Int, k >= 1
      PROVE  IsFiniteSet(NewlinesIn(f, k)) /\ Cardinality(NewlinesIn(f, k)) \in Nat
  <2>1. IsFiniteSet(k .. Len(f)) /\ NewlinesIn(f, k) \in SUBSET (k .. Len(f))
    BY <1>1, FS_Interval DEF NewlinesIn
  <2>2. IsFiniteSet(NewlinesIn(f, k))
    BY <2>1, FS_Subset
  <2>3. QED
    BY <2>2, FS_CardinalityType
<1>3. NewlinesIn(f, Len(f) + 1) = {}
  BY <1>1 DEF NewlinesIn
<1>4. Newlines(f) = Cardinality(NewlinesIn(f, 1))
  BY DEF Newlines, NewlinesIn
<1>5. QED
  BY <1>1, <1>2, <1>3, <1>4, FS_EmptySet

\* One byte more to the left counts if it is a newline.
LEMMA OneByte ==
  ASSUME NEW f \in Files, NEW k \in 1 .. Len(f)
  PROVE  Cardinality(NewlinesIn(f, k)) =
           Cardinality(NewlinesIn(f, k + 1)) + (IF f[k] = Newline THEN 1 ELSE 0)
<1>1. Len(f) \in Nat /\ IsFiniteSet(NewlinesIn(f, k + 1)) /\ Cardinality(NewlinesIn(f, k + 1)) \in Nat
  BY Bytes
<1>2. k \notin NewlinesIn(f, k + 1)
  BY DEF NewlinesIn
<1>3. CASE f[k] = Newline
  <2>1. NewlinesIn(f, k) = NewlinesIn(f, k + 1) \cup {k}
    BY <1>1, <1>3 DEF NewlinesIn
  <2>2. QED
    BY <1>1, <1>2, <1>3, <2>1, FS_AddElement
<1>4. CASE f[k] # Newline
  <2>1. NewlinesIn(f, k) = NewlinesIn(f, k + 1)
    BY <1>1, <1>4 DEF NewlinesIn
  <2>2. QED
    BY <1>1, <1>4, <2>1
<1>5. QED
  BY <1>3, <1>4

\* The bytes after the k-th hold the newlines after the k-th.
LEMMA TheRest ==
  ASSUME NEW f \in Files, NEW k \in 1 .. Len(f)
  PROVE  Newlines(SubSeq(f, k + 1, Len(f))) = Cardinality(NewlinesIn(f, k + 1))
<1> DEFINE s == SubSeq(f, k + 1, Len(f))
           S == {j \in 1 .. Len(s) : s[j] = Newline}
           T == NewlinesIn(f, k + 1)
           h == [j \in S |-> j + k]
<1>1. Len(f) \in Nat /\ IsFiniteSet(T)
  BY Bytes
<1>2. Len(s) = Len(f) - k /\ \A j \in 1 .. Len(f) - k : s[j] = f[j + k]
  BY <1>1
<1> HIDE DEF s
<1>3. \A j \in S : j \in 1 .. Len(f) - k /\ f[j + k] = Newline
  BY <1>2
<1>4. \A j \in 1 .. Len(f) - k : f[j + k] = Newline => j \in S
  BY <1>2
<1> HIDE DEF S
<1>5. h \in [S -> T]
  BY <1>1, <1>3 DEF NewlinesIn
<1>6. \A a, b \in S : h[a] = h[b] => a = b
  BY <1>3
<1>7. ASSUME NEW t \in T PROVE \E a \in S : h[a] = t
  <2>1. t \in k + 1 .. Len(f) /\ f[t] = Newline
    BY DEF NewlinesIn
  <2>2. t - k \in 1 .. Len(f) - k /\ (t - k) + k = t
    BY <1>1, <2>1
  <2>3. t - k \in S
    BY <1>4, <2>1, <2>2
  <2>4. h[t - k] = t
    BY <2>2, <2>3
  <2>5. QED
    BY <2>3, <2>4
<1> HIDE DEF h, T
<1>8. h \in Injection(S, T) /\ h \in Surjection(S, T)
  BY <1>5, <1>6, <1>7, Fun_IsInj, Fun_IsSurj
<1>9. Cardinality(S) = Cardinality(T)
  BY <1>1, <1>8, FS_Injection
<1>10. QED
  BY <1>9 DEF Newlines, S, T, s

\* The body of the loop keeps count.
LEMMA LookKeeps ==
  ASSUME TailTypeOK, Looked, NEW byte, offset + 1 > 0, Look(byte),
         i >= 0 => byte = file[i + 1]
  PROVE  TailTypeOK' /\ Looked'
<1> DEFINE L == Len(file)
           hit == IF byte = Newline THEN 1 ELSE 0
<1>0. /\ L \in Nat /\ file \in Files /\ n \in Int /\ offset \in Int /\ to_write \in Int /\ i \in Int
      /\ Newlines(file) \in Nat
  BY Bytes DEF TailTypeOK
<1>1. /\ offset' = offset - hit /\ to_write' = to_write + 1 /\ i' = i - 1
      /\ file' = file /\ n' = n /\ hit \in 0 .. 1
  BY <1>0 DEF Look
<1>2. Newlines(file)' = Newlines(file)
  BY <1>1 DEF Newlines
<1> HIDE DEF hit
<1>3. TailTypeOK'
  BY <1>0, <1>1 DEF TailTypeOK
<1>4. offset >= 0 /\ n >= 0
  <2>1. offset >= 0
    BY <1>0
  <2>2. ASSUME n < 0 PROVE FALSE
    <3>1. i = L - 1 /\ offset = n - Cardinality(NewlinesIn(file, L + 1))
      BY <1>0, <2>2 DEF Looked
    <3>2. QED
      BY <1>0, <2>1, <2>2, <3>1, Bytes
  <2>3. QED
    BY <1>0, <2>1, <2>2
<1>5. CASE i >= 0
  <2>1. i + 1 \in 1 .. L /\ byte = file[i + 1] /\ (i + 1) + 1 = i + 2 /\ i' + 2 = i + 1 /\ i' >= -1
    BY <1>0, <1>1, <1>5 DEF TailTypeOK
  <2>2. Cardinality(NewlinesIn(file, i + 1)) = Cardinality(NewlinesIn(file, i + 2)) + hit
    BY <1>0, <2>1, OneByte DEF hit
  <2>3. offset = n - Cardinality(NewlinesIn(file, i + 2)) /\ Cardinality(NewlinesIn(file, i + 2)) \in Nat
    BY <1>0, <1>5, Bytes DEF Looked
  <2>4. offset' = n' - Cardinality(NewlinesIn(file', i' + 2))
    BY <1>0, <1>1, <2>1, <2>2, <2>3
  <2>5. offset' >= -1 /\ (offset' = -1 => byte = Newline)
    BY <1>0, <1>1, <1>4 DEF hit
  <2>6. offset' = -1 => i' + 2 \in 1 .. Len(file') /\ file'[i' + 2] = Newline
    BY <1>1, <2>1, <2>5
  <2>7. ~(i' < -1) /\ ~(n' < 0)
    BY <1>0, <1>1, <1>4, <2>1
  <2>8. QED
    BY <1>3, <2>4, <2>5, <2>6, <2>7 DEF Looked
<1>6. CASE i = -1
  <2>1. offset = n - Newlines(file)
    BY <1>0, <1>6, Bytes DEF Looked
  <2>2. /\ i' = -2 /\ Newlines(file)' <= n' /\ offset' <= n' - Newlines(file)'
        /\ offset' >= n' - Newlines(file)' + 1 + i' /\ n' >= 0 /\ offset' >= -1
    BY SMTT(30), <1>0, <1>1, <1>2, <1>4, <1>6, <2>1
  <2>3. QED
    BY <1>0, <1>1, <1>3, <2>2 DEF Looked
<1>7. CASE i < -1
  BY <1>0, <1>1, <1>2, <1>3, <1>4, <1>7 DEF Looked
<1>8. QED
  BY <1>0, <1>3, <1>5, <1>6, <1>7

LEMMA TailSteps ==
  ASSUME TailInv, [TailNext]_tailVars
  PROVE  TailInv'
<1>0. TailTypeOK /\ Looked /\ Ending /\ Len(file) \in Nat /\ offset \in Int /\ to_write \in Int /\ i \in Int
  BY Bytes DEF TailInv, TailTypeOK
<1>1. ASSUME NEW byte, tpc = "count", offset + 1 > 0, Look(byte), i >= 0 => byte = file[i + 1]
      PROVE  TailInv'
  <2>1. TailTypeOK' /\ Looked'
    BY <1>0, <1>1, LookKeeps
  <2>2. Ending'
    BY <1>0, <1>1 DEF Look, Ending
  <2>3. QED
    BY <2>1, <2>2 DEF TailInv
<1>2. CASE CountByte
  BY <1>1, <1>2 DEF CountByte
<1>3. CASE CountBelow
  <2>1. CASE tpc' = "crashed" /\ UNCHANGED <<file, n, offset, to_write, i, output>>
    BY <1>0, <1>3, <2>1 DEF CountBelow, TailInv, TailTypeOK, Looked, Ending
  <2>2. ASSUME NEW byte \in {Newline, "other"}, Look(byte) PROVE TailInv'
    BY <1>0, <1>1, <1>3, <2>2 DEF CountBelow
  <2>3. QED
    BY <1>3, <2>1, <2>2 DEF CountBelow
<1>4. ASSUME UNCHANGED <<file, n, offset, to_write, i>>, Ending' PROVE TailInv'
  BY <1>0, <1>4 DEF TailInv, TailTypeOK, Looked
<1>5. CASE CountDone \/ Lseek \/ NoFile
  <2>1. UNCHANGED <<file, n, offset, to_write, i, output>>
    BY <1>5 DEF CountDone, Lseek, NoFile
  <2>2. Ending'
    BY <1>0, <1>5, <2>1 DEF CountDone, Lseek, NoFile, Ending
  <2>3. QED
    BY <1>4, <2>1, <2>2
<1>6. CASE ReadWrite
  <2>1. UNCHANGED <<file, n, offset, to_write, i>>
    BY <1>6 DEF ReadWrite
  <2>2. Ending'
    BY <1>0, <1>6, <2>1 DEF ReadWrite, Ending
  <2>3. QED
    BY <1>4, <2>1, <2>2
<1>7. CASE UNCHANGED tailVars
  BY <1>0, <1>4, <1>7 DEF tailVars, Ending
<1>8. QED
  BY <1>2, <1>3, <1>5, <1>6, <1>7 DEF TailNext, TailStep

\* The invariant says how the program may end, in newlines.
LEMMA TailWrites ==
  ASSUME TailInv, tpc \in TailOver \ {"missing"}
  PROVE  IF n >= 0 /\ Newlines(file) > n
         THEN /\ tpc = "success"
              /\ \E j \in 1 .. Len(file) :
                   /\ file[j] = Newline /\ output = SubSeq(file, j + 1, Len(file))
                   /\ Newlines(output) = n
         ELSE tpc = "success" => output = file /\ Newlines(file) = n
<1> DEFINE L == Len(file)
<1>0. /\ L \in Nat /\ file \in Files /\ n \in Int /\ offset \in Int /\ to_write \in Int /\ i \in Int
      /\ Newlines(file) \in Nat /\ Newlines(file) = Cardinality(NewlinesIn(file, 1))
      /\ i < L /\ to_write = L - 2 - i /\ Looked /\ Ending
  BY Bytes DEF TailInv, TailTypeOK
<1> USE DEF TailOver
<1>1. CASE n >= 0 /\ Newlines(file) > n
  <2>1. i >= -1
    BY <1>0, <1>1 DEF Looked
  <2>2. tpc # "crashed"
    <3>1. SUFFICES ASSUME i = -1, offset >= 0 PROVE FALSE
      BY <1>0, <2>1 DEF Ending
    <3>2. QED
      BY <1>0, <1>1, <3>1 DEF Looked
  <2>3. offset = -1
    BY <1>0, <1>1, <2>2 DEF Looked, Ending
  <2>4. i + 2 \in 1 .. L /\ file[i + 2] = Newline
    BY <1>0, <1>1, <2>1, <2>3 DEF Looked
  <2>5. to_write >= 0 /\ to_write <= L
    BY <1>0, <2>4
  <2>6. tpc = "success" /\ output = SubSeq(file, L - to_write + 1, L)
    BY <1>0, <2>2, <2>5 DEF Ending
  <2>7. output = SubSeq(file, (i + 2) + 1, L)
    <3>1. L - to_write + 1 = (i + 2) + 1
      BY <1>0
    <3>2. QED
      BY <2>6, <3>1
  <2>8. Newlines(output) = n
    <3>1. Newlines(output) = Cardinality(NewlinesIn(file, (i + 2) + 1))
      BY <1>0, <2>4, <2>7, TheRest
    <3>2. Cardinality(NewlinesIn(file, i + 2)) = Newlines(output) + 1
      BY <1>0, <2>4, <3>1, OneByte
    <3>3. Newlines(output) \in Nat
      BY <1>0, <2>4, <3>1, Bytes
    <3>4. QED
      BY <1>0, <2>1, <2>3, <3>2, <3>3 DEF Looked
  <2>9. QED
    BY <1>1, <2>4, <2>6, <2>7, <2>8
<1>2. CASE ~(n >= 0 /\ Newlines(file) > n)
  <2>1. SUFFICES ASSUME tpc = "success" PROVE output = file /\ Newlines(file) = n
    BY <1>2
  <2>2. /\ offset < 0 /\ to_write >= 0 /\ to_write <= L
        /\ output = SubSeq(file, L - to_write + 1, L)
    BY <1>0, <2>1 DEF Ending
  <2>3. n >= 0
    BY <1>0, <2>2 DEF Looked
  <2>4. offset = -1
    BY <1>0, <2>2, <2>3 DEF Looked
  <2>5. i < -1
    <3>1. SUFFICES ASSUME i >= -1 PROVE FALSE
      BY <1>0
    <3>2. Cardinality(NewlinesIn(file, i + 2)) = n + 1 /\ i + 2 \in Int /\ i + 2 >= 1
      <4>1. offset = n - Cardinality(NewlinesIn(file, i + 2))
        BY <1>0, <3>1 DEF Looked
      <4>2. i + 2 \in Int /\ i + 2 >= 1 /\ Cardinality(NewlinesIn(file, i + 2)) \in Nat
        BY <1>0, <3>1, Bytes
      <4>3. QED
        BY <1>0, <2>4, <4>1, <4>2
    <3>3. NewlinesIn(file, i + 2) \in SUBSET NewlinesIn(file, 1)
      BY <1>0, <3>1 DEF NewlinesIn
    <3>4. Cardinality(NewlinesIn(file, i + 2)) <= Cardinality(NewlinesIn(file, 1))
      BY <1>0, <3>3, Bytes, FS_Subset
    <3>5. QED
      BY <1>0, <1>2, <2>3, <3>2, <3>4
  <2>6. i = -2 /\ to_write = L
    BY <1>0, <2>2, <2>5
  <2>7. Newlines(file) = n
    BY <1>0, <1>2, <2>3, <2>4, <2>6 DEF Looked
  <2>8. output = file
    <3>1. output = SubSeq(file, 1, L)
      BY <1>0, <2>2, <2>6
    <3>2. file \in Seq({file[j] : j \in DOMAIN file})
      BY <1>0, FilesAssumption
    <3>3. QED
      BY <3>1, <3>2
  <2>9. QED
    BY <2>7, <2>8
<1>3. QED
  BY <1>1, <1>2

\* What follows a newline has a last line without one if the whole has.
LEMMA EndsAlike ==
  ASSUME NEW f \in Files, NEW b \in 1 .. Len(f), f[b] = Newline
  PROVE  Unterminated(SubSeq(f, b + 1, Len(f))) <=> Unterminated(f)
<1> DEFINE s == SubSeq(f, b + 1, Len(f))
<1>1. Len(f) \in Nat /\ f # <<>>
  BY Bytes
<1>2. Len(s) = Len(f) - b /\ \A j \in 1 .. Len(f) - b : s[j] = f[j + b]
  BY <1>1
<1> HIDE DEF s
<1>3. CASE b = Len(f)
  <2>1. s = <<>>
    BY <1>1, <1>2, <1>3 DEF s
  <2>2. QED
    BY <1>3, <2>1 DEF Unterminated, s
<1>4. CASE b < Len(f)
  <2>1. Len(s) \in 1 .. Len(f) - b /\ Len(s) + b = Len(f)
    BY <1>1, <1>2, <1>4
  <2>2. s[Len(s)] = f[Len(f)] /\ s # <<>>
    BY <1>2, <2>1
  <2>3. QED
    BY <1>1, <2>2 DEF Unterminated, s
<1>5. QED
  BY <1>1, <1>3, <1>4

\* And so in lines.
LEMMA TailEnds ==
  ASSUME TailInv
  PROVE  TailRight
<1> DEFINE one == IF Unterminated(file) THEN 1 ELSE 0
<1>0. /\ Len(file) \in Nat /\ file \in Files /\ n \in Int /\ Newlines(file) \in Nat /\ one \in 0 .. 1
  BY Bytes DEF TailInv, TailTypeOK
<1>1. NumLines(file) = Newlines(file) + one
  BY DEF NumLines
<1> HIDE DEF one
<1>2. SUFFICES ASSUME tpc \in TailOver \ {"missing"}
               PROVE  /\ n >= 0 /\ NumLines(file) > n + one => tpc = "success" /\ AreLast(output, n + one)
                      /\ tpc = "success" => AreLast(output, n + one) /\ n <= NumLines(file)
                      /\ tpc # "success" => output = <<>>
  <2>1. n + one = IF Unterminated(file) THEN n + 1 ELSE n
    BY <1>0 DEF one
  <2>2. QED
    BY <1>2, <2>1 DEF TailRight
<1>3. tpc # "success" => output = <<>>
  BY DEF TailInv, Ending
<1>4. CASE n >= 0 /\ Newlines(file) > n
  <2>1. PICK b \in 1 .. Len(file) : /\ file[b] = Newline /\ output = SubSeq(file, b + 1, Len(file))
                                   /\ Newlines(output) = n /\ tpc = "success"
    BY <1>2, <1>4, TailWrites
  <2>2. Unterminated(output) <=> Unterminated(file)
    BY <1>0, <2>1, EndsAlike
  <2>3. NumLines(output) = n + one
    BY <2>1, <2>2 DEF NumLines, one
  <2>4. AreLast(output, n + one)
    BY <1>0, <2>1, <2>3 DEF AreLast
  <2>5. n <= NumLines(file)
    BY <1>0, <1>1, <1>4
  <2>6. QED
    BY <2>1, <2>4, <2>5
<1>5. CASE ~(n >= 0 /\ Newlines(file) > n)
  <2>1. ~(n >= 0 /\ NumLines(file) > n + one)
    BY <1>0, <1>1, <1>5
  <2>2. ASSUME tpc = "success" PROVE AreLast(output, n + one) /\ n <= NumLines(file)
    <3>1. output = file /\ Newlines(file) = n
      BY <1>2, <1>5, <2>2, TailWrites
    <3>2. NumLines(output) = n + one /\ n <= NumLines(file)
      BY <1>0, <1>1, <3>1
    <3>3. file \in Seq({file[j] : j \in DOMAIN file})
      BY <1>0, FilesAssumption
    <3>4. file = SubSeq(file, 0 + 1, Len(file)) /\ 0 \in 0 .. Len(file)
      BY <1>0, <3>3
    <3>5. QED
      BY <3>1, <3>2, <3>4 DEF AreLast
  <2>3. QED
    BY <1>3, <2>1, <2>2
<1>6. QED
  BY <1>3, <1>4, <1>5

\* tail.c writes the last lines, one more of a file whose last line lacks its newline,
\* when the file has more; else nothing or the whole file, and never when it has fewer
\* lines than were asked for, whatever file, number and bytes of the stack.
THEOREM LastLines == TailSpec => []TailRight
<1>1. TailInit => TailInv
  <2> SUFFICES ASSUME TailInit PROVE TailInv
    OBVIOUS
  <2>1. /\ file \in Files /\ n \in Int /\ offset = n /\ to_write = -1 /\ i = Len(file) - 1
        /\ tpc = "count" /\ output = <<>>
    BY CountsAssumption DEF TailInit, TailState
  <2>2. Len(file) \in Nat /\ i + 2 = Len(file) + 1 /\ Cardinality(NewlinesIn(file, Len(file) + 1)) = 0
    BY <2>1, Bytes
  <2>3. TailTypeOK /\ Ending
    BY <2>1, <2>2 DEF TailTypeOK, Ending
  <2>4. Looked
    BY <2>1, <2>2 DEF Looked
  <2>5. QED
    BY <2>3, <2>4 DEF TailInv
<1>2. TailInv /\ [TailNext]_tailVars => TailInv'
  BY TailSteps
<1>3. TailInv => TailRight
  BY TailEnds
<1>4. QED
  BY <1>1, <1>2, <1>3, PTL DEF TailSpec
-----------------------------------------------------------------------------
(***************************************************************************)
(* The shells: what the shell knows of its children is their place in the  *)
(* line, the line itself, and whether they are reaped.                     *)
(***************************************************************************)
LeftChildren == {p \in Pids : procs[p].place = 1 /\ Foreground(p) /\ procs[p].at # "reaped"}
TakenChildren == {p \in Pids : procs[p].place = 1 /\ ~Foreground(p) /\ procs[p].at = "reaped"}

\* A process has at least these fields, and belongs to a line that was typed.
IsProcess(r) ==
  {"at", "job", "place"} \subseteq DOMAIN r /\ r.job \in 1 .. Len(lines) /\ r.place \in Nat \ {0}

ShellTypeOK ==
  /\ version \in Versions /\ spc \in {"prompt", "wait", "exited", "crashed"}
  /\ lines \in Seq(Lines)
  /\ procs \in Seq({procs[p] : p \in DOMAIN procs})
  /\ \A p \in Pids : IsProcess(procs[p])

\* The shell waits for a child of its own, in the foreground.
Waits == spc = "wait" => fg \in Pids /\ procs[fg].place = 1 /\ Foreground(fg)

\* While it waits there is one right child more.
Balance ==
  /\ spc = "prompt" => Cardinality(LeftChildren) = Cardinality(TakenChildren)
  /\ spc = "wait" => Cardinality(LeftChildren) = Cardinality(TakenChildren) + 1
  /\ version = "hw5" => TakenChildren = {}

ShellInv == ShellTypeOK /\ Waits /\ Balance

\* A sequence is one of its own elements, and of any set they are in.
LEMMA Elements ==
  ASSUME NEW S, NEW s \in Seq(S), NEW T, \A k \in DOMAIN s : s[k] \in T
  PROVE  s \in Seq(T)
<1>1. Len(s) \in Nat /\ s \in [1 .. Len(s) -> S] /\ DOMAIN s = 1 .. Len(s)
  BY LenProperties
<1>2. s \in [1 .. Len(s) -> T]
  BY <1>1
<1>3. QED
  BY <1>1, <1>2

LEMMA ShellFinite ==
  ASSUME ShellTypeOK
  PROVE  /\ Len(procs) \in Nat /\ DOMAIN procs = Pids /\ Len(lines) \in Nat
         /\ IsFiniteSet(LeftChildren) /\ IsFiniteSet(TakenChildren)
         /\ Cardinality(LeftChildren) \in Nat /\ Cardinality(TakenChildren) \in Nat
<1>1. Len(procs) \in Nat /\ DOMAIN procs = Pids /\ Len(lines) \in Nat
  BY LenProperties DEF ShellTypeOK, Pids
<1>2. IsFiniteSet(Pids)
  BY <1>1, FS_Interval DEF Pids
<1>3. LeftChildren \in SUBSET Pids /\ TakenChildren \in SUBSET Pids
  BY DEF LeftChildren, TakenChildren
<1>4. QED
  BY <1>1, <1>2, <1>3, FS_Subset, FS_CardinalityType

\* A step of one process changes its record only.
LEMMA OneProcess ==
  ASSUME ShellTypeOK, NEW p \in Pids, NEW r, Step(p, r)
  PROVE  /\ procs' \in Seq({procs'[k] : k \in DOMAIN procs'}) /\ Pids' = Pids
         /\ procs'[p] = r /\ \A k \in Pids : k # p => procs'[k] = procs[k]
<1>1. PICK S : S = {procs[k] : k \in DOMAIN procs} \cup {r}
  OBVIOUS
<1>2. procs \in Seq(S)
  BY <1>1, Elements DEF ShellTypeOK
<1>3. r \in S /\ procs' = [procs EXCEPT ![p] = r] /\ p \in 1 .. Len(procs)
  BY <1>1 DEF Step, Pids
<1>4. /\ procs' \in Seq(S) /\ Len(procs') = Len(procs)
      /\ \A k \in 1 .. Len(procs) : procs'[k] = IF k = p THEN r ELSE procs[k]
  BY <1>2, <1>3, ExceptSeq
<1>5. procs' \in Seq({procs'[k] : k \in DOMAIN procs'})
  BY <1>4, Elements
<1>6. QED
  BY <1>3, <1>4, <1>5 DEF Pids

\* One process more, at the end.
LEMMA MoreProcesses ==
  ASSUME NEW S, NEW s \in Seq(S), NEW r, procs' = Append(s, r)
  PROVE  /\ procs' \in Seq({procs'[k] : k \in DOMAIN procs'}) /\ Pids' = 1 .. Len(s) + 1
         /\ procs'[Len(s) + 1] = r /\ \A k \in 1 .. Len(s) : procs'[k] = s[k]
<1>1. PICK T : T = S \cup {r}
  OBVIOUS
<1>2. s \in Seq(T)
  <2>1. \A k \in DOMAIN s : s[k] \in T
    BY <1>1, LenProperties
  <2>2. QED
    BY <2>1, Elements
<1>3. r \in T
  BY <1>1
<1>4. /\ procs' \in Seq(T) /\ Len(procs') = Len(s) + 1
      /\ procs'[Len(s) + 1] = r /\ \A k \in 1 .. Len(s) : procs'[k] = s[k]
  BY <1>2, <1>3, AppendProperties
<1>5. procs' \in Seq({procs'[k] : k \in DOMAIN procs'})
  BY <1>4, Elements
<1>6. QED
  BY <1>4, <1>5 DEF Pids

\* What the shell's children and their children do is no business of the shell:
\* none is reaped by it, and a process that is forked is no child of the shell.
LEMMA Unseen ==
  ASSUME ShellInv, Quiet, procs' \in Seq({procs'[k] : k \in DOMAIN procs'}),
         Pids \subseteq Pids',
         \A p \in Pids : /\ {"at", "job", "place"} \subseteq DOMAIN procs'[p]
                         /\ procs'[p].place = procs[p].place /\ procs'[p].job = procs[p].job
                         /\ procs'[p].at = "reaped" <=> procs[p].at = "reaped",
         \A p \in Pids' : p \notin Pids => IsProcess(procs'[p]) /\ procs'[p].place # 1
  PROVE  ShellInv'
<1>1. /\ version' = version /\ spc' = spc /\ lines' = lines /\ fg' = fg
      /\ \A p \in Pids : IsProcess(procs[p])
  BY DEF Quiet, ShellInv, ShellTypeOK
<1>2. ShellTypeOK'
  BY <1>1 DEF ShellInv, ShellTypeOK, IsProcess
<1>3. \A p \in Pids : Foreground(p)' <=> Foreground(p)
  BY <1>1 DEF Foreground
<1>4. LeftChildren' = LeftChildren /\ TakenChildren' = TakenChildren
  BY <1>3 DEF LeftChildren, TakenChildren
<1>5. Waits'
  BY <1>1, <1>3 DEF ShellInv, Waits
<1>6. QED
  BY <1>1, <1>2, <1>4, <1>5 DEF ShellInv, Balance

\* The same record but for where the process is and what it holds.
SameChild(r, q) ==
  {"at", "job", "place"} \subseteq DOMAIN q /\ q.place = r.place /\ q.job = r.job

LEMMA OneUnseen ==
  ASSUME ShellInv, Quiet, NEW p \in Pids, NEW r, Step(p, r),
         SameChild(procs[p], r), r.at # "reaped", procs[p].at # "reaped"
  PROVE  ShellInv'
<1>1. ShellTypeOK /\ \A k \in Pids : IsProcess(procs[k])
  BY DEF ShellInv, ShellTypeOK
<1>2. /\ procs' \in Seq({procs'[k] : k \in DOMAIN procs'}) /\ Pids' = Pids
      /\ procs'[p] = r /\ \A k \in Pids : k # p => procs'[k] = procs[k]
  BY <1>1, OneProcess
<1>3. ASSUME NEW k \in Pids
      PROVE  /\ {"at", "job", "place"} \subseteq DOMAIN procs'[k]
             /\ procs'[k].place = procs[k].place /\ procs'[k].job = procs[k].job
             /\ procs'[k].at = "reaped" <=> procs[k].at = "reaped"
  <2>1. CASE k = p
    BY <1>2, <2>1 DEF SameChild
  <2>2. CASE k # p
    BY <1>1, <1>2, <2>2 DEF IsProcess
  <2>3. QED
    BY <2>1, <2>2
<1>4. QED
  BY <1>2, <1>3, Unseen

LEMMA Executed ==
  ASSUME ShellInv, Quiet, NEW p \in Pids, NEW r, Exec(p, r),
         SameChild(procs[p], r), procs[p].at # "reaped"
  PROVE  ShellInv'
<1>1. PICK q : q = [r EXCEPT !.at = IF Execs(r.argv) THEN "run" ELSE "zombie"]
  OBVIOUS
<1>2. SameChild(procs[p], q) /\ q.at # "reaped"
  BY <1>1 DEF SameChild
<1>3. Step(p, q)
  BY <1>1 DEF Exec
<1>4. QED
  BY <1>2, <1>3, OneUnseen

\* The steps of a child up to exec, the fork in a pipeline apart.
LEMMA ChildUnseen ==
  ASSUME ShellInv, NEW p \in Pids,
         ExecWhole(p) \/ Redirect(p) \/ ExecLast(p) \/ Talk(p) \/ Listen(p) \/ ForkRightFails(p)
  PROVE  ShellInv'
<1>1. Quiet /\ IsProcess(procs[p]) /\ procs[p].at # "reaped"
  BY DEF ExecWhole, Redirect, ExecLast, Talk, Listen, ForkRightFails, At, ShellInv, ShellTypeOK
<1>2. SameChild(procs[p], procs[p])
  BY <1>1 DEF SameChild, IsProcess
<1>3. CASE ExecWhole(p)
  BY <1>1, <1>2, <1>3, Executed DEF ExecWhole
<1>4. CASE Redirect(p)
  <2>1. PICK argv : argv = AfterIn(procs[p].argv)
    OBVIOUS
  <2>2. PICK r : r = [procs[p] EXCEPT !.at = "pipe", !.argv = AfterOut(argv),
                                      !.in = IF OpensIn(procs[p].argv) THEN File ELSE @,
                                      !.out = IF OpensOut(argv) THEN File ELSE @]
    OBVIOUS
  <2>3. Step(p, r)
    BY <1>4, <2>1, <2>2 DEF Redirect
  <2>4. SameChild(procs[p], r) /\ r.at # "reaped"
    BY <1>2, <2>2 DEF SameChild
  <2>5. QED
    BY <1>1, <2>3, <2>4, OneUnseen
<1>5. ASSUME Step(p, [procs[p] EXCEPT !.at = "zombie"]) PROVE ShellInv'
  <2>1. PICK r : r = [procs[p] EXCEPT !.at = "zombie"]
    OBVIOUS
  <2>2. SameChild(procs[p], r) /\ r.at # "reaped"
    BY <1>2, <2>1 DEF SameChild
  <2>3. QED
    BY <1>1, <1>5, <2>1, <2>2, OneUnseen
<1>6. CASE ExecLast(p)
  BY <1>1, <1>2, <1>5, <1>6, Executed DEF ExecLast
<1>7. CASE ForkRightFails(p)
  BY <1>5, <1>7 DEF ForkRightFails
<1>8. CASE Talk(p)
  <2>1. PICK r : r = [procs[p] EXCEPT !.out = PipeOf(p), !.held = @ \ {<<"read", p>>, <<"write", p>>}]
    OBVIOUS
  <2>2. Exec(p, r)
    BY <1>8, <2>1 DEF Talk
  <2>3. SameChild(procs[p], r)
    BY <1>2, <2>1 DEF SameChild
  <2>4. QED
    BY <1>1, <2>2, <2>3, Executed
<1>9. CASE Listen(p)
  <2>1. PICK r : r = [procs[p] EXCEPT !.at = "pipe", !.in = PipeOf(PipeToRead(p)),
                                      !.held = @ \ {<<"write", PipeToRead(p)>>}]
    OBVIOUS
  <2>2. Step(p, r)
    BY <1>9, <2>1 DEF Listen
  <2>3. SameChild(procs[p], r) /\ r.at # "reaped"
    BY <1>2, <2>1 DEF SameChild
  <2>4. QED
    BY <1>1, <2>2, <2>3, OneUnseen
<1>10. QED
  BY <1>3, <1>4, <1>6, <1>7, <1>8, <1>9

\* The fork in a pipeline: the new process has a place behind the first.
LEMMA ForkUnseen ==
  ASSUME ShellInv, NEW p \in Pids, ForkRight(p)
  PROVE  ShellInv'
<1>1. /\ Quiet /\ ShellTypeOK /\ IsProcess(procs[p]) /\ procs[p].at # "reaped"
      /\ \A k \in Pids : IsProcess(procs[k])
  BY DEF ForkRight, At, ShellInv, ShellTypeOK
<1>2. PICK held : held = procs[p].held \cup {<<"read", p>>, <<"write", p>>}
  OBVIOUS
<1>3. PICK left : left = [procs[p] EXCEPT !.at = "talk", !.argv = LeftOf(procs[p].argv), !.held = held]
  OBVIOUS
<1>4. PICK right : right = [Child(procs[p].job, procs[p].place + 1, RightOf(procs[p].argv),
                                  procs[p].in, procs[p].out, held) EXCEPT !.at = "listen"]
  OBVIOUS
<1>5. procs' = Append([procs EXCEPT ![p] = left], right)
  BY <1>2, <1>3, <1>4 DEF ForkRight
<1>6. SameChild(procs[p], left) /\ left.at = "talk"
  BY <1>1, <1>3 DEF SameChild, IsProcess
<1>7. /\ {"at", "job", "place"} \subseteq DOMAIN right /\ right.job = procs[p].job
      /\ right.place = procs[p].place + 1
  BY <1>4 DEF Child
<1>8. PICK S : S = {procs[k] : k \in DOMAIN procs} \cup {left}
  OBVIOUS
<1>9. PICK s : s = [procs EXCEPT ![p] = left]
  OBVIOUS
<1>10. /\ s \in Seq(S) /\ Len(s) = Len(procs)
       /\ \A k \in 1 .. Len(procs) : s[k] = IF k = p THEN left ELSE procs[k]
  <2>1. procs \in Seq(S)
    BY <1>1, <1>8, Elements DEF ShellTypeOK
  <2>2. left \in S /\ p \in 1 .. Len(procs)
    BY <1>8 DEF Pids
  <2>3. QED
    BY <1>9, <2>1, <2>2, ExceptSeq
<1>11. /\ procs' \in Seq({procs'[k] : k \in DOMAIN procs'}) /\ Pids' = 1 .. Len(procs) + 1
       /\ procs'[Len(procs) + 1] = right /\ \A k \in 1 .. Len(procs) : procs'[k] = s[k]
  <2>1. procs' = Append(s, right)
    BY <1>5, <1>9
  <2>2. s \in Seq(S) /\ Len(s) = Len(procs)
    BY <1>10
  <2>3. QED
    BY <2>1, <2>2, MoreProcesses
<1>12. Len(procs) \in Nat
  BY <1>1, ShellFinite
<1>13. Pids \subseteq Pids' /\ \A k \in Pids' : k \notin Pids => k = Len(procs) + 1
  BY SMTT(30), <1>11, <1>12 DEF Pids
<1>14. ASSUME NEW k \in Pids
       PROVE  /\ {"at", "job", "place"} \subseteq DOMAIN procs'[k]
              /\ procs'[k].place = procs[k].place /\ procs'[k].job = procs[k].job
              /\ procs'[k].at = "reaped" <=> procs[k].at = "reaped"
  <2>1. procs'[k] = IF k = p THEN left ELSE procs[k]
    BY <1>10, <1>11 DEF Pids
  <2>2. CASE k = p
    BY <1>1, <1>6, <2>1, <2>2 DEF SameChild
  <2>3. CASE k # p
    BY <1>1, <2>1, <2>3 DEF IsProcess
  <2>4. QED
    BY <2>2, <2>3
<1>15. IsProcess(right) /\ right.place # 1
  BY <1>1, <1>7 DEF IsProcess
<1>16. QED
  BY <1>1, <1>11, <1>13, <1>14, <1>15, Unseen

\* The steps of the commands.
LEMMA CommandUnseen ==
  ASSUME ShellInv, NEW p \in Pids, CommandStep(p) \/ UserInput(p)
  PROVE  ShellInv'
<1>1. Quiet /\ IsProcess(procs[p]) /\ procs[p].at # "reaped"
  BY DEF CommandStep, CommandRead, CommandEof, CommandWrite, CommandSigpipe, CommandExit, UserInput,
         Hungry, Ready, At, ShellInv, ShellTypeOK
<1>2. SameChild(procs[p], procs[p])
  BY <1>1 DEF SameChild, IsProcess
<1>3. ASSUME Dies(p) PROVE ShellInv'
  <2>1. PICK r : r = [procs[p] EXCEPT !.at = "zombie"]
    OBVIOUS
  <2>2. SameChild(procs[p], r) /\ r.at # "reaped"
    BY <1>2, <2>1 DEF SameChild
  <2>3. QED
    BY <1>1, <1>3, <2>1, <2>2, OneUnseen DEF Dies
<1>4. ASSUME Fed(p) PROVE ShellInv'
  <2>1. PICK r : r = [procs[p] EXCEPT !.buf = 1, !.fed = TRUE]
    OBVIOUS
  <2>2. SameChild(procs[p], r) /\ r.at # "reaped"
    BY <1>1, <1>2, <2>1 DEF SameChild
  <2>3. QED
    BY <1>1, <1>4, <2>1, <2>2, OneUnseen DEF Fed
<1>5. ASSUME Step(p, [procs[p] EXCEPT !.buf = 0]) PROVE ShellInv'
  <2>1. PICK r : r = [procs[p] EXCEPT !.buf = 0]
    OBVIOUS
  <2>2. SameChild(procs[p], r) /\ r.at # "reaped"
    BY <1>1, <1>2, <2>1 DEF SameChild
  <2>3. QED
    BY <1>1, <1>5, <2>1, <2>2, OneUnseen
<1>6. QED
  BY <1>3, <1>4, <1>5 DEF CommandStep, CommandRead, CommandEof, CommandWrite, CommandSigpipe,
                          CommandExit, UserInput

\* A line that runs nothing: no child comes or goes.
LEMMA NothingRuns ==
  ASSUME ShellInv, NEW line \in Lines, NoCommand(line) \/ RunFails(line)
  PROVE  ShellInv'
<1>1. /\ spc = "prompt" /\ lines' = Append(lines, line) /\ procs' = procs /\ version' = version
      /\ ShellTypeOK /\ Balance
  BY DEF NoCommand, RunFails, ShellInv
<1>2. spc' \in {"prompt", "exited", "crashed"}
  <2>1. EchoOutcomes(line) \subseteq {"prompt", "crashed"}
    BY DEF EchoOutcomes
  <2>2. BuiltinOutcomes(line) \subseteq {"prompt", "exited", "crashed"}
    BY <2>1 DEF BuiltinOutcomes
  <2>3. QED
    BY <2>2 DEF NoCommand, RunFails
<1>3. /\ lines' \in Seq(Lines) /\ Len(lines') = Len(lines) + 1 /\ Len(lines) \in Nat
      /\ \A k \in 1 .. Len(lines) : lines'[k] = lines[k]
  BY <1>1, AppendProperties DEF ShellTypeOK
<1>4. Pids' = Pids /\ \A p \in Pids : IsProcess(procs[p])'
  BY <1>1, <1>3 DEF Pids, ShellTypeOK, IsProcess
<1>5. ShellTypeOK'
  BY <1>1, <1>2, <1>3, <1>4 DEF ShellTypeOK
<1>6. \A p \in Pids : Foreground(p)' <=> Foreground(p)
  BY <1>1, <1>3 DEF Foreground, ShellTypeOK, IsProcess
<1>7. LeftChildren' = LeftChildren /\ TakenChildren' = TakenChildren
  BY <1>1, <1>4, <1>6 DEF LeftChildren, TakenChildren
<1>8. Waits' /\ Balance'
  BY <1>1, <1>2, <1>7 DEF Waits, Balance
<1>9. QED
  BY <1>5, <1>8 DEF ShellInv

\* A new child of the shell is left until it is reaped, if it is in the foreground.
LEMMA OneMore ==
  ASSUME ShellInv, NEW line \in Lines, RunCommand(line)
  PROVE  ShellInv'
<1>1. /\ spc = "prompt" /\ lines' = Append(lines, line) /\ version' = version
      /\ ShellTypeOK /\ Balance
      /\ spc' = IF IsBackground(line) THEN "prompt" ELSE "wait"
  BY DEF RunCommand, ShellInv
<1>2. /\ lines' \in Seq(Lines) /\ Len(lines') = Len(lines) + 1 /\ Len(lines) \in Nat
      /\ lines'[Len(lines) + 1] = line /\ \A k \in 1 .. Len(lines) : lines'[k] = lines[k]
  BY <1>1, AppendProperties DEF ShellTypeOK
<1>3. PICK new : new = Len(procs) + 1
  OBVIOUS
<1>4. PICK r : r = Child(Len(lines'), 1, Cut(line, "&"), Terminal, Terminal, {})
  OBVIOUS
<1>5. /\ procs' \in Seq({procs'[k] : k \in DOMAIN procs'}) /\ Pids' = 1 .. new
      /\ procs'[new] = r /\ \A k \in Pids : procs'[k] = procs[k]
  <2>1. procs' = Append(procs, r)
    BY <1>4 DEF RunCommand
  <2>2. QED
    BY <1>1, <1>3, <2>1, MoreProcesses DEF ShellTypeOK, Pids
<1>6. Len(procs) \in Nat /\ IsFiniteSet(LeftChildren) /\ Cardinality(LeftChildren) \in Nat
  BY <1>1, ShellFinite
<1>7. Pids' = Pids \cup {new} /\ new \notin Pids
  BY <1>3, <1>5, <1>6 DEF Pids
<1>8. fg' = new
  <2>1. procs' = Append(procs, r) /\ fg' = Len(procs')
    BY <1>4 DEF RunCommand
  <2>2. procs \in Seq({procs[k] : k \in DOMAIN procs} \cup {r})
    BY <1>1, Elements DEF ShellTypeOK
  <2>3. QED
    BY <1>3, <2>1, <2>2, AppendProperties
<1>9. /\ {"at", "job", "place"} \subseteq DOMAIN r /\ r.job = Len(lines) + 1 /\ r.place = 1
      /\ r.at = "child"
  BY <1>2, <1>4 DEF Child
<1>10. \A p \in Pids : IsProcess(procs[p])'
  <2>1. SUFFICES ASSUME NEW p \in Pids PROVE IsProcess(procs[p])'
    OBVIOUS
  <2>2. IsProcess(procs[p]) /\ procs'[p] = procs[p]
    BY <1>1, <1>5 DEF ShellTypeOK
  <2>3. QED
    BY <1>2, <2>2 DEF IsProcess
<1>11. IsProcess(procs[new])'
  BY <1>2, <1>5, <1>9 DEF IsProcess
<1>12. ShellTypeOK'
  BY <1>1, <1>2, <1>5, <1>7, <1>10, <1>11 DEF ShellTypeOK
<1>13. \A p \in Pids : Foreground(p)' <=> Foreground(p)
  BY <1>1, <1>2, <1>5 DEF Foreground, ShellTypeOK, IsProcess
<1>14. Foreground(new)' <=> ~IsBackground(line)
  BY <1>2, <1>5, <1>9 DEF Foreground
<1>15. TakenChildren' = TakenChildren
  BY <1>5, <1>7, <1>9, <1>13 DEF TakenChildren
<1>16. CASE IsBackground(line)
  <2>1. LeftChildren' = LeftChildren
    BY <1>5, <1>7, <1>13, <1>14, <1>16 DEF LeftChildren
  <2>2. QED
    BY <1>1, <1>12, <1>15, <1>16, <2>1 DEF ShellInv, Waits, Balance
<1>17. CASE ~IsBackground(line)
  <2>1. LeftChildren' = LeftChildren \cup {new}
    BY <1>5, <1>7, <1>9, <1>13, <1>14, <1>17 DEF LeftChildren
  <2>2. new \notin LeftChildren
    BY <1>7 DEF LeftChildren
  <2>3. Cardinality(LeftChildren') = Cardinality(LeftChildren) + 1
    BY <1>6, <2>1, <2>2, FS_AddElement
  <2>4. Balance'
    BY <1>1, <1>15, <1>17, <2>3 DEF Balance
  <2>5. Waits'
    BY <1>5, <1>7, <1>8, <1>9, <1>14, <1>17 DEF Waits
  <2>6. QED
    BY <1>12, <2>4, <2>5 DEF ShellInv
<1>18. QED
  BY <1>16, <1>17

\* The child that is reaped is one of those left in the foreground, or one taken instead.
LEMMA OneReaped ==
  ASSUME ShellInv, NEW p \in Pids, Reap(p)
  PROVE  ShellInv'
<1>1. /\ spc = "wait" /\ spc' = "prompt" /\ lines' = lines /\ version' = version
      /\ procs[p].at = "zombie" /\ ShellTypeOK /\ Balance /\ IsProcess(procs[p])
  BY DEF Reap, At, ShellInv, ShellTypeOK
<1>2. procs[p].place = 1 /\ (version = "hw5" => Foreground(p))
  BY VersionsAssumption DEF Reap, Awaited, ShellInv, ShellTypeOK, Waits
<1>3. PICK r : r = [procs[p] EXCEPT !.at = "reaped"]
  OBVIOUS
<1>4. /\ {"at", "job", "place"} \subseteq DOMAIN r /\ r.job = procs[p].job /\ r.place = 1
      /\ r.at = "reaped"
  BY <1>1, <1>2, <1>3 DEF IsProcess
<1>5. Step(p, r)
  BY <1>3 DEF Reap, Step
<1>6. /\ procs' \in Seq({procs'[k] : k \in DOMAIN procs'}) /\ Pids' = Pids
      /\ procs'[p] = r /\ \A k \in Pids : k # p => procs'[k] = procs[k]
  BY <1>1, <1>5, OneProcess
<1>7. \A k \in Pids : procs'[k].job = procs[k].job /\ procs'[k].place = procs[k].place
  BY <1>2, <1>4, <1>6
<1>8. \A k \in Pids : IsProcess(procs[k])'
  BY <1>1, <1>4, <1>6, <1>7 DEF ShellTypeOK, IsProcess
<1>9. ShellTypeOK'
  BY <1>1, <1>6, <1>8 DEF ShellTypeOK
<1>10. \A k \in Pids : Foreground(k)' <=> Foreground(k)
  BY <1>1, <1>7 DEF Foreground
<1>11. /\ IsFiniteSet(LeftChildren) /\ IsFiniteSet(TakenChildren)
       /\ Cardinality(LeftChildren) \in Nat /\ Cardinality(TakenChildren) \in Nat
  BY <1>1, ShellFinite
<1>12. Waits'
  BY <1>1 DEF Waits
<1>13. CASE Foreground(p)
  <2>1. LeftChildren' = LeftChildren \ {p} /\ p \in LeftChildren
    BY <1>1, <1>2, <1>4, <1>6, <1>7, <1>10, <1>13 DEF LeftChildren
  <2>2. TakenChildren' = TakenChildren
    BY <1>6, <1>7, <1>10, <1>13 DEF TakenChildren
  <2>3. Cardinality(LeftChildren') = Cardinality(LeftChildren) - 1
    BY <1>11, <2>1, FS_RemoveElement
  <2>4. Balance'
    BY <1>1, <1>11, <2>2, <2>3 DEF Balance
  <2>5. QED
    BY <1>9, <1>12, <2>4 DEF ShellInv
<1>14. CASE ~Foreground(p)
  <2>1. LeftChildren' = LeftChildren
    BY <1>6, <1>7, <1>10, <1>14 DEF LeftChildren
  <2>2. TakenChildren' = TakenChildren \cup {p} /\ p \notin TakenChildren
    BY <1>1, <1>2, <1>4, <1>6, <1>7, <1>10, <1>14 DEF TakenChildren
  <2>3. Cardinality(TakenChildren') = Cardinality(TakenChildren) + 1
    BY <1>11, <2>2, FS_AddElement
  <2>4. Balance'
    BY <1>1, <1>2, <1>11, <1>14, <2>1, <2>3 DEF Balance
  <2>5. QED
    BY <1>9, <1>12, <2>4 DEF ShellInv
<1>15. QED
  BY <1>13, <1>14

LEMMA ShellSteps == ShellInv /\ [Next]_vars => ShellInv'
<1>1. SUFFICES ASSUME ShellInv, [Next]_vars PROVE ShellInv'
  OBVIOUS
<1>2. ASSUME NEW line \in Lines, NoCommand(line) \/ RunCommand(line) \/ RunFails(line)
      PROVE  ShellInv'
  BY <1>1, <1>2, NothingRuns, OneMore
<1>3. CASE ShellStep
  BY <1>1, <1>3, OneReaped DEF ShellStep
<1>4. ASSUME EndOfInput \/ UNCHANGED vars PROVE ShellInv'
  BY <1>1, <1>4 DEF EndOfInput, vars, ShellInv, ShellTypeOK, Waits, Balance, LeftChildren,
                    TakenChildren, Foreground, Pids, IsProcess
<1>5. ASSUME NEW p \in Pids, ChildStep(p) \/ ForkRightFails(p) \/ CommandStep(p) \/ UserInput(p)
      PROVE  ShellInv'
  BY <1>1, <1>5, ChildUnseen, ForkUnseen, CommandUnseen DEF ChildStep
<1>6. QED
  BY <1>1, <1>2, <1>3, <1>4, <1>5 DEF Next

\* The shell waits once for every command in the foreground, and takes one child: at the
\* prompt as many are left as were taken instead, however many lines are typed and
\* whatever their children do (SP_HW3 run_command.c:42); SP_HW5 takes the one it waits
\* for (run_command.c:37).
THEOREM Balanced == Spec => []PromptBalance
<1>1. Init => ShellInv
  <2>1. SUFFICES ASSUME Init PROVE ShellInv
    OBVIOUS
  <2>2. procs = <<>> /\ lines = <<>> /\ Pids = {}
    BY <2>1, EmptySeq DEF Init, Pids
  <2>3. LeftChildren = {} /\ TakenChildren = {}
    BY <2>2 DEF LeftChildren, TakenChildren
  <2>4. ShellTypeOK
    BY <2>1, <2>2, EmptySeq DEF Init, ShellTypeOK
  <2>5. QED
    BY <2>1, <2>3, <2>4 DEF Init, ShellInv, Waits, Balance
<1>2. ShellInv /\ [Next]_vars => ShellInv'
  BY ShellSteps
<1>3. ShellInv => PromptBalance
  <2>1. SUFFICES ASSUME ShellInv PROVE PromptBalance
    OBVIOUS
  <2>2. LeftChildren = {p \in {k \in Pids : procs[k].place = 1} :
                          Foreground(p) /\ procs[p].at # "reaped"}
    BY DEF LeftChildren
  <2>3. TakenChildren = {p \in {k \in Pids : procs[k].place = 1} :
                           ~Foreground(p) /\ procs[p].at = "reaped"}
    BY DEF TakenChildren
  <2>4. QED
    BY <2>1, <2>2, <2>3 DEF ShellInv, Balance, PromptBalance
<1>4. QED
  BY <1>1, <1>2, <1>3, PTL DEF Spec
-----------------------------------------------------------------------------
(***************************************************************************)
(* The lines of the shells: where the words, the signs and the commands of *)
(* a line are.                                                             *)
(***************************************************************************)
Less == {ss \in Nat \X Nat : ss[1] < ss[2]}

\* There is a least number in a set of numbers.
LEMMA LeastNumber ==
  ASSUME NEW S \in SUBSET Nat, S # {}
  PROVE  \E h \in S : \A m \in S : h <= m
<1>1. IsWellFoundedOn(Less, Nat)
  BY NatLessThanWellFounded DEF OpToRel, Less
<1>2. PICK h \in S : \A m \in S : ~(<<m, h>> \in Less)
  BY <1>1, WFMin
<1>3. ASSUME NEW m \in S PROVE h <= m
  <2>1. m \in Nat /\ h \in Nat /\ <<m, h>>[1] = m /\ <<m, h>>[2] = h
    OBVIOUS
  <2>2. ~(m < h)
    BY <1>2, <2>1 DEF Less
  <2>3. QED
    BY <2>1, <2>2
<1>4. QED
  BY <1>3

\* The words from one place to another one.
LEMMA PartIs ==
  ASSUME NEW S, NEW s \in Seq(S), NEW m \in 1 .. Len(s) + 1, NEW h \in m - 1 .. Len(s)
  PROVE  /\ SubSeq(s, m, h) \in Seq(S) /\ Len(SubSeq(s, m, h)) = h - m + 1
         /\ \A g \in 1 .. h - m + 1 : SubSeq(s, m, h)[g] = s[m + g - 1]
<1>1. Len(s) \in Nat /\ m \in Int /\ h \in Int /\ m - 1 <= h
  OBVIOUS
<1>2. \A g \in m .. h : s[g] \in S
  <2>1. ASSUME NEW g \in m .. h PROVE s[g] \in S
    <3>1. g \in 1 .. Len(s)
      BY <1>1
    <3>2. QED
      BY <3>1
  <2>2. QED
    BY <2>1
<1>3. SubSeq(s, m, h) \in Seq(S) /\ Len(SubSeq(s, m, h)) = IF m <= h THEN h - m + 1 ELSE 0
  BY <1>1, <1>2, SubSeqProperties
<1>4. \A g \in 1 .. h - m + 1 : SubSeq(s, m, h)[g] = s[m + g - 1]
  BY <1>1, <1>2, SubSeqProperties
<1>5. QED
  BY <1>1, <1>3, <1>4

LEMMA PartOfPart ==
  ASSUME NEW s \in Seq(STRING), NEW m \in Int, NEW h \in Int, NEW g \in Int, NEW j \in Int,
         1 <= m, m <= h + 1, h <= Len(s), 1 <= g, g <= j + 1, j <= h - m + 1,
         NEW x \in Int, x = m + g - 1, NEW y \in Int, y = m + j - 1
  PROVE  SubSeq(SubSeq(s, m, h), g, j) = SubSeq(s, x, y)
<1> DEFINE t == SubSeq(s, m, h)
           u == SubSeq(t, g, j)
           v == SubSeq(s, m + g - 1, m + j - 1)
<1>1. m \in 1 .. Len(s) + 1 /\ h \in m - 1 .. Len(s)
  OBVIOUS
<1>2. t \in Seq(STRING) /\ Len(t) = h - m + 1 /\ \A k \in 1 .. h - m + 1 : t[k] = s[m + k - 1]
  BY <1>1, PartIs
<1> HIDE DEF t
<1>3. /\ Len(s) \in Nat /\ m \in Int /\ h \in Int /\ g \in Int /\ j \in Int
      /\ 1 <= m /\ m - 1 <= h /\ h <= Len(s) /\ 1 <= g /\ g - 1 <= j /\ j <= h - m + 1
  OBVIOUS
<1>4. g \in 1 .. Len(t) + 1 /\ j \in g - 1 .. Len(t)
  BY <1>2, <1>3
<1>5. u \in Seq(STRING) /\ Len(u) = j - g + 1 /\ \A k \in 1 .. j - g + 1 : u[k] = t[g + k - 1]
  BY <1>2, <1>4, PartIs
<1> HIDE DEF u
<1>6. m + g - 1 \in 1 .. Len(s) + 1 /\ m + j - 1 \in (m + g - 1) - 1 .. Len(s)
  BY <1>3
<1>7. /\ v \in Seq(STRING) /\ Len(v) = (m + j - 1) - (m + g - 1) + 1
      /\ \A k \in 1 .. (m + j - 1) - (m + g - 1) + 1 : v[k] = s[m + g - 1 + k - 1]
  BY <1>6, PartIs
<1> HIDE DEF v
<1>8. Len(u) = Len(v)
  BY <1>3, <1>5, <1>7
<1>9. ASSUME NEW k \in 1 .. Len(u) PROVE u[k] = v[k]
  <2>1. k \in Int /\ k \in 1 .. j - g + 1 /\ g + k - 1 \in 1 .. h - m + 1
    <3>1. k \in 1 .. j - g + 1 /\ k \in Int
      BY <1>5
    <3>2. QED
      BY <1>3, <3>1
  <2>2. u[k] = s[m + (g + k - 1) - 1]
    BY <1>2, <1>5, <2>1
  <2>3. k \in 1 .. (m + j - 1) - (m + g - 1) + 1 /\ m + g - 1 + k - 1 = m + (g + k - 1) - 1
    BY <1>3, <2>1
  <2>4. QED
    BY <1>7, <2>2, <2>3
<1>10. u = v
  BY <1>5, <1>7, <1>8, <1>9, SeqEqual
<1>11. QED
  BY <1>10 DEF u, v, t

\* The first place of a word, and the line cut there.
LEMMA FirstIs ==
  ASSUME NEW s \in Seq(STRING), NEW w
  PROVE  /\ First(s, w) \in 0 .. Len(s)
         /\ First(s, w) = 0 => \A g \in 1 .. Len(s) : s[g] # w
         /\ First(s, w) # 0 => s[First(s, w)] = w /\ \A g \in 1 .. Len(s) : g < First(s, w) => s[g] # w
<1> DEFINE I == {g \in 1 .. Len(s) : s[g] = w}
<1>1. First(s, w) = IF I # {} THEN Min(I) ELSE 0
  BY DEF First, SelectInSeq
<1>2. Len(s) \in Nat /\ I \in SUBSET Nat
  OBVIOUS
<1>3. CASE I = {}
  BY <1>1, <1>2, <1>3
<1>4. CASE I # {}
  <2>1. Min(I) \in I /\ \A y \in I : Min(I) <= y
    <3>1. \E x \in I : \A y \in I : x <= y
      BY <1>2, <1>4, LeastNumber
    <3>2. QED
      BY <3>1 DEF Min
  <2>2. First(s, w) \in I /\ \A y \in I : First(s, w) <= y
    BY <1>1, <1>4, <2>1
  <2>3. QED
    BY <1>2, <2>2
<1>5. QED
  BY <1>3, <1>4

LEMMA FirstAt ==
  ASSUME NEW s \in Seq(STRING), NEW w, NEW g \in 1 .. Len(s), s[g] = w,
         \A j \in 1 .. Len(s) : j < g => s[j] # w
  PROVE  First(s, w) = g
<1>1. First(s, w) # 0 /\ First(s, w) \in 1 .. Len(s) /\ s[First(s, w)] = w /\ ~(First(s, w) < g)
  BY FirstIs
<1>2. ~(g < First(s, w))
  BY <1>1, FirstIs
<1>3. QED
  BY <1>1, <1>2

LEMMA NoFirst ==
  ASSUME NEW s \in Seq(STRING), NEW w, \A j \in 1 .. Len(s) : s[j] # w
  PROVE  First(s, w) = 0
BY FirstIs

LEMMA CutIs ==
  ASSUME NEW s \in Seq(STRING), NEW w
  PROVE  \E e \in 0 .. Len(s) : /\ Cut(s, w) = SubSeq(s, 1, e) /\ \A g \in 1 .. e : s[g] # w
                                /\ e < Len(s) => s[e + 1] = w
<1>1. Len(s) \in Nat /\ First(s, w) \in 0 .. Len(s)
  BY FirstIs
<1>2. CASE First(s, w) = 0
  <2>1. Cut(s, w) = SubSeq(s, 1, Len(s))
    BY <1>2, SubSeqFull DEF Cut
  <2>2. QED
    BY <1>1, <1>2, <2>1, FirstIs
<1>3. CASE First(s, w) # 0
  <2> DEFINE e == First(s, w) - 1
  <2>1. e \in 0 .. Len(s) /\ e + 1 = First(s, w)
    BY <1>1, <1>3
  <2>2. Cut(s, w) = SubSeq(s, 1, e) /\ s[e + 1] = w
    BY <1>3, <2>1, FirstIs DEF Cut
  <2>3. \A g \in 1 .. e : g \in 1 .. Len(s) /\ g < First(s, w)
    BY <1>1, <2>1
  <2>4. \A g \in 1 .. e : s[g] # w
    BY <1>3, <2>3, FirstIs
  <2>5. QED
    BY <2>1, <2>2, <2>4
<1>4. QED
  BY <1>2, <1>3

\* A line with no such word stays as it is; else it is cut before the first.
LEMMA CutAt ==
  ASSUME NEW s \in Seq(STRING), NEW w, NEW g \in 1 .. Len(s), s[g] = w,
         \A j \in 1 .. Len(s) : j < g => s[j] # w
  PROVE  Cut(s, w) = SubSeq(s, 1, g - 1)
<1>1. First(s, w) = g /\ g # 0
  BY FirstAt
<1>2. QED
  BY <1>1 DEF Cut
-----------------------------------------------------------------------------
(* The bars of a line: a bar is the k-th when k bars stand up to it.         *)

Rank(argv, g) == Cardinality({j \in Bars(argv) : j <= g})
\* Where a command of the line begins, less one, and ends, plus one.
Starts(argv) == {0} \cup Bars(argv)
Ends(argv) == Bars(argv) \cup {Len(argv) + 1}

LEMMA BarsAre ==
  ASSUME NEW s \in Seq(STRING)
  PROVE  /\ Len(s) \in Nat /\ Bars(s) \subseteq 1 .. Len(s) /\ IsFiniteSet(Bars(s))
         /\ Cardinality(Bars(s)) \in Nat /\ NumCommands(s) = Cardinality(Bars(s)) + 1
         /\ Starts(s) \subseteq 0 .. Len(s) /\ Ends(s) \subseteq 1 .. Len(s) + 1
<1>1. Len(s) \in Nat /\ Bars(s) \subseteq 1 .. Len(s) /\ Bars(s) \in SUBSET (1 .. Len(s))
  BY DEF Bars
<1>2. IsFiniteSet(1 .. Len(s))
  BY <1>1, FS_Interval
<1>3. IsFiniteSet(Bars(s)) /\ Cardinality(Bars(s)) \in Nat
  BY <1>1, <1>2, FS_Subset, FS_CardinalityType
<1>4. QED
  BY <1>1, <1>3 DEF NumCommands, Starts, Ends

LEMMA RankIs ==
  ASSUME NEW s \in Seq(STRING), NEW g \in Int
  PROVE  /\ IsFiniteSet({j \in Bars(s) : j <= g})
         /\ Rank(s, g) \in Nat /\ Rank(s, g) <= Cardinality(Bars(s))
         /\ g \in Bars(s) => Rank(s, g) # 0
<1>1. IsFiniteSet(Bars(s)) /\ {j \in Bars(s) : j <= g} \in SUBSET Bars(s)
  BY BarsAre
<1>2. IsFiniteSet({j \in Bars(s) : j <= g}) /\ Rank(s, g) <= Cardinality(Bars(s))
  BY <1>1, FS_Subset DEF Rank
<1>3. Rank(s, g) \in Nat
  BY <1>2, FS_CardinalityType DEF Rank
<1>4. ASSUME g \in Bars(s) PROVE Rank(s, g) # 0
  <2>1. g \in {j \in Bars(s) : j <= g}
    BY <1>4
  <2>2. QED
    BY <1>2, <2>1, FS_EmptySet DEF Rank
<1>5. QED
  BY <1>2, <1>3, <1>4

LEMMA RankSame ==
  ASSUME NEW s \in Seq(STRING), NEW b \in Int, NEW c \in Int, b <= c,
         \A j \in b + 1 .. c : j \notin Bars(s)
  PROVE  Rank(s, c) = Rank(s, b)
<1>1. ASSUME NEW j \in Bars(s) PROVE j <= c <=> j <= b
  <2>1. j \in Int
    BY BarsAre
  <2>2. QED
    BY <1>1, <2>1
<1>2. {j \in Bars(s) : j <= c} = {j \in Bars(s) : j <= b}
  BY <1>1
<1>3. QED
  BY <1>2 DEF Rank

LEMMA RankNext ==
  ASSUME NEW s \in Seq(STRING), NEW b \in Int, NEW c \in Bars(s), b < c,
         \A j \in b + 1 .. c - 1 : j \notin Bars(s)
  PROVE  Rank(s, c) = Rank(s, b) + 1
<1> DEFINE B == {j \in Bars(s) : j <= b}
<1>1. c \in Int
  BY BarsAre
<1>2. ASSUME NEW j \in Bars(s) PROVE j <= c <=> j <= b \/ j = c
  <2>1. j \in Int
    BY BarsAre
  <2>2. QED
    BY <1>1, <1>2, <2>1
<1>3. {j \in Bars(s) : j <= c} = B \cup {c}
  BY <1>2
<1>4. c \notin B
  BY <1>1
<1>5. IsFiniteSet(B)
  BY RankIs
<1> HIDE DEF B
<1>6. Cardinality(B \cup {c}) = Cardinality(B) + 1
  BY <1>4, <1>5, FS_AddElement
<1>7. QED
  BY <1>3, <1>6 DEF Rank, B

LEMMA RankGrows ==
  ASSUME NEW s \in Seq(STRING), NEW b \in Int, NEW c \in Bars(s), b < c
  PROVE  Rank(s, b) < Rank(s, c)
<1> DEFINE B == {j \in Bars(s) : j <= b}
           C == {j \in Bars(s) : j <= c}
<1>1. c \in Int /\ \A j \in Bars(s) : j \in Int
  BY BarsAre
<1>2. B \in SUBSET C /\ c \in C /\ c \notin B
  <2>1. \A j \in Bars(s) : j <= b => j <= c
    BY <1>1
  <2>2. c <= c /\ ~(c <= b)
    BY <1>1
  <2>3. QED
    BY <2>1, <2>2
<1>3. IsFiniteSet(B) /\ IsFiniteSet(C) /\ Cardinality(B) \in Nat /\ Cardinality(C) \in Nat
  BY <1>1, RankIs DEF Rank
<1> HIDE DEF B, C
<1>4. Cardinality(B) <= Cardinality(C) /\ Cardinality(C) # Cardinality(B)
  BY <1>2, <1>3, FS_Subset
<1>5. Cardinality(B) < Cardinality(C)
  BY <1>3, <1>4
<1>6. QED
  BY <1>5 DEF Rank, B, C

\* A command begins behind the bar its number says.
LEMMA BarIs ==
  ASSUME NEW s \in Seq(STRING), NEW b \in Starts(s)
  PROVE  /\ Rank(s, b) \in 0 .. NumCommands(s) - 1
         /\ Bar(s, Rank(s, b)) = b
<1>1. b \in Int /\ Rank(s, b) \in Nat /\ Rank(s, b) <= Cardinality(Bars(s))
  <2>1. b \in Int
    BY BarsAre
  <2>2. QED
    BY <2>1, RankIs
<1>2. Rank(s, b) \in 0 .. NumCommands(s) - 1 /\ Rank(s, b) # NumCommands(s)
  BY <1>1, BarsAre
<1>3. CASE b = 0
  <2>1. {j \in Bars(s) : j <= b} = {}
    BY <1>3, BarsAre
  <2>2. Rank(s, b) = 0
    BY <2>1, FS_EmptySet DEF Rank
  <2>3. QED
    BY <1>2, <1>3, <2>2 DEF Bar
<1>4. CASE b # 0
  <2>1. b \in Bars(s) /\ Rank(s, b) # 0
    BY <1>1, <1>4, RankIs DEF Starts
  <2>2. ASSUME NEW g \in Bars(s), Rank(s, g) = Rank(s, b) PROVE g = b
    <3>1. g \in Int
      BY BarsAre
    <3>2. ~(g < b) /\ ~(b < g)
      BY <1>1, <2>1, <2>2, <3>1, RankGrows, RankIs
    <3>3. QED
      BY <1>1, <3>1, <3>2
  <2>3. Bar(s, Rank(s, b)) = CHOOSE g \in Bars(s) : Rank(s, g) = Rank(s, b)
    BY <1>2, <2>1 DEF Bar, Rank
  <2>4. QED
    BY <1>2, <2>1, <2>2, <2>3
<1>5. QED
  BY <1>3, <1>4

\* The k-th command stands between one bar or end of the line and the next.
LEMMA SegmentIs ==
  ASSUME NEW s \in Seq(STRING), NEW b \in Starts(s), NEW c \in Ends(s), b < c,
         \A j \in b + 1 .. c - 1 : j \notin Bars(s)
  PROVE  /\ Rank(s, b) + 1 \in 1 .. NumCommands(s)
         /\ Segment(s, Rank(s, b) + 1) = SubSeq(s, b + 1, c - 1)
         /\ c \in Bars(s) => Rank(s, c) = Rank(s, b) + 1 /\ Rank(s, b) + 1 < NumCommands(s)
         /\ c = Len(s) + 1 => Rank(s, b) + 1 = NumCommands(s)
<1>1. /\ Rank(s, b) \in 0 .. NumCommands(s) - 1 /\ Bar(s, Rank(s, b)) = b
      /\ Len(s) \in Nat /\ NumCommands(s) \in Nat /\ b \in Int /\ b <= Len(s) /\ c \in Int /\ c >= 1
  BY BarIs, BarsAre
<1>2. ASSUME c \in Bars(s)
      PROVE  /\ Rank(s, c) = Rank(s, b) + 1 /\ Rank(s, b) + 1 < NumCommands(s)
             /\ Bar(s, Rank(s, b) + 1) = c
  <2>1. Rank(s, c) = Rank(s, b) + 1
    BY <1>1, <1>2, RankNext
  <2>2. Rank(s, c) \in 0 .. NumCommands(s) - 1 /\ Bar(s, Rank(s, c)) = c
    BY <1>2, BarIs DEF Starts
  <2>3. QED
    BY <1>1, <2>1, <2>2
<1>3. ASSUME c = Len(s) + 1
      PROVE  Rank(s, b) + 1 = NumCommands(s) /\ Bar(s, Rank(s, b) + 1) = c
  <2>1. \A j \in Bars(s) : j <= b
    <3>1. ASSUME NEW j \in Bars(s) PROVE j <= b
      <4>1. j \in Int /\ j <= Len(s)
        BY BarsAre
      <4>2. QED
        BY <1>1, <1>3, <4>1
    <3>2. QED
      BY <3>1
  <2>2. {j \in Bars(s) : j <= b} = Bars(s)
    BY <2>1
  <2>3. Rank(s, b) + 1 = NumCommands(s)
    BY <2>2 DEF Rank, NumCommands
  <2>4. NumCommands(s) # 0
    BY BarsAre
  <2>5. QED
    BY <1>3, <2>3, <2>4 DEF Bar
<1>4. Bar(s, Rank(s, b) + 1) = c
  BY <1>2, <1>3 DEF Ends
<1>5. (Rank(s, b) + 1) - 1 = Rank(s, b)
  BY <1>1
<1>6. PICK k : k = Rank(s, b) + 1
  OBVIOUS
<1>7. Segment(s, k) = SubSeq(s, Bar(s, Rank(s, b)) + 1, c - 1)
  BY <1>4, <1>5, <1>6 DEF Segment
<1>8. QED
  BY <1>1, <1>2, <1>3, <1>6, <1>7 DEF Ends

\* Behind every start there is an end, and before every place a start.
LEMMA EndAfter ==
  ASSUME NEW s \in Seq(STRING), NEW b \in 0 .. Len(s)
  PROVE  \E c \in Ends(s) : b < c /\ \A j \in b + 1 .. c - 1 : j \notin Bars(s)
<1> DEFINE C == {j \in Ends(s) : b < j}
<1>1. Len(s) \in Nat /\ Ends(s) \subseteq 1 .. Len(s) + 1
  BY BarsAre
<1>2. C \in SUBSET Nat /\ Len(s) + 1 \in C
  BY <1>1 DEF Ends
<1>3. PICK c \in C : \A j \in C : c <= j
  BY <1>2, LeastNumber
<1>4. ASSUME NEW j \in b + 1 .. c - 1 PROVE j \notin Bars(s)
  <2>1. j \in Int /\ b < j /\ j < c
    BY <1>2
  <2>2. j \notin C
    BY <1>2, <1>3, <2>1
  <2>3. QED
    BY <2>1, <2>2 DEF Ends
<1>5. QED
  BY <1>3, <1>4

LEMMA StartBefore ==
  ASSUME NEW s \in Seq(STRING), NEW g \in 0 .. Len(s)
  PROVE  \E b \in Starts(s) : b <= g /\ \A j \in b + 1 .. g : j \notin Bars(s)
<1> DEFINE D == {d \in 0 .. g : g - d \in Starts(s)}
<1>1. g \in Nat /\ g - g = 0
  OBVIOUS
<1>2. D \in SUBSET Nat /\ g \in D
  BY <1>1 DEF Starts
<1>3. PICK d \in D : \A e \in D : d <= e
  BY <1>2, LeastNumber
<1> DEFINE b == g - d
<1>4. b \in Starts(s) /\ b <= g /\ b \in Int /\ d \in Nat
  BY <1>1, <1>3
<1>5. ASSUME NEW j \in b + 1 .. g PROVE j \notin Bars(s)
  <2>1. g - j \in 0 .. g /\ g - j < d /\ g - (g - j) = j
    BY <1>1, <1>4
  <2>2. g - j \notin D
    <3>1. ~(d <= g - j)
      BY <1>1, <1>4, <2>1
    <3>2. QED
      BY <1>3, <3>1
  <2>3. QED
    BY <2>1, <2>2 DEF Starts
<1>6. QED
  BY <1>4, <1>5
-----------------------------------------------------------------------------
(* The lines SP_HW5 reads as they are meant: their commands are plain, up to   *)
(* the redirections at the end.                                                *)

End(argv) == Len(argv) - Len(Redirections(argv, NumCommands(argv)))

LEMMA CommandIs ==
  ASSUME NEW w \in Seq(STRING)
  PROVE  \E e \in 0 .. Len(w) : Cut(Cut(w, "<"), ">") = SubSeq(w, 1, e)
<1>1. PICK d \in 0 .. Len(w) : Cut(w, "<") = SubSeq(w, 1, d)
  BY CutIs
<1> DEFINE v == SubSeq(w, 1, d)
<1>2. v \in Seq(STRING) /\ Len(v) = d /\ Len(w) \in Nat
  BY PartIs
<1>3. PICK e \in 0 .. Len(v) : Cut(v, ">") = SubSeq(v, 1, e)
  BY <1>2, CutIs
<1>4. SubSeq(v, 1, e) = SubSeq(w, 1, e)
  <2>1. d \in Int /\ e \in Int /\ 1 <= d + 1 /\ d <= Len(w) /\ 1 <= e + 1 /\ e <= d - 1 + 1
    BY <1>2, <1>3
  <2>2. 1 = 1 + 1 - 1 /\ e = 1 + e - 1
    BY <2>1
  <2>3. QED
    BY <2>1, <2>2, PartOfPart
<1>5. e \in 0 .. Len(w)
  BY <1>2, <1>3
<1>6. QED
  BY <1>1, <1>3, <1>4, <1>5

\* Between two bars there is a command; in the last place it may be redirected.
LEMMA SegmentMeant ==
  ASSUME NEW s \in Seq(STRING), ReadAsMeant(s), NEW b \in Starts(s), NEW c \in Ends(s), b < c,
         \A j \in b + 1 .. c - 1 : j \notin Bars(s)
  PROVE  \E e \in b + 1 .. c - 1 :
           /\ Command(s, Rank(s, b) + 1) = SubSeq(s, b + 1, e)
           /\ \A g \in b + 1 .. e : s[g] \notin Signs
           /\ Redirections(s, Rank(s, b) + 1) = SubSeq(s, e + 1, c - 1)
           /\ c \in Bars(s) => e = c - 1
<1> DEFINE k == Rank(s, b) + 1
           w == SubSeq(s, b + 1, c - 1)
           m == c - b - 1
<1>1. k \in 1 .. NumCommands(s) /\ Segment(s, k) = w /\ (c \in Bars(s) => k < NumCommands(s))
  BY SegmentIs
<1>2. /\ Len(s) \in Nat /\ b \in Nat /\ c \in Nat /\ b < c /\ c <= Len(s) + 1 /\ m \in Nat
      /\ NumCommands(s) \in Nat
  BY BarsAre
<1>3. b + 1 \in 1 .. Len(s) + 1 /\ c - 1 \in (b + 1) - 1 .. Len(s) /\ (c - 1) - (b + 1) + 1 = m
  BY <1>2
<1>4. w \in Seq(STRING) /\ Len(w) = m
  BY <1>3, PartIs
<1> HIDE DEF k, w, m
<1>5. PICK a \in 0 .. m : Command(s, k) = SubSeq(w, 1, a)
  BY <1>1, <1>4, CommandIs DEF Command
<1>6. /\ 1 \in 1 .. Len(w) + 1 /\ a \in 1 - 1 .. Len(w) /\ a - 1 + 1 = a
      /\ 1 \in 1 .. (c - 1) - (b + 1) + 2 /\ a \in 1 - 1 .. (c - 1) - (b + 1) + 1
      /\ a + 1 \in 1 .. (c - 1) - (b + 1) + 2 /\ m \in (a + 1) - 1 .. (c - 1) - (b + 1) + 1
  BY <1>2, <1>3, <1>4
<1>7. /\ Len(SubSeq(w, 1, a)) = a
      /\ \A g \in 1 .. (c - 1) - (b + 1) + 2 : \A j \in g - 1 .. (c - 1) - (b + 1) + 1 :
           SubSeq(w, g, j) = SubSeq(s, (b + 1) + g - 1, (b + 1) + j - 1)
  <2>1. ASSUME NEW g \in 1 .. (c - 1) - (b + 1) + 2, NEW j \in g - 1 .. (c - 1) - (b + 1) + 1
        PROVE  SubSeq(SubSeq(s, b + 1, c - 1), g, j) = SubSeq(s, (b + 1) + g - 1, (b + 1) + j - 1)
    <3>1. PICK l, h, x, y : l = b + 1 /\ h = c - 1 /\ x = l + g - 1 /\ y = l + j - 1
      OBVIOUS
    <3>2. /\ l \in Int /\ h \in Int /\ 1 <= l /\ l <= h + 1 /\ h <= Len(s)
          /\ g \in Int /\ j \in Int /\ 1 <= g /\ g <= j + 1 /\ j <= h - l + 1
          /\ x \in Int /\ y \in Int /\ x = l + g - 1 /\ y = l + j - 1
      BY <1>2, <3>1
    <3>3. SubSeq(SubSeq(s, l, h), g, j) = SubSeq(s, x, y)
      BY <3>2, PartOfPart
    <3>4. QED
      BY <3>1, <3>3
  <2>2. Len(SubSeq(w, 1, a)) = a
    BY <1>4, <1>6, PartIs
  <2>3. QED
    BY <2>1, <2>2 DEF w
<1>8. SubSeq(w, 1, a) = SubSeq(s, b + 1, b + a)
  <2>1. SubSeq(w, 1, a) = SubSeq(s, (b + 1) + 1 - 1, (b + 1) + a - 1)
    BY <1>6, <1>7
  <2>2. (b + 1) + 1 - 1 = b + 1 /\ (b + 1) + a - 1 = b + a
    BY <1>2, <1>6
  <2>3. QED
    BY <2>1, <2>2
<1>9. Redirections(s, k) = SubSeq(s, (b + a) + 1, c - 1)
  <2>1. Redirections(s, k) = SubSeq(w, a + 1, m)
    BY <1>1, <1>4, <1>5, <1>7 DEF Redirections
  <2>2. SubSeq(w, a + 1, m) = SubSeq(s, (b + 1) + (a + 1) - 1, (b + 1) + m - 1)
    BY <1>6, <1>7
  <2>3. (b + 1) + (a + 1) - 1 = (b + a) + 1 /\ (b + 1) + m - 1 = c - 1
    BY <1>2, <1>6 DEF m
  <2>4. QED
    BY <2>1, <2>2, <2>3
<1>10. Plain(SubSeq(w, 1, a))
  BY <1>1, <1>5 DEF ReadAsMeant
<1>11. a # 0
  <2>1. ASSUME a = 0 PROVE SubSeq(w, 1, a) = <<>>
    BY <2>1, SubSeqEmpty
  <2>2. QED
    BY <1>10, <2>1 DEF Plain
<1>12. b + a \in b + 1 .. c - 1
  BY <1>2, <1>11 DEF m
<1>13. ASSUME NEW g \in b + 1 .. b + a PROVE s[g] \notin Signs
  <2>1. g - b \in 1 .. a /\ (b + 1) + (g - b) - 1 = g /\ g - b \in 1 .. (c - 1) - (b + 1) + 1
    BY <1>2, <1>6
  <2>2. SubSeq(w, 1, a)[g - b] \notin Signs
    BY <1>7, <1>10, <2>1 DEF Plain
  <2>3. SubSeq(w, 1, a)[g - b] = SubSeq(s, b + 1, b + a)[g - b]
    BY <1>8
  <2>4. b + a \in (b + 1) - 1 .. Len(s) /\ g - b \in 1 .. (b + a) - (b + 1) + 1
    BY <1>2, <1>12, <2>1
  <2>5. SubSeq(s, b + 1, b + a)[g - b] = s[g]
    BY <1>3, <2>1, <2>4, PartIs, SMTT(30)
  <2>6. QED
    BY <2>2, <2>3, <2>5
<1>14. ASSUME c \in Bars(s) PROVE b + a = c - 1
  <2>1. k \in 1 .. NumCommands(s) - 1
    BY <1>1, <1>2, <1>14
  <2>2. SubSeq(s, (b + a) + 1, c - 1) = <<>>
    BY <1>9, <2>1 DEF ReadAsMeant
  <2>3. (b + a) + 1 \in 1 .. Len(s) + 1 /\ c - 1 \in ((b + a) + 1) - 1 .. Len(s)
    BY <1>2, <1>12
  <2>4. Len(SubSeq(s, (b + a) + 1, c - 1)) = (c - 1) - ((b + a) + 1) + 1
    BY <2>3, PartIs
  <2>5. (c - 1) - ((b + a) + 1) + 1 = 0
    BY <2>2, <2>4, EmptySeq
  <2>6. QED
    BY <1>2, <1>6, <2>5
<1>15. QED
  BY <1>5, <1>8, <1>9, <1>12, <1>13, <1>14 DEF k

\* Behind the last bar is the last command, and behind it the redirections.
LEMMA LastMeant ==
  ASSUME NEW s \in Seq(STRING), ReadAsMeant(s)
  PROVE  \E z \in Starts(s) :
           /\ Rank(s, z) + 1 = NumCommands(s) /\ \A j \in Bars(s) : j <= z
           /\ z < End(s) /\ End(s) \in 1 .. Len(s)
           /\ Command(s, NumCommands(s)) = SubSeq(s, z + 1, End(s))
           /\ \A g \in z + 1 .. End(s) : s[g] \notin Signs
           /\ Redirections(s, NumCommands(s)) = SubSeq(s, End(s) + 1, Len(s))
<1>1. Len(s) \in Nat /\ Starts(s) \subseteq 0 .. Len(s) /\ Bars(s) \subseteq 1 .. Len(s)
  BY BarsAre
<1>2. PICK z \in Starts(s) : z <= Len(s) /\ \A j \in z + 1 .. Len(s) : j \notin Bars(s)
  BY <1>1, StartBefore
<1> DEFINE c == Len(s) + 1
<1>3. c \in Ends(s) /\ z < c /\ c - 1 = Len(s) /\ z \in Nat
  BY <1>1, <1>2 DEF Ends
<1>4. \A j \in z + 1 .. c - 1 : j \notin Bars(s)
  BY <1>2, <1>3
<1> HIDE DEF c
<1>5. Rank(s, z) + 1 = NumCommands(s)
  BY <1>3, <1>4, SegmentIs DEF c
<1>6. PICK e \in z + 1 .. c - 1 :
           /\ Command(s, Rank(s, z) + 1) = SubSeq(s, z + 1, e)
           /\ \A g \in z + 1 .. e : s[g] \notin Signs
           /\ Redirections(s, Rank(s, z) + 1) = SubSeq(s, e + 1, c - 1)
  <2>1. z < c /\ c \in Ends(s)
    BY <1>3
  <2>2. QED
    BY <1>4, <2>1, SegmentMeant
<1>7. e \in Nat /\ z < e /\ e <= Len(s) /\ e \in 1 .. Len(s)
  BY <1>1, <1>3, <1>6
<1>8. End(s) = e
  <2>1. e + 1 \in 1 .. Len(s) + 1 /\ Len(s) \in (e + 1) - 1 .. Len(s) /\ Len(s) - (e + 1) + 1 = Len(s) - e
    BY <1>1, <1>7
  <2>2. Len(SubSeq(s, e + 1, Len(s))) = Len(s) - e
    BY <2>1, PartIs
  <2>3. End(s) = Len(s) - (Len(s) - e)
    BY <1>3, <1>5, <1>6, <2>2 DEF End
  <2>4. QED
    BY <1>1, <1>7, <2>3
<1>9. \A j \in Bars(s) : j <= z
  <2>1. ASSUME NEW j \in Bars(s) PROVE j <= z
    <3>1. j \in Int /\ j <= Len(s)
      BY <1>1
    <3>2. QED
      BY <1>2, <1>3, <3>1
  <2>2. QED
    BY <2>1
<1>10. QED
  BY <1>3, <1>5, <1>6, <1>7, <1>8, <1>9

\* Where the last bar is.
LEMMA LastStart ==
  ASSUME NEW s \in Seq(STRING), NEW y \in Starts(s), NEW z \in Starts(s),
         Rank(s, y) = Rank(s, z)
  PROVE  y = z
BY BarIs

\* Up to the redirections there are no signs but bars, and no two bars in a row.
LEMMA BodyMeant ==
  ASSUME NEW s \in Seq(STRING), ReadAsMeant(s)
  PROVE  /\ End(s) \in 1 .. Len(s) /\ Bars(s) \subseteq 1 .. End(s) - 1
         /\ \A g \in 1 .. End(s) : s[g] \notin Signs \ {"|"}
         /\ \A b \in Starts(s) : b + 1 \in 1 .. End(s) /\ b + 1 \notin Bars(s)
<1>1. PICK z \in Starts(s) :
           /\ Rank(s, z) + 1 = NumCommands(s) /\ \A j \in Bars(s) : j <= z
           /\ z < End(s) /\ End(s) \in 1 .. Len(s)
           /\ \A g \in z + 1 .. End(s) : s[g] \notin Signs
  BY LastMeant
<1>2. /\ Len(s) \in Nat /\ End(s) \in Nat /\ \A b \in Starts(s) : b \in 0 .. Len(s)
      /\ \A b \in Bars(s) : b \in 1 .. Len(s)
  BY <1>1, BarsAre
<1>3. Bars(s) \subseteq 1 .. End(s) - 1 /\ \A b \in Starts(s) : b <= z /\ b + 1 \in 1 .. End(s)
  <2>1. z \in Nat
    BY <1>2
  <2>2. ASSUME NEW b \in Starts(s) PROVE b <= z
    BY <1>1, <2>1, <2>2 DEF Starts
  <2>3. QED
    BY <1>1, <1>2, <2>1, <2>2
<1>4. ASSUME NEW b \in Starts(s)
      PROVE  \E c \in Ends(s) : /\ b + 1 < c /\ \A j \in b + 1 .. c - 1 : j \notin Bars(s)
                                /\ c \in Bars(s) => \A g \in b + 1 .. c - 1 : s[g] \notin Signs
                                /\ c = Len(s) + 1 => b = z
  <2>1. PICK c \in Ends(s) : b < c /\ \A j \in b + 1 .. c - 1 : j \notin Bars(s)
    BY <1>2, EndAfter
  <2>2. PICK e \in b + 1 .. c - 1 : /\ \A g \in b + 1 .. e : s[g] \notin Signs
                                    /\ c \in Bars(s) => e = c - 1
    BY <2>1, SegmentMeant
  <2>3. b \in Int /\ c \in Int /\ e \in Int
    BY <1>2, BarsAre
  <2>4. b + 1 < c
    BY <2>2, <2>3
  <2>5. ASSUME c = Len(s) + 1 PROVE b = z
    <3>1. Rank(s, b) + 1 = Rank(s, z) + 1 /\ Rank(s, b) \in Int /\ Rank(s, z) \in Int
      BY <1>1, <2>1, <2>5, SegmentIs, BarIs
    <3>2. QED
      BY <3>1, LastStart
  <2>6. QED
    BY <2>1, <2>2, <2>4, <2>5
<1>5. ASSUME NEW b \in Starts(s) PROVE b + 1 \notin Bars(s)
  <2>1. PICK c \in Ends(s) : b + 1 < c /\ \A j \in b + 1 .. c - 1 : j \notin Bars(s)
    BY <1>4
  <2>2. b + 1 \in b + 1 .. c - 1
    <3>1. b \in Int /\ c \in Int
      BY <1>2, BarsAre
    <3>2. QED
      BY <2>1, <3>1
  <2>3. QED
    BY <2>1, <2>2
<1>6. ASSUME NEW g \in 1 .. End(s) PROVE s[g] \notin Signs \ {"|"}
  <2>1. g \in 0 .. Len(s) /\ g \in 1 .. Len(s) /\ g \in Nat
    BY <1>1, <1>2
  <2>2. CASE g \in Bars(s)
    BY <2>2 DEF Bars
  <2>3. CASE g \notin Bars(s)
    <3>1. PICK b \in Starts(s) : b <= g /\ \A j \in b + 1 .. g : j \notin Bars(s)
      BY <2>1, StartBefore
    <3>2. b # g
      BY <2>1, <2>3 DEF Starts
    <3>3. PICK c \in Ends(s) : /\ b + 1 < c /\ \A j \in b + 1 .. c - 1 : j \notin Bars(s)
                               /\ c \in Bars(s) => \A k \in b + 1 .. c - 1 : s[k] \notin Signs
                               /\ c = Len(s) + 1 => b = z
      BY <1>4
    <3>4. b \in Nat /\ c \in Nat
      BY <1>2, BarsAre
    <3>5. CASE c \in Bars(s)
      <4>1. ~(c <= g)
        <5>1. c <= g => c \in b + 1 .. g
          BY <2>1, <3>3, <3>4
        <5>2. QED
          BY <3>1, <3>5, <5>1
      <4>2. g \in b + 1 .. c - 1
        BY <2>1, <3>1, <3>2, <3>4, <4>1
      <4>3. QED
        BY <3>3, <3>5, <4>2
    <3>6. CASE c = Len(s) + 1
      <4>1. g \in z + 1 .. End(s)
        BY <1>2, <2>1, <3>1, <3>2, <3>3, <3>4, <3>6
      <4>2. QED
        BY <1>1, <4>1
    <3>7. QED
      BY <3>5, <3>6 DEF Ends
  <2>4. QED
    BY <2>2, <2>3
<1>7. QED
  BY <1>1, <1>3, <1>5, <1>6
-----------------------------------------------------------------------------
(* What the shell of SP_HW5 makes of such a line.                              *)

LEMMA NextCommand ==
  ASSUME NEW s \in Seq(STRING), ReadAsMeant(s), NEW b \in Starts(s),
         NEW t, t = SubSeq(s, b + 1, End(s))
  PROVE  \/ /\ Rank(s, b) + 1 = NumCommands(s)
            /\ PipePresent(t) = 0 /\ t = Command(s, Rank(s, b) + 1)
         \/ /\ Rank(s, b) + 1 < NumCommands(s)
            /\ PipePresent(t) > 0 /\ LeftOf(t) = Command(s, Rank(s, b) + 1)
            /\ \E c \in Starts(s) : Rank(s, c) = Rank(s, b) + 1 /\ RightOf(t) = SubSeq(s, c + 1, End(s))
<1> DEFINE e == End(s)
<1>1. /\ e \in 1 .. Len(s) /\ b + 1 \in 1 .. e /\ b + 1 \notin Bars(s)
      /\ Bars(s) \subseteq 1 .. e - 1 /\ Len(s) \in Nat /\ b \in Nat
  BY BodyMeant, BarsAre
<1>2. /\ b + 1 \in 1 .. Len(s) + 1 /\ e \in (b + 1) - 1 .. Len(s) /\ e - (b + 1) + 1 = e - b
      /\ e \in Nat /\ e - b \in Nat \ {0}
  BY <1>1
<1> HIDE DEF e
<1>3. t \in Seq(STRING) /\ Len(t) = e - b /\ \A g \in 1 .. e - b : t[g] = s[b + g]
  <2>1. t \in Seq(STRING) /\ Len(t) = e - b /\ \A g \in 1 .. e - b : t[g] = s[(b + 1) + g - 1]
    <3>1. PICK l, k : l = b + 1 /\ k = e
      OBVIOUS
    <3>2. l \in 1 .. Len(s) + 1 /\ k \in l - 1 .. Len(s) /\ k - l + 1 = e - b /\ t = SubSeq(s, l, k)
      BY <1>2, <3>1 DEF e
    <3>3. t \in Seq(STRING) /\ Len(t) = k - l + 1 /\ \A g \in 1 .. k - l + 1 : t[g] = s[l + g - 1]
      BY <3>2, PartIs, ZenonT(60)
    <3>4. QED
      BY <3>1, <3>2, <3>3
  <2>2. \A g \in 1 .. e - b : (b + 1) + g - 1 = b + g
    BY <1>1, <1>2
  <2>3. QED
    BY <2>1, <2>2
<1>4. \A g \in 1 .. Len(t) : t[g] = "|" <=> b + g \in Bars(s)
  <2>1. ASSUME NEW g \in 1 .. Len(t) PROVE b + g \in 1 .. Len(s) /\ t[g] = s[b + g]
    BY <1>1, <1>2, <1>3
  <2>2. QED
    BY <2>1 DEF Bars
<1>5. t # <<>>
  BY <1>2, <1>3, EmptySeq
<1>6. PICK c \in Ends(s) : b < c /\ \A j \in b + 1 .. c - 1 : j \notin Bars(s)
  BY <1>1, <1>2, EndAfter
<1>7. CASE c \in Bars(s)
  <2>1. c \in Nat /\ c < e /\ c # b + 1 /\ c - b \in 1 .. Len(t) /\ b + (c - b) = c /\ c \in Starts(s)
    <3>1. c \in Nat /\ c < e /\ c # b + 1
      BY <1>1, <1>2, <1>7
    <3>2. b < c
      BY <1>6
    <3>3. c - b \in 1 .. Len(t) /\ b + (c - b) = c
      BY <1>1, <1>2, <1>3, <3>1, <3>2
    <3>4. QED
      BY <1>7, <3>1, <3>3 DEF Starts
  <2>2. \A g \in 1 .. Len(t) : g < c - b => b + g \in b + 1 .. c - 1
    BY <1>1, <1>2, <2>1
  <2>3. First(t, "|") = c - b
    <3>1. t[c - b] = "|" /\ \A g \in 1 .. Len(t) : g < c - b => t[g] # "|"
      BY <1>4, <1>6, <1>7, <2>1, <2>2
    <3>2. QED
      BY <1>3, <2>1, <3>1, FirstAt
  <2>4. c - b # 0 /\ c - b # 1 /\ c - b # Len(t) /\ c - b - 1 > 0
    <3>1. Len(t) = e - b /\ b < c /\ c < e /\ c # b + 1
      BY <1>3, <1>6, <2>1
    <3>2. PICK k \in Int, l \in Int, m \in Int : k = b /\ l = c /\ m = e
      BY <1>1, <1>2, <2>1
    <3>3. k < l /\ l < m /\ l # k + 1 /\ Len(t) = m - k
      BY <3>1, <3>2
    <3>4. l - k # 0 /\ l - k # 1 /\ l - k # m - k /\ l - k - 1 > 0
      BY <3>2, <3>3
    <3>5. QED
      BY <3>2, <3>3, <3>4
  <2>5. PipePresent(t) = c - b - 1
    BY <1>5, <2>3, <2>4 DEF PipePresent
  <2>6. /\ Rank(s, c) = Rank(s, b) + 1 /\ Rank(s, b) + 1 < NumCommands(s)
        /\ Command(s, Rank(s, b) + 1) = SubSeq(s, b + 1, c - 1)
    BY <1>6, <1>7, SegmentIs, SegmentMeant
  <2>7. LeftOf(t) = SubSeq(s, b + 1, c - 1)
    <3>1. PICK l, j, y : l = b + 1 /\ j = c - b - 1 /\ y = c - 1
      OBVIOUS
    <3>2. /\ l \in Int /\ e \in Int /\ 1 <= l /\ l <= e + 1 /\ e <= Len(s) /\ j \in Int /\ 1 <= j + 1
          /\ j <= e - l + 1 /\ y \in Int /\ l = l + 1 - 1 /\ y = l + j - 1
      BY <1>1, <1>2, <2>1, <2>4, <3>1
    <3>3. SubSeq(SubSeq(s, l, e), 1, j) = SubSeq(s, l, y)
      BY <3>2, PartOfPart
    <3>4. QED
      BY <2>5, <3>1, <3>3 DEF LeftOf, e
  <2>8. RightOf(t) = SubSeq(s, c + 1, e)
    <3>1. PICK l, g, j, x : l = b + 1 /\ g = c - b + 1 /\ j = e - b /\ x = c + 1
      OBVIOUS
    <3>2. /\ l \in Int /\ e \in Int /\ 1 <= l /\ l <= e + 1 /\ e <= Len(s)
          /\ g \in Int /\ j \in Int /\ 1 <= g /\ g <= j + 1 /\ j <= e - l + 1
          /\ x \in Int /\ x = l + g - 1 /\ e = l + j - 1
      BY <1>1, <1>2, <2>1, <2>4, <3>1
    <3>3. SubSeq(SubSeq(s, l, e), g, j) = SubSeq(s, x, e)
      BY <3>2, PartOfPart
    <3>4. (c - b - 1) + 2 = g
      BY <1>1, <2>1, <3>1
    <3>5. QED
      BY <1>3, <2>5, <3>1, <3>3, <3>4 DEF RightOf, e
  <2>9. QED
    BY <2>1, <2>4, <2>5, <2>6, <2>7, <2>8 DEF e
<1>8. CASE c = Len(s) + 1
  <2>1. Rank(s, b) + 1 = NumCommands(s)
    BY <1>6, <1>8, SegmentIs
  <2>2. \A g \in 1 .. Len(t) : b + g \in b + 1 .. c - 1
    <3>1. ASSUME NEW g \in 1 .. Len(t) PROVE b + g \in b + 1 .. c - 1
      <4>1. g \in Int /\ 1 <= g /\ g <= e - b /\ e <= Len(s) /\ c - 1 = Len(s)
        BY <1>1, <1>2, <1>3, <1>8
      <4>2. QED
        BY <1>1, <1>2, <4>1
    <3>2. QED
      BY <3>1
  <2>3. First(t, "|") = 0
    BY <1>3, <1>4, <1>6, <2>2, NoFirst
  <2>4. PipePresent(t) = 0
    BY <1>5, <2>3 DEF PipePresent
  <2>5. PICK z \in Starts(s) : /\ Rank(s, z) + 1 = NumCommands(s)
                               /\ Command(s, NumCommands(s)) = SubSeq(s, z + 1, End(s))
    BY LastMeant
  <2>6. z = b
    <3>1. Rank(s, z) \in Int /\ Rank(s, b) \in Int
      BY BarIs
    <3>2. QED
      BY <2>1, <2>5, <3>1, LastStart
  <2>7. QED
    BY <2>1, <2>4, <2>5, <2>6
<1>9. QED
  BY <1>6, <1>7, <1>8 DEF Ends

\* The redirections of such a line.
LEMMA TailMeant ==
  ASSUME NEW s \in Seq(STRING), ReadAsMeant(s), NEW e, e = End(s)
  PROVE  \/ Len(s) = e
         \/ Len(s) = e + 2 /\ s[e + 1] = ">" /\ s[e + 2] \in Writable \ Signs
         \/ Len(s) = e + 2 /\ s[e + 1] = "<" /\ s[e + 2] \in Openable \ Signs
         \/ /\ Len(s) = e + 4 /\ s[e + 1] = ">" /\ s[e + 2] \in Writable \ Signs
            /\ s[e + 3] = "<" /\ s[e + 4] \in Openable \ Signs
<1> DEFINE r == Redirections(s, NumCommands(s))
<1>1. e \in 1 .. Len(s) /\ r = SubSeq(s, e + 1, Len(s)) /\ Len(s) \in Nat
  BY LastMeant, BarsAre
<1>2. e + 1 \in 1 .. Len(s) + 1 /\ Len(s) \in (e + 1) - 1 .. Len(s) /\ Len(s) - (e + 1) + 1 = Len(s) - e
  BY <1>1
<1> HIDE DEF r
<1>3. Len(r) = Len(s) - e /\ \A g \in 1 .. Len(s) - e : r[g] = s[e + g]
  <2>1. Len(r) = Len(s) - e /\ \A g \in 1 .. Len(s) - e : r[g] = s[(e + 1) + g - 1]
    <3>1. PICK l, k : l = e + 1 /\ k = Len(s)
      OBVIOUS
    <3>2. l \in 1 .. Len(s) + 1 /\ k \in l - 1 .. Len(s) /\ k - l + 1 = Len(s) - e /\ r = SubSeq(s, l, k)
      BY <1>1, <1>2, <3>1
    <3>3. Len(r) = k - l + 1 /\ \A g \in 1 .. k - l + 1 : r[g] = s[l + g - 1]
      BY <3>2, PartIs
    <3>4. QED
      BY <3>1, <3>2, <3>3
  <2>2. \A g \in 1 .. Len(s) - e : (e + 1) + g - 1 = e + g
    BY <1>1
  <2>3. QED
    BY <2>1, <2>2
<1>4. \/ r = <<>>
      \/ Len(r) = 2 /\ r[1] = ">" /\ r[2] \in Writable \ Signs
      \/ Len(r) = 2 /\ r[1] = "<" /\ r[2] \in Openable \ Signs
      \/ Len(r) = 4 /\ r[1] = ">" /\ r[2] \in Writable \ Signs /\ r[3] = "<" /\ r[4] \in Openable \ Signs
  BY DEF ReadAsMeant, r
<1>5. CASE r = <<>>
  <2>1. Len(s) - e = 0
    BY <1>3, <1>5, EmptySeq
  <2>2. QED
    BY <1>1, <2>1
<1>6. CASE Len(r) = 2
  <2>1. Len(s) = e + 2 /\ r[1] = s[e + 1] /\ r[2] = s[e + 2]
    <3>1. Len(s) - e = 2
      BY <1>3, <1>6
    <3>2. 1 \in 1 .. Len(s) - e /\ 2 \in 1 .. Len(s) - e /\ Len(s) = e + 2
      BY <1>1, <3>1
    <3>3. QED
      BY <1>3, <3>2
  <2>2. r # <<>> /\ Len(r) # 4
    BY <1>6, EmptySeq
  <2>3. QED
    BY <1>4, <2>1, <2>2
<1>7. CASE Len(r) = 4
  <2>1. Len(s) = e + 4 /\ r[1] = s[e + 1] /\ r[2] = s[e + 2] /\ r[3] = s[e + 3] /\ r[4] = s[e + 4]
    <3>1. Len(s) - e = 4
      BY <1>3, <1>7
    <3>2. /\ 1 \in 1 .. Len(s) - e /\ 2 \in 1 .. Len(s) - e /\ 3 \in 1 .. Len(s) - e
          /\ 4 \in 1 .. Len(s) - e /\ Len(s) = e + 4
      BY <1>1, <3>1
    <3>3. QED
      BY <1>3, <3>2
  <2>2. r # <<>> /\ Len(r) # 2
    BY <1>7, EmptySeq
  <2>3. QED
    BY <1>4, <2>1, <2>2
<1>8. QED
  BY <1>4, <1>5, <1>6, <1>7

\* redirect_in and then redirect_out leave the commands, and open what the line says.
LEMMA Redirected ==
  ASSUME NEW s \in Seq(STRING), ReadAsMeant(s)
  PROVE  /\ AfterOut(AfterIn(s)) = SubSeq(s, 1, End(s))
         /\ OpensIn(s) <=> From(s)
         /\ OpensOut(AfterIn(s)) <=> To(s)
<1>1. PICK e : e = End(s)
  OBVIOUS
<1>2. e \in 1 .. Len(s) /\ e \in Nat /\ Len(s) \in Nat /\ \A g \in 1 .. e : s[g] # "<" /\ s[g] # ">"
  BY <1>1, BodyMeant, BarsAre DEF Signs
<1>3. \A g \in 1 .. Len(s) : g < e + 1 => s[g] # "<" /\ s[g] # ">"
  BY <1>2
<1>4. CASE Len(s) = e
  <2>1. First(s, "<") = 0 /\ First(s, ">") = 0
    BY <1>2, <1>4, NoFirst
  <2>2. ~OpensIn(s) /\ ~From(s) /\ ~OpensOut(s) /\ ~To(s) /\ AfterIn(s) = s /\ AfterOut(s) = s
    BY <2>1 DEF OpensIn, From, OpensOut, To, AfterIn, AfterOut
  <2>3. QED
    BY <1>1, <1>4, <2>2, SubSeqFull
<1>5. CASE Len(s) = e + 2 /\ s[e + 1] = ">" /\ s[e + 2] \in Writable \ Signs
  <2>1. \A g \in 1 .. Len(s) : g < e + 1 \/ g = e + 1 \/ g = e + 2
    BY <1>2, <1>5
  <2>2. First(s, "<") = 0
    BY <1>3, <1>5, <2>1, NoFirst DEF Signs
  <2>3. e + 1 \in 1 .. Len(s) /\ e + 1 < Len(s) /\ e + 1 # 0 /\ (e + 1) - 1 = e
    BY <1>2, <1>5
  <2>4. First(s, ">") = e + 1 /\ Cut(s, ">") = SubSeq(s, 1, (e + 1) - 1)
    BY <1>3, <1>5, <2>3, FirstAt, CutAt
  <2>5. ~OpensIn(s) /\ ~From(s) /\ AfterIn(s) = s
    BY <2>2 DEF OpensIn, From, AfterIn
  <2>6. (e + 1) + 1 = e + 2
    BY <1>2
  <2>7. OpensOut(s) /\ To(s) /\ AfterOut(s) = SubSeq(s, 1, e)
    BY <1>5, <2>3, <2>4, <2>6 DEF OpensOut, To, AfterOut
  <2>8. QED
    BY <1>1, <2>5, <2>7
<1>6. CASE Len(s) = e + 2 /\ s[e + 1] = "<" /\ s[e + 2] \in Openable \ Signs
  <2>1. \A g \in 1 .. Len(s) : g < e + 1 \/ g = e + 1 \/ g = e + 2
    BY <1>2, <1>6
  <2>2. First(s, ">") = 0
    BY <1>3, <1>6, <2>1, NoFirst DEF Signs
  <2>3. e + 1 \in 1 .. Len(s) /\ e + 1 < Len(s) /\ e + 1 # 0 /\ (e + 1) - 1 = e /\ (e + 1) + 1 = e + 2
    BY <1>2, <1>6
  <2>4. First(s, "<") = e + 1 /\ Cut(s, "<") = SubSeq(s, 1, (e + 1) - 1)
    <3>1. s[e + 1] = "<" /\ \A g \in 1 .. Len(s) : g < e + 1 => s[g] # "<"
      BY <1>3, <1>6
    <3>2. QED
      BY <2>3, <3>1, FirstAt, CutAt
  <2>5. OpensIn(s) /\ From(s) /\ AfterIn(s) = SubSeq(s, 1, e)
    BY <1>6, <2>3, <2>4 DEF OpensIn, From, AfterIn
  <2>6. PICK t : t = SubSeq(s, 1, e)
    OBVIOUS
  <2>7. t \in Seq(STRING) /\ Len(t) = e /\ \A g \in 1 .. e : t[g] = s[g]
    <3>1. 1 \in 1 .. Len(s) + 1 /\ e \in 1 - 1 .. Len(s) /\ e - 1 + 1 = e /\ \A g \in 1 .. e : 1 + g - 1 = g
      BY <1>2
    <3>2. t \in Seq(STRING) /\ Len(t) = e - 1 + 1 /\ \A g \in 1 .. e - 1 + 1 : t[g] = s[1 + g - 1]
      BY <2>6, <3>1, PartIs
    <3>3. QED
      BY <3>1, <3>2
  <2>8. First(t, ">") = 0
    BY <1>2, <2>7, NoFirst
  <2>9. ~OpensOut(t) /\ AfterOut(t) = t
    BY <2>8 DEF OpensOut, AfterOut
  <2>10. ~To(s)
    BY <2>2 DEF To
  <2>11. QED
    BY <1>1, <2>5, <2>6, <2>9, <2>10
<1>7. CASE /\ Len(s) = e + 4 /\ s[e + 1] = ">" /\ s[e + 2] \in Writable \ Signs
           /\ s[e + 3] = "<" /\ s[e + 4] \in Openable \ Signs
  <2>1. \A g \in 1 .. Len(s) : g < e + 3 => g < e + 1 \/ g = e + 1 \/ g = e + 2
    BY <1>2, <1>7
  <2>2. \A g \in 1 .. Len(s) : g < e + 3 => s[g] # "<"
    BY <1>3, <1>7, <2>1 DEF Signs
  <2>3. /\ e + 3 \in 1 .. Len(s) /\ e + 3 < Len(s) /\ e + 3 # 0 /\ (e + 3) - 1 = e + 2 /\ (e + 3) + 1 = e + 4
        /\ e + 1 \in 1 .. Len(s) /\ e + 1 # 0 /\ (e + 1) - 1 = e
    BY <1>2, <1>7
  <2>4. First(s, "<") = e + 3 /\ Cut(s, "<") = SubSeq(s, 1, (e + 3) - 1)
    BY <1>7, <2>2, <2>3, FirstAt, CutAt
  <2>5. OpensIn(s) /\ From(s) /\ AfterIn(s) = SubSeq(s, 1, e + 2)
    BY <1>7, <2>3, <2>4 DEF OpensIn, From, AfterIn
  <2>6. PICK t : t = SubSeq(s, 1, e + 2)
    OBVIOUS
  <2>7. t \in Seq(STRING) /\ Len(t) = e + 2 /\ \A g \in 1 .. e + 2 : t[g] = s[g]
    <3>1. /\ 1 \in 1 .. Len(s) + 1 /\ e + 2 \in 1 - 1 .. Len(s) /\ (e + 2) - 1 + 1 = e + 2
          /\ \A g \in 1 .. e + 2 : 1 + g - 1 = g
      BY <1>2, <1>7
    <3>2. t \in Seq(STRING) /\ Len(t) = (e + 2) - 1 + 1 /\ \A g \in 1 .. (e + 2) - 1 + 1 : t[g] = s[1 + g - 1]
      BY <2>6, <3>1, PartIs
    <3>3. QED
      BY <3>1, <3>2
  <2>8. /\ e + 1 \in 1 .. Len(t) /\ t[e + 1] = ">" /\ e + 1 < Len(t)
        /\ \A g \in 1 .. Len(t) : g < e + 1 => t[g] # ">"
        /\ t[(e + 1) + 1] \in Writable
    <3>1. /\ e + 1 \in 1 .. Len(t) /\ e + 1 < Len(t) /\ \A g \in 1 .. Len(t) : g \in 1 .. e + 2 /\ g \in 1 .. Len(s)
          /\ (e + 1) + 1 = e + 2 /\ e + 2 \in 1 .. e + 2
      BY <1>2, <1>7, <2>7
    <3>2. QED
      BY <1>3, <1>7, <2>7, <3>1
  <2>9. First(t, ">") = e + 1 /\ Cut(t, ">") = SubSeq(t, 1, (e + 1) - 1)
    BY <2>7, <2>8, FirstAt, CutAt
  <2>10. OpensOut(t) /\ AfterOut(t) = SubSeq(t, 1, e)
    BY <2>3, <2>8, <2>9 DEF OpensOut, AfterOut
  <2>11. SubSeq(t, 1, e) = SubSeq(s, 1, e)
    <3>1. /\ e + 2 \in Int /\ 1 <= (e + 2) + 1 /\ e + 2 <= Len(s) /\ e \in Int /\ 1 <= e + 1
          /\ e <= (e + 2) - 1 + 1 /\ 1 = 1 + 1 - 1 /\ e = 1 + e - 1
      BY <1>2, <1>7
    <3>2. SubSeq(SubSeq(s, 1, e + 2), 1, e) = SubSeq(s, 1, e)
      BY <3>1, PartOfPart
    <3>3. QED
      BY <2>6, <3>2
  <2>12. First(s, ">") = e + 1
    BY <1>3, <1>7, <2>3, FirstAt
  <2>13. To(s)
    BY <2>3, <2>12 DEF To
  <2>14. QED
    BY <1>1, <2>5, <2>6, <2>10, <2>11, <2>13
<1>8. QED
  BY <1>1, <1>4, <1>5, <1>6, <1>7, TailMeant
-----------------------------------------------------------------------------
(* The wiring of the processes of a line.                                      *)

\* A listening child has a process before it.
Descriptors == {"terminal", "file", "pipe", "read", "write"} \X Nat
ChildType ==
  {r \in [at : {"child", "pipe", "talk", "listen", "run", "zombie", "reaped"},
          job : Nat \ {0}, place : Nat \ {0}, argv : Seq(STRING), in : Descriptors, out : Descriptors,
          held : SUBSET Descriptors, buf : 0 .. 1, fed : BOOLEAN] : r.at = "listen" => r.place > 1}

\* The type of the processes and of the lines.
ChildrenOK ==
  /\ procs \in Seq(ChildType) /\ lines \in Seq(Lines)
  /\ \A p \in Pids : procs[p].job \in 1 .. Len(lines)

\* At every place of a line there is one process, and as long as a process has the
\* rest of the line to do, there is none behind it.
Early == {"child", "pipe", "listen"}
JobsOK ==
  /\ \A p, q \in Pids : procs[p].job = procs[q].job /\ procs[p].place = procs[q].place => p = q
  /\ \A p \in Pids : procs[p].place > 1 =>
       \E q \in Pids : procs[q].job = procs[p].job /\ procs[q].place = procs[p].place - 1
  /\ \A p, q \in Pids :
       procs[p].at \in Early /\ procs[q].job = procs[p].job => procs[q].place <= procs[p].place

\* What a process works on, where it reads and writes, by its place in its line.
LineOf(r) == Cut(lines[r.job], "&")
Place(r, k) == {q \in Pids : procs[q].job = r.job /\ procs[q].place = k}
One(S) == CHOOSE q \in S : TRUE
InOf(r) == IF r.place > 1 THEN PipeOf(One(Place(r, r.place - 1)))
           ELSE IF From(LineOf(r)) THEN File ELSE Terminal
OutOf(r) == IF To(LineOf(r)) THEN File ELSE Terminal
HasRest(r) ==
  \E b \in Starts(LineOf(r)) : /\ Rank(LineOf(r), b) + 1 = r.place
                               /\ r.argv = SubSeq(LineOf(r), b + 1, End(LineOf(r)))
RightWay(p, r) ==
  version = "hw5" /\ lines[r.job] \in Meant =>
    /\ r.at = "child" => r.place = 1 /\ r.argv = LineOf(r) /\ r.in = Terminal /\ r.out = Terminal
    /\ r.at = "pipe" => HasRest(r) /\ r.in = InOf(r) /\ r.out = OutOf(r)
    /\ r.at = "listen" => HasRest(r) /\ r.out = OutOf(r)
    /\ r.at = "talk" => /\ r.place < NumCommands(LineOf(r)) /\ r.argv = Command(LineOf(r), r.place)
                        /\ r.in = InOf(r) /\ Place(r, r.place + 1) # {}
    /\ r.at = "run" => /\ r.place <= NumCommands(LineOf(r)) /\ r.argv = Command(LineOf(r), r.place)
                       /\ r.in = InOf(r)
                       /\ r.place < NumCommands(LineOf(r)) => r.out = PipeOf(p) /\ Place(r, r.place + 1) # {}
                       /\ r.place = NumCommands(LineOf(r)) => r.out = OutOf(r)

WiredInv == ChildrenOK /\ JobsOK /\ \A p \in Pids : RightWay(p, procs[p])

LEMMA FieldsAre ==
  ASSUME NEW r \in ChildType
  PROVE  /\ r.job \in Nat \ {0} /\ r.place \in Nat \ {0} /\ r.argv \in Seq(STRING)
         /\ r.in \in Descriptors /\ r.out \in Descriptors /\ r.held \in SUBSET Descriptors
         /\ r.at = "listen" => r.place > 1
BY DEF ChildType

LEMMA ProcsAre ==
  ASSUME ChildrenOK
  PROVE  /\ Len(procs) \in Nat /\ Len(lines) \in Nat /\ DOMAIN procs = Pids
         /\ \A p \in Pids : procs[p] \in ChildType /\ procs[p].job \in 1 .. Len(lines)
         /\ \A j \in 1 .. Len(lines) : lines[j] \in Lines /\ lines[j] \in Seq(STRING)
<1>1. procs \in Seq(ChildType) /\ lines \in Seq(Lines)
  BY DEF ChildrenOK
<1>2. Len(procs) \in Nat /\ Len(lines) \in Nat /\ DOMAIN procs = Pids
  BY <1>1 DEF Pids
<1>3. \A p \in Pids : procs[p] \in ChildType
  BY <1>1 DEF Pids
<1>4. \A j \in 1 .. Len(lines) : lines[j] \in Lines
  BY <1>1
<1>5. QED
  BY <1>2, <1>3, <1>4, LinesAssumption DEF ChildrenOK

\* The words that are left are words.
LEMMA CutType ==
  ASSUME NEW s \in Seq(STRING), NEW w
  PROVE  Cut(s, w) \in Seq(STRING)
<1>1. PICK e \in 0 .. Len(s) : Cut(s, w) = SubSeq(s, 1, e)
  BY CutIs
<1>2. SubSeq(s, 1, e) \in Seq(STRING)
  BY PartIs
<1>3. QED
  BY <1>1, <1>2

LEMMA RedirectType ==
  ASSUME NEW s \in Seq(STRING)
  PROVE  AfterIn(s) \in Seq(STRING) /\ AfterOut(s) \in Seq(STRING)
BY CutType DEF AfterIn, AfterOut

LEMMA HalfType ==
  ASSUME NEW s \in Seq(STRING), PipePresent(s) > 0
  PROVE  LeftOf(s) \in Seq(STRING) /\ RightOf(s) \in Seq(STRING)
<1> DEFINE g == First(s, "|")
<1>1. g \in 0 .. Len(s) /\ Len(s) \in Nat
  BY FirstIs
<1> HIDE DEF g
<1>2. PipePresent(s) = g - 1 /\ g # 0 /\ g # Len(s) /\ g # 1
  <2>1. s # <<>> /\ g # 1
    <3>1. s = <<>> \/ g = 1 => PipePresent(s) = -1
      BY DEF PipePresent, g
    <3>2. ~(-1 > 0)
      OBVIOUS
    <3>3. QED
      BY <3>1, <3>2
  <2>2. g \notin {0, Len(s)}
    <3>1. g \in {0, Len(s)} => PipePresent(s) = 0
      BY <2>1 DEF PipePresent, g
    <3>2. QED
      BY <3>1
  <2>3. PipePresent(s) = g - 1
    BY <2>1, <2>2 DEF PipePresent, g
  <2>4. QED
    BY <2>1, <2>2, <2>3
<1>3. /\ 1 \in 1 .. Len(s) + 1 /\ PipePresent(s) \in 1 - 1 .. Len(s)
      /\ PipePresent(s) + 2 \in 1 .. Len(s) + 1 /\ Len(s) \in (PipePresent(s) + 2) - 1 .. Len(s)
  BY <1>1, <1>2
<1>4. QED
  BY <1>3, PartIs DEF LeftOf, RightOf

\* The processes before and behind one stay the same while others come that are
\* in other lines or behind all that are there.
Joins ==
  /\ version' = version /\ Len(lines) <= Len(lines')
  /\ \A j \in 1 .. Len(lines) : lines'[j] = lines[j]
  /\ Pids \subseteq Pids'
  /\ \A q \in Pids : procs'[q].job = procs[q].job /\ procs'[q].place = procs[q].place
  /\ \A q \in Pids' \ Pids, p \in Pids :
       procs'[q].job = procs[p].job => procs'[q].place > procs[p].place

LEMMA WayStays ==
  ASSUME ChildrenOK, Joins, NEW p, NEW r, r.job \in 1 .. Len(lines), r.place \in Nat \ {0},
         \E q \in Pids : procs[q].job = r.job /\ procs[q].place >= r.place - 1,
         RightWay(p, r)
  PROVE  RightWay(p, r)'
<1>1. lines'[r.job] = lines[r.job] /\ version' = version /\ Len(lines) \in Nat
  BY ProcsAre DEF Joins
<1>2. LineOf(r)' = LineOf(r)
  BY <1>1 DEF LineOf
<1>3. \A q \in Pids : procs[q].place \in Nat /\ procs[q].job \in Nat
  BY ProcsAre DEF ChildType
<1>4. Place(r, r.place - 1)' = Place(r, r.place - 1)
  <2>1. ASSUME NEW q \in Pids', q \notin Pids PROVE ~(procs'[q].job = r.job /\ procs'[q].place = r.place - 1)
    BY <1>3, <2>1 DEF Joins
  <2>2. QED
    BY <2>1 DEF Place, Joins
<1>5. Place(r, r.place + 1) \subseteq Place(r, r.place + 1)'
  BY DEF Place, Joins
<1>6. InOf(r)' = InOf(r) /\ OutOf(r)' = OutOf(r)
  BY <1>2, <1>4 DEF InOf, OutOf
<1>7. HasRest(r)' <=> HasRest(r)
  BY <1>2 DEF HasRest
<1>8. Place(r, r.place + 1) # {} => Place(r, r.place + 1)' # {}
  BY <1>5
<1>9. QED
  BY <1>1, <1>2, <1>6, <1>7, <1>8 DEF RightWay

\* A step of one process that keeps its place in its line.
LEMMA OneWired ==
  ASSUME WiredInv, NEW p \in Pids, NEW r \in ChildType, Step(p, r), lines' = lines, version' = version,
         r.job = procs[p].job, r.place = procs[p].place,
         r.at \in Early => procs[p].at \in Early,
         RightWay(p, r)
  PROVE  WiredInv'
<1>1. ChildrenOK /\ JobsOK /\ Len(lines) \in Nat
  BY ProcsAre DEF WiredInv
<1>2. /\ procs \in Seq(ChildType) /\ Len(procs) \in Nat /\ p \in 1 .. Len(procs)
  BY <1>1, ProcsAre DEF ChildrenOK, Pids
<1>3. /\ procs' \in Seq(ChildType) /\ Pids' = Pids /\ procs'[p] = r
      /\ \A q \in Pids : q # p => procs'[q] = procs[q]
  <2>1. procs' = [procs EXCEPT ![p] = r]
    BY DEF Step
  <2>2. /\ procs' \in Seq(ChildType) /\ Len(procs') = Len(procs)
        /\ \A q \in 1 .. Len(procs) : procs'[q] = IF q = p THEN r ELSE procs[q]
    BY <1>2, <2>1, ExceptSeq
  <2>3. QED
    BY <1>2, <2>2 DEF Pids
<1>4. \A q \in Pids : procs'[q].job = procs[q].job /\ procs'[q].place = procs[q].place
  BY <1>3
<1>5. ChildrenOK'
  BY <1>1, <1>3, <1>4 DEF ChildrenOK
<1>6. \A q \in Pids : procs'[q].at \in Early => procs[q].at \in Early
  BY <1>3
<1>7. JobsOK'
  BY <1>1, <1>3, <1>4, <1>6 DEF JobsOK
<1>8. Joins
  BY <1>1, <1>3, <1>4 DEF Joins
<1>9. ASSUME NEW q \in Pids PROVE RightWay(q, procs[q])'
  <2>1. PICK s : s = procs'[q]
    OBVIOUS
  <2>2. /\ s.job = procs[q].job /\ s.place = procs[q].place /\ RightWay(q, s)
        /\ s.job \in 1 .. Len(lines) /\ s.place \in Nat \ {0}
    <3>1. procs[q] \in ChildType /\ procs[q].job \in 1 .. Len(lines) /\ procs[q].place \in Nat \ {0}
      BY <1>1, ProcsAre DEF ChildType
    <3>2. s = IF q = p THEN r ELSE procs[q]
      BY <1>3, <2>1
    <3>3. RightWay(q, s)
      BY <3>2 DEF WiredInv
    <3>4. QED
      BY <1>4, <2>1, <3>1, <3>3
  <2>3. procs[q].place >= s.place - 1
    BY <2>2
  <2>4. RightWay(q, s)'
    BY <1>1, <1>8, <2>2, <2>3, WayStays
  <2>5. QED
    BY <2>1, <2>4 DEF RightWay, HasRest, InOf, OutOf, LineOf, Place
<1>10. QED
  BY <1>3, <1>5, <1>7, <1>9 DEF WiredInv

\* A process that comes, in a line of its own or behind all those of its line.
LEMMA MoreWired ==
  ASSUME ChildrenOK, JobsOK, version' = version, lines' \in Seq(Lines), Len(lines) <= Len(lines'),
         \A j \in 1 .. Len(lines) : lines'[j] = lines[j],
         NEW s \in Seq(ChildType), Len(s) = Len(procs), NEW r \in ChildType, procs' = Append(s, r),
         \A q \in Pids : /\ s[q].job = procs[q].job /\ s[q].place = procs[q].place
                         /\ s[q].at \in Early => s[q] = procs[q] /\ procs[q].job # r.job,
         r.job \in 1 .. Len(lines'),
         \A q \in Pids : procs[q].job = r.job => procs[q].place < r.place,
         r.place > 1 => \E q \in Pids : procs[q].job = r.job /\ procs[q].place = r.place - 1
  PROVE  /\ ChildrenOK' /\ JobsOK' /\ Joins
         /\ Pids' = Pids \cup {Len(procs) + 1} /\ Len(procs) + 1 \notin Pids
         /\ procs'[Len(procs) + 1] = r /\ \A q \in Pids : procs'[q] = s[q]
<1> DEFINE h == Len(procs) + 1
<1>1. /\ Len(procs) \in Nat /\ Pids = 1 .. Len(procs) /\ Len(lines) \in Nat /\ Len(lines') \in Nat
      /\ \A q \in Pids : procs[q].job \in 1 .. Len(lines)
      /\ \A q \in Pids : procs[q].place \in Nat
      /\ r.place \in Nat \ {0}
  <2>1. \A q \in Pids : procs[q].place \in Nat
    BY ProcsAre, FieldsAre
  <2>2. r.place \in Nat \ {0}
    BY FieldsAre
  <2>3. QED
    BY <2>1, <2>2, ProcsAre DEF Pids
<1>2. /\ procs' \in Seq(ChildType) /\ Len(procs') = h /\ procs'[h] = r
      /\ \A q \in 1 .. Len(s) : procs'[q] = s[q]
  BY AppendProperties
<1>3. Pids' = 1 .. h
  BY <1>2 DEF Pids
<1>4. Pids' = Pids \cup {h} /\ h \notin Pids /\ \A q \in Pids : procs'[q] = s[q]
  BY <1>1, <1>2, <1>3
<1> HIDE DEF h
<1>5. \A q \in Pids : procs'[q].job = procs[q].job /\ procs'[q].place = procs[q].place
  BY <1>4
<1>6. /\ \A p, q \in Pids : procs[p].job = procs[q].job /\ procs[p].place = procs[q].place => p = q
      /\ \A p \in Pids : procs[p].place > 1 =>
           \E q \in Pids : procs[q].job = procs[p].job /\ procs[q].place = procs[p].place - 1
      /\ \A p, q \in Pids :
           procs[p].at \in Early /\ procs[q].job = procs[p].job => procs[q].place <= procs[p].place
  BY DEF JobsOK
<1>7. Joins
  <2>1. ASSUME NEW q \in Pids' \ Pids, NEW p \in Pids, procs'[q].job = procs[p].job
        PROVE  procs'[q].place > procs[p].place
    <3>1. procs'[q] = r
      BY <1>2, <1>4
    <3>2. procs[p].place < r.place
      BY <2>1, <3>1
    <3>3. QED
      BY <1>1, <3>1, <3>2
  <2>2. QED
    BY <1>4, <1>5, <2>1 DEF Joins
<1>8. ChildrenOK'
  <2>1. ASSUME NEW q \in Pids' PROVE procs'[q].job \in 1 .. Len(lines')
    <3>1. CASE q \in Pids
      <4>1. procs'[q].job = procs[q].job /\ procs[q].job \in 1 .. Len(lines)
        BY <1>1, <1>5, <3>1
      <4>2. QED
        BY <1>1, <4>1
    <3>2. CASE q = h
      BY <1>2, <3>2
    <3>3. QED
      BY <1>4, <3>1, <3>2
  <2>2. QED
    BY <1>2, <2>1 DEF ChildrenOK
<1>9. ASSUME NEW p \in Pids', NEW q \in Pids', procs'[p].job = procs'[q].job, procs'[p].place = procs'[q].place
      PROVE  p = q
  <2>1. CASE p \in Pids /\ q \in Pids
    <3>1. procs[p].job = procs[q].job /\ procs[p].place = procs[q].place
      BY <1>5, <1>9, <2>1
    <3>2. QED
      BY <1>6, <2>1, <3>1
  <2>2. CASE p = h /\ q \in Pids
    BY <1>1, <1>2, <1>5, <1>9, <2>2
  <2>3. CASE q = h /\ p \in Pids
    BY <1>1, <1>2, <1>5, <1>9, <2>3
  <2>4. QED
    BY <1>4, <2>1, <2>2, <2>3
<1>10. ASSUME NEW p \in Pids', procs'[p].place > 1
      PROVE  \E q \in Pids' : procs'[q].job = procs'[p].job /\ procs'[q].place = procs'[p].place - 1
  <2>1. \E q \in Pids : procs[q].job = procs'[p].job /\ procs[q].place = procs'[p].place - 1
    <3>1. CASE p \in Pids
      <4>1. procs'[p].job = procs[p].job /\ procs'[p].place = procs[p].place /\ procs[p].place > 1
        BY <1>5, <1>10, <3>1
      <4>2. \E q \in Pids : procs[q].job = procs[p].job /\ procs[q].place = procs[p].place - 1
        BY <1>6, <3>1, <4>1
      <4>3. QED
        BY <4>1, <4>2
    <3>2. CASE p = h
      BY <1>2, <1>10, <3>2
    <3>3. QED
      BY <1>4, <3>1, <3>2
  <2>2. QED
    BY <1>4, <1>5, <2>1
<1>11. ASSUME NEW p \in Pids', NEW q \in Pids', procs'[p].at \in Early, procs'[q].job = procs'[p].job
       PROVE  procs'[q].place <= procs'[p].place
  <2>1. CASE p \in Pids
    <3>1. s[p].at \in Early /\ s[p] = procs[p] /\ procs[p].job # r.job
      BY <1>4, <1>11, <2>1
    <3>2. q \in Pids
      BY <1>2, <1>4, <1>5, <1>11, <2>1, <3>1
    <3>3. QED
      BY <1>4, <1>5, <1>6, <1>11, <2>1, <3>1, <3>2
  <2>2. CASE p = h
    <3>1. procs'[p] = r
      BY <1>2, <2>2
    <3>2. CASE q = h
      BY <1>1, <1>2, <3>1, <3>2
    <3>3. CASE q \in Pids
      <4>1. procs[q].job = r.job /\ procs'[q].place = procs[q].place
        BY <1>5, <1>11, <3>1, <3>3
      <4>2. procs[q].place < r.place /\ procs[q].place \in Nat
        BY <1>1, <3>3, <4>1
      <4>3. QED
        BY <1>1, <3>1, <4>1, <4>2
    <3>4. QED
      BY <1>4, <3>2, <3>3
  <2>3. QED
    BY <1>4, <2>1, <2>2
<1>12. JobsOK'
  BY <1>9, <1>10, <1>11 DEF JobsOK
<1>13. QED
  BY <1>2, <1>4, <1>7, <1>8, <1>12 DEF h

\* What matters of a record.
LEMMA SameWay ==
  ASSUME NEW p, NEW r, NEW q, RightWay(p, r), q.at = r.at, q.job = r.job, q.place = r.place,
         q.argv = r.argv, q.in = r.in, q.out = r.out
  PROVE  RightWay(p, q)
<1>1. LineOf(q) = LineOf(r) /\ \A k : Place(q, k) = Place(r, k)
  BY DEF LineOf, Place
<1>2. InOf(q) = InOf(r) /\ OutOf(q) = OutOf(r) /\ (HasRest(q) <=> HasRest(r))
  BY <1>1 DEF InOf, OutOf, HasRest
<1>3. QED
  BY <1>1, <1>2 DEF RightWay

\* The line of a process, when it is read as it is meant.
LEMMA LineMeant ==
  ASSUME ChildrenOK, NEW r, r.job \in 1 .. Len(lines)
  PROVE  /\ LineOf(r) \in Seq(STRING)
         /\ lines[r.job] \in Meant => ReadAsMeant(LineOf(r))
BY ProcsAre, CutType DEF LineOf, Meant

LEMMA DescriptorsAre ==
  /\ Terminal \in Descriptors /\ File \in Descriptors
  /\ \A q \in Nat : PipeOf(q) \in Descriptors /\ <<"read", q>> \in Descriptors /\ <<"write", q>> \in Descriptors
BY DEF Descriptors, Terminal, File, PipeOf

LEMMA RankZero ==
  ASSUME NEW s \in Seq(STRING)
  PROVE  0 \in Starts(s) /\ Rank(s, 0) = 0
<1>1. {j \in Bars(s) : j <= 0} = {}
  BY BarsAre
<1>2. QED
  BY <1>1, FS_EmptySet DEF Rank, Starts

LEMMA ExecWired ==
  ASSUME WiredInv, NEW p \in Pids, NEW r \in ChildType, Exec(p, r), lines' = lines, version' = version,
         r.job = procs[p].job, r.place = procs[p].place,
         NEW q, q = [r EXCEPT !.at = "run"], RightWay(p, q)
  PROVE  WiredInv'
<1>1. PICK at \in {"run", "zombie"} : Step(p, [r EXCEPT !.at = at])
  BY DEF Exec
<1>2. PICK z : z = [r EXCEPT !.at = at]
  OBVIOUS
<1>3. z \in ChildType /\ z.job = procs[p].job /\ z.place = procs[p].place /\ z.at = at
  BY <1>2 DEF ChildType
<1>4. RightWay(p, z)
  <2>1. CASE at = "run"
    BY <1>2, <2>1
  <2>2. CASE at = "zombie"
    BY <1>3, <2>2 DEF RightWay
  <2>3. QED
    BY <2>1, <2>2
<1>5. Step(p, z) /\ z.at \notin Early
  BY <1>1, <1>2, <1>3 DEF Early
<1>6. QED
  BY <1>3, <1>4, <1>5, OneWired

LEMMA EndWired ==
  ASSUME WiredInv, NEW p \in Pids, NEW at \in {"zombie", "reaped"},
         Step(p, [procs[p] EXCEPT !.at = at]), lines' = lines, version' = version
  PROVE  WiredInv'
<1>1. PICK z : z = [procs[p] EXCEPT !.at = at]
  OBVIOUS
<1>2. procs[p] \in ChildType
  BY ProcsAre DEF WiredInv
<1>3. z \in ChildType /\ z.job = procs[p].job /\ z.place = procs[p].place /\ z.at = at
  BY <1>1, <1>2 DEF ChildType
<1>4. RightWay(p, z) /\ z.at \notin Early
  BY <1>3 DEF RightWay, Early
<1>5. QED
  BY <1>1, <1>3, <1>4, OneWired

\* A line is typed and no process forked, or nothing happens.
LEMMA LineWired ==
  ASSUME WiredInv, procs' = procs, version' = version, lines' \in Seq(Lines), Len(lines) <= Len(lines'),
         \A j \in 1 .. Len(lines) : lines'[j] = lines[j]
  PROVE  WiredInv'
<1>1. ChildrenOK /\ JobsOK /\ Pids' = Pids
  BY DEF WiredInv, Pids
<1>2. Len(lines) \in Nat /\ Len(lines') \in Nat /\ \A p \in Pids : procs[p].job \in 1 .. Len(lines)
  BY <1>1, ProcsAre
<1>3. ChildrenOK' /\ JobsOK'
  <2>1. \A p \in Pids : procs[p].job \in 1 .. Len(lines')
    BY <1>2
  <2>2. QED
    BY <1>1, <2>1 DEF ChildrenOK, JobsOK
<1>4. Joins
  BY <1>1 DEF Joins
<1>5. ASSUME NEW q \in Pids PROVE RightWay(q, procs[q])'
  <2>1. PICK s : s = procs[q]
    OBVIOUS
  <2>2. RightWay(q, s) /\ s.job \in 1 .. Len(lines) /\ s.place \in Nat \ {0} /\ procs[q].place >= s.place - 1
    BY <1>1, <1>2, <2>1, ProcsAre DEF WiredInv, ChildType
  <2>3. RightWay(q, s)'
    BY <1>1, <1>4, <2>1, <2>2, WayStays
  <2>4. procs'[q] = s
    BY <2>1
  <2>5. QED
    BY <2>3, <2>4 DEF RightWay, HasRest, InOf, OutOf, LineOf, Place
<1>6. QED
  BY <1>1, <1>3, <1>5 DEF WiredInv

LEMMA RunWired ==
  ASSUME WiredInv, NEW line \in Lines, RunCommand(line)
  PROVE  WiredInv'
<1>1. /\ ChildrenOK /\ JobsOK /\ lines \in Seq(Lines) /\ procs \in Seq(ChildType)
      /\ \A q \in Pids : RightWay(q, procs[q])
  BY DEF WiredInv, ChildrenOK
<1>2. lines' = Append(lines, line) /\ version' = version
  BY DEF RunCommand
<1>3. /\ Len(lines) \in Nat /\ lines' \in Seq(Lines) /\ Len(lines') = Len(lines) + 1
      /\ \A j \in 1 .. Len(lines) : lines'[j] = lines[j]
      /\ lines'[Len(lines) + 1] = line
  BY <1>1, <1>2, AppendProperties
<1>4. /\ \A q \in Pids : procs[q] \in ChildType /\ procs[q].job \in 1 .. Len(lines)
      /\ line \in Seq(STRING)
  BY <1>1, ProcsAre, LinesAssumption
<1>5. PICK r : r = Child(Len(lines'), 1, Cut(line, "&"), Terminal, Terminal, {})
  OBVIOUS
<1>6. r \in ChildType
  <2>1. Cut(line, "&") \in Seq(STRING) /\ Terminal \in Descriptors
    BY <1>4, CutType, DescriptorsAre
  <2>2. Len(lines') \in Nat \ {0}
    BY <1>3
  <2>3. QED
    BY <1>5, <2>1, <2>2 DEF Child, ChildType
<1>7. /\ r.at = "child" /\ r.job = Len(lines) + 1 /\ r.place = 1 /\ r.argv = Cut(line, "&")
      /\ r.in = Terminal /\ r.out = Terminal
  BY <1>3, <1>5 DEF Child
<1>8. procs' = Append(procs, r)
  BY <1>5 DEF RunCommand
<1>9. \A q \in Pids : procs[q].job # r.job
  BY <1>3, <1>4, <1>7
<1>10. r.job \in 1 .. Len(lines') /\ ~(r.place > 1) /\ Len(lines) <= Len(lines')
  BY <1>3, <1>7
<1>11. PICK h : h = Len(procs) + 1
  OBVIOUS
<1>12. /\ ChildrenOK' /\ JobsOK' /\ Joins /\ Pids' = Pids \cup {h} /\ h \notin Pids
       /\ procs'[h] = r /\ \A q \in Pids : procs'[q] = procs[q]
  BY <1>1, <1>2, <1>3, <1>6, <1>8, <1>9, <1>10, <1>11, MoreWired
<1>13. ASSUME NEW q \in Pids PROVE RightWay(q, procs[q])'
  <2>1. PICK s : s = procs[q]
    OBVIOUS
  <2>2. RightWay(q, s) /\ s.job \in 1 .. Len(lines) /\ s.place \in Nat \ {0} /\ procs[q].place >= s.place - 1
    BY <1>1, <1>4, <2>1 DEF ChildType
  <2>3. RightWay(q, s)'
    BY <1>1, <1>12, <2>1, <2>2, WayStays
  <2>4. procs'[q] = s
    BY <1>12, <2>1
  <2>5. QED
    BY <2>3, <2>4 DEF RightWay, HasRest, InOf, OutOf, LineOf, Place
<1>14. RightWay(h, procs[h])'
  <2>1. LineOf(procs[h])' = Cut(line, "&")
    BY <1>3, <1>7, <1>12 DEF LineOf
  <2>2. QED
    BY <1>7, <1>12, <2>1 DEF RightWay
<1>15. QED
  BY <1>12, <1>13, <1>14 DEF WiredInv

LEMMA RedirectWired ==
  ASSUME WiredInv, NEW p \in Pids, Redirect(p)
  PROVE  WiredInv'
<1>1. PICK r : r = procs[p]
  OBVIOUS
<1>2. /\ ChildrenOK /\ r \in ChildType /\ r.job \in 1 .. Len(lines) /\ r.argv \in Seq(STRING)
      /\ RightWay(p, r) /\ r.at = "child" /\ version = "hw5"
      /\ lines' = lines /\ version' = version
  BY <1>1, ProcsAre DEF WiredInv, ChildType, Redirect, At, Quiet
<1>3. PICK a : a = AfterIn(r.argv)
  OBVIOUS
<1>4. PICK in, out : /\ in = (IF OpensIn(r.argv) THEN File ELSE r.in)
                     /\ out = (IF OpensOut(a) THEN File ELSE r.out)
  OBVIOUS
<1>5. PICK z : z = [r EXCEPT !.at = "pipe", !.argv = AfterOut(a), !.in = in, !.out = out]
  OBVIOUS
<1>6. Step(p, z)
  <2>1. z = [r EXCEPT !.at = "pipe", !.argv = AfterOut(a),
                      !.in = IF OpensIn(r.argv) THEN File ELSE @,
                      !.out = IF OpensOut(a) THEN File ELSE @]
    BY <1>2, <1>4, <1>5 DEF ChildType
  <2>2. QED
    BY <1>1, <1>3, <2>1 DEF Redirect
<1>7. z \in ChildType /\ z.job = r.job /\ z.place = r.place /\ z.at = "pipe" /\ z.argv = AfterOut(a)
      /\ z.in = in /\ z.out = out
  <2>1. AfterOut(a) \in Seq(STRING)
    BY <1>2, <1>3, RedirectType
  <2>2. in \in Descriptors /\ out \in Descriptors
    BY <1>2, <1>4, DescriptorsAre DEF ChildType
  <2>3. QED
    BY <1>2, <1>5, <2>1, <2>2 DEF ChildType
<1>8. RightWay(p, z)
  <2>1. SUFFICES ASSUME lines[r.job] \in Meant PROVE HasRest(z) /\ z.in = InOf(z) /\ z.out = OutOf(z)
    BY <1>7 DEF RightWay
  <2>2. PICK s : s = LineOf(r)
    OBVIOUS
  <2>3. s \in Seq(STRING) /\ ReadAsMeant(s) /\ LineOf(z) = s
    BY <1>2, <1>7, <2>1, <2>2, LineMeant DEF LineOf
  <2>4. r.place = 1 /\ r.argv = s /\ r.in = Terminal /\ r.out = Terminal
    BY <1>2, <2>1, <2>2 DEF RightWay
  <2>5. /\ AfterOut(a) = SubSeq(s, 1, End(s)) /\ (OpensIn(s) <=> From(s)) /\ (OpensOut(a) <=> To(s))
    BY <1>3, <2>3, <2>4, Redirected
  <2>6. HasRest(z)
    <3>1. 0 \in Starts(s) /\ Rank(s, 0) + 1 = 1 /\ 0 + 1 = 1
      BY <2>3, RankZero
    <3>2. QED
      BY <1>7, <2>3, <2>4, <2>5, <3>1 DEF HasRest
  <2>7. z.in = InOf(z) /\ z.out = OutOf(z)
    BY <1>4, <1>7, <2>3, <2>4, <2>5 DEF InOf, OutOf
  <2>8. QED
    BY <2>6, <2>7
<1>9. QED
  BY <1>1, <1>2, <1>6, <1>7, <1>8, OneWired DEF Early

\* With no bar left, the process is the last one of its line.
LEMMA ExecLastWired ==
  ASSUME WiredInv, NEW p \in Pids, ExecLast(p)
  PROVE  WiredInv'
<1>1. PICK r : r = procs[p]
  OBVIOUS
<1>2. /\ r \in ChildType /\ r.job \in 1 .. Len(lines) /\ RightWay(p, r) /\ r.at = "pipe" /\ ChildrenOK
      /\ lines' = lines /\ version' = version
  BY <1>1, ProcsAre DEF WiredInv, ExecLast, At, Quiet
<1>3. CASE PipePresent(r.argv) = 0
  <2>1. PICK q : q = [r EXCEPT !.at = "run"]
    OBVIOUS
  <2>2. /\ q.at = "run" /\ q.job = r.job /\ q.place = r.place /\ q.argv = r.argv
        /\ q.in = r.in /\ q.out = r.out
    BY <1>2, <2>1 DEF ChildType
  <2>3. RightWay(p, q)
    <3>1. SUFFICES ASSUME version = "hw5", lines[r.job] \in Meant
                   PROVE  /\ q.place <= NumCommands(LineOf(q)) /\ q.argv = Command(LineOf(q), q.place)
                          /\ q.in = InOf(q)
                          /\ q.place < NumCommands(LineOf(q)) => q.out = PipeOf(p) /\ Place(q, q.place + 1) # {}
                          /\ q.place = NumCommands(LineOf(q)) => q.out = OutOf(q)
      BY <2>2 DEF RightWay
    <3>2. PICK s : s = LineOf(r)
      OBVIOUS
    <3>3. s \in Seq(STRING) /\ ReadAsMeant(s) /\ LineOf(q) = s
      BY <1>2, <2>2, <3>1, <3>2, LineMeant DEF LineOf
    <3>4. HasRest(r) /\ r.in = InOf(r) /\ r.out = OutOf(r)
      BY <1>2, <3>1 DEF RightWay
    <3>5. PICK b \in Starts(s) : Rank(s, b) + 1 = r.place /\ r.argv = SubSeq(s, b + 1, End(s))
      BY <3>2, <3>4 DEF HasRest
    <3>6. /\ Rank(s, b) + 1 = NumCommands(s) /\ r.argv = Command(s, Rank(s, b) + 1)
      <4>1. ~(PipePresent(r.argv) > 0)
        BY <1>3
      <4>2. QED
        BY <3>3, <3>5, <4>1, NextCommand
    <3>7. q.in = InOf(q) /\ q.out = OutOf(q)
      BY <2>2, <3>4 DEF InOf, OutOf, LineOf, Place
    <3>8. NumCommands(s) \in Nat
      BY <3>3, BarsAre
    <3>9. QED
      BY <2>2, <3>3, <3>5, <3>6, <3>7, <3>8
  <2>4. Exec(p, r)
    BY <1>1, <1>3 DEF ExecLast
  <2>5. QED
    BY <1>1, <1>2, <2>1, <2>3, <2>4, ExecWired
<1>4. CASE PipePresent(r.argv) # 0
  <2>1. Step(p, [procs[p] EXCEPT !.at = "zombie"])
    BY <1>1, <1>4 DEF ExecLast
  <2>2. QED
    BY <1>2, <2>1, EndWired
<1>5. QED
  BY <1>3, <1>4

\* The left half is the command at the place of the process, and the child gets what
\* is behind the next bar.
LEMMA ForkRightWired ==
  ASSUME WiredInv, NEW p \in Pids, ForkRight(p)
  PROVE  WiredInv'
<1>1. PICK r, h : r = procs[p] /\ h = Len(procs) + 1
  OBVIOUS
<1>2. PICK held : held = r.held \cup {<<"read", p>>, <<"write", p>>}
  OBVIOUS
<1>3. PICK left, right :
        /\ left = [r EXCEPT !.at = "talk", !.argv = LeftOf(r.argv), !.held = held]
        /\ right = [Child(r.job, r.place + 1, RightOf(r.argv), r.in, r.out, held) EXCEPT !.at = "listen"]
  OBVIOUS
<1>4. PICK a : a = [procs EXCEPT ![p] = left]
  OBVIOUS
<1>5. /\ procs' = Append(a, right) /\ PipePresent(r.argv) > 0 /\ r.at = "pipe"
      /\ lines' = lines /\ version' = version
  BY <1>1, <1>2, <1>3, <1>4 DEF ForkRight, At, Quiet
<1>6. /\ ChildrenOK /\ JobsOK /\ r \in ChildType /\ r.job \in 1 .. Len(lines) /\ RightWay(p, r)
      /\ procs \in Seq(ChildType) /\ Len(procs) \in Nat /\ Pids = 1 .. Len(procs) /\ p \in Nat
      /\ lines \in Seq(Lines) /\ Len(lines) \in Nat
  BY <1>1, ProcsAre DEF WiredInv, ChildrenOK, Pids
<1>7. /\ LeftOf(r.argv) \in Seq(STRING) /\ RightOf(r.argv) \in Seq(STRING) /\ held \in SUBSET Descriptors
      /\ r.place \in Nat \ {0} /\ r.argv \in Seq(STRING)
  <2>1. r.argv \in Seq(STRING) /\ r.held \in SUBSET Descriptors /\ r.place \in Nat \ {0}
    BY <1>6 DEF ChildType
  <2>2. <<"read", p>> \in Descriptors /\ <<"write", p>> \in Descriptors
    BY <1>6, DescriptorsAre
  <2>3. QED
    BY <1>2, <1>5, <2>1, <2>2, HalfType
<1>8. /\ left \in ChildType /\ left.at = "talk" /\ left.job = r.job /\ left.place = r.place
      /\ left.argv = LeftOf(r.argv) /\ left.in = r.in
  BY <1>3, <1>6, <1>7 DEF ChildType
<1>9. /\ right \in ChildType /\ right.at = "listen" /\ right.job = r.job /\ right.place = r.place + 1
      /\ right.argv = RightOf(r.argv) /\ right.out = r.out
  <2>1. right = [at |-> "listen", job |-> r.job, place |-> r.place + 1, argv |-> RightOf(r.argv),
                 in |-> r.in, out |-> r.out, held |-> held, buf |-> 0, fed |-> FALSE]
    BY <1>3 DEF Child
  <2>2. QED
    <3>1. r.in \in Descriptors /\ r.out \in Descriptors /\ r.job \in Nat \ {0} /\ r.place \in Nat \ {0}
      BY <1>6, FieldsAre
    <3>2. r.place + 1 \in Nat \ {0} /\ r.place + 1 > 1 /\ 0 \in 0 .. 1 /\ FALSE \in BOOLEAN
      BY <3>1
    <3>3. QED
      BY <1>7, <2>1, <3>1, <3>2 DEF ChildType
<1>10. /\ a \in Seq(ChildType) /\ Len(a) = Len(procs)
       /\ \A q \in Pids : a[q] = IF q = p THEN left ELSE procs[q]
  BY <1>4, <1>6, <1>8, ExceptSeq
<1>11. ASSUME NEW q \in Pids
       PROVE  /\ a[q].job = procs[q].job /\ a[q].place = procs[q].place
              /\ a[q].at \in Early => a[q] = procs[q] /\ procs[q].job # right.job
  <2>1. CASE q = p
    BY <1>1, <1>8, <1>10, <2>1 DEF Early
  <2>2. CASE q # p
    <3>1. a[q] = procs[q]
      BY <1>10, <2>2
    <3>2. ASSUME procs[q].at \in Early, procs[q].job = r.job PROVE FALSE
      <4>1. procs[p].at \in Early
        BY <1>1, <1>5 DEF Early
      <4>2. procs[q].place <= procs[p].place /\ procs[p].place <= procs[q].place
        BY <1>1, <1>6, <3>2, <4>1 DEF JobsOK
      <4>3. procs[q].place \in Nat /\ procs[p].place \in Nat
        BY <1>6, ProcsAre DEF ChildType
      <4>4. procs[q].place = procs[p].place
        BY <4>2, <4>3
      <4>5. QED
        BY <1>1, <1>6, <2>2, <3>2, <4>4 DEF JobsOK
    <3>3. QED
      BY <1>9, <3>1, <3>2
  <2>3. QED
    BY <2>1, <2>2
<1>12. ASSUME NEW q \in Pids, procs[q].job = right.job PROVE procs[q].place < right.place
  <2>1. procs[q].place <= r.place
    BY <1>1, <1>5, <1>6, <1>9, <1>12 DEF JobsOK, Early
  <2>2. procs[q].place \in Nat
    BY <1>6, ProcsAre DEF ChildType
  <2>3. QED
    BY <1>7, <1>9, <2>1, <2>2
<1>13. procs[p].job = right.job /\ procs[p].place = right.place - 1
  BY <1>1, <1>7, <1>9
<1>14. /\ lines' \in Seq(Lines) /\ Len(lines) <= Len(lines') /\ right.job \in 1 .. Len(lines')
       /\ \A j \in 1 .. Len(lines) : lines'[j] = lines[j]
  BY <1>5, <1>6, <1>9
<1>15. /\ ChildrenOK' /\ JobsOK' /\ Joins /\ Pids' = Pids \cup {h} /\ h \notin Pids
       /\ procs'[h] = right /\ \A q \in Pids : procs'[q] = a[q]
  BY <1>1, <1>5, <1>6, <1>9, <1>10, <1>11, <1>12, <1>13, <1>14, MoreWired, ZenonT(60)
<1>16. ASSUME NEW q, NEW t, t.job \in 1 .. Len(lines), t.place \in Nat \ {0}, RightWay(q, t),
              \E o \in Pids : procs[o].job = t.job /\ procs[o].place >= t.place - 1
       PROVE  RightWay(q, t)'
  BY <1>6, <1>15, <1>16, WayStays
<1>17. ASSUME NEW q \in Pids, q # p PROVE RightWay(q, procs[q])'
  <2>1. PICK t : t = procs[q]
    OBVIOUS
  <2>2. RightWay(q, t) /\ t.job \in 1 .. Len(lines) /\ t.place \in Nat \ {0} /\ procs[q].place >= t.place - 1
    <3>1. RightWay(q, t) /\ t \in ChildType /\ t.job \in 1 .. Len(lines)
      BY <1>6, <2>1, ProcsAre DEF WiredInv
    <3>2. t.place \in Nat \ {0}
      BY <3>1, FieldsAre
    <3>3. QED
      BY <2>1, <3>1, <3>2
  <2>3. RightWay(q, t)'
    BY <1>16, <2>1, <2>2
  <2>4. procs'[q] = t
    BY <1>10, <1>15, <1>17, <2>1
  <2>5. QED
    BY <2>3, <2>4 DEF RightWay, HasRest, InOf, OutOf, LineOf, Place
<1>18. ASSUME version = "hw5", lines[r.job] \in Meant
       PROVE  /\ r.place < NumCommands(LineOf(r)) /\ LeftOf(r.argv) = Command(LineOf(r), r.place)
              /\ HasRest(right) /\ r.out = OutOf(r)
  <2>1. PICK s : s = LineOf(r)
    OBVIOUS
  <2>2. s \in Seq(STRING) /\ ReadAsMeant(s) /\ LineOf(right) = s
    BY <1>6, <1>9, <1>18, <2>1, LineMeant DEF LineOf
  <2>3. HasRest(r) /\ r.out = OutOf(r)
    BY <1>5, <1>6, <1>18 DEF RightWay
  <2>4. PICK b \in Starts(s) : Rank(s, b) + 1 = r.place /\ r.argv = SubSeq(s, b + 1, End(s))
    BY <2>1, <2>3 DEF HasRest
  <2>5. /\ Rank(s, b) + 1 < NumCommands(s) /\ LeftOf(r.argv) = Command(s, Rank(s, b) + 1)
        /\ \E c \in Starts(s) : Rank(s, c) = Rank(s, b) + 1 /\ RightOf(r.argv) = SubSeq(s, c + 1, End(s))
    <3>1. PipePresent(r.argv) # 0
      BY <1>5
    <3>2. QED
      BY <2>2, <2>4, <3>1, NextCommand, ZenonT(60)
  <2>6. HasRest(right)
    <3>1. PICK c \in Starts(s) : Rank(s, c) = r.place /\ RightOf(r.argv) = SubSeq(s, c + 1, End(s))
      BY <2>4, <2>5
    <3>2. Rank(s, c) + 1 = right.place /\ right.argv = SubSeq(s, c + 1, End(s))
      BY <1>9, <3>1
    <3>3. QED
      BY <2>2, <3>2 DEF HasRest
  <2>7. QED
    BY <2>1, <2>3, <2>4, <2>5, <2>6
<1>19. RightWay(h, right)
  <2>1. OutOf(right) = OutOf(r)
    BY <1>9 DEF OutOf, LineOf
  <2>2. QED
    BY <1>9, <1>18, <2>1 DEF RightWay
<1>20. RightWay(h, procs[h])'
  <2>1. procs[p].place >= right.place - 1 /\ right.place \in Nat \ {0} /\ right.job \in 1 .. Len(lines)
    BY <1>6, <1>7, <1>9, <1>13
  <2>2. RightWay(h, right)'
    BY <1>13, <1>16, <1>19, <2>1
  <2>3. QED
    BY <1>15, <2>2 DEF RightWay, HasRest, InOf, OutOf, LineOf, Place
<1>21. RightWay(p, left)'
  <2>1. RightWay(p, r)'
    <3>1. procs[p].job = r.job /\ procs[p].place >= r.place - 1
      BY <1>1, <1>7
    <3>2. QED
      BY <1>6, <1>7, <1>16, <3>1
  <2>2. lines'[left.job] = lines[r.job] /\ LineOf(left)' = LineOf(r) /\ version' = version
    BY <1>5, <1>8 DEF LineOf
  <2>3. SUFFICES ASSUME version = "hw5", lines[r.job] \in Meant
                 PROVE  /\ left.place < NumCommands(LineOf(left)') /\ left.argv = Command(LineOf(left)', left.place)
                        /\ left.in = InOf(left)' /\ Place(left, left.place + 1)' # {}
    BY <1>8, <2>2 DEF RightWay
  <2>4. left.in = InOf(left)'
    <3>1. r.in = InOf(r)'
      BY <1>5, <2>1, <2>3 DEF RightWay
    <3>2. QED
      BY <1>8, <3>1 DEF InOf, LineOf, Place
  <2>5. h \in Place(left, left.place + 1)'
    BY <1>8, <1>9, <1>15 DEF Place
  <2>6. QED
    BY <1>8, <1>18, <2>2, <2>3, <2>4, <2>5
<1>22. RightWay(p, procs[p])'
  <2>1. procs'[p] = left
    BY <1>10, <1>15
  <2>2. QED
    BY <1>21, <2>1 DEF RightWay, HasRest, InOf, OutOf, LineOf, Place
<1>23. QED
  BY <1>15, <1>17, <1>20, <1>22 DEF WiredInv

\* The left command writes to the pipe its process has made.
LEMMA TalkWired ==
  ASSUME WiredInv, NEW p \in Pids, Talk(p)
  PROVE  WiredInv'
<1>1. PICK r : r = procs[p]
  OBVIOUS
<1>2. /\ r \in ChildType /\ r.job \in 1 .. Len(lines) /\ RightWay(p, r) /\ r.at = "talk" /\ ChildrenOK
      /\ lines' = lines /\ version' = version /\ p \in Nat
  BY <1>1, ProcsAre DEF WiredInv, Talk, At, Quiet, Pids
<1>3. PICK held : held = r.held \ {<<"read", p>>, <<"write", p>>}
  OBVIOUS
<1>4. PICK t : t = [r EXCEPT !.out = PipeOf(p), !.held = held]
  OBVIOUS
<1>5. Exec(p, t)
  BY <1>1, <1>3, <1>4 DEF Talk
<1>6. t \in ChildType /\ t.job = r.job /\ t.place = r.place
  <2>1. PipeOf(p) \in Descriptors /\ held \in SUBSET Descriptors
    BY <1>2, <1>3, DescriptorsAre DEF ChildType
  <2>2. QED
    BY <1>2, <1>4, <2>1 DEF ChildType
<1>7. PICK q : q = [t EXCEPT !.at = "run"]
  OBVIOUS
<1>8. /\ q.at = "run" /\ q.job = r.job /\ q.place = r.place /\ q.argv = r.argv
      /\ q.in = r.in /\ q.out = PipeOf(p) /\ r.place \in Nat
  BY <1>2, <1>4, <1>7 DEF ChildType
<1>9. RightWay(p, q)
  <2>1. SUFFICES ASSUME version = "hw5", lines[r.job] \in Meant
                 PROVE  /\ q.place < NumCommands(LineOf(q)) /\ NumCommands(LineOf(q)) \in Nat
                        /\ q.argv = Command(LineOf(q), q.place)
                        /\ q.in = InOf(q) /\ Place(q, q.place + 1) # {}
    BY <1>8 DEF RightWay
  <2>2. LineOf(q) = LineOf(r) /\ InOf(q) = InOf(r) /\ \A k : Place(q, k) = Place(r, k)
    BY <1>8 DEF InOf, LineOf, Place
  <2>3. NumCommands(LineOf(r)) \in Nat
    BY <1>2, LineMeant, BarsAre
  <2>4. QED
    BY <1>2, <1>8, <2>1, <2>2, <2>3 DEF RightWay
<1>10. QED
  BY <1>1, <1>2, <1>5, <1>6, <1>7, <1>9, ExecWired

\* The child of a line reads from the process before it.
LEMMA Before ==
  ASSUME WiredInv, NEW p \in Pids, procs[p].place > 1
  PROVE  PipeToRead(p) \in Pids /\ PipeToRead(p) = One(Place(procs[p], procs[p].place - 1))
<1>1. PICK r : r = procs[p]
  OBVIOUS
<1>2. PICK o \in Pids : procs[o].job = r.job /\ procs[o].place = r.place - 1
  BY <1>1 DEF WiredInv, JobsOK
<1>3. \A q \in Pids : procs[q].job = r.job /\ procs[q].place = r.place - 1 => q = o
  BY <1>2 DEF WiredInv, JobsOK
<1>4. PipeToRead(p) = o
  BY <1>1, <1>2, <1>3 DEF PipeToRead
<1>5. Place(r, r.place - 1) = {o}
  BY <1>2, <1>3 DEF Place
<1>6. One(Place(r, r.place - 1)) = o
  BY <1>5 DEF One
<1>7. QED
  BY <1>1, <1>2, <1>4, <1>6

LEMMA ListenWired ==
  ASSUME WiredInv, NEW p \in Pids, Listen(p)
  PROVE  WiredInv'
<1>1. PICK r : r = procs[p]
  OBVIOUS
<1>2. /\ r \in ChildType /\ r.job \in 1 .. Len(lines) /\ RightWay(p, r) /\ r.at = "listen" /\ ChildrenOK
      /\ lines' = lines /\ version' = version
  BY <1>1, ProcsAre DEF WiredInv, Listen, At, Quiet
<1>3. PICK o : o = PipeToRead(p)
  OBVIOUS
<1>4. r.place > 1 /\ o \in Nat /\ o = One(Place(r, r.place - 1))
  <2>1. r.place > 1
    BY <1>2 DEF ChildType
  <2>2. QED
    BY <1>1, <1>3, <2>1, Before DEF Pids
<1>5. PICK held : held = r.held \ {<<"write", o>>}
  OBVIOUS
<1>6. PICK z : z = [r EXCEPT !.at = "pipe", !.in = PipeOf(o), !.held = held]
  OBVIOUS
<1>7. Step(p, z)
  BY <1>1, <1>3, <1>5, <1>6 DEF Listen
<1>8. /\ z \in ChildType /\ z.at = "pipe" /\ z.job = r.job /\ z.place = r.place /\ z.argv = r.argv
      /\ z.in = PipeOf(o) /\ z.out = r.out
  <2>1. PipeOf(o) \in Descriptors /\ held \in SUBSET Descriptors
    BY <1>2, <1>4, <1>5, DescriptorsAre DEF ChildType
  <2>2. QED
    BY <1>2, <1>6, <2>1 DEF ChildType
<1>9. RightWay(p, z)
  <2>1. /\ OutOf(z) = OutOf(r) /\ (HasRest(z) <=> HasRest(r)) /\ InOf(z) = PipeOf(o)
        /\ lines[z.job] = lines[r.job]
    BY <1>4, <1>8 DEF OutOf, InOf, HasRest, LineOf, Place
  <2>2. QED
    BY <1>2, <1>8, <2>1 DEF RightWay
<1>10. QED
  BY <1>1, <1>2, <1>7, <1>8, <1>9, OneWired DEF Early

\* A command that reads or writes keeps its place.
LEMMA BusyWired ==
  ASSUME WiredInv, NEW p \in Pids, NEW buf \in 0 .. 1, NEW fed \in BOOLEAN,
         Step(p, [procs[p] EXCEPT !.buf = buf, !.fed = fed]), lines' = lines, version' = version
  PROVE  WiredInv'
<1>1. PICK r, z : r = procs[p] /\ z = [r EXCEPT !.buf = buf, !.fed = fed]
  OBVIOUS
<1>2. r \in ChildType /\ RightWay(p, r) /\ Step(p, z)
  BY <1>1, ProcsAre DEF WiredInv
<1>3. /\ z \in ChildType /\ z.at = r.at /\ z.job = r.job /\ z.place = r.place /\ z.argv = r.argv
      /\ z.in = r.in /\ z.out = r.out
  BY <1>1, <1>2 DEF ChildType
<1>4. RightWay(p, z)
  BY <1>2, <1>3, SameWay
<1>5. QED
  BY <1>1, <1>2, <1>3, <1>4, OneWired

LEMMA WiredStep ==
  ASSUME WiredInv, [Next]_vars
  PROVE  WiredInv'
<1>1. lines \in Seq(Lines) /\ Len(lines) \in Nat
  BY ProcsAre DEF WiredInv, ChildrenOK
<1>2. ASSUME NEW line \in Lines, lines' = Append(lines, line), procs' = procs, version' = version
      PROVE  WiredInv'
  <2>1. /\ lines' \in Seq(Lines) /\ Len(lines') = Len(lines) + 1
        /\ \A j \in 1 .. Len(lines) : lines'[j] = lines[j]
    BY <1>1, <1>2, AppendProperties
  <2>2. Len(lines) <= Len(lines')
    BY <1>1, <2>1
  <2>3. QED
    BY <1>2, <2>1, <2>2, LineWired
<1>3. ASSUME lines' = lines, procs' = procs, version' = version
      PROVE  WiredInv'
  BY <1>1, <1>3, LineWired
<1>4. CASE UNCHANGED vars
  BY <1>3, <1>4 DEF vars
<1>5. ASSUME NEW line \in Lines, NoCommand(line) \/ RunCommand(line) \/ RunFails(line)
      PROVE  WiredInv'
  <2>1. CASE NoCommand(line)
    BY <1>2, <2>1 DEF NoCommand
  <2>2. CASE RunCommand(line)
    BY <2>2, RunWired
  <2>3. CASE RunFails(line)
    BY <1>2, <2>3 DEF RunFails
  <2>4. QED
    BY <1>5, <2>1, <2>2, <2>3
<1>6. ASSUME NEW p \in Pids, Reap(p)
      PROVE  WiredInv'
  BY <1>6, EndWired DEF Reap, Step
<1>7. CASE EndOfInput
  BY <1>3, <1>7 DEF EndOfInput
<1>8. ASSUME NEW p \in Pids, ChildStep(p)
      PROVE  WiredInv'
  <2>1. CASE ExecWhole(p)
    <3>1. PICK r, q : r = procs[p] /\ q = [r EXCEPT !.at = "run"]
      OBVIOUS
    <3>2. Exec(p, r) /\ lines' = lines /\ version' = version /\ version = "hw3"
      BY <2>1, <3>1 DEF ExecWhole, Quiet
    <3>3. r \in ChildType /\ RightWay(p, q)
      BY <3>1, <3>2, ProcsAre DEF WiredInv, RightWay
    <3>4. QED
      BY <3>1, <3>2, <3>3, ExecWired
  <2>2. QED
    BY <1>8, <2>1, RedirectWired, ExecLastWired, ForkRightWired, TalkWired, ListenWired DEF ChildStep
<1>9. ASSUME NEW p \in Pids, ForkRightFails(p)
      PROVE  WiredInv'
  BY <1>9, EndWired DEF ForkRightFails, Quiet
<1>10. ASSUME NEW p \in Pids, Fed(p), Quiet
       PROVE  WiredInv'
  <2>1. Step(p, [procs[p] EXCEPT !.buf = 1, !.fed = TRUE]) /\ lines' = lines /\ version' = version
    BY <1>10 DEF Fed, Quiet
  <2>2. 1 \in 0 .. 1 /\ TRUE \in BOOLEAN
    OBVIOUS
  <2>3. QED
    BY <2>1, <2>2, BusyWired
<1>11. ASSUME NEW p \in Pids, Dies(p), Quiet
       PROVE  WiredInv'
  BY <1>11, EndWired DEF Dies, Quiet
<1>12. ASSUME NEW p \in Pids, CommandWrite(p)
       PROVE  WiredInv'
  <2>1. Step(p, [procs[p] EXCEPT !.buf = 0]) /\ lines' = lines /\ version' = version
    BY <1>12 DEF CommandWrite, Quiet
  <2>2. PICK fed \in BOOLEAN : fed = procs[p].fed
    <3>1. procs[p] \in ChildType
      BY ProcsAre DEF WiredInv
    <3>2. procs[p].fed \in BOOLEAN
      BY <3>1 DEF ChildType
    <3>3. QED
      BY <3>2
  <2>3. [procs[p] EXCEPT !.buf = 0] = [procs[p] EXCEPT !.buf = 0, !.fed = fed]
    <3>1. procs[p] \in ChildType
      BY ProcsAre DEF WiredInv
    <3>2. QED
      BY <2>2, <3>1 DEF ChildType
  <2>4. 0 \in 0 .. 1
    OBVIOUS
  <2>5. QED
    BY <2>1, <2>3, <2>4, BusyWired
<1>13. ASSUME NEW p \in Pids, CommandStep(p) \/ UserInput(p)
       PROVE  WiredInv'
  BY <1>10, <1>11, <1>12, <1>13
     DEF CommandStep, UserInput, CommandRead, CommandEof, CommandSigpipe, CommandExit
<1>14. QED
  BY <1>4, <1>5, <1>6, <1>7, <1>8, <1>9, <1>13 DEF Next, ShellStep

LEMMA WiredStart ==
  ASSUME Init
  PROVE  WiredInv
<1>1. procs = <<>> /\ lines = <<>> /\ Pids = {}
  BY DEF Init, Pids
<1>2. ChildrenOK /\ JobsOK
  BY <1>1 DEF ChildrenOK, JobsOK
<1>3. QED
  BY <1>1, <1>2 DEF WiredInv

LEMMA WiredHolds ==
  ASSUME WiredInv
  PROVE  Wired
<1>1. SUFFICES ASSUME NEW p \in Pids, version = "hw5", procs[p].at = "run", lines[procs[p].job] \in Meant
               PROVE  LET r == procs[p]  line == Line(p)  h == NumCommands(line)
                          Neighbour(k) == {q \in Pids : procs[q].job = r.job /\ procs[q].place = k}
                      IN  /\ r.place <= h /\ r.argv = Command(line, r.place)
                          /\ r.in = IF r.place > 1 THEN PipeOf(CHOOSE q \in Neighbour(r.place - 1) : TRUE)
                                    ELSE IF From(line) THEN File ELSE Terminal
                          /\ r.out = IF r.place < h THEN PipeOf(p) ELSE IF To(line) THEN File ELSE Terminal
                          /\ r.place < h => Neighbour(r.place + 1) # {}
  BY DEF Wired
<1>2. PICK r : r = procs[p]
  OBVIOUS
<1>3. RightWay(p, r) /\ r \in ChildType /\ ChildrenOK /\ r.job \in 1 .. Len(lines)
  BY <1>2, ProcsAre DEF WiredInv
<1>4. PICK h : h = NumCommands(LineOf(r))
  OBVIOUS
<1>5. h \in Nat /\ r.place \in Nat
  BY <1>3, <1>4, FieldsAre, LineMeant, BarsAre
<1>6. /\ r.place <= h /\ r.argv = Command(LineOf(r), r.place) /\ r.in = InOf(r)
      /\ r.place < h => r.out = PipeOf(p) /\ Place(r, r.place + 1) # {}
      /\ r.place = h => r.out = OutOf(r)
  BY <1>1, <1>2, <1>3, <1>4 DEF RightWay
<1>7. r.out = IF r.place < h THEN PipeOf(p) ELSE OutOf(r)
  BY <1>5, <1>6
<1>8. QED
  BY <1>2, <1>4, <1>6, <1>7 DEF InOf, OutOf, One, Place, LineOf, Line

\* Every command that runs for a line SP_HW5 reads as it is meant is the one at its place
\* and is wired to its neighbours and the files as the line says (run_command.c:54,
\* pipe_command.c:115), for all lines, however many bars they have.
THEOREM WiredRight == Spec => []Wired
<1>1. Init => WiredInv
  BY WiredStart
<1>2. WiredInv /\ [Next]_vars => WiredInv'
  BY WiredStep
<1>3. WiredInv => Wired
  BY WiredHolds
<1>4. QED
  BY <1>1, <1>2, <1>3, PTL DEF Spec
=============================================================================
