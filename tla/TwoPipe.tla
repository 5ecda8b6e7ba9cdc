------------------------------ MODULE TwoPipe -------------------------------
(***************************************************************************)
(* two_pipe.c (SP_HW6): the parent sends every line of its input to its    *)
(* child through pd1 and prints what comes back through pd2; the child     *)
(* turns letters into capitals.                                            *)
(***************************************************************************)
EXTENDS Naturals, Sequences

CONSTANTS
  Texts,        \* what users type, a buffer at a time
  NoText,       \* a read or write of 0 bytes
  MaxTexts,     \* bound: how often the user types
  TwoKill       \* may the processes be killed by a signal

ASSUME NoTextAssumption == NoText \notin Texts /\ \A t \in Texts : <<"capitals", t>> # NoText
ASSUME MaxTextsAssumption == MaxTexts \in Nat

VARIABLES
  tppc,             \* the parent: "off", "read", "send", "wait", "print" or "killed"
  tcpc,             \* the child: "read", "write" or "killed"
  p_buf, c_buf,     \* their buffers
  sent, heard,      \* what was written to pd1, and read from it
  answered, back,   \* what was written to pd2, and read from it
  typed, shown      \* what the user typed, and was shown

twoVars == <<tppc, tcpc, p_buf, c_buf, sent, heard, answered, back, typed, shown>>

Capitals(t) == IF t = NoText THEN t ELSE <<"capitals", t>>

\* The first buffer that was written to a pipe and not read yet.
Waiting(written, read) == Len(read) < Len(written)
Oldest(written, read) == written[Len(read) + 1]

\* A write of 0 bytes succeeds and leaves nothing in the pipe.
Written(written, t) == IF t = NoText THEN written ELSE Append(written, t)

TwoState(pc) ==
  /\ tppc = pc /\ tcpc = "read"
  /\ p_buf = NoText /\ c_buf = NoText
  /\ sent = <<>> /\ heard = <<>> /\ answered = <<>> /\ back = <<>>
  /\ typed = <<>> /\ shown = <<>>
TwoInit == TwoState("read")
-----------------------------------------------------------------------------
(* The parent *)

\* read of what the user types, or of the end of his input, which is not looked at.
ParentRead ==
  /\ tppc = "read"
  /\ \/ \E t \in Texts : /\ Len(typed) < MaxTexts
                         /\ p_buf' = t /\ typed' = Append(typed, t)
     \/ p_buf' = NoText /\ UNCHANGED typed
  /\ tppc' = "send"
  /\ UNCHANGED <<tcpc, c_buf, sent, heard, answered, back, shown>>

\* write to pd1.
ParentSend ==
  /\ tppc = "send" /\ (tcpc # "killed" \/ p_buf = NoText)
  /\ sent' = Written(sent, p_buf)
  /\ tppc' = "wait"
  /\ UNCHANGED <<tcpc, p_buf, c_buf, heard, answered, back, typed, shown>>

\* Nobody reads pd1 any more: SIGPIPE.
ParentSendLost ==
  /\ tppc = "send" /\ tcpc = "killed" /\ p_buf # NoText
  /\ tppc' = "killed"
  /\ UNCHANGED <<tcpc, p_buf, c_buf, sent, heard, answered, back, typed, shown>>

\* Mutant: the parent does not wait for an answer before it reads on.
ParentWait_Poll ==
  /\ tppc = "wait"
  /\ IF Waiting(answered, back)
     THEN p_buf' = Oldest(answered, back) /\ back' = Append(back, p_buf')
     ELSE p_buf' = NoText /\ UNCHANGED back
  /\ tppc' = "print"
  /\ UNCHANGED <<tcpc, c_buf, sent, heard, answered, typed, shown>>

\* read from pd2, or its end when the child is gone.
ParentWait ==
  /\ tppc = "wait"
  /\ \/ /\ Waiting(answered, back)
        /\ p_buf' = Oldest(answered, back) /\ back' = Append(back, p_buf')
     \/ /\ ~Waiting(answered, back) /\ tcpc = "killed"
        /\ p_buf' = NoText /\ UNCHANGED back
  /\ tppc' = "print"
  /\ UNCHANGED <<tcpc, c_buf, sent, heard, answered, typed, shown>>

\* write to stdout.
ParentPrint ==
  /\ tppc = "print"
  /\ shown' = Written(shown, p_buf)
  /\ tppc' = "read"
  /\ UNCHANGED <<tcpc, p_buf, c_buf, sent, heard, answered, back, typed>>

TwoParent == ParentSend \/ ParentSendLost \/ ParentWait \/ ParentPrint
-----------------------------------------------------------------------------
(* The child *)

\* read from pd1, or its end when the parent is gone, which is not looked at.
ChildRead ==
  /\ tcpc = "read"
  /\ \/ /\ Waiting(sent, heard)
        /\ c_buf' = Oldest(sent, heard) /\ heard' = Append(heard, c_buf')
     \/ /\ ~Waiting(sent, heard) /\ tppc = "killed"
        /\ c_buf' = NoText /\ UNCHANGED heard
  /\ tcpc' = "write"
  /\ UNCHANGED <<tppc, p_buf, sent, answered, back, typed, shown>>

\* Mutant: the child answers what it reads the second time.
ChildWrite_Twice ==
  /\ tcpc = "write"
  /\ answered' = IF Len(heard) = 1 THEN answered ELSE Written(answered, Capitals(c_buf))
  /\ tcpc' = "read"
  /\ UNCHANGED <<tppc, p_buf, c_buf, sent, heard, back, typed, shown>>

\* write to pd2: of 0 bytes this succeeds even if nobody reads pd2, and a child
\* without a parent goes round for ever.
ChildWrite ==
  /\ tcpc = "write" /\ (tppc # "killed" \/ c_buf = NoText)
  /\ answered' = Written(answered, Capitals(c_buf))
  /\ tcpc' = "read"
  /\ UNCHANGED <<tppc, p_buf, c_buf, sent, heard, back, typed, shown>>

\* Nobody reads pd2 any more: SIGPIPE.
ChildWriteLost ==
  /\ tcpc = "write" /\ tppc = "killed" /\ c_buf # NoText
  /\ tcpc' = "killed"
  /\ UNCHANGED <<tppc, p_buf, c_buf, sent, heard, answered, back, typed, shown>>

TwoChild == ChildRead \/ ChildWrite \/ ChildWriteLost

TwoParentKill ==
  /\ TwoKill /\ tppc \notin {"off", "killed"} /\ tppc' = "killed"
  /\ UNCHANGED <<tcpc, p_buf, c_buf, sent, heard, answered, back, typed, shown>>
TwoChildKill ==
  /\ TwoKill /\ tppc # "off" /\ tcpc # "killed" /\ tcpc' = "killed"
  /\ UNCHANGED <<tppc, p_buf, c_buf, sent, heard, answered, back, typed, shown>>
-----------------------------------------------------------------------------
TwoNext == ParentRead \/ TwoParent \/ TwoChild \/ TwoParentKill \/ TwoChildKill

TwoSpec == TwoInit /\ [][TwoNext]_twoVars

\* Processes that are not blocked are scheduled; the user owes nobody a line.
TwoFairness == WF_twoVars(TwoParent) /\ WF_twoVars(TwoChild)
-----------------------------------------------------------------------------
(* Properties *)

There == INSTANCE Handoff WITH Items <- Texts, put <- sent, taken <- heard
Back == INSTANCE Handoff WITH Items <- {Capitals(t) : t \in Texts}, put <- answered, taken <- back

\* Each pipe is a place for one buffer (two_pipe.c:88, :94): the two processes take
\* turns, so that no buffer meets another in a pipe, where a read of SIZE bytes would
\* take both at once.
InTurns == There!Spec /\ Back!Spec

\* What is typed is shown in capitals, in the order it was typed, unless one of
\* the processes is killed.  At the end of input, when the parent waits for an answer to
\* nothing (two_pipe.c:94) and never ends, there is none left that was not shown.
Shown ==
  \A i \in 1 .. MaxTexts :
    (Len(typed) >= i) ~>
      \/ "killed" \in {tppc, tcpc}
      \/ Len(shown) >= i /\ shown[i] = Capitals(typed[i])
=============================================================================
