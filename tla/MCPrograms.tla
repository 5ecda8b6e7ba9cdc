----------------------------- MODULE MCPrograms -----------------------------
(***************************************************************************)
(* Popen, TwoPipe, Tail and DictFile for TLC: programs that work alone, on *)
(* a pipe or a text file.  One of them runs, the others are off.           *)
(***************************************************************************)
EXTENDS Popen, TwoPipe, MCTail, DictFile

SomeCommands == [prints : {0, 3}, reads : BOOLEAN]

\* A line that may be a word or part of a definition, a longer one with which the first
\* begins, and the blank one; the last line may lack its newline.
a == <<"a", "\n">>
ab == <<"a", "b", "\n">>
b == <<"b", "\n">>
AllInputs ==
  LET lines == {ab, b, <<"\n">>}
  IN  BoundedSeq(lines, 4)
        \cup {s \o t : s \in SeqOf(lines, 2), t \in {<<ab, b, <<"\n">>>>, <<b, <<"a">>>>, <<a, <<"a", "b">>>>}}
        \cup {<<ab, b, <<"\n">>, a, ab, b, <<"\n">>>>, <<a, ab, <<"\n">>, ab, b, <<"\n">>>>}
SomeJunk == {<<"\n">>, <<"b", "b">>}
SomeWords == {<<"a">>, <<"b">>, <<"a", "b">>, <<>>}

TailOff == file = <<>> /\ n = 0 /\ TailState("off")
DictOff == input = <<>> /\ line = <<"\n">> /\ DictState("off")

Init ==
  \/ PopenInit /\ TwoState("off") /\ TailOff /\ DictOff
  \/ PopenState("off") /\ TwoInit /\ TailOff /\ DictOff
  \/ PopenState("off") /\ TwoState("off") /\ TailInit /\ DictOff
  \/ PopenState("off") /\ TwoState("off") /\ TailOff /\ DictInit
Next ==
  \/ PopenNext /\ UNCHANGED <<twoVars, tailVars, dictVars>>
  \/ TwoNext /\ UNCHANGED <<popenVars, tailVars, dictVars>>
  \/ TailNext /\ UNCHANGED <<popenVars, twoVars, dictVars>>
  \/ DictNext /\ UNCHANGED <<popenVars, twoVars, tailVars>>
FairSpec ==
  /\ Init /\ [][Next]_<<popenVars, twoVars, tailVars, dictVars>>
  /\ PopenFairness /\ TwoFairness /\ DictFairness
=============================================================================
