------------------------------ MODULE DictFile ------------------------------
(***************************************************************************)
(* The dictionary file of SP_HW5/part3: convert.c turns a text of words,   *)
(* definitions and blank lines into records; main.c asks for words, which  *)
(* lookup1.c searches for from the first record to the last.               *)
(*                                                                         *)
(* A line is the sequence of its characters; only the last line of a file  *)
(* may lack its newline.  The length of a string is what strlen returns.   *)
(***************************************************************************)
EXTENDS Naturals, Sequences, FiniteSets, SequencesExt

CONSTANTS
  Inputs,       \* files to convert: sequences of lines
  Sought,       \* words users ask for
  NL,           \* the newline character
  Junk,         \* what an uninitialised buffer may hold
  MaxAsked      \* bound: words asked for

ASSUME MaxAskedAssumption == MaxAsked \in Nat

VARIABLES
  input,            \* the file to convert
  dpc,              \* "off", "word", "text", "more", "prompt", "search" or "unavailable"
  at,               \* lines of the input that were read
  eof,              \* feof(in) of convert
  line,             \* the line buffer of convert
  blank,            \* the record being built, [word, text]
  out,              \* the records written: the dictionary
  tryit,            \* the word sought, and main's record
  pos,              \* lookup: records passed since rewind
  dr,               \* lookup: the record buffer
  asked, answer     \* words asked for, and the last answer: "none", "found" or "not found"

dictVars == <<input, dpc, at, eof, line, blank, out, tryit, pos, dr, asked, answer>>
convertVars == <<input, at, eof, line, blank, out>>
lookupVars == <<tryit, pos, dr, asked, answer>>

None == [word |-> <<>>, text |-> <<>>]

\* line[len-1] = '\0'.  With len = 0 this writes before the buffer, which is taken to
\* change nothing here.
Stripped(s) == IF s = <<>> THEN s ELSE Front(s)

DictState(pc) ==
  /\ input \in Inputs
  /\ dpc = pc /\ at = 0 /\ eof = FALSE
  /\ line \in Junk
  /\ blank = None /\ out = <<>>
  /\ tryit = None /\ pos = 0 /\ dr = None
  /\ asked = 0 /\ answer = "none"
DictInit == DictState("word")
-----------------------------------------------------------------------------
(* convert *)

\* fgets into a buffer that holds old: the next line, or at the end of the file the old
\* contents.  feof is set by a read that meets the end, not before.
Gets(k, old) == IF k < Len(input) THEN input[k + 1] ELSE old
EofAfter(k) == k >= Len(input) \/ Last(input[k + 1]) # NL

\* Mutant: the buffer is cleared before the word is read, too.
ConvertWord_Clear ==
  /\ dpc = "word" /\ ~eof
  /\ line' = Gets(at, <<>>)
  /\ at' = at + 1 /\ eof' = EofAfter(at)
  /\ IF Len(line') = 1 THEN dpc' = "prompt" /\ UNCHANGED blank
     ELSE dpc' = "text" /\ blank' = [word |-> line', text |-> <<>>]
  /\ UNCHANGED <<input, out>> /\ UNCHANGED lookupVars

\* The word.  A line of length 1 is blank, and ends the conversion; so does the old
\* line at the end of the file, if it was blank.
ConvertWord ==
  /\ dpc = "word" /\ ~eof
  /\ line' = Gets(at, line)
  /\ at' = at + 1 /\ eof' = EofAfter(at)
  /\ IF Len(line') = 1 THEN dpc' = "prompt" /\ UNCHANGED blank
     ELSE dpc' = "text" /\ blank' = [word |-> line', text |-> <<>>]
  /\ UNCHANGED <<input, out>> /\ UNCHANGED lookupVars

\* while (!feof(in)) ends.
ConvertEof ==
  /\ dpc = "word" /\ eof
  /\ dpc' = "prompt"
  /\ UNCHANGED convertVars /\ UNCHANGED lookupVars

\* The first line of the definition, and the line after it, each into an empty buffer.
ConvertText ==
  /\ dpc = "text"
  /\ blank' = [blank EXCEPT !.text = Stripped(Gets(at, <<>>))]
  /\ line' = Gets(at + 1, <<>>)
  /\ at' = at + 2 /\ eof' = (EofAfter(at) \/ EofAfter(at + 1))
  /\ dpc' = "more"
  /\ UNCHANGED <<input, out>> /\ UNCHANGED lookupVars

\* Another line of the definition: at the end of the file, where line is empty, this
\* goes on for ever.
ConvertMore ==
  /\ dpc = "more" /\ Len(line) # 1
  /\ blank' = [blank EXCEPT !.text = @ \o Stripped(line)]
  /\ line' = Gets(at, <<>>)
  /\ at' = IF at < Len(input) THEN at + 1 ELSE at
  /\ eof' = EofAfter(at)
  /\ UNCHANGED <<input, dpc, out>> /\ UNCHANGED lookupVars

\* A blank line: the record is written.
ConvertWrite ==
  /\ dpc = "more" /\ Len(line) = 1
  /\ blank' = [blank EXCEPT !.text = Append(@, NL)]
  /\ out' = Append(out, blank')
  /\ dpc' = "word"
  /\ UNCHANGED <<input, at, eof, line>> /\ UNCHANGED lookupVars

Convert == ConvertWord \/ ConvertEof \/ ConvertText \/ ConvertMore \/ ConvertWrite
-----------------------------------------------------------------------------
(* main and lookup *)

\* Mutant: the file is not rewound.
Ask_Continue(w) ==
  /\ dpc = "prompt" /\ asked < MaxAsked
  /\ tryit' = [tryit EXCEPT !.word = w]
  /\ dr' \in [word : Junk, text : Junk]
  /\ UNCHANGED pos
  /\ dpc' = "search" /\ asked' = asked + 1 /\ answer' = "none"
  /\ UNCHANGED convertVars

\* gets of a word; lookup opens the file the first time, and rewinds it.  Its record
\* buffer is not initialised.
Ask(w) ==
  /\ dpc = "prompt" /\ asked < MaxAsked
  /\ tryit' = [tryit EXCEPT !.word = w]
  /\ dr' \in [word : Junk, text : Junk]
  /\ pos' = 0
  /\ dpc' = "search" /\ asked' = asked + 1 /\ answer' = "none"
  /\ UNCHANGED convertVars

\* fopen fails on the first call: there is no such file, and the program ends.
AskUnavailable ==
  /\ dpc = "prompt" /\ asked = 0
  /\ dpc' = "unavailable"
  /\ UNCHANGED convertVars /\ UNCHANGED lookupVars

\* fgets of word and text into dr: the next record, or what is there already.  The fseek
\* after each fgets goes past the end of the file and clears feof, so the
\* loop goes on over an old record, whose word has lost its last character.
Record == IF pos < Len(out) THEN out[pos + 1] ELSE dr

\* One pass of the loop, in which the word does not match.
SearchPass ==
  /\ dpc = "search" /\ Len(Record.word) # 1
  /\ Stripped(Record.word) # tryit.word
  /\ dr' = [Record EXCEPT !.word = Stripped(@)]
  /\ pos' = IF pos < Len(out) THEN pos + 1 ELSE pos
  /\ UNCHANGED <<dpc, tryit, asked, answer>> /\ UNCHANGED convertVars

\* It matches: FOUND, with the text.
SearchFound ==
  /\ dpc = "search" /\ Len(Record.word) # 1
  /\ Stripped(Record.word) = tryit.word
  /\ dr' = [word |-> Stripped(Record.word), text |-> Stripped(Record.text)]
  /\ tryit' = [tryit EXCEPT !.text = dr'.text]
  /\ pos' = IF pos < Len(out) THEN pos + 1 ELSE pos
  /\ answer' = "found" /\ dpc' = "prompt"
  /\ UNCHANGED asked /\ UNCHANGED convertVars

\* One character is left of the word: NOTFOUND.
SearchBreak ==
  /\ dpc = "search" /\ Len(Record.word) = 1
  /\ dr' = Record
  /\ answer' = "not found" /\ dpc' = "prompt"
  /\ UNCHANGED <<tryit, pos, asked>> /\ UNCHANGED convertVars

Search == SearchPass \/ SearchFound \/ SearchBreak
-----------------------------------------------------------------------------
DictNext == Convert \/ (\E w \in Sought : Ask(w)) \/ AskUnavailable \/ Search

DictSpec == DictInit /\ [][DictNext]_dictVars

\* Programs run on until they wait for the user.
DictFairness == WF_dictVars(Convert) /\ WF_dictVars(Search)
-----------------------------------------------------------------------------
(* Properties *)

\* The reference: an entry ends at each blank line, and the input at the first entry
\* that is empty.
Blanks == {k \in 1 .. Len(input) : input[k] = <<NL>>}
Terminated == \A k \in 1 .. Len(input) : Last(input[k]) = NL
LastEntry == LET empty == {k \in Blanks : k = 1 \/ k - 1 \in Blanks}
             IN  IF empty = {} THEN Len(input)
                 ELSE (CHOOSE k \in empty : \A j \in empty : k <= j) - 1
EntryEnds == {k \in Blanks : k <= LastEntry}
EntryStart(k) == 1 + Cardinality({j \in 1 .. k - 1 : \E b \in EntryEnds : j <= b /\ b < k})

\* The form the comment of convert.c asks for: every word has a definition, and every
\* definition a blank line after it.
WellFormed ==
  /\ Len(input) > 0 /\ Terminated
  /\ LastEntry > 0 => LastEntry \in Blanks
  /\ \A k \in EntryEnds : k - EntryStart(k) >= 2

Entry(k) ==
  [word |-> input[EntryStart(k)],
   text |-> FlattenSeq([j \in 1 .. k - EntryStart(k) - 1 |-> Front(input[EntryStart(k) + j])]) \o <<NL>>]
Converted ==
  /\ Len(out) = Cardinality(EntryEnds)
  /\ \A k \in EntryEnds : out[Cardinality({b \in EntryEnds : b <= k})] = Entry(k)

\* A file in that form is converted, to a record for each entry up to the first doubled
\* blank line, whichever way it ends (convert.c:39, :56): feof is not set by the
\* last blank line, and it is the line left in the buffer that ends the loop.
ConvertRight == (dpc = "word" /\ WellFormed) ~> (dpc = "prompt" /\ Converted)

\* Every word in the file is found, with the text of its first record.  So is a word with
\* which the last word of the file begins (lookup1.c:34, :44), with the last text;
\* no other word is, and every search ends.
WordOf(k) == Front(out[k].word)
Matches == {k \in 1 .. Len(out) : WordOf(k) = tryit.word}
LastPrefix == out # <<>> /\ tryit.word # <<>> /\ IsPrefix(tryit.word, WordOf(Len(out)))
RightAnswer ==
  /\ dpc = "prompt"
  /\ answer = "found" <=> (Matches # {} \/ LastPrefix)
  /\ Matches # {} => tryit.text = Front(out[CHOOSE k \in Matches : \A j \in Matches : k <= j].text)
  /\ Matches = {} /\ LastPrefix => tryit.text = Front(out[Len(out)].text)
LookupRight == (dpc = "search" /\ WellFormed /\ out # <<>>) ~> RightAnswer
=============================================================================
