----------------------------- MODULE DictStream -----------------------------
(***************************************************************************)
(* The dictionary server over stream sockets (SP_HW11 part1 and part2):    *)
(* usock_server.c (Unix sockets) or isock_server.c (TCP) forks a child for *)
(* every connection, which answers with lookup5.c; main.c asks through     *)
(* lookup7.c or lookup8.c.                                                 *)
(*                                                                         *)
(* The text of a word that is in the dictionary is the word itself; other  *)
(* words have the text "Not Found!".                                       *)
(***************************************************************************)
EXTENDS Naturals, Sequences, FiniteSets

CONSTANTS
  Clients,      \* the client processes, one connection each
  Words,        \* words the users may type
  Known,        \* the words in the dictionary
  NotFound,     \* the text "Not Found!"
  Junk,         \* the text in tryit before the first answer
  Families,     \* the programs that may run: "unix" (part1), "inet" (part2)
  MaxQueries,   \* bound: words a user types
  MayKill       \* may clients be killed by a signal

ASSUME WordsAssumption == Words # {}
ASSUME KnownAssumption == Known \subseteq Words
ASSUME TextAssumption == NotFound \notin Words /\ Junk \notin Words /\ Junk # NotFound
ASSUME FamiliesAssumption == Families \subseteq {"unix", "inet"}
ASSUME MaxQueriesAssumption == MaxQueries \in Nat

VARIABLES
  family,       \* the programs that run
  listening,    \* does the server listen
  child,        \* the server's side of each connection: "none", "backlog", "read",
                \* "lookup", "write", "exited" or "crashed"
  first_time,   \* children: the static flag of lookup5
  tryit,        \* children: the query at hand, [word, text]
  up, down,     \* the two directions of each connection
  cpc,          \* clients: "prompt", "connect", "write", "read", "done", "failure", "killed"
  sought,       \* clients: tryit of main.c, [word, text]
  asked,        \* clients: the words typed so far
  printed       \* clients: the answers printed so far, [word, text]

conn == <<up, down>>
srv == <<family, listening, child, first_time, tryit>>
vars == <<family, listening, child, first_time, tryit, up, down, cpc, sought, asked,
          printed>>

Texts == Words \cup {NotFound, Junk}
Dictrec == [word : Words, text : Texts]

\* lookup5: the text found, or "Not Found!".
TextOf(w) == IF w \in Known THEN w ELSE NotFound

\* addr is an automatic variable that only the first call of lookup5 sets.  Later
\* it is what the stack holds: the old value, or an address where bsearch finds
\* no word, or faults.
TextsFound(w, first) == {TextOf(w)} \cup IF first THEN {} ELSE {NotFound}

Gone == {"done", "failure", "killed"}
Dead(c) == child[c] \in {"exited", "crashed"}

Init ==
  /\ family \in Families
  /\ listening = FALSE
  /\ child = [c \in Clients |-> "none"]
  /\ first_time = [c \in Clients |-> TRUE]
  /\ tryit = [c \in Clients |-> [word |-> CHOOSE w \in Words : TRUE, text |-> Junk]]
  /\ up = [c \in Clients |-> <<>>] /\ down = [c \in Clients |-> <<>>]
  /\ cpc = [c \in Clients |-> "prompt"]
  /\ sought = tryit
  /\ asked = [c \in Clients |-> <<>>]
  /\ printed = [c \in Clients |-> <<>>]
-----------------------------------------------------------------------------
(* The server and its children *)

\* socket, unlink of an old name, bind, listen.
ServerStart ==
  /\ ~listening /\ listening' = TRUE
  /\ UNCHANGED <<family, child, first_time, tryit, conn, cpc, sought, asked, printed>>

\* accept and fork: the child has its own copy of lookup5's statics, as the
\* parent never calls lookup.
Accept(c) ==
  /\ child[c] = "backlog"
  /\ child' = [child EXCEPT ![c] = "read"]
  /\ UNCHANGED <<family, listening, first_time, tryit, conn, cpc, sought, asked, printed>>

\* read of a query, or of end of file when the client is gone: exit(0).
ChildRead(c) ==
  /\ child[c] = "read"
  /\ \/ /\ up[c] # <<>>
        /\ tryit' = [tryit EXCEPT ![c] = Head(up[c])]
        /\ up' = [up EXCEPT ![c] = Tail(@)]
        /\ child' = [child EXCEPT ![c] = "lookup"]
     \/ /\ up[c] = <<>> /\ cpc[c] \in Gone
        /\ child' = [child EXCEPT ![c] = "exited"]
        /\ UNCHANGED <<tryit, up>>
  /\ UNCHANGED <<family, listening, first_time, down, cpc, sought, asked, printed>>

\* Mutant: the statics are those of the parent, which all children share.
ChildLookup_Shared(c) ==
  /\ child[c] = "lookup"
  /\ child' = [child EXCEPT ![c] = "write"]
  /\ first_time' = [d \in Clients |-> FALSE]
  /\ \E t \in TextsFound(tryit[c].word, first_time[c]) :
       tryit' = [tryit EXCEPT ![c].text = t]
  /\ UNCHANGED <<family, listening, conn, cpc, sought, asked, printed>>

\* lookup5: map the file on the first call, then bsearch.
ChildLookup(c) ==
  /\ child[c] = "lookup"
  /\ child' = [child EXCEPT ![c] = "write"]
  /\ first_time' = [first_time EXCEPT ![c] = FALSE]
  /\ \E t \in TextsFound(tryit[c].word, first_time[c]) :
       tryit' = [tryit EXCEPT ![c].text = t]
  /\ UNCHANGED <<family, listening, conn, cpc, sought, asked, printed>>

\* bsearch through a wild addr: SIGSEGV, and the connection is closed.
ChildFault(c) ==
  /\ child[c] = "lookup" /\ ~first_time[c]
  /\ child' = [child EXCEPT ![c] = "crashed"]
  /\ UNCHANGED <<family, listening, first_time, tryit, conn, cpc, sought, asked, printed>>

\* Mutant: the answer is not written for a word that is not found.
ChildWrite_Found(c) ==
  /\ child[c] = "write"
  /\ child' = [child EXCEPT ![c] = "read"]
  /\ down' = IF tryit[c].text # NotFound THEN [down EXCEPT ![c] = Append(@, tryit[c])] ELSE down
  /\ UNCHANGED <<family, listening, first_time, tryit, up, cpc, sought, asked, printed>>

\* write of the record, FOUND or NOTFOUND.
ChildWrite(c) ==
  /\ child[c] = "write" /\ cpc[c] \notin Gone
  /\ child' = [child EXCEPT ![c] = "read"]
  /\ down' = [down EXCEPT ![c] = Append(@, tryit[c])]
  /\ UNCHANGED <<family, listening, first_time, tryit, up, cpc, sought, asked, printed>>

\* The client is gone: SIGPIPE ends the child, at once (next = "crashed"), or TCP
\* takes the record first (next = "read").
ChildWriteLost(c, next) ==
  /\ child[c] = "write" /\ cpc[c] \in Gone
  /\ child' = [child EXCEPT ![c] = next]
  /\ UNCHANGED <<family, listening, first_time, tryit, conn, cpc, sought, asked, printed>>

Dialogue(c) == ChildRead(c) \/ ChildLookup(c) \/ ChildFault(c) \/ ChildWrite(c)

\* The loops of usock_server.c and isock_server.c.
UnixServer(c) == Accept(c) \/ Dialogue(c) \/ ChildWriteLost(c, "crashed")
InetServer(c) ==
  Accept(c) \/ Dialogue(c) \/ ChildWriteLost(c, "crashed") \/ ChildWriteLost(c, "read")

ServerStep(c) ==
  \/ family = "unix" /\ UnixServer(c)
  \/ family = "inet" /\ InetServer(c)
-----------------------------------------------------------------------------
(* The clients *)

\* gets of a word into the record that still holds the last answer's text.
Ask(c, w) ==
  /\ cpc[c] = "prompt" /\ Len(asked[c]) < MaxQueries
  /\ sought' = [sought EXCEPT ![c].word = w]
  /\ asked' = [asked EXCEPT ![c] = Append(@, w)]
  /\ cpc' = [cpc EXCEPT ![c] = IF asked[c] = <<>> THEN "connect" ELSE "write"]
  /\ UNCHANGED <<srv, conn, printed>>

\* End of the user's input: main returns.
Quit(c) ==
  /\ cpc[c] = "prompt"
  /\ cpc' = [cpc EXCEPT ![c] = "done"]
  /\ UNCHANGED <<srv, conn, sought, asked, printed>>

\* connect, on the first call of lookup: refused when nobody listens.
Connect(c) ==
  /\ cpc[c] = "connect"
  /\ cpc' = [cpc EXCEPT ![c] = IF listening THEN "write" ELSE "failure"]
  /\ child' = [child EXCEPT ![c] = IF listening THEN "backlog" ELSE @]
  /\ UNCHANGED <<family, listening, first_time, tryit, conn, sought, asked, printed>>

\* write of the query.
ClientWrite(c) ==
  /\ cpc[c] = "write" /\ ~Dead(c)
  /\ cpc' = [cpc EXCEPT ![c] = "read"]
  /\ up' = [up EXCEPT ![c] = Append(@, sought[c])]
  /\ UNCHANGED <<srv, down, sought, asked, printed>>

\* The child is dead: SIGPIPE ends the client, at once (next = "killed"), or TCP
\* takes the query first (next = "read").
ClientWriteLost(c, next) ==
  /\ cpc[c] = "write" /\ Dead(c)
  /\ cpc' = [cpc EXCEPT ![c] = next]
  /\ UNCHANGED <<srv, conn, sought, asked, printed>>

\* What main prints is the record, whatever is in it.
PrintRecord(c, r) == printed' = [printed EXCEPT ![c] = Append(@, r)]

\* read of the answer.
ClientRead(c) ==
  /\ cpc[c] = "read" /\ down[c] # <<>>
  /\ sought' = [sought EXCEPT ![c] = Head(down[c])]
  /\ down' = [down EXCEPT ![c] = Tail(@)]
  /\ PrintRecord(c, Head(down[c]))
  /\ cpc' = [cpc EXCEPT ![c] = "prompt"]
  /\ UNCHANGED <<srv, up, asked>>

\* The child is dead: read returns 0, which lookup takes for an answer, and the
\* record is printed as it is.
ClientReadEnd(c) ==
  /\ cpc[c] = "read" /\ down[c] = <<>> /\ Dead(c)
  /\ PrintRecord(c, sought[c])
  /\ cpc' = [cpc EXCEPT ![c] = "prompt"]
  /\ UNCHANGED <<srv, conn, sought, asked>>

\* The child is dead: read fails, with a TCP connection that was reset.
ClientReadFails(c) ==
  /\ cpc[c] = "read" /\ down[c] = <<>> /\ Dead(c)
  /\ cpc' = [cpc EXCEPT ![c] = "failure"]
  /\ UNCHANGED <<srv, conn, sought, asked, printed>>

ClientKill(c) ==
  /\ MayKill /\ cpc[c] \notin Gone
  /\ cpc' = [cpc EXCEPT ![c] = "killed"]
  /\ UNCHANGED <<srv, conn, sought, asked, printed>>

\* lookup7.c and lookup8.c.
UnixClient(c) ==
  Connect(c) \/ ClientWrite(c) \/ ClientWriteLost(c, "killed")
    \/ ClientRead(c) \/ ClientReadEnd(c)
InetClient(c) ==
  Connect(c) \/ ClientWrite(c) \/ ClientWriteLost(c, "killed") \/ ClientWriteLost(c, "read")
    \/ ClientRead(c) \/ ClientReadEnd(c) \/ ClientReadFails(c)

ClientStep(c) ==
  \/ family = "unix" /\ UnixClient(c)
  \/ family = "inet" /\ InetClient(c)
-----------------------------------------------------------------------------
Next ==
  \/ ServerStart
  \/ \E c \in Clients :
       \/ ServerStep(c) \/ ClientStep(c) \/ Quit(c) \/ ClientKill(c)
       \/ \E w \in Words : Ask(c, w)

Spec == Init /\ [][Next]_vars

\* Processes that are not blocked are scheduled; users owe nobody a word.
FairSpec == Spec /\ \A c \in Clients : WF_vars(ServerStep(c)) /\ WF_vars(ClientStep(c))
-----------------------------------------------------------------------------
(* Properties *)

\* Records with the text that a lookup found.
Answers == [word : Words, text : Words \cup {NotFound}]

\* Type invariant of the connections, the children and the clients.
TypeOK ==
  /\ family \in Families
  /\ listening \in BOOLEAN
  /\ child \in [Clients -> {"none", "backlog", "read", "lookup", "write", "exited", "crashed"}]
  /\ first_time \in [Clients -> BOOLEAN]
  /\ tryit \in [Clients -> Dictrec]
  /\ cpc \in [Clients -> {"prompt", "connect", "write", "read"} \cup Gone]
  /\ sought \in [Clients -> Dictrec]
  /\ up \in [Clients -> Seq(Dictrec)]
  /\ down \in [Clients -> Seq(Answers)]
  /\ asked \in [Clients -> Seq(Words)]
  /\ printed \in [Clients -> Seq(Dictrec)]

Right(c, i) == printed[c][i] = [word |-> asked[c][i], text |-> TextOf(asked[c][i])]

\* The first answer on every connection is right, whatever the other children
\* and clients do: each child maps the file for itself (usock_server.c:67).
\* Whatever wild addresses lookup5 searches later, as long as the child behind
\* the connection lives, what is printed is the text of the word just asked, or
\* "Not Found!": the dialogue never slips by one answer, and no old text is
\* printed for a new word.
NeverSlips ==
  \A c \in Clients : \A i \in 1 .. Len(printed[c]) :
    \/ Right(c, i)
    \/ i > 1 /\ printed[c][i] = [word |-> asked[c][i], text |-> NotFound]
    \/ i > 1 /\ child[c] = "crashed"

\* A connected client comes back to its prompt, with an answer or without one:
\* the death of its child, or of another's, never leaves it waiting.
ClientReturns ==
  \A c \in Clients : cpc[c] \in {"write", "read"} ~> cpc[c] \in {"prompt"} \cup Gone
=============================================================================
