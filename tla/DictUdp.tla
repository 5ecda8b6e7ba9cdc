------------------------------- MODULE DictUdp -------------------------------
(***************************************************************************)
(* The dictionary server over UDP (SP_HW11 part3): udp_server.c answers    *)
(* every datagram with lookup5.c, one process for all clients; main.c asks *)
(* through lookup9.c, which sends one datagram and waits for one.  The     *)
(* network may lose, duplicate and reorder datagrams; neither side has a   *)
(* timeout or a sequence number.                                           *)
(***************************************************************************)
EXTENDS Naturals, Sequences, FiniteSets, Bags, BagsExt

CONSTANTS
  Clients,      \* the client processes
  Words,        \* words the users may type
  Known,        \* the words in the dictionary
  NotFound,     \* the text "Not Found!"
  MaxQueries,   \* bound: words a user types
  MaxLost,      \* bound: datagrams the network loses
  MaxDup        \* bound: datagrams the network duplicates

ASSUME SomeAssumption == Clients # {} /\ Words # {}
ASSUME KnownAssumption == Known \subseteq Words
ASSUME NotFoundAssumption == NotFound \notin Words
ASSUME BoundsAssumption == MaxQueries \in Nat /\ MaxLost \in Nat /\ MaxDup \in Nat

VARIABLES
  spc,          \* server: "down", "recvfrom", "lookup", "sendto" or "crashed"
  first_time,   \* server: the static flag of lookup5
  tryit,        \* server: the datagram at hand
  found,        \* server: the text lookup put into it
  toServer,     \* bag of the datagrams on the way: [from, word]
  toClient,     \* bag of the answers on the way: [to, word, text]
  lost, dups,   \* datagrams lost and duplicated so far
  cpc,          \* clients: "prompt", "recvfrom", "done"
  asked,        \* clients: the words typed so far
  printed       \* clients: the answers printed so far, [word, text]

net == <<toServer, toClient, lost, dups>>
srv == <<spc, first_time, tryit, found>>
clients == <<cpc, asked, printed>>
vars == <<spc, first_time, tryit, found, toServer, toClient, lost, dups, cpc, asked, printed>>

\* lookup5: the text found, or "Not Found!".
TextOf(w) == IF w \in Known THEN w ELSE NotFound

\* addr is an automatic variable that only the first call of lookup5 sets.  Later
\* it is what the stack holds: the old value, or an address where bsearch finds
\* no word, or faults.
TextsFound(w, first) == {TextOf(w)} \cup IF first THEN {} ELSE {NotFound}

Init ==
  /\ spc = "down" /\ first_time = TRUE /\ found = NotFound
  /\ tryit = [from |-> CHOOSE c \in Clients : TRUE, word |-> CHOOSE w \in Words : TRUE]
  /\ toServer = EmptyBag /\ toClient = EmptyBag /\ lost = 0 /\ dups = 0
  /\ cpc = [c \in Clients |-> "prompt"]
  /\ asked = [c \in Clients |-> <<>>]
  /\ printed = [c \in Clients |-> <<>>]
-----------------------------------------------------------------------------
(* udp_server.c *)

\* socket and bind.
ServerStart ==
  /\ spc = "down" /\ spc' = "recvfrom"
  /\ UNCHANGED <<first_time, tryit, found, net, clients>>

\* recvfrom: any datagram that has arrived; the sender's address comes with it.
ServerRecv ==
  /\ spc = "recvfrom" /\ spc' = "lookup"
  /\ \E d \in BagToSet(toServer) : tryit' = d /\ toServer' = BagRemove(toServer, d)
  /\ UNCHANGED <<first_time, found, toClient, lost, dups, clients>>

\* lookup5, in a process that has called it before or has not.
ServerLookup ==
  /\ spc = "lookup" /\ spc' = "sendto"
  /\ first_time' = FALSE
  /\ found' \in TextsFound(tryit.word, first_time)
  /\ UNCHANGED <<tryit, net, clients>>

\* bsearch through a wild addr: SIGSEGV ends the server.
ServerFault ==
  /\ spc = "lookup" /\ ~first_time
  /\ spc' = "crashed"
  /\ UNCHANGED <<first_time, tryit, found, net, clients>>

\* The address a reply goes to; mutant: always that of the same client.
ReplyTo_Fixed == CHOOSE c \in Clients : TRUE
ReplyTo == tryit.from

\* Mutant: nothing is sent for a word that is not found.
ServerSend_Found ==
  /\ spc = "sendto" /\ found = NotFound /\ spc' = "recvfrom"
  /\ UNCHANGED <<first_time, tryit, found, net, clients>>

\* sendto the address the datagram came from.
ServerSend ==
  /\ spc = "sendto" /\ spc' = "recvfrom"
  /\ toClient' = BagAdd(toClient, [to |-> ReplyTo, word |-> tryit.word, text |-> found])
  /\ UNCHANGED <<first_time, tryit, found, toServer, lost, dups, clients>>

ServerStep == ServerRecv \/ ServerLookup \/ ServerFault \/ ServerSend
-----------------------------------------------------------------------------
(* main.c and lookup9.c *)

\* gets of a word and sendto the server.
Ask(c, w) ==
  /\ cpc[c] = "prompt" /\ Len(asked[c]) < MaxQueries
  /\ asked' = [asked EXCEPT ![c] = Append(@, w)]
  /\ toServer' = BagAdd(toServer, [from |-> c, word |-> w])
  /\ cpc' = [cpc EXCEPT ![c] = "recvfrom"]
  /\ UNCHANGED <<srv, toClient, lost, dups, printed>>

Quit(c) ==
  /\ cpc[c] = "prompt" /\ cpc' = [cpc EXCEPT ![c] = "done"]
  /\ UNCHANGED <<srv, net, asked, printed>>

\* recvfrom: the first datagram that arrives overwrites the record, the word in
\* it too; main prints the record.
ClientRecv(c) ==
  /\ cpc[c] = "recvfrom" /\ cpc' = [cpc EXCEPT ![c] = "prompt"]
  /\ \E d \in BagToSet(toClient) :
       /\ d.to = c
       /\ toClient' = BagRemove(toClient, d)
       /\ printed' = [printed EXCEPT ![c] = Append(@, [word |-> d.word, text |-> d.text])]
  /\ UNCHANGED <<srv, toServer, lost, dups, asked>>
-----------------------------------------------------------------------------
(* The network *)

\* What may happen to one of the datagrams in a bag: it disappears, or there is
\* a second copy of it.
Loses(bag) == \E d \in BagToSet(bag) : bag' = BagRemove(bag, d)
Doubles(bag) == \E d \in BagToSet(bag) : bag' = BagAdd(bag, d)

\* A datagram for a port that nobody has open is dropped.
Unreachable ==
  /\ spc \in {"down", "crashed"}
  /\ Loses(toServer)
  /\ lost' = lost + 1
  /\ UNCHANGED <<srv, toClient, dups, clients>>

\* A datagram is lost on the way.
Lose ==
  /\ lost < MaxLost /\ lost' = lost + 1
  /\ \/ Loses(toServer) /\ UNCHANGED toClient
     \/ Loses(toClient) /\ UNCHANGED toServer
  /\ UNCHANGED <<srv, dups, clients>>

\* A second copy of a datagram is on the way.
Duplicate ==
  /\ dups < MaxDup /\ dups' = dups + 1
  /\ \/ Doubles(toServer) /\ UNCHANGED toClient
     \/ Doubles(toClient) /\ UNCHANGED toServer
  /\ UNCHANGED <<srv, lost, clients>>

Next ==
  \/ ServerStart \/ ServerStep \/ Unreachable \/ Lose \/ Duplicate
  \/ \E c \in Clients : ClientRecv(c) \/ Quit(c) \/ \E w \in Words : Ask(c, w)

Spec == Init /\ [][Next]_vars

\* A server is started, processes that are not blocked are scheduled, and what
\* is not lost arrives.
FairSpec ==
  /\ Spec
  /\ WF_vars(ServerStart) /\ WF_vars(ServerStep)
  /\ \A c \in Clients : WF_vars(ClientRecv(c))
-----------------------------------------------------------------------------
(* Properties *)

\* The datagrams that ask and answer, and the record of a client.
Query == [from : Clients, word : Words]
Reply == [to : Clients, word : Words, text : Words \cup {NotFound}]
Dictrec == [word : Words, text : Words \cup {NotFound}]

\* Type invariant of the network, the server and the clients.
TypeOK ==
  /\ spc \in {"down", "recvfrom", "lookup", "sendto", "crashed"}
  /\ first_time \in BOOLEAN
  /\ tryit \in Query
  /\ found \in Words \cup {NotFound}
  /\ IsABag(toServer) /\ BagToSet(toServer) \subseteq Query
  /\ IsABag(toClient) /\ BagToSet(toClient) \subseteq Reply
  /\ lost \in Nat /\ dups \in 0 .. MaxDup
  /\ cpc \in [Clients -> {"prompt", "recvfrom", "done"}]
  /\ asked \in [Clients -> Seq(Words)]
  /\ printed \in [Clients -> Seq(Dictrec)]

\* Whatever the network and the wild addresses of lookup5 do, a client never
\* prints one word with the text of another: the answer carries its word
\* (lookup9.c:76 overwrites both).  As long as the network duplicates nothing,
\* that word is the one just asked, however datagrams are lost and reordered and
\* whatever other clients ask; a duplicate is taken for the answer to a later
\* question.
AskedIsAnswered ==
  \A c \in Clients : \A i \in 1 .. Len(printed[c]) :
    /\ printed[c][i].text \in {TextOf(printed[c][i].word), NotFound}
    /\ dups = 0 => printed[c][i].word = asked[c][i]

\* A client comes back to its prompt unless a datagram was lost or the server
\* crashed: nothing else keeps it in recvfrom.
ClientReturns ==
  \A c \in Clients :
     cpc[c] = "recvfrom" ~> (cpc[c] # "recvfrom" \/ lost > 0 \/ spc = "crashed")
=============================================================================
