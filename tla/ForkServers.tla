---------------------------- MODULE ForkServers ----------------------------
(***************************************************************************)
(* Ficha6 ex2 (a file is sent, stored and echoed in upper case, byte by    *)
(* byte), ex3, ex4 and ex5 (a number and a line, as text, in a structure   *)
(* or as text with its length, are answered with the line in upper case    *)
(* and a name, or given up after five seconds): servers that fork a        *)
(* process for each connection.  The processes share the listening socket  *)
(* and the process table, and nothing reaps them.                          *)
(***************************************************************************)
EXTENDS Integers, Sequences, FiniteSets, SequencesExt

CONSTANTS
  Clients,     \* bound: the executions of each client, numbered as they start
  TableSize,   \* bound: the room for children, zombies included, in the process table
  Sizes,       \* bound: blocks of each one's file, segments of its line, or words and blanks
  MaxStarts    \* bound: the executions of the server

Programs == {"ex2", "ex3", "ex4", "ex5"}

ASSUME ConstantsAssumption ==
  /\ Clients \in [Programs -> Nat \ {0}]
  /\ {TableSize, MaxStarts} \subseteq Nat \ {0}
  /\ Sizes \in [Programs -> Seq(Nat \ {0})]
  /\ \A p \in Programs : Clients[p] =< Len(Sizes[p]) /\ Len(Sizes[p]) = Len(Sizes["ex2"])

Client == 1..Len(Sizes["ex2"])

VARIABLES
  prog, room,        \* the programs, and the children that the kernel admits
  spc, starts,       \* the server, and how many times it was started
  backlog,           \* connections not yet accepted
  held,              \* connections the server process itself has open
  child,             \* the process of each connection
  buffer,            \* what it has read and not yet answered
  file,              \* what it has stored (ex2); not followed once a write has failed
  lost,              \* whose file lacks a byte, as a write of it failed
  cpc, at,           \* the clients, and how many blocks they have sent (ex2)
  sent,              \* what they wrote
  toServer, toClient,\* bytes not yet read
  reset,             \* connections that were reset
  printed            \* what the clients have shown

setting == <<prog, room>>
server == <<spc, starts, backlog, held>>
session == <<child, buffer, file, lost>>
client == <<cpc, at, sent, printed>>
streams == <<toServer, toClient, reset>>
vars == <<setting, server, session, client, streams>>

Size == Sizes[prog]

Empty == [c \in Client |-> <<>>]

Init ==
  /\ prog \in Programs /\ room \in 1..TableSize
  /\ spc = "off" /\ starts = 0 /\ backlog = <<>> /\ held = {}
  /\ child = [c \in Client |-> "none"] /\ buffer = Empty
  /\ file = Empty /\ lost = {}
  /\ cpc = [c \in Client |-> "start"]
  /\ at = [c \in Client |-> 0]
  /\ sent = Empty /\ printed = Empty
  /\ toServer = Empty /\ toClient = Empty /\ reset = {}

Alive(state) == state \notin {"none", "zombie", "gone", "killed"}

\* Who keeps the listening socket open: no child closes the one it inherits.
Listening(up, children) == up \/ \E c \in Client : Alive(children[c])

\* The server's end of a connection is open.
Open(c) == c \in held \/ Alive(child[c]) \/ c \in ToSet(backlog)

\* With its last holder the listening socket goes, and what waits in it is reset.
Leave(up, children, resets) ==
  IF Listening(up, children)
  THEN reset' = resets /\ UNCHANGED backlog
  ELSE reset' = resets \cup ToSet(backlog) /\ backlog' = <<>>

\* ex4, ex5: the answer is a structure of fixed size.
Fixed == prog \in {"ex4", "ex5"}

\* A piece of text: its origin, its place in it, and its case.
Piece(from, i) == [of |-> from, at |-> i, case |-> "lower"]

Blank == Piece("blank", 0)

\* toupper
UpperAll(s) == [i \in DOMAIN s |-> [s[i] EXCEPT !.case = "upper"]]
-----------------------------------------------------------------------------
(* The server process *)

\* A listening socket on the port makes bind fail, whatever SO_REUSEADDR says.
Start ==
  /\ spc = "off" /\ starts < MaxStarts
  /\ starts' = starts + 1
  /\ spc' = IF Listening(FALSE, child) THEN "off" ELSE "accept"
  /\ UNCHANGED <<setting, backlog, held, session, client, streams>>

Accept ==
  /\ spc = "accept" /\ backlog # <<>>
  /\ spc' = "fork"
  /\ held' = held \cup {Head(backlog)} /\ backlog' = Tail(backlog)
  /\ UNCHANGED <<setting, starts, session, client, streams>>

Processes == {c \in Client : Alive(child[c]) \/ child[c] = "zombie"}

New == CHOOSE c \in held : child[c] = "none"

Fork ==
  /\ spc = "fork" /\ Cardinality(Processes) < room
  /\ spc' = "close"
  /\ child' = [child EXCEPT ![New] = IF prog = "ex2" THEN "mkstemp" ELSE "select"]
  /\ UNCHANGED <<setting, starts, backlog, held, buffer, file, lost, client, streams>>

\* Connections whose last end at the server is closed, with bytes nobody has read.
Unread(conns, children) == {c \in conns : ~Alive(children[c]) /\ toServer[c] # <<>>}

\* The connections the process has open are closed, its zombies go, and so do the victims.
Ends(victims) ==
  /\ spc' = "off" /\ held' = {}
  /\ child' = [c \in Client |->
                 IF c \in victims THEN "killed"
                 ELSE IF child[c] = "zombie" THEN "gone" ELSE child[c]]
  /\ Leave(FALSE, child', reset \cup Unread(held \cup victims, child'))
  /\ UNCHANGED <<setting, starts, buffer, file, lost, client, toServer, toClient>>

\* exit(1)
ForkFails == spc = "fork" /\ Cardinality(Processes) >= room /\ Ends({})

\* The user ends the server, and not the processes of its connections.
KillServer == spc # "off" /\ Ends({})

\* At the terminal SIGINT ends these too.
CtrlC == spc # "off" /\ Ends({c \in Client : Alive(child[c])})

\* mutant of Kept: the parent leaves the connection open
KeptOpen(conns) == conns

\* What the parent still holds once it has closed its copy of the connection.
Kept(conns) == {c \in conns : child[c] = "none"}

ParentClose ==
  /\ spc = "close" /\ spc' = "accept"
  /\ held' = Kept(held)
  /\ reset' = reset \cup Unread(held \ held', child)
  /\ UNCHANGED <<setting, starts, backlog, session, client, toServer, toClient>>
-----------------------------------------------------------------------------
(* The process of a connection *)

Step(c, from, to) == child[c] = from /\ child' = [child EXCEPT ![c] = to]

\* close and exit; unread bytes reset the connection.
Exit(c) ==
  /\ Step(c, "exit", IF spc = "off" THEN "gone" ELSE "zombie")
  /\ Leave(spc # "off", child',
           IF toServer[c] # <<>> /\ c \notin held THEN reset \cup {c} ELSE reset)
  /\ UNCHANGED <<setting, spc, starts, held, buffer, file, lost, client, toServer, toClient>>

Mkstemp(c) ==
  /\ Step(c, "mkstemp", "read") \/ Step(c, "mkstemp", "exit")
  /\ UNCHANGED <<setting, server, buffer, file, lost, client, streams>>

Read(c) ==
  /\ Step(c, "read", "store") /\ toServer[c] # <<>>
  /\ buffer' = [buffer EXCEPT ![c] = <<Head(toServer[c])>>]
  /\ toServer' = [toServer EXCEPT ![c] = Tail(@)]
  /\ UNCHANGED <<setting, server, file, lost, client, toClient, reset>>

\* n <= 0: the client has ended.
ReadEnds(c) ==
  /\ Step(c, "read", "exit") /\ toServer[c] = <<>> /\ cpc[c] \in {"done", "killed"}
  /\ UNCHANGED <<setting, server, buffer, file, lost, client, streams>>

\* write to the file, whether or not it succeeds, and then to the socket.
Store(c) ==
  /\ Step(c, "store", "echo")
  /\ \/ c \notin lost /\ file' = [file EXCEPT ![c] = @ \o UpperAll(buffer[c])] /\ UNCHANGED lost
     \/ lost' = lost \cup {c} /\ file' = [file EXCEPT ![c] = <<>>]
  /\ UNCHANGED <<setting, server, buffer, client, streams>>

\* mutant of Echo: answers before it has stored
EchoSooner(c) ==
  /\ \/ Step(c, "echo", "read") /\ UNCHANGED toClient
     \/ Step(c, "store", "store") /\ toClient[c] = <<>>
        /\ toClient' = [toClient EXCEPT ![c] = @ \o UpperAll(buffer[c])]
  /\ UNCHANGED <<setting, server, buffer, file, lost, client, toServer, reset>>

\* mutant of Echo: the conversation ends with the first byte
EchoOnce(c) ==
  /\ Step(c, "echo", "exit")
  /\ toClient' = [toClient EXCEPT ![c] = @ \o UpperAll(buffer[c])]
  /\ UNCHANGED <<setting, server, buffer, file, lost, client, toServer, reset>>

Echo(c) ==
  /\ Step(c, "echo", "read")
  /\ toClient' = [toClient EXCEPT ![c] = @ \o UpperAll(buffer[c])]
  /\ UNCHANGED <<setting, server, buffer, file, lost, client, toServer, reset>>

\* select: the line has begun to arrive, or its client has ended, or five seconds passed.
Select(c) ==
  /\ Step(c, "select", "answer") /\ (toServer[c] # <<>> \/ cpc[c] = "killed")
  /\ UNCHANGED <<setting, server, buffer, file, lost, client, streams>>

Timeout(c) ==
  /\ Step(c, "select", "exit")
  /\ UNCHANGED <<setting, server, buffer, file, lost, client, streams>>

\* The text of a request. If the read has cut it, its '\0' is missing and what lay in the
\* stack may follow: ex3 overwrites it with a '\n', ex4 and ex5 have not received it.
TextRead(c, text) ==
  IF Len(text) = Size[c] THEN {text} ELSE {text, Append(text, Piece("junk", Len(text)))}

\* One read: what has arrived, cut between two segments if the rest is late, or nothing.
\* ex3 exits if there is no second line; ex4 and ex5 do not ask how much they have read.
ReadRequest(c) ==
  /\ \E k \in 0..Len(toServer[c]) :
       /\ k = 0 => toServer[c] = <<>>
       /\ toServer' = [toServer EXCEPT ![c] = SubSeq(@, k + 1, Len(@))]
       /\ \/ /\ k > 0 \/ Fixed
             /\ Step(c, "answer", "reply")
             /\ \E text \in TextRead(c, SubSeq(toServer[c], 1, k)) :
                  buffer' = [buffer EXCEPT ![c] = text]
          \/ /\ prog = "ex3" /\ k < Size[c]
             /\ Step(c, "answer", "exit") /\ UNCHANGED buffer
  /\ UNCHANGED <<setting, server, file, lost, client, toClient, reset>>

\* mutant of Answer: the name goes first
AnswerSwapped(text) == <<Piece("name", 1)>> \o UpperAll(text)

\* mutant of Parsed: one sscanf, which ends at the first blank
ParsedOnce(text) ==
  LET blanks == {i \in DOMAIN text : text[i] = Blank}
  IN  SubSeq(text, 1, Min(blanks \cup {Len(text) + 1}) - 1)

\* What sscanf(&buffer[..+i], "%s", &msg1.text[i]) for i = 0, 1, ... leaves of a text: a
\* word is written where it was, and then from each blank before it and each place in it.
Parsed(text) ==
  LET words == {i \in DOMAIN text : text[i] # Blank}
  IN  [i \in 1..Max(words \cup {0}) |-> text[Min({j \in words : j >= i})]]

Answer(text) ==
  UpperAll(IF prog = "ex5" THEN Parsed(text) ELSE text) \o <<Piece("name", 1)>>

Reply(c) ==
  /\ Step(c, "reply", "exit")
  /\ toClient' = [toClient EXCEPT ![c] = Answer(buffer[c])]
  /\ UNCHANGED <<setting, server, buffer, file, lost, client, toServer, reset>>

ChildStep(c) ==
  \/ Mkstemp(c) \/ Read(c) \/ ReadEnds(c) \/ Store(c) \/ Echo(c)
  \/ Select(c) \/ Timeout(c) \/ ReadRequest(c) \/ Reply(c) \/ Exit(c)
-----------------------------------------------------------------------------
(* The clients *)

Go(c, from, to) == cpc[c] = from /\ cpc' = [cpc EXCEPT ![c] = to]

Connect(c) ==
  /\ c =< Clients[prog] /\ \A d \in 1..(c - 1) : cpc[d] # "start"
  /\ Go(c, "start", IF Listening(spc # "off", child) THEN "send" ELSE "failed")
  /\ backlog' = IF Listening(spc # "off", child) THEN Append(backlog, c) ELSE backlog
  /\ UNCHANGED <<setting, spc, starts, held, session, at, sent, printed, streams>>

\* What is written reaches the server if it has not closed; else the answer to it resets
\* the connection.
Write(c, bytes) ==
  /\ sent' = [sent EXCEPT ![c] = @ \o bytes]
  /\ toServer' = IF Open(c) THEN [toServer EXCEPT ![c] = @ \o bytes] ELSE toServer
  /\ reset' = IF Open(c) THEN reset ELSE reset \cup {c}

\* ex2: strlen(buffer) bytes of a buffer that was not terminated: behind a short last
\* block lies the end of the block before it, behind any other one perhaps something.
Block(c, i) ==
  IF i = Size[c] /\ i > 1
  THEN {<<Piece("file", i), Piece("old", i - 1)>>}
  ELSE {<<Piece("file", i)>>, <<Piece("file", i), Piece("junk", i)>>}

SendBlock(c) ==
  /\ prog = "ex2" /\ cpc[c] = "send" /\ c \notin reset
  /\ \E bytes \in Block(c, at[c] + 1) : Write(c, bytes)
  /\ at' = [at EXCEPT ![c] = @ + 1]
  /\ cpc' = [cpc EXCEPT ![c] = IF at'[c] = Size[c] THEN "reply" ELSE "send"]
  /\ UNCHANGED <<setting, server, session, printed, toClient>>

\* The user has typed a line; ex5 is the program to which its blanks matter.
SendLine(c) ==
  /\ prog # "ex2" /\ Go(c, "send", "reply") /\ c \notin reset
  /\ \E blanks \in SUBSET (IF prog = "ex5" THEN 1..Size[c] ELSE {}) :
       Write(c, [i \in 1..Size[c] |-> IF i \in blanks THEN Blank ELSE Piece("line", i)])
  /\ UNCHANGED <<setting, server, session, at, printed, toClient>>

\* SIGPIPE is not ignored by the clients.
SendFails(c) ==
  /\ Go(c, "send", "failed") /\ c \in reset
  /\ UNCHANGED <<setting, server, session, at, sent, printed, streams>>

\* ex2 shows each portion that comes, until the end; ex3 what one read returns, and a short
\* answer comes in one segment; ex4 and ex5 collect the whole structure.
RecvReply(c) ==
  /\ cpc[c] = "reply" /\ toClient[c] # <<>>
  /\ \E k \in 1..Len(toClient[c]) :
       /\ prog # "ex3" \/ Size[c] = 1 => k = Len(toClient[c])
       /\ printed' = [printed EXCEPT ![c] = @ \o SubSeq(toClient[c], 1, k)]
       /\ toClient' = [toClient EXCEPT ![c] = SubSeq(@, k + 1, Len(@))]
  /\ cpc' = [cpc EXCEPT ![c] = IF prog = "ex2" THEN "reply" ELSE "done"]
  /\ UNCHANGED <<setting, server, session, at, sent, toServer, reset>>

\* Without an answer ex4 and ex5 show the structure they have not filled, all the same; ex2,
\* whose read then returns -1, what its buffer holds, if anything, once more.
ShownAtEnd(c) ==
  IF Fixed THEN {<<Piece("junk", 0)>>}
  ELSE {printed[c]} \cup
         IF prog = "ex2" /\ c \in reset THEN {Append(printed[c], Piece("junk", 0))} ELSE {}

\* The server has closed, or the connection was reset.
RecvEnds(c) ==
  /\ Go(c, "reply", "done")
  /\ c \in reset \/ (toClient[c] = <<>> /\ ~Open(c))
  /\ \E shown \in ShownAtEnd(c) : printed' = [printed EXCEPT ![c] = shown]
  /\ UNCHANGED <<setting, server, session, at, sent, streams>>

Kill(c) ==
  /\ cpc[c] \in {"send", "reply"} /\ cpc' = [cpc EXCEPT ![c] = "killed"]
  /\ UNCHANGED <<setting, server, session, at, sent, printed, streams>>

ClientStep(c) ==
  SendBlock(c) \/ SendFails(c) \/ RecvReply(c) \/ RecvEnds(c)
-----------------------------------------------------------------------------
ServerStep == Accept \/ Fork \/ ForkFails \/ ParentClose

Next ==
  \/ Start \/ ServerStep \/ KillServer \/ CtrlC
  \/ \E c \in Client : ChildStep(c)
  \/ \E c \in Client : Connect(c) \/ SendLine(c) \/ ClientStep(c) \/ Kill(c)

\* The programs run on; users start them, type and end them when they please.
Spec ==
  /\ Init /\ [][Next]_vars
  /\ WF_vars(ServerStep)
  /\ \A c \in Client : WF_vars(ChildStep(c)) /\ WF_vars(ClientStep(c))
-----------------------------------------------------------------------------
(* Properties *)

TypeOK ==
  /\ prog \in Programs /\ room \in 1..TableSize
  /\ spc \in {"off", "accept", "fork", "close"} /\ starts \in 0..MaxStarts
  /\ backlog \in Seq(Client) /\ held \subseteq Client /\ reset \subseteq Client
  /\ Cardinality(held) = (IF spc \in {"fork", "close"} THEN 1 ELSE 0)
  /\ Cardinality(Processes) =< room
  /\ lost \subseteq Client
  /\ child \in [Client -> {"none", "zombie", "gone", "killed", "exit"} \cup
                  IF prog = "ex2" THEN {"mkstemp", "read", "store", "echo"}
                                  ELSE {"select", "answer", "reply"}]
  /\ cpc \in [Client -> {"start", "send", "reply", "done", "failed", "killed"}]
  /\ \A c \in Client : at[c] \in 0..Size[c]

\* ex2: a client is never shown what its file at the server does not hold yet, but for what
\* it shows once its last read has failed, and what is in the file is what it sent, in order
\* and in upper case, whatever other sessions do: this, as long as no write to its file has
\* failed, which nobody notices.
StoredBeforeShown ==
  prog = "ex2" => \A c \in Client \ lost :
    /\ IsPrefix(printed[c] \o toClient[c], file[c]) \/ (cpc[c] = "done" /\ c \in reset)
    /\ IsPrefix(file[c], UpperAll(sent[c]))

\* ex3: what a client shows begins its own answer, unless its process has read only a part
\* of the line; and a line that fits in a segment is answered whole or, after a timeout or
\* a failed fork, not at all. ex4: the answer is shown whole, however it is cut on its way,
\* unless the request was read in part, its process was ended or the connection was reset.
AnsweredWholeOrNot ==
  \A c \in Client :
    LET due == Append(UpperAll(sent[c]), Piece("name", 1))
        cut == toServer[c] # <<>>
    IN  /\ prog = "ex3" =>
             /\ IsPrefix(printed[c], due) \/ cut
             /\ Size[c] = 1 /\ printed[c] # <<>> => printed[c] = due
        /\ prog = "ex4" /\ cpc[c] = "done" =>
             printed[c] = due \/ cut \/ c \in reset \/ child[c] = "killed"

\* ex3 to ex5: no client that has sent its line waits for ever, not even one whose connection
\* was left in the queue of a server that has exited.
EveryClientEnds == \A c \in Client : []<>(prog = "ex2" \/ cpc[c] # "reply")

\* ex2: once its session has begun, a client is shown all it has sent unless it or its
\* session is ended, even if the server ends or other sessions fail.
TransfersWhole ==
  \A c \in Client :
    (cpc[c] = "reply" /\ child[c] \in {"read", "store", "echo"}) ~>
      (printed[c] = UpperAll(sent[c]) \/ cpc[c] = "killed" \/ child[c] = "killed")

\* An answer was made, of a request read at once, and has come.
Answered(c) ==
  cpc[c] = "done" /\ toServer[c] = <<>> /\ c \notin reset /\ child[c] # "killed"

\* ex5: whatever blanks a line has, each letter of it is shown in the place it had, and the
\* name comes last (l. 101-103).  No blank is shown: the sheet's own example keeps them
\* ("A MINHA MENSAGEM!", ficha 6 p. 7), so a line that has one is not answered as it says.
WordsInPlace ==
  prog = "ex5" => \A c \in Client : Answered(c) =>
    /\ Last(printed[c]).of = "name"
    /\ \A i \in DOMAIN sent[c] :
         sent[c][i] # Blank => i < Len(printed[c]) /\ printed[c][i] = UpperAll(sent[c])[i]
    /\ \A i \in 1..(Len(printed[c]) - 1) : printed[c][i].of = "line"
=============================================================================
