----------------------------- MODULE EchoServer -----------------------------
(***************************************************************************)
(* Ficha6 ex1: ex1_srv.c serves one connection at a time, echoing each     *)
(* byte in upper case until a newline or the end of the stream; ex1_clt.c  *)
(* sends one line and prints the reply until the server closes.  The user  *)
(* may end a client at any moment.                                         *)
(***************************************************************************)
EXTENDS Integers, Sequences, SequencesExt

CONSTANTS
  Client,      \* bound: the executions of ex1_clt
  Line         \* bound: what fgets may return, sequences over "a", "b" and "nl"

ASSUME ConstantsAssumption ==
  /\ "none" \notin Client
  /\ Line \subseteq Seq({"a", "b", "nl"}) \ {<<>>}
  /\ \A l \in Line : \A i \in 1..(Len(l) - 1) : l[i] # "nl"

VARIABLES
  spc, conn,   \* the server and the connection it serves
  byte,        \* its variable c, not cleared between connections
  backlog,     \* connections not yet accepted
  cpc, line,   \* the clients and what was typed
  toServer,    \* bytes the server has yet to read
  toClient,    \* bytes the client has yet to read
  closed,      \* connections the server has closed
  reset,       \* the error of a connection whose client is gone: "no", "pending", "told"
  printed      \* what the client has shown

server == <<spc, conn, byte>>
client == <<cpc, line, printed>>
streams == <<toServer, toClient, closed, reset>>
vars == <<server, backlog, client, streams>>

Init ==
  /\ spc = "accept" /\ conn = "none" /\ byte = "unset" /\ backlog = <<>>
  /\ cpc = [c \in Client |-> "fgets"] /\ line = [c \in Client |-> <<>>]
  /\ toServer = [c \in Client |-> <<>>] /\ toClient = [c \in Client |-> <<>>]
  /\ closed = {} /\ reset = [c \in Client |-> "no"]
  /\ printed = [c \in Client |-> <<>>]

Upper(b) == CASE b = "a" -> "A" [] b = "b" -> "B" [] OTHER -> b

Terminated(c) == Last(line[c]) = "nl"

Killed(c) == cpc[c] = "killed"
-----------------------------------------------------------------------------
(* ex1_clt *)

CMove(c, from, to) == cpc[c] = from /\ cpc' = [cpc EXCEPT ![c] = to]

\* A line without newline is one cut by the end of the input or by the buffer.
Fgets(c) ==
  /\ CMove(c, "fgets", "connect")
  /\ \E l \in Line : line' = [line EXCEPT ![c] = l]
  /\ UNCHANGED <<server, backlog, printed, streams>>

\* The kernel completes the connection before the server accepts it.
Connect(c) ==
  /\ CMove(c, "connect", "write")
  /\ backlog' = Append(backlog, c)
  /\ UNCHANGED <<server, line, printed, streams>>

WriteLine(c) ==
  /\ CMove(c, "write", "reply")
  /\ toServer' = [toServer EXCEPT ![c] = line[c]]
  /\ UNCHANGED <<server, backlog, line, printed, toClient, closed, reset>>

\* Each read returns some of the bytes sent so far; zero only at the end.
RecvReply(c) ==
  /\ cpc[c] = "reply" /\ toClient[c] # <<>>
  /\ \E k \in 1..Len(toClient[c]) :
       /\ printed' = [printed EXCEPT ![c] = @ \o SubSeq(toClient[c], 1, k)]
       /\ toClient' = [toClient EXCEPT ![c] = SubSeq(@, k + 1, Len(@))]
  /\ UNCHANGED <<server, backlog, cpc, line, toServer, closed, reset>>

EndOfReply(c) ==
  /\ CMove(c, "reply", "done")
  /\ toClient[c] = <<>> /\ c \in closed
  /\ UNCHANGED <<server, backlog, line, printed, streams>>

\* Ending a client with bytes unread resets its connection.
Kill(c) ==
  /\ cpc[c] \in {"write", "reply"}
  /\ cpc' = [cpc EXCEPT ![c] = "killed"]
  /\ reset' = [reset EXCEPT ![c] = IF toClient[c] # <<>> THEN "pending" ELSE "no"]
  /\ UNCHANGED <<server, backlog, line, printed, toServer, toClient, closed>>
-----------------------------------------------------------------------------
(* ex1_srv *)

\* mutant of Accept: as with poll, the connection that has sent something is served first
AcceptReady ==
  /\ spc = "accept"
  /\ \E i \in DOMAIN backlog :
       /\ toServer[backlog[i]] # <<>>
       /\ conn' = backlog[i] /\ backlog' = RemoveAt(backlog, i)
  /\ spc' = "read"
  /\ UNCHANGED <<byte, client, streams>>

Accept ==
  /\ spc = "accept" /\ backlog # <<>>
  /\ spc' = "read" /\ conn' = Head(backlog) /\ backlog' = Tail(backlog)
  /\ UNCHANGED <<byte, client, streams>>

\* mutant of AfterRead: only a newline ends the conversation
OnlyNewlineEnds(n, b) == IF b = "nl" THEN "close" ELSE "write"

\* mutant of AfterRead: the byte is echoed before it is looked at
EchoFirst(n, b) == IF n = 0 THEN "close" ELSE "write"

\* if(c=='\n' || n==0) break;
AfterRead(n, b) == IF b = "nl" \/ n = 0 THEN "close" ELSE "write"

ReadByte ==
  /\ spc = "read" /\ toServer[conn] # <<>>
  /\ byte' = Head(toServer[conn])
  /\ toServer' = [toServer EXCEPT ![conn] = Tail(@)]
  /\ spc' = AfterRead(1, byte')
  /\ UNCHANGED <<conn, backlog, client, toClient, closed, reset>>

\* The client is gone: the read fails once if the connection was reset, and then
\* tells the end.  A failed read leaves c as it was.
ReadEnd ==
  /\ spc = "read" /\ toServer[conn] = <<>> /\ Killed(conn)
  /\ spc' = AfterRead(IF reset[conn] = "pending" THEN -1 ELSE 0, byte)
  /\ reset' = [reset EXCEPT ![conn] = IF @ = "pending" THEN "told" ELSE @]
  /\ UNCHANGED <<conn, byte, backlog, client, toServer, toClient, closed>>

\* mutant of AfterSigpipe: the signal is left at its default
SigpipeKills == "dead"

\* signal(SIGPIPE, SIG_IGN)
AfterSigpipe == "read"

\* What is written to a client that is gone is lost; the answer resets the
\* connection, and writing to a connection that is known to be reset raises SIGPIPE.
WriteByte ==
  /\ spc = "write"
  /\ byte' = Upper(byte)
  /\ IF Killed(conn)
     THEN /\ UNCHANGED toClient
          /\ reset' = [reset EXCEPT ![conn] = IF @ = "no" THEN "pending" ELSE "told"]
          /\ spc' = IF reset[conn] = "told" THEN AfterSigpipe ELSE "read"
     ELSE /\ toClient' = [toClient EXCEPT ![conn] = Append(@, Upper(byte))]
          /\ spc' = "read" /\ UNCHANGED reset
  /\ UNCHANGED <<conn, backlog, client, toServer, closed>>

Close ==
  /\ spc = "close" /\ spc' = "accept"
  /\ closed' = closed \cup {conn} /\ conn' = "none"
  /\ UNCHANGED <<byte, backlog, client, toServer, toClient, reset>>
-----------------------------------------------------------------------------
ServerStep == Accept \/ ReadByte \/ ReadEnd \/ WriteByte \/ Close

ClientStep(c) == Connect(c) \/ WriteLine(c) \/ RecvReply(c) \/ EndOfReply(c)

\* The server waits for a byte that its client, alive, will never send.
Stuck ==
  /\ spc = "read" /\ toServer[conn] = <<>>
  /\ cpc[conn] = "reply" /\ ~Terminated(conn)

\* Nothing but the user can go on.
Quiet ==
  /\ Stuck \/ (spc = "accept" /\ backlog = <<>>)
  /\ \A c \in Client :
       cpc[c] \in {"done", "killed"} \/ (cpc[c] = "reply" /\ toClient[c] = <<>> /\ Stuck)
  /\ UNCHANGED vars

Next ==
  \/ ServerStep
  \/ \E c \in Client : ClientStep(c) \/ Fgets(c) \/ Kill(c)
  \/ Quiet

Spec ==
  /\ Init /\ [][Next]_vars
  /\ WF_vars(ServerStep) /\ \A c \in Client : WF_vars(ClientStep(c))
-----------------------------------------------------------------------------
(* Properties *)

Text == {"a", "b", "nl", "A", "B"}

TypeOK ==
  /\ spc \in {"accept", "read", "write", "close"}
  /\ conn \in Client \cup {"none"} /\ byte \in Text \cup {"unset"}
  /\ (conn = "none") = (spc = "accept")
  /\ backlog \in Seq(Client)
  /\ cpc \in [Client -> {"fgets", "connect", "write", "reply", "done", "killed"}]
  /\ line \in [Client -> Seq(Text)] /\ printed \in [Client -> Seq(Text)]
  /\ toServer \in [Client -> Seq(Text)] /\ toClient \in [Client -> Seq(Text)]
  /\ closed \subseteq Client /\ reset \in [Client -> {"no", "pending", "told"}]

\* The reply a client is to get: its line in upper case, without the newline.
Reply(c) ==
  [i \in 1..(IF Terminated(c) THEN Len(line[c]) - 1 ELSE Len(line[c])) |-> Upper(line[c][i])]

\* No client is shown another's text, a stale c or a byte twice, whatever became of the
\* clients served before it; and one that ends by itself was shown all of its reply.
ReplyIsOwn ==
  \A c \in Client : line[c] # <<>> =>
    /\ IsPrefix(printed[c] \o (IF Killed(c) THEN <<>> ELSE toClient[c]), Reply(c))
    /\ cpc[c] = "done" => printed[c] = Reply(c)

\* What a client that has a line is to be sent.
Due(c) == IF line[c] = <<>> THEN <<>> ELSE Reply(c)

\* Clients are served one at a time and in the order in which they connected; what is
\* written to a client is the next byte of its own reply, and its connection is closed
\* when the reply is complete or the client was ended, never before (l. 33-64).
ES == INSTANCE EchoService WITH
        Byte <- Text,
        due <- [c \in Client |-> Due(c)],
        queue <- IF conn = "none" THEN backlog ELSE <<conn>> \o backlog,
        answered <- [c \in Client |-> printed[c] \o toClient[c]],
        served <- closed,
        gone <- {c \in Client : Killed(c)}

ImplementsEchoService == ES!Spec

\* The connection of a client that was ended is given up, with or without bytes unread
\* and whatever the error: the server does not die or spin on it.
KilledIsLeft == \A c \in Client : (Killed(c) /\ conn = c) ~> conn # c

\* A client waits for ever only when the server waits for the rest of a line that has
\* none: its own or that of the client served before it.
OnlyStuckWaits ==
  \A c \in Client : cpc[c] = "reply" ~> (cpc[c] \in {"done", "killed"} \/ Stuck)
=============================================================================
