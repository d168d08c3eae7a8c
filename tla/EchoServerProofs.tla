-------------------------- MODULE EchoServerProofs --------------------------
(***************************************************************************)
(* What each client of ex1_srv.c is shown, for any clients and any lines:  *)
(* a byte of a line is in one of three places, still to be read, in the    *)
(* server's c, or sent back, and the places fill in the order of the line. *)
(***************************************************************************)
EXTENDS EchoServer, SequenceTheorems, TLAPS

\* The bytes of a line before its newline: how many are echoed.
Width(c) == IF Terminated(c) THEN Len(line[c]) - 1 ELSE Len(line[c])

\* The bytes sent back so far, and where they come from.
Echoed(c) == Len(printed[c]) + Len(toClient[c])

ShownInv(c) ==
  /\ Len(printed[c]) =< Width(c)
  /\ \A i \in 1..Len(printed[c]) : printed[c][i] = Upper(line[c][i])

ReplyInv(c) ==
  /\ Echoed(c) =< Width(c)
  /\ \A i \in 1..Len(toClient[c]) : toClient[c][i] = Upper(line[c][Len(printed[c]) + i])

\* All but the first k bytes of the line are still to be read.
Unread(c, k) ==
  /\ Len(toServer[c]) = Len(line[c]) - k
  /\ \A i \in 1..Len(toServer[c]) : toServer[c][i] = line[c][k + i]

\* A connection waits, is served and is closed, in this order and once.
Waits(c) == \E i \in 1..Len(backlog) : backlog[i] = c

Once == \A i, j \in 1..Len(backlog) : backlog[i] = backlog[j] => i = j

PlaceInv(c) ==
  /\ Waits(c) => c # conn /\ c \notin closed
  /\ c = conn => c \notin closed
  /\ cpc[c] \in {"fgets", "connect"} => ~Waits(c) /\ c # conn /\ c \notin closed
  /\ cpc[c] = "write" => c \notin closed /\ (c = conn => spc = "read")
  /\ cpc[c] = "done" => c \in closed

QueueInv == Once /\ \A c \in Client : PlaceInv(c)

\* Where the bytes of a live client's line are.
BytesInv(c) ==
  /\ cpc[c] = "fgets" => line[c] = <<>>
  /\ cpc[c] # "fgets" => line[c] \in Line
  /\ cpc[c] \in {"fgets", "connect", "write"} =>
       toServer[c] = <<>> /\ toClient[c] = <<>> /\ printed[c] = <<>>
  /\ Waits(c) => toClient[c] = <<>> /\ printed[c] = <<>>
  /\ cpc[c] = "reply" /\ Waits(c) => Unread(c, 0)
  /\ cpc[c] # "fgets" => ShownInv(c) /\ (~Killed(c) => ReplyInv(c))
  /\ cpc[c] = "reply" /\ c = conn =>
       /\ spc = "read" => Unread(c, Echoed(c))
       /\ spc = "write" => /\ Echoed(c) < Width(c)
                           /\ byte = line[c][Echoed(c) + 1]
                           /\ Unread(c, Echoed(c) + 1)
       /\ spc = "close" => Echoed(c) = Width(c)
  /\ cpc[c] \in {"reply", "done"} /\ c \in closed => Echoed(c) = Width(c)
  /\ cpc[c] = "done" => toClient[c] = <<>>

LineInv == \A c \in Client : BytesInv(c)

Inv == TypeOK /\ QueueInv /\ LineInv

USE ConstantsAssumption DEF ConstantsAssumption

-----------------------------------------------------------------------------
(* Lines and sequences *)

LEMMA LineFacts ==
  ASSUME NEW l \in Line
  PROVE  /\ l \in Seq(Text) /\ l # <<>> /\ Len(l) \in Nat \ {0}
         /\ \A i \in 1..Len(l) : l[i] \in Text /\ Upper(l[i]) \in Text
         /\ \A i \in 1..(Len(l) - 1) : l[i] # "nl"
<1>1. l \in Seq({"a", "b", "nl"}) /\ l # <<>>
  BY DEF ConstantsAssumption
<1>2. Len(l) \in Nat \ {0}
  BY <1>1, EmptySeq
<1>3. l \in Seq(Text)
  BY <1>1, SeqMonotonic DEF Text
<1>4. \A i \in 1..Len(l) : l[i] \in {"a", "b", "nl"}
  BY <1>1, ElementOfSeq
<1>5. QED BY <1>1, <1>2, <1>3, <1>4 DEF Text, Upper

LEMMA WidthFacts ==
  ASSUME NEW c \in Client, line[c] \in Line
  PROVE  /\ Width(c) \in Nat /\ Width(c) =< Len(line[c]) /\ Len(line[c]) =< Width(c) + 1
         /\ \A i \in 1..Len(line[c]) : i =< Width(c) <=> line[c][i] # "nl"
BY LineFacts DEF Width, Terminated, Last

LEMMA Portion ==
  ASSUME NEW s \in Seq(Text), NEW t \in Seq(Text), NEW k \in 1..Len(s)
  PROVE  /\ t \o SubSeq(s, 1, k) \in Seq(Text) /\ SubSeq(s, k + 1, Len(s)) \in Seq(Text)
         /\ Len(t \o SubSeq(s, 1, k)) = Len(t) + k
         /\ Len(SubSeq(s, k + 1, Len(s))) = Len(s) - k
         /\ \A i \in 1..(Len(t) + k) :
              (t \o SubSeq(s, 1, k))[i] = IF i =< Len(t) THEN t[i] ELSE s[i - Len(t)]
         /\ \A i \in 1..(Len(s) - k) : SubSeq(s, k + 1, Len(s))[i] = s[k + i]
<1>0. Len(s) \in Nat /\ Len(t) \in Nat BY LenProperties
<1>1. \A i \in 1..Len(s) : s[i] \in Text BY ElementOfSeq
<1>2. /\ SubSeq(s, 1, k) \in Seq(Text) /\ Len(SubSeq(s, 1, k)) = k
      /\ \A i \in 1..k : SubSeq(s, 1, k)[i] = s[i]
  BY <1>0, <1>1, SubSeqProperties
<1>3. /\ SubSeq(s, k + 1, Len(s)) \in Seq(Text) /\ Len(SubSeq(s, k + 1, Len(s))) = Len(s) - k
      /\ \A i \in 1..(Len(s) - k) : SubSeq(s, k + 1, Len(s))[i] = s[k + i]
  <2>1. \A i \in (k + 1)..Len(s) : s[i] \in Text BY <1>0, <1>1
  <2>2. /\ SubSeq(s, k + 1, Len(s)) \in Seq(Text)
        /\ Len(SubSeq(s, k + 1, Len(s))) =
             IF k + 1 =< Len(s) THEN Len(s) - (k + 1) + 1 ELSE 0
        /\ \A i \in 1..(Len(s) - (k + 1) + 1) :
             SubSeq(s, k + 1, Len(s))[i] = s[(k + 1) + i - 1]
    BY <1>0, <2>1, SubSeqProperties
  <2>3. QED BY <1>0, <2>2
<1>4. /\ t \o SubSeq(s, 1, k) \in Seq(Text)
      /\ Len(t \o SubSeq(s, 1, k)) = Len(t) + k
      /\ \A i \in 1..(Len(t) + k) :
           (t \o SubSeq(s, 1, k))[i] = IF i =< Len(t) THEN t[i] ELSE SubSeq(s, 1, k)[i - Len(t)]
  BY <1>2, ConcatProperties
<1>5. \A i \in 1..(Len(t) + k) : ~(i =< Len(t)) => i - Len(t) \in 1..k BY <1>0
<1>6. QED BY <1>0, <1>2, <1>3, <1>4, <1>5

-----------------------------------------------------------------------------
(* Steps *)

LEMMA InitInv == Init => Inv
<1> SUFFICES ASSUME Init PROVE Inv
  OBVIOUS
<1> USE EmptySeq DEF Init
<1>1. TypeOK BY DEF TypeOK, Text
<1>2. QueueInv BY DEF QueueInv, Once, PlaceInv, Waits
<1>3. LineInv BY DEF LineInv, BytesInv, Waits
<1>4. QED BY <1>1, <1>2, <1>3 DEF Inv

LEMMA TypeStep == Inv /\ [Next]_vars => TypeOK'
<1> SUFFICES ASSUME Inv, [Next]_vars PROVE TypeOK'
  OBVIOUS
<1> USE EmptySeq DEF Inv, TypeOK, CMove, server, client, streams
<1>1. ASSUME NEW c \in Client, Fgets(c) PROVE TypeOK'
  BY <1>1, LineFacts DEF Fgets
<1>2. ASSUME NEW c \in Client, Connect(c) PROVE TypeOK'
  BY <1>2, AppendProperties DEF Connect
<1>3. ASSUME NEW c \in Client, WriteLine(c) PROVE TypeOK'
  BY <1>3 DEF WriteLine
<1>4. ASSUME NEW c \in Client, RecvReply(c) PROVE TypeOK'
  <2>1. PICK k \in 1..Len(toClient[c]) :
          /\ printed' = [printed EXCEPT ![c] = @ \o SubSeq(toClient[c], 1, k)]
          /\ toClient' = [toClient EXCEPT ![c] = SubSeq(@, k + 1, Len(@))]
    BY <1>4 DEF RecvReply
  <2>2. /\ printed[c] \o SubSeq(toClient[c], 1, k) \in Seq(Text)
        /\ SubSeq(toClient[c], k + 1, Len(toClient[c])) \in Seq(Text)
    BY Portion
  <2>3. QED BY <1>4, <2>1, <2>2 DEF RecvReply
<1>5. ASSUME NEW c \in Client, EndOfReply(c) \/ Kill(c) PROVE TypeOK'
  BY <1>5 DEF EndOfReply, Kill
<1>6. CASE Accept
  BY <1>6, HeadTailProperties DEF Accept
<1>7. CASE ReadByte
  BY <1>7, HeadTailProperties DEF ReadByte, AfterRead
<1>8. CASE ReadEnd
  BY <1>8 DEF ReadEnd, AfterRead
<1>9. CASE WriteByte
  <2>1. Upper(byte) \in Text \cup {"unset"} BY DEF Upper, Text
  <2>2. CASE Killed(conn)
    BY <1>9, <2>1, <2>2 DEF WriteByte, AfterSigpipe
  <2>3. CASE ~Killed(conn)
    <3>1. conn \in Client /\ cpc[conn] = "reply"
      BY <1>9, <2>3 DEF WriteByte, QueueInv, PlaceInv, Killed
    <3>2. line[conn] \in Line /\ ReplyInv(conn) /\ Echoed(conn) < Width(conn)
          /\ byte = line[conn][Echoed(conn) + 1]
      BY <1>9, <2>3, <3>1 DEF WriteByte, LineInv, BytesInv
    <3>3. Echoed(conn) + 1 \in 1..Len(line[conn])
      BY <3>1, <3>2, WidthFacts, LenProperties DEF Echoed
    <3>4. Upper(byte) \in Text BY <3>2, <3>3, LineFacts
    <3>5. Append(toClient[conn], Upper(byte)) \in Seq(Text)
      BY <3>1, <3>4, AppendProperties
    <3>6. QED BY <1>9, <2>1, <2>3, <3>1, <3>5 DEF WriteByte
  <2>4. QED BY <2>2, <2>3
<1>10. CASE Close
  BY <1>10 DEF Close
<1>11. CASE UNCHANGED vars
  BY <1>11 DEF vars
<1>12. QED
  BY <1>1, <1>2, <1>3, <1>4, <1>5, <1>6, <1>7, <1>8, <1>9, <1>10, <1>11
  DEF Next, ServerStep, ClientStep, Quiet

LEMMA QueueStep == Inv /\ [Next]_vars => QueueInv'
<1> SUFFICES ASSUME Inv, [Next]_vars PROVE QueueInv'
  OBVIOUS
<1> USE DEF Inv, TypeOK, QueueInv, PlaceInv, CMove, server, client, streams
<1>1. ASSUME NEW c \in Client, Connect(c) PROVE QueueInv'
  <2>1. /\ Len(backlog') = Len(backlog) + 1 /\ backlog'[Len(backlog) + 1] = c
        /\ \A i \in 1..Len(backlog) : backlog'[i] = backlog[i]
        /\ Len(backlog) \in Nat /\ ~Waits(c)
    BY <1>1, AppendProperties, LenProperties DEF Connect
  <2>2. Once'
    BY ONLY <2>1, Once DEF Once, Waits
  <2>3. \A d \in Client : Waits(d)' => Waits(d) \/ d = c
    <3>1. \A i \in 1..Len(backlog') : i \in 1..Len(backlog) \/ i = Len(backlog) + 1
      BY ONLY <2>1
    <3>2. QED BY ONLY <2>1, <3>1 DEF Waits
  <2>4. QED BY <1>1, <2>1, <2>2, <2>3 DEF Connect
<1>2. CASE Accept
  <2>1. /\ Len(backlog) \in Nat \ {0} /\ Len(backlog') = Len(backlog) - 1
        /\ \A i \in 1..Len(backlog') : backlog'[i] = backlog[i + 1]
        /\ conn' = backlog[1] /\ conn' \in Client
    BY <1>2, HeadTailProperties, EmptySeq DEF Accept
  <2>2. Once'
    BY ONLY <2>1, Once DEF Once
  <2>3. \A d \in Client : Waits(d)' => Waits(d)
    BY ONLY <2>1 DEF Waits
  <2>4. Waits(conn')
    BY ONLY <2>1 DEF Waits
  <2>5. \A i \in 1..Len(backlog') : backlog'[i] # conn'
    BY ONLY <2>1, Once DEF Once
  <2>6. \A d \in Client : Waits(d)' => d # conn'
    BY ONLY <2>5 DEF Waits
  <2>7. QED BY <1>2, <2>1, <2>2, <2>3, <2>4, <2>6 DEF Accept
<1>3. ASSUME UNCHANGED backlog, \A d \in Client : PlaceInv(d)' PROVE QueueInv'
  BY <1>3 DEF Once
<1>4. ASSUME UNCHANGED backlog PROVE \A d \in Client : Waits(d)' = Waits(d)
  BY <1>4 DEF Waits
<1>5. ASSUME NEW c \in Client, Fgets(c) \/ WriteLine(c) \/ RecvReply(c) PROVE QueueInv'
  BY <1>5, <1>3, <1>4 DEF Fgets, WriteLine, RecvReply
<1>6. ASSUME NEW c \in Client, EndOfReply(c) \/ Kill(c) PROVE QueueInv'
  BY <1>6, <1>3, <1>4 DEF EndOfReply, Kill
<1>7. CASE ReadByte
  <2>1. conn \in Client /\ cpc[conn] # "write"
    BY <1>7 DEF ReadByte, LineInv, BytesInv
  <2>2. QED BY <1>7, <1>3, <1>4, <2>1 DEF ReadByte
<1>8. CASE ReadEnd
  BY <1>8, <1>3, <1>4 DEF ReadEnd, Killed
<1>9. CASE WriteByte
  BY <1>9, <1>3, <1>4 DEF WriteByte, AfterSigpipe
<1>10. CASE Close
  BY <1>10, <1>3, <1>4 DEF Close
<1>11. CASE UNCHANGED vars
  BY <1>11, <1>3, <1>4 DEF vars
<1>12. QED
  BY <1>1, <1>2, <1>5, <1>6, <1>7, <1>8, <1>9, <1>10, <1>11
  DEF Next, ServerStep, ClientStep, Quiet

\* A step that does not concern a connection leaves what is known of its line as it is.
LEMMA Frame ==
  ASSUME NEW c \in Client, BytesInv(c),
         UNCHANGED <<cpc[c], line[c], printed[c], toServer[c], toClient[c]>>,
         Waits(c)' => Waits(c), c \in closed' => c \in closed,
         c = conn' => c = conn /\ UNCHANGED <<spc, byte>>
  PROVE  BytesInv(c)'
<1>1. Width(c)' = Width(c) /\ Echoed(c)' = Echoed(c)
  BY DEF Width, Terminated, Echoed
<1>2. ShownInv(c)' = ShownInv(c) /\ ReplyInv(c)' = ReplyInv(c)
  BY <1>1 DEF ShownInv, ReplyInv
<1>3. Unread(c, 0)' = Unread(c, 0) /\ Unread(c, Echoed(c))' = Unread(c, Echoed(c))
      /\ Unread(c, Echoed(c) + 1)' = Unread(c, Echoed(c) + 1)
  BY <1>1 DEF Unread
<1>4. Killed(c)' = Killed(c)
  BY DEF Killed
<1>5. QED BY <1>1, <1>2, <1>3, <1>4 DEF BytesInv

LEMMA LineStep == Inv /\ [Next]_vars => LineInv'
<1> SUFFICES ASSUME Inv, [Next]_vars PROVE LineInv'
  OBVIOUS
<1> USE DEF CMove, server, client, streams
<1>1. TypeOK /\ QueueInv /\ \A d \in Client : BytesInv(d) /\ PlaceInv(d)
  BY DEF Inv, LineInv, QueueInv
<1>0. /\ toClient \in [Client -> Seq(Text)] /\ toClient' \in [Client -> Seq(Text)]
          /\ printed \in [Client -> Seq(Text)] /\ printed' \in [Client -> Seq(Text)]
          /\ toServer \in [Client -> Seq(Text)] /\ line \in [Client -> Seq(Text)]
  BY <1>1, TypeStep DEF TypeOK
<1>2. ASSUME NEW c \in Client, Fgets(c) PROVE LineInv'
  <2>1. /\ UNCHANGED <<backlog, closed, conn, spc, byte>>
        /\ \A d \in Client \ {c} : UNCHANGED <<cpc[d], line[d]>>
        /\ UNCHANGED <<printed, toServer, toClient>>
    BY <1>1, <1>2 DEF Fgets, TypeOK
  <2>2. \A d \in Client : Waits(d)' => Waits(d)
    BY <2>1 DEF Waits
  <2>3. \A d \in Client \ {c} : BytesInv(d)'
    BY <1>1, <2>1, <2>2, Frame
  <2>4. BytesInv(c)'
    <3>1. /\ cpc'[c] = "connect" /\ line'[c] \in Line
          /\ toServer'[c] = <<>> /\ toClient'[c] = <<>> /\ printed'[c] = <<>>
      BY <1>1, <1>2 DEF Fgets, BytesInv, TypeOK
    <3>2. Width(c)' \in Nat
      BY <3>1, LineFacts DEF Width, Terminated, Last
    <3>3. Echoed(c)' = 0
      BY <3>1, EmptySeq DEF Echoed
    <3>4. ShownInv(c)' /\ ReplyInv(c)'
      BY <3>1, <3>2, <3>3, EmptySeq DEF ShownInv, ReplyInv
    <3>5. ~Waits(c)' /\ c # conn' /\ c \notin closed'
      BY <1>1, <1>2, <2>1, <2>2 DEF PlaceInv, Fgets
    <3>6. QED BY <3>1, <3>4, <3>5 DEF BytesInv
  <2>5. QED BY <2>3, <2>4 DEF LineInv
<1>3. ASSUME NEW c \in Client, Connect(c) PROVE LineInv'
  <2>1. /\ UNCHANGED <<closed, conn, spc, byte>>
        /\ \A d \in Client \ {c} : UNCHANGED cpc[d]
        /\ UNCHANGED <<line, printed, toServer, toClient>>
    BY <1>1, <1>3 DEF Connect, TypeOK
  <2>2. \A d \in Client \ {c} : Waits(d)' => Waits(d)
    <3>1. /\ backlog \in Seq(Client) /\ Len(backlog') = Len(backlog) + 1
          /\ backlog'[Len(backlog) + 1] = c
          /\ \A i \in 1..Len(backlog) : backlog'[i] = backlog[i]
          /\ Len(backlog) \in Nat
      BY <1>1, <1>3, AppendProperties, LenProperties DEF Connect, TypeOK
    <3>2. \A i \in 1..Len(backlog') : i \in 1..Len(backlog) \/ i = Len(backlog) + 1
      BY ONLY <3>1
    <3>3. QED BY ONLY <3>1, <3>2 DEF Waits
  <2>3. \A d \in Client \ {c} : BytesInv(d)'
    BY <1>1, <2>1, <2>2, Frame
  <2>4. BytesInv(c)'
    <3>1. /\ cpc[c] = "connect" /\ cpc'[c] = "write" /\ line'[c] \in Line
          /\ toServer'[c] = <<>> /\ toClient'[c] = <<>> /\ printed'[c] = <<>>
      BY <1>1, <1>3 DEF Connect, BytesInv, TypeOK
    <3>2. ShownInv(c)' /\ ReplyInv(c)'
      <4>1. Width(c)' = Width(c) /\ Echoed(c)' = Echoed(c)
        BY <2>1 DEF Width, Terminated, Echoed
      <4>2. ShownInv(c) /\ ReplyInv(c)
        BY <1>1, <3>1 DEF BytesInv, Killed
      <4>3. QED BY <2>1, <4>1, <4>2 DEF ShownInv, ReplyInv
    <3>3. QED BY <3>1, <3>2 DEF BytesInv
  <2>5. QED BY <2>3, <2>4 DEF LineInv
<1>4. ASSUME NEW c \in Client, WriteLine(c) PROVE LineInv'
  <2>1. /\ UNCHANGED <<closed, conn, spc, byte, backlog>>
        /\ \A d \in Client \ {c} : UNCHANGED <<cpc[d], toServer[d]>>
        /\ UNCHANGED <<line, printed, toClient>>
    BY <1>1, <1>4 DEF WriteLine, TypeOK
  <2>2. \A d \in Client : Waits(d)' = Waits(d)
    BY <2>1 DEF Waits
  <2>3. \A d \in Client \ {c} : BytesInv(d)'
    BY <1>1, <2>1, <2>2, Frame
  <2>4. BytesInv(c)'
    <3>1. /\ cpc[c] = "write" /\ cpc'[c] = "reply" /\ line'[c] \in Line
          /\ toServer'[c] = line[c] /\ toClient'[c] = <<>> /\ printed'[c] = <<>>
      BY <1>1, <1>4, <2>1 DEF WriteLine, BytesInv, TypeOK
    <3>2. Echoed(c)' = 0
      BY <3>1, EmptySeq DEF Echoed
    <3>3. Unread(c, 0)' /\ Unread(c, Echoed(c))'
      BY <2>1, <3>1, <3>2, LineFacts DEF Unread
    <3>4. ShownInv(c)' /\ ReplyInv(c)'
      <4>1. Width(c)' = Width(c) /\ Echoed(c)' = Echoed(c)
        BY <2>1 DEF Width, Terminated, Echoed
      <4>2. ShownInv(c) /\ ReplyInv(c)
        BY <1>1, <3>1 DEF BytesInv, Killed
      <4>3. QED BY <2>1, <4>1, <4>2 DEF ShownInv, ReplyInv
    <3>5. c \notin closed' /\ (c = conn' => spc' = "read")
      BY <1>1, <2>1, <3>1 DEF PlaceInv
    <3>6. QED BY <3>1, <3>3, <3>4, <3>5 DEF BytesInv
  <2>5. QED BY <2>3, <2>4 DEF LineInv
<1>5. ASSUME NEW c \in Client, RecvReply(c) PROVE LineInv'
  <2>1. /\ UNCHANGED <<closed, conn, spc, byte, backlog>>
        /\ \A d \in Client \ {c} : UNCHANGED <<printed[d], toClient[d]>>
        /\ UNCHANGED <<cpc, line, toServer>>
    BY <1>1, <1>5 DEF RecvReply, TypeOK
  <2>2. \A d \in Client : Waits(d)' = Waits(d)
    BY <2>1 DEF Waits
  <2>3. \A d \in Client \ {c} : BytesInv(d)'
    BY <1>1, <2>1, <2>2, Frame
  <2>4. BytesInv(c)'
    <3>1. PICK k \in 1..Len(toClient[c]) :
            /\ printed'[c] = printed[c] \o SubSeq(toClient[c], 1, k)
            /\ toClient'[c] = SubSeq(toClient[c], k + 1, Len(toClient[c]))
      BY <1>1, <1>5 DEF RecvReply, TypeOK
    <3>2. /\ cpc[c] = "reply" /\ toClient[c] # <<>> /\ line[c] \in Line
          /\ ShownInv(c) /\ ReplyInv(c) /\ ~Waits(c)
      BY <1>1, <1>5 DEF RecvReply, BytesInv, Killed
    <3>0. printed[c] \in Seq(Text) /\ toClient[c] \in Seq(Text)
      BY <1>1 DEF TypeOK
    <3>3. Len(printed[c]) \in Nat /\ Len(toClient[c]) \in Nat
      BY <3>0, LenProperties
    <3>4. /\ Len(printed'[c]) = Len(printed[c]) + k
          /\ Len(toClient'[c]) = Len(toClient[c]) - k
          /\ \A i \in 1..(Len(printed[c]) + k) :
               printed'[c][i] = IF i =< Len(printed[c]) THEN printed[c][i]
                                ELSE toClient[c][i - Len(printed[c])]
          /\ \A i \in 1..(Len(toClient[c]) - k) : toClient'[c][i] = toClient[c][k + i]
      BY <1>0, <3>0, <3>1, Portion
    <3>5. Echoed(c)' = Echoed(c) /\ Width(c)' = Width(c) /\ Width(c) \in Nat
      <4>1. Echoed(c)' = Echoed(c)
        <5>1. k \in Int
          BY ONLY <3>3, k \in 1..Len(toClient[c])
        <5>2. QED BY ONLY <1>0, <3>3, <3>4, <5>1 DEF Echoed
      <4>2. Width(c)' = Width(c)
        BY <2>1 DEF Width, Terminated
      <4>3. Width(c) \in Nat
        BY <3>2, WidthFacts
      <4>4. QED BY <4>1, <4>2, <4>3
    <3>6. ShownInv(c)'
      <4>1. Len(printed'[c]) =< Width(c)
        BY <1>0, <3>1, <3>2, <3>3, <3>4, <3>5 DEF ReplyInv, Echoed
      <4>2. ASSUME NEW i \in 1..Len(printed'[c]) PROVE printed'[c][i] = Upper(line[c][i])
        <5>1. CASE i =< Len(printed[c])
          <6>1. i \in 1..(Len(printed[c]) + k) /\ i \in 1..Len(printed[c])
            BY <3>3, <3>4, <5>1
          <6>2. printed'[c][i] = printed[c][i]
            BY <3>4, <5>1, <6>1
          <6>3. QED BY <3>2, <6>1, <6>2 DEF ShownInv
        <5>2. CASE ~(i =< Len(printed[c]))
          <6>1. i - Len(printed[c]) \in 1..Len(toClient[c])
                /\ Len(printed[c]) + (i - Len(printed[c])) = i
            BY <3>3, <3>4, <5>2
          <6>2. QED BY <3>2, <3>3, <3>4, <5>2, <6>1 DEF ReplyInv
        <5>3. QED BY <5>1, <5>2
      <4>3. QED BY <2>1, <3>5, <4>1, <4>2 DEF ShownInv
    <3>7. ReplyInv(c)'
      <4>1. ASSUME NEW i \in 1..Len(toClient'[c])
            PROVE  toClient'[c][i] = Upper(line[c][Len(printed'[c]) + i])
        <5>1. k + i \in 1..Len(toClient[c]) /\ i \in 1..(Len(toClient[c]) - k)
              /\ Len(printed'[c]) + i = Len(printed[c]) + (k + i)
          BY <1>0, <3>3, <3>4
        <5>2. QED BY <3>2, <3>4, <5>1 DEF ReplyInv
      <4>2. QED BY <2>1, <3>2, <3>5, <4>1 DEF ReplyInv
    <3>8. /\ Unread(c, Echoed(c))' = Unread(c, Echoed(c))
          /\ Unread(c, Echoed(c) + 1)' = Unread(c, Echoed(c) + 1)
      BY <2>1, <3>5 DEF Unread
    <3>9. BytesInv(c)
      BY <1>1
    <3>10. QED
      BY <2>1, <2>2, <3>2, <3>5, <3>6, <3>7, <3>8, <3>9 DEF BytesInv
  <2>5. QED BY <2>3, <2>4 DEF LineInv
<1>6. ASSUME NEW c \in Client, EndOfReply(c) \/ Kill(c) PROVE LineInv'
  <2>1. /\ UNCHANGED <<closed, conn, spc, byte, backlog>>
        /\ \A d \in Client \ {c} : UNCHANGED cpc[d]
        /\ UNCHANGED <<line, printed, toServer, toClient>>
    BY <1>1, <1>6 DEF EndOfReply, Kill, TypeOK
  <2>2. \A d \in Client : Waits(d)' = Waits(d)
    BY <2>1 DEF Waits
  <2>3. \A d \in Client \ {c} : BytesInv(d)'
    BY <1>1, <2>1, <2>2, Frame
  <2>4. BytesInv(c)'
    <3>1. Width(c)' = Width(c) /\ Echoed(c)' = Echoed(c)
      BY <2>1 DEF Width, Terminated, Echoed
    <3>2. ShownInv(c)' = ShownInv(c) /\ ReplyInv(c)' = ReplyInv(c)
      BY <2>1, <3>1 DEF ShownInv, ReplyInv
    <3>3. CASE EndOfReply(c)
      <4>1. /\ cpc[c] = "reply" /\ cpc'[c] = "done"
            /\ toClient[c] = <<>> /\ c \in closed
        BY <1>1, <3>3 DEF EndOfReply, TypeOK
      <4>2. BytesInv(c) /\ PlaceInv(c)
        BY <1>1
      <4>3. QED BY <2>1, <2>2, <3>1, <3>2, <4>1, <4>2 DEF BytesInv, PlaceInv, Killed
    <3>4. CASE Kill(c)
      <4>1. cpc[c] \in {"write", "reply"} /\ cpc'[c] = "killed"
        BY <1>1, <3>4 DEF Kill, TypeOK
      <4>2. BytesInv(c)
        BY <1>1
      <4>3. QED BY <2>1, <2>2, <3>2, <4>1, <4>2 DEF BytesInv, Killed
    <3>5. QED BY <1>6, <3>3, <3>4
  <2>5. QED BY <2>3, <2>4 DEF LineInv
<1>7. CASE Accept
  <2>1. /\ spc' = "read" /\ UNCHANGED <<byte, cpc, line, printed, toServer, toClient, closed>>
    BY <1>7 DEF Accept
  <2>2. /\ Len(backlog) \in Nat \ {0} /\ Len(backlog') = Len(backlog) - 1
        /\ \A i \in 1..Len(backlog') : backlog'[i] = backlog[i + 1]
        /\ conn' = backlog[1] /\ conn' \in Client
    BY <1>1, <1>7, HeadTailProperties, EmptySeq DEF Accept, TypeOK
  <2>3. \A d \in Client : Waits(d)' => Waits(d)
    BY ONLY <2>2 DEF Waits
  <2>4. PICK c \in Client : c = conn' /\ Waits(c)
    BY <2>2 DEF Waits
  <2>5. \A d \in Client \ {c} : BytesInv(d)'
    BY <1>1, <2>1, <2>3, <2>4, Frame
  <2>6. BytesInv(c)'
    <3>1. Width(c)' = Width(c) /\ Echoed(c)' = Echoed(c)
      BY <2>1 DEF Width, Terminated, Echoed
    <3>2. ShownInv(c)' = ShownInv(c) /\ ReplyInv(c)' = ReplyInv(c)
      BY <2>1, <3>1 DEF ShownInv, ReplyInv
    <3>3. Unread(c, 0)' = Unread(c, 0)
      BY <2>1 DEF Unread
    <3>4. BytesInv(c) /\ toClient[c] = <<>> /\ printed[c] = <<>>
      BY <1>1, <2>4 DEF BytesInv
    <3>5. Echoed(c) = 0
      BY <3>4, EmptySeq DEF Echoed
    <3>6. QED
      BY <2>1, <2>3, <2>4, <3>1, <3>2, <3>3, <3>4, <3>5 DEF BytesInv, Killed
  <2>7. QED BY <2>5, <2>6 DEF LineInv
<1>8. CASE ReadByte
  <2>1. /\ spc = "read" /\ toServer[conn] # <<>> /\ conn \in Client
        /\ byte' = toServer[conn][1] /\ spc' = AfterRead(1, byte')
        /\ UNCHANGED <<conn, backlog, cpc, line, printed, toClient, closed>>
    BY <1>1, <1>8 DEF ReadByte, TypeOK
  <2>2. PICK c \in Client : c = conn
    BY <2>1
  <2>3. /\ \A d \in Client \ {c} : UNCHANGED toServer[d]
        /\ toServer'[c] = Tail(toServer[c]) /\ toServer[c] \in Seq(Text)
    BY <1>1, <1>8, <2>2 DEF ReadByte, TypeOK
  <2>4. \A d \in Client : Waits(d)' = Waits(d)
    BY <2>1 DEF Waits
  <2>5. \A d \in Client \ {c} : BytesInv(d)'
    BY <1>1, <2>1, <2>2, <2>3, <2>4, Frame
  <2>6. BytesInv(c)'
    <3>1. Width(c)' = Width(c) /\ Echoed(c)' = Echoed(c)
      BY <2>1 DEF Width, Terminated, Echoed
    <3>2. ShownInv(c)' = ShownInv(c) /\ ReplyInv(c)' = ReplyInv(c)
      BY <2>1, <3>1 DEF ShownInv, ReplyInv
    <3>3. BytesInv(c) /\ PlaceInv(c) /\ ~Waits(c) /\ c \notin closed
      BY <1>1, <2>2 DEF PlaceInv
    <3>4. CASE Killed(c)
      BY <2>1, <3>2, <3>3, <2>4, <3>4 DEF BytesInv, Killed
    <3>5. CASE ~Killed(c)
      <4>1. cpc[c] = "reply"
        BY <1>1, <2>1, <2>2, <3>3, <3>5 DEF TypeOK, PlaceInv, BytesInv, Killed
      <4>2. /\ line[c] \in Line /\ Unread(c, Echoed(c)) /\ ReplyInv(c)
        BY <2>1, <2>2, <3>3, <3>5, <4>1 DEF BytesInv
      <4> DEFINE k == Echoed(c)
      <4>3. /\ Len(toServer[c]) \in Nat \ {0} /\ Len(toServer'[c]) = Len(toServer[c]) - 1
            /\ \A i \in 1..Len(toServer'[c]) : toServer'[c][i] = toServer[c][i + 1]
        BY <2>1, <2>2, <2>3, HeadTailProperties, EmptySeq
      <4>4. k \in Nat /\ k =< Width(c) /\ Width(c) \in Nat
        BY <1>1, <4>2, WidthFacts, LenProperties DEF Echoed, ReplyInv, TypeOK
      <4>5. /\ Len(toServer[c]) = Len(line[c]) - k /\ k + 1 \in 1..Len(line[c])
            /\ byte' = line[c][k + 1]
        <5>1. Len(line[c]) \in Nat
          BY <4>2, LineFacts
        <5>2. Len(toServer[c]) = Len(line[c]) - k /\ toServer[c][1] = line[c][k + 1]
          BY <4>2, <4>3 DEF Unread
        <5>3. k + 1 \in 1..Len(line[c])
          BY <1>0, <4>3, <4>4, <5>1, <5>2
        <5>4. QED BY <2>1, <2>2, <5>2, <5>3
      <4>6. Unread(c, k + 1)'
        <5>1. Len(toServer'[c]) = Len(line[c]) - (k + 1)
          BY <1>0, <4>2, <4>3, <4>4, <4>5, LineFacts
        <5>2. ASSUME NEW i \in 1..Len(toServer'[c])
              PROVE  toServer'[c][i] = line[c][(k + 1) + i]
          <6>1. i + 1 \in 1..Len(toServer[c]) /\ k + (i + 1) = (k + 1) + i
            BY <4>3, <4>4
          <6>2. QED BY <4>2, <4>3, <6>1 DEF Unread
        <5>3. QED BY <2>1, <3>1, <5>1, <5>2 DEF Unread
      <4>7. CASE line[c][k + 1] = "nl"
        <5>1. ~(k + 1 =< Width(c))
          BY <4>2, <4>5, <4>7, WidthFacts
        <5>2. Echoed(c) = Width(c)
          BY <4>4, <5>1
        <5>3. spc' = "close"
          BY <2>1, <4>5, <4>7 DEF AfterRead
        <5>4. QED
          BY <2>1, <2>4, <3>1, <3>2, <3>3, <4>1, <5>2, <5>3 DEF BytesInv, Killed
      <4>8. CASE line[c][k + 1] # "nl"
        <5>1. k + 1 =< Width(c)
          BY <4>2, <4>5, <4>8, WidthFacts
        <5>2. Echoed(c) < Width(c)
          BY <4>4, <5>1
        <5>3. spc' = "write"
          BY <2>1, <4>5, <4>8 DEF AfterRead
        <5>4. QED
          BY <2>1, <2>4, <3>1, <3>2, <3>3, <4>1, <4>5, <4>6, <5>2, <5>3
          DEF BytesInv, Killed
      <4>9. QED BY <4>7, <4>8
    <3>6. QED BY <3>4, <3>5
  <2>7. QED BY <2>5, <2>6 DEF LineInv
<1>9. CASE ReadEnd
  <2>1. /\ Killed(conn) /\ conn \in Client
        /\ UNCHANGED <<conn, backlog, byte, cpc, line, printed, toServer, toClient, closed>>
    BY <1>1, <1>9 DEF ReadEnd, TypeOK
  <2>2. PICK c \in Client : c = conn
    BY <2>1
  <2>3. \A d \in Client : Waits(d)' = Waits(d)
    BY <2>1 DEF Waits
  <2>4. \A d \in Client \ {c} : BytesInv(d)'
    BY <1>1, <2>1, <2>2, <2>3, Frame
  <2>5. BytesInv(c)'
    <3>1. ShownInv(c)' = ShownInv(c)
      BY <2>1 DEF ShownInv, Width, Terminated
    <3>2. BytesInv(c)
      BY <1>1
    <3>3. QED BY <2>1, <2>2, <2>3, <3>1, <3>2 DEF BytesInv, Killed
  <2>6. QED BY <2>4, <2>5 DEF LineInv
<1>10. CASE WriteByte
  <2>1. /\ spc = "write" /\ conn \in Client
        /\ UNCHANGED <<conn, backlog, cpc, line, printed, toServer, closed>>
    BY <1>1, <1>10 DEF WriteByte, TypeOK
  <2>2. PICK c \in Client : c = conn
    BY <2>1
  <2>3. \A d \in Client : Waits(d)' = Waits(d)
    BY <2>1 DEF Waits
  <2>4. \A d \in Client \ {c} : UNCHANGED toClient[d]
    BY <1>1, <1>10, <2>2 DEF WriteByte, TypeOK
  <2>5. \A d \in Client \ {c} : BytesInv(d)'
    BY <1>1, <2>1, <2>2, <2>3, <2>4, Frame
  <2>6. BytesInv(c)'
    <3>1. BytesInv(c) /\ PlaceInv(c) /\ ~Waits(c) /\ c \notin closed
      BY <1>1, <2>2 DEF PlaceInv
    <3>2. CASE Killed(c)
      <4>1. UNCHANGED toClient
        BY <1>10, <2>2, <3>2 DEF WriteByte
      <4>2. ShownInv(c)' = ShownInv(c)
        BY <2>1 DEF ShownInv, Width, Terminated
      <4>3. QED BY <2>1, <2>2, <2>3, <3>1, <3>2, <4>1, <4>2 DEF BytesInv, Killed
    <3>3. CASE ~Killed(c)
      <4>1. cpc[c] = "reply"
        BY <1>1, <2>1, <2>2, <3>1, <3>3 DEF TypeOK, PlaceInv, Killed
      <4>2. /\ line[c] \in Line /\ Unread(c, Echoed(c) + 1) /\ ReplyInv(c) /\ ShownInv(c)
            /\ Echoed(c) < Width(c) /\ byte = line[c][Echoed(c) + 1]
        BY <2>1, <2>2, <3>1, <3>3, <4>1 DEF BytesInv
      <4>3. toClient'[c] = Append(toClient[c], Upper(byte)) /\ spc' = "read"
        BY <1>1, <1>10, <2>2, <3>3 DEF WriteByte, TypeOK
      <4>0. printed[c] \in Seq(Text) /\ toClient[c] \in Seq(Text)
        BY <1>1 DEF TypeOK
      <4>4. Len(printed[c]) \in Nat /\ Len(toClient[c]) \in Nat
        BY <4>0, LenProperties
      <4>5. Width(c)' = Width(c) /\ Width(c) \in Nat /\ Width(c) =< Len(line[c])
        <5>1. Width(c)' = Width(c)
          BY <2>1 DEF Width, Terminated
        <5>2. QED BY <4>2, <5>1, WidthFacts
      <4>6. Upper(byte) \in Text
        <5>1. Echoed(c) + 1 \in 1..Len(line[c])
          <6>1. Len(line[c]) \in Nat /\ Echoed(c) \in Nat
            BY <1>0, <4>2, <4>4, LineFacts DEF Echoed
          <6>2. QED BY <4>2, <4>5, <6>1
        <5>2. QED BY <4>2, <5>1, LineFacts
      <4>7. /\ Len(toClient'[c]) = Len(toClient[c]) + 1
            /\ \A i \in 1..Len(toClient[c]) : toClient'[c][i] = toClient[c][i]
            /\ toClient'[c][Len(toClient[c]) + 1] = Upper(byte)
        BY <4>0, <4>3, <4>6, AppendProperties
      <4>8. Echoed(c)' = Echoed(c) + 1 /\ Echoed(c) = Len(printed[c]) + Len(toClient[c])
        <5>1. Len(printed'[c]) = Len(printed[c])
          BY <2>1
        <5>2. QED BY <1>0, <4>4, <4>7, <5>1 DEF Echoed
      <4>9. ShownInv(c)'
        BY <2>1, <4>2, <4>5 DEF ShownInv
      <4>10. ReplyInv(c)'
        <5>1. Echoed(c)' =< Width(c)'
          <6>1. Echoed(c) \in Nat
            BY <1>0, <4>4, <4>8
          <6>2. QED BY <1>0, <4>2, <4>5, <4>8, <6>1
        <5>2. ASSUME NEW i \in 1..Len(toClient'[c])
              PROVE  toClient'[c][i] = Upper(line[c][Len(printed[c]) + i])
          <6>1. CASE i \in 1..Len(toClient[c])
            BY <4>2, <4>7, <6>1 DEF ReplyInv
          <6>2. CASE i = Len(toClient[c]) + 1
            <7>1. Len(printed[c]) + i = Echoed(c) + 1
              BY <1>0, <4>4, <4>8, <6>2
            <7>2. QED BY <4>2, <4>7, <6>2, <7>1
          <6>3. QED BY <4>4, <4>7, <6>1, <6>2
        <5>3. QED BY <2>1, <5>1, <5>2 DEF ReplyInv
      <4>11. Unread(c, Echoed(c))'
        BY <2>1, <4>2, <4>8 DEF Unread
      <4>12. QED
        BY <2>1, <2>2, <2>3, <3>1, <4>1, <4>2, <4>3, <4>9, <4>10, <4>11 DEF BytesInv, Killed
    <3>4. QED BY <3>2, <3>3
  <2>7. QED BY <2>5, <2>6 DEF LineInv
<1>11. CASE Close
  <2>1. /\ spc = "close" /\ conn \in Client /\ conn' = "none" /\ spc' = "accept"
        /\ closed' = closed \cup {conn}
        /\ UNCHANGED <<backlog, byte, cpc, line, printed, toServer, toClient>>
    BY <1>1, <1>11 DEF Close, TypeOK
  <2>2. PICK c \in Client : c = conn
    BY <2>1
  <2>3. \A d \in Client : Waits(d)' = Waits(d)
    BY <2>1 DEF Waits
  <2>4. \A d \in Client \ {c} : BytesInv(d)'
    <3>1. \A d \in Client \ {c} : d # conn' /\ (d \in closed' => d \in closed)
      BY <2>1, <2>2
    <3>2. QED BY <1>1, <2>1, <2>3, <3>1, Frame
  <2>5. BytesInv(c)'
    <3>1. Width(c)' = Width(c) /\ Echoed(c)' = Echoed(c)
      BY <2>1 DEF Width, Terminated, Echoed
    <3>2. ShownInv(c)' = ShownInv(c) /\ ReplyInv(c)' = ReplyInv(c)
      BY <2>1, <3>1 DEF ShownInv, ReplyInv
    <3>3. BytesInv(c) /\ PlaceInv(c)
      BY <1>1
    <3>4. QED
      BY <2>1, <2>2, <2>3, <3>1, <3>2, <3>3 DEF BytesInv, PlaceInv, Killed
  <2>6. QED BY <2>4, <2>5 DEF LineInv
<1>12. CASE UNCHANGED vars
  <2>1. \A d \in Client : Waits(d)' = Waits(d)
    BY <1>12 DEF vars, Waits
  <2>2. QED BY <1>1, <1>12, <2>1, Frame DEF LineInv, vars
<1>13. QED
  BY <1>2, <1>3, <1>4, <1>5, <1>6, <1>7, <1>8, <1>9, <1>10, <1>11, <1>12
  DEF Next, ServerStep, ClientStep, Quiet

-----------------------------------------------------------------------------
(* Theorems *)

\* Every byte of a line is where it should be and in its turn, whatever client is ended,
\* however the bytes arrive, and whatever was served before.
THEOREM Invariance == Spec => []Inv
<1>1. Inv /\ [Next]_vars => Inv'
  BY TypeStep, QueueStep, LineStep DEF Inv
<1>2. QED BY <1>1, InitInv, PTL DEF Spec

\* Places, queues and texts keep their types.
THEOREM TypeCorrect == Spec => []TypeOK
<1>1. Inv => TypeOK BY DEF Inv
<1>2. QED BY <1>1, Invariance, PTL

LEMMA Shown ==
  ASSUME Inv, NEW c \in Client, line[c] # <<>>
  PROVE  /\ IsPrefix(printed[c] \o (IF Killed(c) THEN <<>> ELSE toClient[c]), Reply(c))
         /\ cpc[c] = "done" => printed[c] = Reply(c)
<1> DEFINE rest == IF Killed(c) THEN <<>> ELSE toClient[c]
<1>1. BytesInv(c) /\ PlaceInv(c) /\ TypeOK
  BY DEF Inv, LineInv, QueueInv
<1>2. line[c] \in Line /\ ShownInv(c) /\ (~Killed(c) => ReplyInv(c))
  BY <1>1 DEF BytesInv
<1>3. Width(c) \in Nat /\ Width(c) =< Len(line[c])
  BY <1>2, WidthFacts
<1>4. /\ Reply(c) \in Seq(Text) /\ Len(Reply(c)) = Width(c)
      /\ \A i \in 1..Width(c) : Reply(c)[i] = Upper(line[c][i])
  <2>1. Reply(c) = [i \in 1..Width(c) |-> Upper(line[c][i])]
    BY DEF Reply, Width
  <2>2. \A i \in 1..Width(c) : Upper(line[c][i]) \in Text
    BY <1>2, <1>3, LineFacts
  <2>3. QED BY <1>3, <2>1, <2>2
<1>5. /\ printed[c] \in Seq(Text) /\ rest \in Seq(Text)
      /\ Len(printed[c]) \in Nat /\ Len(rest) \in Nat
  BY <1>1, EmptySeq, LenProperties DEF TypeOK
<1>6. Len(printed[c]) + Len(rest) =< Width(c)
  <2>1. CASE Killed(c)
    BY <1>2, <1>3, <1>5, <2>1, EmptySeq DEF ShownInv
  <2>2. CASE ~Killed(c)
    BY <1>2, <2>2 DEF ReplyInv, Echoed
  <2>3. QED BY <2>1, <2>2
<1>7. \A i \in 1..Len(rest) : rest[i] = Upper(line[c][Len(printed[c]) + i])
  BY <1>2, EmptySeq DEF ReplyInv
<1> HIDE DEF rest
<1> DEFINE shown == printed[c] \o rest
<1>8. /\ shown \in Seq(Text) /\ Len(shown) = Len(printed[c]) + Len(rest)
      /\ \A i \in 1..Len(shown) : shown[i] = Reply(c)[i]
  <2>1. /\ shown \in Seq(Text) /\ Len(shown) = Len(printed[c]) + Len(rest)
        /\ \A i \in 1..(Len(printed[c]) + Len(rest)) :
             shown[i] = IF i <= Len(printed[c]) THEN printed[c][i]
                                                ELSE rest[i - Len(printed[c])]
    BY <1>5, ConcatProperties
  <2>2. ASSUME NEW i \in 1..Len(shown) PROVE shown[i] = Upper(line[c][i])
    <3>1. CASE i <= Len(printed[c])
      BY <1>2, <1>5, <2>1, <3>1 DEF ShownInv
    <3>2. CASE ~(i <= Len(printed[c]))
      <4>1. i - Len(printed[c]) \in 1..Len(rest)
            /\ Len(printed[c]) + (i - Len(printed[c])) = i
        BY <1>5, <2>1, <3>2
      <4>2. QED BY <1>5, <1>7, <2>1, <3>2, <4>1
    <3>3. QED BY <3>1, <3>2
  <2>3. QED BY <1>3, <1>4, <1>5, <1>6, <2>1, <2>2
<1> HIDE DEF shown
<1>9. IsPrefix(shown, Reply(c))
  <2>1. Len(shown) \in Nat /\ Len(shown) =< Len(Reply(c))
    BY <1>4, <1>5, <1>6, <1>8
  <2>2. SubSeq(shown, 1, Len(shown)) = shown
    BY <1>8, SubSeqFull
  <2>3. /\ SubSeq(Reply(c), 1, Len(shown)) \in Seq(Text)
        /\ Len(SubSeq(Reply(c), 1, Len(shown))) = Len(shown)
        /\ \A i \in 1..Len(shown) : SubSeq(Reply(c), 1, Len(shown))[i] = Reply(c)[i]
    <3>1. \A i \in 1..Len(shown) : Reply(c)[i] \in Text
      BY <1>4, <2>1, ElementOfSeq
    <3>2. QED BY <2>1, <3>1, SubSeqProperties
  <2>4. SubSeq(Reply(c), 1, Len(shown)) = shown
    BY <1>8, <2>3, SeqEqual
  <2>5. QED BY <2>1, <2>2, <2>4 DEF IsPrefix
<1>10. ASSUME cpc[c] = "done" PROVE printed[c] = Reply(c)
  <2>1. c \in closed /\ toClient[c] = <<>> /\ Echoed(c) = Width(c)
    BY <1>1, <1>10 DEF BytesInv, PlaceInv
  <2>2. Len(printed[c]) = Width(c)
    BY <1>5, <2>1, EmptySeq DEF Echoed
  <2>3. QED BY <1>2, <1>4, <1>5, <2>2, SeqEqual DEF ShownInv
<1>11. QED BY <1>9, <1>10 DEF shown, rest

\* What a client is shown is the beginning of its own line in upper case, and all of it
\* when it ends by itself, for any clients, any lines and any order of events.
THEOREM NobodyElsesBytes == Spec => []ReplyIsOwn
<1>1. Inv => ReplyIsOwn
  BY Shown DEF ReplyIsOwn
<1>2. QED BY <1>1, Invariance, PTL

-----------------------------------------------------------------------------
(* One after the other *)

Queue == IF conn = "none" THEN backlog ELSE <<conn>> \o backlog

DueAll == [c \in Client |-> Due(c)]

SentAll == [c \in Client |-> printed[c] \o toClient[c]]

Ended == {c \in Client : Killed(c)}

esVars == <<DueAll, Queue, SentAll, closed, Ended>>

\* The front and the rest of a queue, and one who comes at its end.
LEMMA Queues ==
  ASSUME NEW s \in Seq(Client), NEW c \in Client
  PROVE  /\ <<c>> \o s \in Seq(Client) /\ <<c>> \o s # <<>>
         /\ Head(<<c>> \o s) = c /\ Tail(<<c>> \o s) = s
         /\ \A d \in Client : <<c>> \o Append(s, d) = Append(<<c>> \o s, d)
         /\ DOMAIN (<<c>> \o s) = 1..(Len(s) + 1) /\ (<<c>> \o s)[1] = c
         /\ \A i \in 1..Len(s) : (<<c>> \o s)[i + 1] = s[i]
<1>1. <<c>> \in Seq(Client) /\ Len(<<c>>) = 1 /\ <<c>>[1] = c /\ Len(s) \in Nat
  BY LenProperties
<1> DEFINE q == <<c>> \o s
<1>2. /\ q \in Seq(Client) /\ Len(q) = Len(s) + 1
      /\ \A i \in 1..(Len(s) + 1) : q[i] = IF i =< 1 THEN c ELSE s[i - 1]
  <2>1. /\ q \in Seq(Client) /\ Len(q) = 1 + Len(s)
        /\ \A i \in 1..(1 + Len(s)) : q[i] = IF i <= 1 THEN <<c>>[i] ELSE s[i - 1]
    BY <1>1, ConcatProperties
  <2> HIDE DEF q
  <2>2. ASSUME NEW i \in 1..(Len(s) + 1) PROVE q[i] = IF i =< 1 THEN c ELSE s[i - 1]
    <3>1. i \in 1..(1 + Len(s)) /\ (i =< 1 => i = 1)
      BY <1>1
    <3>2. QED BY <1>1, <2>1, <3>1
  <2>3. QED BY <1>1, <2>1, <2>2
<1>3. ASSUME NEW d \in Client PROVE <<c>> \o Append(s, d) = Append(q, d)
  <2>1. <<d>> \in Seq(Client)
    OBVIOUS
  <2>2. Append(s, d) = s \o <<d>> /\ Append(q, d) = q \o <<d>>
    BY <1>2, AppendIsConcat
  <2>3. <<c>> \o (s \o <<d>>) = q \o <<d>>
    BY <1>1, <2>1, ConcatAssociative
  <2>4. QED BY <2>2, <2>3
<1> HIDE DEF q
<1>4. q # <<>> /\ DOMAIN q = 1..(Len(s) + 1) /\ q[1] = c
      /\ \A i \in 1..Len(s) : q[i + 1] = s[i]
  BY <1>1, <1>2, EmptySeq, LenProperties
<1>5. Head(q) = c /\ Tail(q) = s
  <2>1. /\ Head(q) = q[1] /\ Tail(q) \in Seq(Client) /\ Len(Tail(q)) = Len(q) - 1
        /\ \A i \in 1..Len(Tail(q)) : Tail(q)[i] = q[i + 1]
    BY <1>2, <1>4, HeadTailProperties
  <2>2. Tail(q) = s
    BY <1>1, <1>2, <1>4, <2>1, SeqEqual
  <2>3. QED BY <1>4, <2>1, <2>2
<1>6. QED BY <1>2, <1>3, <1>4, <1>5 DEF q

\* Whoever waits or is served is in the queue, and nobody else.
LEMMA QueueFacts ==
  ASSUME TypeOK
  PROVE  /\ Queue \in Seq(Client)
         /\ \A c \in Client : (\E i \in DOMAIN Queue : Queue[i] = c) <=> Waits(c) \/ c = conn
<1>1. backlog \in Seq(Client) /\ DOMAIN backlog = 1..Len(backlog) /\ Len(backlog) \in Nat
  BY LenProperties DEF TypeOK
<1>2. CASE conn = "none"
  BY <1>1, <1>2 DEF Queue, Waits, ConstantsAssumption
<1>3. CASE conn \in Client
  <2>1. Queue = <<conn>> \o backlog
    BY <1>3 DEF Queue, ConstantsAssumption
  <2>2. /\ Queue \in Seq(Client) /\ DOMAIN Queue = 1..(Len(backlog) + 1)
        /\ Queue[1] = conn /\ \A i \in 1..Len(backlog) : Queue[i + 1] = backlog[i]
    BY <1>1, <1>3, <2>1, Queues
  <2>3. ASSUME NEW c \in Client, NEW i \in DOMAIN Queue, Queue[i] = c, c # conn
        PROVE  Waits(c)
    <3>1. i - 1 \in 1..Len(backlog) /\ (i - 1) + 1 = i
      BY <1>1, <2>2, <2>3
    <3>2. Queue[(i - 1) + 1] = backlog[i - 1]
      BY <2>2, <3>1
    <3>3. QED BY <2>3, <3>1, <3>2 DEF Waits
  <2>4. ASSUME NEW c \in Client, NEW i \in 1..Len(backlog), backlog[i] = c
        PROVE  i + 1 \in DOMAIN Queue /\ Queue[i + 1] = c
    BY <1>1, <2>2, <2>4
  <2>5. 1 \in DOMAIN Queue
    BY <1>1, <2>2
  <2>6. QED BY <2>2, <2>3, <2>4, <2>5 DEF Waits
<1>4. QED BY <1>2, <1>3 DEF TypeOK

\* A reply is what becomes due when a line is typed.
LEMMA DueFacts ==
  ASSUME NEW c \in Client, line[c] \in Line
  PROVE  /\ Due(c) \in Seq(Text) /\ Len(Due(c)) = Width(c)
         /\ \A i \in 1..Width(c) : Due(c)[i] = Upper(line[c][i])
<1>1. line[c] # <<>> /\ Width(c) \in Nat /\ Width(c) =< Len(line[c])
  BY LineFacts, WidthFacts
<1>2. Due(c) = [i \in 1..Width(c) |-> Upper(line[c][i])]
  BY <1>1 DEF Due, Reply, Width
<1>3. \A i \in 1..Width(c) : Upper(line[c][i]) \in Text
  BY <1>1, LineFacts
<1>4. QED BY <1>1, <1>2, <1>3

LEMMA Grouped ==
  ASSUME NEW s \in Seq(Text), NEW t \in Seq(Text), NEW u \in Seq(Text)
  PROVE  (s \o t) \o u = s \o (t \o u)
<1>1. s \in Seq(Text) /\ t \in Seq(Text) /\ u \in Seq(Text)
  OBVIOUS
<1>2. QED BY ONLY <1>1

LEMMA Joined ==
  ASSUME NEW s \in Seq(Text), NEW t \in Seq(Text)
  PROVE  /\ s \o t \in Seq(Text) /\ Len(s \o t) = Len(s) + Len(t)
         /\ \A i \in 1..Len(s) : (s \o t)[i] = s[i]
         /\ \A i \in 1..Len(t) : (s \o t)[Len(s) + i] = t[i]
<1>1. Len(s) \in Nat /\ Len(t) \in Nat
  BY LenProperties
<1> DEFINE u == s \o t
<1>2. /\ u \in Seq(Text) /\ Len(u) = Len(s) + Len(t)
      /\ \A i \in 1..(Len(s) + Len(t)) : u[i] = IF i <= Len(s) THEN s[i] ELSE t[i - Len(s)]
  BY ConcatProperties
<1> HIDE DEF u
<1>3. ASSUME NEW i \in 1..Len(s) PROVE u[i] = s[i]
  <2>1. i \in 1..(Len(s) + Len(t)) /\ i <= Len(s)
    BY <1>1
  <2>2. QED BY <1>2, <2>1
<1>4. ASSUME NEW i \in 1..Len(t) PROVE u[Len(s) + i] = t[i]
  <2>1. /\ Len(s) + i \in 1..(Len(s) + Len(t)) /\ ~(Len(s) + i <= Len(s))
        /\ (Len(s) + i) - Len(s) = i
    BY <1>1
  <2>2. QED BY <1>2, <2>1
<1>5. QED BY <1>2, <1>3, <1>4 DEF u

\* Bytes that a client reads have been sent to it before.
LEMMA ReadAgain ==
  ASSUME NEW p \in Seq(Text), NEW t \in Seq(Text), NEW k \in 1..Len(t)
  PROVE  (p \o SubSeq(t, 1, k)) \o SubSeq(t, k + 1, Len(t)) = p \o t
<1>1. Len(t) \in Nat /\ \A i \in 1..Len(t) : t[i] \in Text
  BY LenProperties, ElementOfSeq
<1>2. SubSeq(t, 1, k) \in Seq(Text) /\ SubSeq(t, k + 1, Len(t)) \in Seq(Text)
  BY <1>1, Portion, SubSeqProperties
<1>3. SubSeq(t, 1, k) \o SubSeq(t, k + 1, Len(t)) = t
  <2>1. 1 \in 1..(Len(t) + 1) /\ k \in (1 - 1)..Len(t) /\ Len(t) \in k..Len(t)
    BY <1>1
  <2>2. SubSeq(t, 1, k) \o SubSeq(t, k + 1, Len(t)) = SubSeq(t, 1, Len(t))
    BY <2>1, ConcatAdjacentSubSeq
  <2>3. SubSeq(t, 1, Len(t)) = t
    BY SubSeqFull
  <2>4. QED BY <2>2, <2>3
<1> DEFINE a == SubSeq(t, 1, k)
<1> DEFINE b == SubSeq(t, k + 1, Len(t))
<1> HIDE DEF a, b
<1>4. a \in Seq(Text) /\ b \in Seq(Text) /\ a \o b = t
  BY <1>2, <1>3 DEF a, b
<1>5. (p \o a) \o b = p \o (a \o b)
  <2>1. p \in Seq(Text) /\ a \in Seq(Text) /\ b \in Seq(Text)
    BY <1>4
  <2>2. QED BY ONLY <2>1
<1>6. QED BY <1>4, <1>5 DEF a, b

LEMMA ServiceInit == Init => ES!Init
<1> SUFFICES ASSUME Init PROVE ES!Init
  OBVIOUS
<1>1. \A c \in Client : Due(c) = <<>> /\ printed[c] \o toClient[c] = <<>> /\ ~Killed(c)
  BY EmptySeq, ConcatEmptySeq DEF Init, Due, Killed
<1>2. QED BY <1>1 DEF Init, ES!Init

\* Typing and coming, leaving: what the clients do.
LEMMA ClientServed ==
  ASSUME Inv, NEW c \in Client, Fgets(c) \/ ClientStep(c) \/ Kill(c)
  PROVE  ES!Next \/ UNCHANGED esVars
<1> USE DEF CMove, server, client, streams
<1>1. TypeOK /\ TypeOK' /\ PlaceInv(c) /\ BytesInv(c)
  BY TypeStep DEF Inv, QueueInv, LineInv, Next
<1>2. ASSUME UNCHANGED <<line, printed, toClient, closed>>, Ended' = Ended
      PROVE  UNCHANGED <<DueAll, SentAll, closed, Ended>>
  BY <1>2 DEF DueAll, SentAll, Due, Reply, Terminated
<1>3. ASSUME UNCHANGED <<conn, backlog>> PROVE Queue' = Queue
  BY <1>3 DEF Queue
<1>4. ASSUME cpc[c] \in {"fgets", "connect"} PROVE c \notin ES!Known
  <2>1. ~Waits(c) /\ c # conn /\ c \notin closed
    BY <1>1, <1>4 DEF PlaceInv
  <2>2. ~(\E i \in DOMAIN Queue : Queue[i] = c)
    BY <1>1, <2>1, QueueFacts
  <2>3. QED BY <2>1, <2>2 DEF ES!Known, Queue
<1>5. CASE Fgets(c)
  <2>1. line[c] = <<>> /\ line'[c] \in Line /\ \A d \in Client \ {c} : line'[d] = line[d]
    BY <1>1, <1>5 DEF Fgets, BytesInv, TypeOK
  <2>2. Due(c) = <<>> /\ Due(c)' \in Seq(Text)
    <3>1. Due(c) = <<>>
      BY <2>1 DEF Due
    <3>2. ASSUME NEW l \in Line
          PROVE  [i \in 1..(IF Last(l) = "nl" THEN Len(l) - 1 ELSE Len(l)) |-> Upper(l[i])]
                   \in Seq(Text)
      <4>1. Len(l) \in Nat \ {0} /\ \A i \in 1..Len(l) : Upper(l[i]) \in Text
        BY LineFacts
      <4> DEFINE m == IF Last(l) = "nl" THEN Len(l) - 1 ELSE Len(l)
      <4>2. m \in 0..Len(l)
        BY <4>1
      <4> HIDE DEF m
      <4>3. [i \in 1..m |-> Upper(l[i])] \in Seq(Text)
        BY <4>1, <4>2
      <4>4. QED BY <4>3 DEF m
    <3>3. line'[c] # <<>>
      BY <2>1, LineFacts
    <3>4. QED BY <2>1, <3>1, <3>2, <3>3 DEF Due, Reply, Terminated
  <2>3. DueAll' = [DueAll EXCEPT ![c] = DueAll'[c]]
    <3>1. \A d \in Client \ {c} : Due(d)' = Due(d)
      BY <2>1 DEF Due, Reply, Terminated
    <3>2. QED BY <3>1 DEF DueAll
  <2>4. UNCHANGED <<Queue, SentAll, closed, Ended>>
    BY <1>3, <1>5 DEF Fgets, SentAll, Ended, Killed, Queue, TypeOK
  <2>5. c \notin ES!Known
    BY <1>4, <1>5 DEF Fgets
  <2>6. ES!Ask(c)
    BY <2>2, <2>3, <2>4, <2>5 DEF ES!Ask, DueAll, Queue, SentAll, Ended
  <2>7. QED BY <2>6 DEF ES!Next
<1>6. CASE Connect(c)
  <2>1. Ended' = Ended
    BY <1>1, <1>6 DEF Connect, Ended, Killed, TypeOK
  <2>2. UNCHANGED <<DueAll, SentAll, closed, Ended>>
    BY <1>2, <1>6, <2>1 DEF Connect
  <2>3. Queue' = Append(Queue, c)
    <3>1. backlog \in Seq(Client) /\ backlog' = Append(backlog, c) /\ conn' = conn
      BY <1>1, <1>6 DEF Connect, TypeOK
    <3>2. CASE conn = "none"
      BY <3>1, <3>2 DEF Queue
    <3>3. CASE conn \in Client
      <4>1. conn # "none"
        BY <3>3
      <4>2. <<conn>> \o Append(backlog, c) = Append(<<conn>> \o backlog, c)
        BY <3>1, <3>3, Queues
      <4>3. QED BY <3>1, <4>1, <4>2 DEF Queue
    <3>4. QED BY <1>1, <3>2, <3>3 DEF TypeOK
  <2>4. c \notin ES!Known
    BY <1>4, <1>6 DEF Connect
  <2>5. ES!Come(c)
    BY <2>2, <2>3, <2>4 DEF ES!Come, DueAll, Queue, SentAll, Ended
  <2>6. QED BY <2>5 DEF ES!Next
<1>7. CASE WriteLine(c) \/ EndOfReply(c)
  <2>1. Ended' = Ended
    BY <1>1, <1>7 DEF WriteLine, EndOfReply, Ended, Killed, TypeOK
  <2>2. UNCHANGED <<DueAll, SentAll, closed, Ended>>
    BY <1>2, <1>7, <2>1 DEF WriteLine, EndOfReply
  <2>3. QED BY <1>3, <1>7, <2>2 DEF WriteLine, EndOfReply, esVars
<1>8. CASE RecvReply(c)
  <2>1. PICK k \in 1..Len(toClient[c]) :
          /\ printed' = [printed EXCEPT ![c] = @ \o SubSeq(toClient[c], 1, k)]
          /\ toClient' = [toClient EXCEPT ![c] = SubSeq(@, k + 1, Len(@))]
    BY <1>8 DEF RecvReply
  <2>2. printed'[c] \o toClient'[c] = printed[c] \o toClient[c]
    <3>1. printed[c] \in Seq(Text) /\ toClient[c] \in Seq(Text)
      BY <1>1 DEF TypeOK
    <3>2. printed'[c] = printed[c] \o SubSeq(toClient[c], 1, k)
          /\ toClient'[c] = SubSeq(toClient[c], k + 1, Len(toClient[c]))
      BY <1>1, <2>1 DEF TypeOK
    <3>3. (printed[c] \o SubSeq(toClient[c], 1, k)) \o SubSeq(toClient[c], k + 1, Len(toClient[c]))
            = printed[c] \o toClient[c]
      BY <3>1, ReadAgain
    <3>4. QED BY <3>2, <3>3
  <2>3. \A d \in Client \ {c} : UNCHANGED <<printed[d], toClient[d]>>
    BY <1>1, <2>1 DEF TypeOK
  <2>4. UNCHANGED SentAll
    BY <2>2, <2>3 DEF SentAll
  <2>5. UNCHANGED <<DueAll, closed, Ended>>
    BY <1>8 DEF RecvReply, DueAll, Due, Reply, Terminated, Ended, Killed
  <2>6. QED BY <1>3, <1>8, <2>4, <2>5 DEF RecvReply, esVars
<1>9. CASE Kill(c)
  <2>1. Ended' = Ended \cup {c}
    BY <1>1, <1>9 DEF Kill, Ended, Killed, TypeOK
  <2>2. UNCHANGED <<DueAll, SentAll, closed>>
    BY <1>9 DEF Kill, DueAll, SentAll, Due, Reply, Terminated
  <2>3. ES!Go(c)
    BY <1>3, <1>9, <2>1, <2>2 DEF Kill, ES!Go, DueAll, Queue, SentAll, Ended
  <2>4. QED BY <2>3 DEF ES!Next
<1>10. QED BY <1>5, <1>6, <1>7, <1>8, <1>9 DEF ClientStep

\* The server writes the byte that is due, and closes when nothing is, or nobody listens.
LEMMA ServerServes ==
  ASSUME Inv, ServerStep
  PROVE  ES!Next \/ UNCHANGED esVars
<1> USE DEF server, client, streams
<1>1. TypeOK /\ \A c \in Client : PlaceInv(c) /\ BytesInv(c)
  BY DEF Inv, QueueInv, LineInv
<1>2. UNCHANGED <<cpc, line, printed>> /\ UNCHANGED <<DueAll, Ended>>
  <2>1. UNCHANGED <<cpc, line, printed>>
    BY DEF ServerStep, Accept, ReadByte, ReadEnd, WriteByte, Close
  <2>2. QED BY <2>1 DEF DueAll, Due, Reply, Terminated, Ended, Killed
<1>3. ASSUME UNCHANGED toClient PROVE UNCHANGED SentAll
  BY <1>2, <1>3 DEF SentAll
<1>4. ASSUME UNCHANGED <<conn, backlog>> PROVE UNCHANGED Queue
  BY <1>4 DEF Queue
<1>5. ASSUME spc \in {"read", "write", "close"}
      PROVE  /\ conn \in Client /\ Queue # <<>> /\ Head(Queue) = conn /\ Tail(Queue) = backlog
             /\ cpc[conn] \in {"write", "reply", "killed"}
             /\ line[conn] \in Line
  <2>1. conn \in Client /\ conn # "none" /\ backlog \in Seq(Client)
    BY <1>1, <1>5 DEF TypeOK, ConstantsAssumption
  <2>2. Queue = <<conn>> \o backlog
    BY <2>1 DEF Queue
  <2>3. Queue # <<>> /\ Head(Queue) = conn /\ Tail(Queue) = backlog
    BY <2>1, <2>2, Queues
  <2>4. cpc[conn] \in {"write", "reply", "killed"}
    BY <1>1, <2>1 DEF TypeOK, PlaceInv
  <2>5. QED BY <1>1, <2>1, <2>3, <2>4 DEF BytesInv
<1>6. CASE Accept
  <2>1. /\ conn = "none" /\ backlog \in Seq(Client) /\ backlog # <<>>
        /\ conn' = Head(backlog) /\ backlog' = Tail(backlog)
    BY <1>1, <1>6 DEF Accept, TypeOK
  <2>2. Queue = backlog /\ conn' \in Client /\ backlog' \in Seq(Client)
    BY <2>1, HeadTailProperties DEF Queue
  <2>3. Queue' = <<conn'>> \o backlog'
    BY <2>2 DEF Queue, ConstantsAssumption
  <2>4. Queue' = Queue
    <3>1. /\ Queue' \in Seq(Client) /\ Len(Queue') = Len(backlog') + 1 /\ Queue'[1] = conn'
          /\ \A i \in 1..Len(backlog') : Queue'[i + 1] = backlog'[i]
      BY <2>2, <2>3, Queues, LenProperties
    <3>2. /\ Len(backlog) \in Nat \ {0} /\ Len(backlog') = Len(backlog) - 1
          /\ conn' = backlog[1] /\ \A i \in 1..Len(backlog') : backlog'[i] = backlog[i + 1]
      BY <2>1, HeadTailProperties, EmptySeq
    <3>3. ASSUME NEW i \in 1..Len(backlog) PROVE Queue'[i] = backlog[i]
      <4>1. CASE i = 1
        BY <3>1, <3>2, <4>1
      <4>2. CASE i # 1
        <5>1. PICK j \in 1..Len(backlog') : i = j + 1
          <6>1. i - 1 \in 1..Len(backlog') /\ i = (i - 1) + 1
            BY <3>2, <4>2
          <6>2. QED BY <6>1
        <5>2. QED BY <3>1, <3>2, <5>1
      <4>3. QED BY <4>1, <4>2
    <3>4. Len(Queue') = Len(backlog)
      BY <3>1, <3>2
    <3>5. Queue' = backlog
      BY <2>1, <3>1, <3>3, <3>4, SeqEqual
    <3>6. QED BY <2>2, <3>5
  <2>5. UNCHANGED <<SentAll, closed>>
    BY <1>3, <1>6 DEF Accept
  <2>6. QED BY <1>2, <2>4, <2>5 DEF esVars
<1>7. CASE ReadByte \/ ReadEnd
  BY <1>2, <1>3, <1>4, <1>7 DEF ReadByte, ReadEnd, esVars
<1>8. CASE WriteByte
  <2>1. /\ conn \in Client /\ Queue # <<>> /\ Head(Queue) = conn
        /\ cpc[conn] \in {"write", "reply", "killed"} /\ line[conn] \in Line
        /\ spc = "write"
    BY <1>5, <1>8 DEF WriteByte
  <2>2. UNCHANGED <<Queue, closed>>
    BY <1>4, <1>8 DEF WriteByte
  <2>3. CASE Killed(conn)
    BY <1>2, <1>3, <1>8, <2>2, <2>3 DEF WriteByte, esVars
  <2>4. CASE ~Killed(conn)
    <3>1. cpc[conn] = "reply"
      BY <1>1, <2>1, <2>4 DEF Killed, PlaceInv
    <3>2. Echoed(conn) < Width(conn) /\ byte = line[conn][Echoed(conn) + 1]
      BY <1>1, <2>1, <3>1 DEF BytesInv
    <3>3. printed[conn] \in Seq(Text) /\ toClient[conn] \in Seq(Text)
      BY <1>1, <2>1 DEF TypeOK
    <3> DEFINE sent == printed[conn] \o toClient[conn]
    <3>4. sent \in Seq(Text) /\ Len(sent) = Echoed(conn)
      BY <3>3, ConcatProperties DEF Echoed
    <3>5. /\ Len(Due(conn)) = Width(conn) /\ Echoed(conn) + 1 \in 1..Width(conn)
          /\ Due(conn)[Echoed(conn) + 1] = Upper(byte)
          /\ Upper(byte) \in Text
      <4>1. Width(conn) \in Nat /\ Width(conn) =< Len(line[conn])
        BY <2>1, WidthFacts
      <4>2. Echoed(conn) + 1 \in 1..Width(conn) /\ Echoed(conn) + 1 \in 1..Len(line[conn])
        <5>1. Len(printed[conn]) \in Nat /\ Len(toClient[conn]) \in Nat
          BY <3>3, LenProperties
        <5>2. Len(line[conn]) \in Nat
          BY <2>1, LineFacts
        <5>3. Echoed(conn) \in Nat
          <6>1. PICK m \in Nat, n \in Nat : m = Len(printed[conn]) /\ n = Len(toClient[conn])
            BY <5>1
          <6>2. Echoed(conn) = m + n
            BY ONLY <6>1, Zenon DEF Echoed
          <6>3. QED BY ONLY <6>2, m \in Nat, n \in Nat
        <5>4. QED BY ONLY <3>2, <4>1, <5>2, <5>3
      <4>3. QED BY <2>1, <3>2, <4>2, DueFacts, LineFacts
    <3>6. /\ toClient' = [toClient EXCEPT ![conn] = Append(@, Upper(byte))]
          /\ toClient'[conn] = Append(toClient[conn], Upper(byte))
      BY <1>1, <1>8, <2>1, <2>4 DEF WriteByte, TypeOK
    <3>7. printed[conn] \o Append(toClient[conn], Upper(byte)) = Append(sent, Upper(byte))
      <4>1. /\ Append(toClient[conn], Upper(byte)) = toClient[conn] \o <<Upper(byte)>>
            /\ Append(sent, Upper(byte)) = sent \o <<Upper(byte)>>
        BY <3>3, <3>4, <3>5, AppendIsConcat
      <4>2. <<Upper(byte)>> \in Seq(Text)
        BY <3>5
      <4>3. (printed[conn] \o toClient[conn]) \o <<Upper(byte)>>
              = printed[conn] \o (toClient[conn] \o <<Upper(byte)>>)
        BY ONLY <3>3, <4>2, Grouped, Zenon
      <4>4. QED BY <4>1, <4>3
    <3>8. SentAll' = [SentAll EXCEPT ![conn] = Append(@, Due(conn)[Len(@) + 1])]
      <4>1. \A d \in Client \ {conn} : UNCHANGED <<printed[d], toClient[d]>>
        BY <1>1, <1>2, <3>6 DEF TypeOK
      <4>2. printed'[conn] \o toClient'[conn] = Append(sent, Due(conn)[Len(sent) + 1])
        BY <1>2, <3>4, <3>5, <3>6, <3>7
      <4>3. QED BY <2>1, <4>1, <4>2 DEF SentAll
    <3>9. SentAll[conn] = sent /\ DueAll[conn] = Due(conn) /\ conn \notin Ended
      BY <2>1, <2>4 DEF SentAll, DueAll, Ended
    <3> HIDE DEF sent
    <3>10. Len(SentAll[conn]) < Len(DueAll[conn])
      BY <3>2, <3>4, <3>5, <3>9
    <3>11. SentAll' = [SentAll EXCEPT ![conn] = Append(@, DueAll[conn][Len(@) + 1])]
      BY ONLY <3>8, <3>9
    <3>12. PICK c \in Client : c = conn
      BY <2>1
    <3>13. ES!Answer(c)
      <4>1. ES!Serves(c)
        BY <2>1, <3>12 DEF ES!Serves, Queue
      <4>2. c \notin Ended /\ Len(SentAll[c]) < Len(DueAll[c])
        BY ONLY <3>9, <3>10, <3>12
      <4>3. SentAll' = [SentAll EXCEPT ![c] = Append(@, DueAll[c][Len(@) + 1])]
        BY ONLY <3>11, <3>12
      <4>4. UNCHANGED <<DueAll, Queue, closed, Ended>>
        BY <1>2, <2>2
      <4>5. QED
        BY ONLY <4>1, <4>2, <4>3, <4>4, Zenon DEF ES!Answer, DueAll, Queue, SentAll, Ended
    <3>14. QED BY <3>13 DEF ES!Next
  <2>5. QED BY <2>3, <2>4
<1>9. CASE Close
  <2>1. /\ conn \in Client /\ Queue # <<>> /\ Head(Queue) = conn /\ Tail(Queue) = backlog
        /\ cpc[conn] \in {"write", "reply", "killed"} /\ line[conn] \in Line
        /\ spc = "close"
    BY <1>5, <1>9 DEF Close
  <2>2. Queue' = Tail(Queue) /\ closed' = closed \cup {conn} /\ UNCHANGED SentAll
    BY <1>3, <1>9, <2>1 DEF Close, Queue
  <2>3. CASE Killed(conn)
    <3>1. conn \in Ended
      BY <2>1, <2>3 DEF Ended
    <3>2. ES!Finish(conn)
      BY <1>2, <2>1, <2>2, <3>1 DEF ES!Finish, ES!Serves, DueAll, Queue, SentAll, Ended
    <3>3. QED BY <2>1, <3>2 DEF ES!Next
  <2>4. CASE ~Killed(conn)
    <3>1. cpc[conn] = "reply" /\ Echoed(conn) = Width(conn)
      BY <1>1, <2>1, <2>4 DEF Killed, PlaceInv, BytesInv
    <3>2. SentAll[conn] = DueAll[conn]
      <4>1. ShownInv(conn) /\ ReplyInv(conn)
        BY <1>1, <2>1, <2>4, <3>1 DEF BytesInv
      <4>2. /\ printed[conn] \in Seq(Text) /\ toClient[conn] \in Seq(Text)
            /\ Len(printed[conn]) \in Nat /\ Len(toClient[conn]) \in Nat
        BY <1>1, <2>1, LenProperties DEF TypeOK
      <4> DEFINE sent == printed[conn] \o toClient[conn]
      <4>3. /\ sent \in Seq(Text) /\ Len(sent) = Len(printed[conn]) + Len(toClient[conn])
            /\ \A i \in 1..Len(printed[conn]) : sent[i] = printed[conn][i]
            /\ \A i \in 1..Len(toClient[conn]) : sent[Len(printed[conn]) + i] = toClient[conn][i]
        BY <4>2, Joined
      <4> HIDE DEF sent
      <4>4. /\ Due(conn) \in Seq(Text) /\ Len(Due(conn)) = Width(conn)
            /\ \A i \in 1..Width(conn) : Due(conn)[i] = Upper(line[conn][i])
        BY <2>1, DueFacts
      <4>5. Len(sent) = Width(conn)
        BY <3>1, <4>3 DEF Echoed
      <4>6. ASSUME NEW i \in 1..Len(sent) PROVE sent[i] = Upper(line[conn][i])
        <5>1. CASE i \in 1..Len(printed[conn])
          BY <4>1, <4>3, <5>1 DEF ShownInv
        <5>2. CASE i \notin 1..Len(printed[conn])
          <6>1. PICK j \in 1..Len(toClient[conn]) : i = Len(printed[conn]) + j
            <7>1. PICK m \in Nat, n \in Nat : m = Len(printed[conn]) /\ n = Len(toClient[conn])
              BY <4>2
            <7>2. i \in 1..(m + n) /\ i \notin 1..m
              BY <4>3, <5>2, <7>1
            <7>3. i - m \in 1..n /\ i = m + (i - m)
              BY ONLY <7>2, m \in Nat, n \in Nat
            <7>4. QED BY <7>1, <7>3
          <6>2. sent[i] = toClient[conn][j]
            BY <4>3, <6>1
          <6>3. QED BY <4>1, <6>1, <6>2 DEF ReplyInv
        <5>3. QED BY <5>1, <5>2
      <4>7. sent = Due(conn)
        <5>1. \A i \in 1..Len(sent) : sent[i] = Due(conn)[i]
          BY <4>4, <4>5, <4>6
        <5>2. QED BY <4>3, <4>4, <4>5, <5>1, SeqEqual
      <4>8. QED BY <2>1, <4>7 DEF SentAll, DueAll, sent
    <3>3. ES!Finish(conn)
      BY <1>2, <2>1, <2>2, <3>2 DEF ES!Finish, ES!Serves, DueAll, Queue, SentAll, Ended
    <3>4. QED BY <2>1, <3>3 DEF ES!Next
  <2>5. QED BY <2>3, <2>4
<1>10. QED BY <1>6, <1>7, <1>8, <1>9 DEF ServerStep

\* ex1: one connection at a time and in their order, each byte of a reply in its turn, and
\* nobody left before the end, for any clients and lines: every step of the program is a
\* step of EchoService, or changes nothing in its view.
THEOREM ServesInOrder == Spec => ImplementsEchoService
<1>1. Init => ES!Init
  BY ServiceInit
<1>2. ASSUME Inv, [Next]_vars PROVE [ES!Next]_ES!vars
  <2>1. UNCHANGED vars => UNCHANGED esVars
    BY DEF vars, server, client, streams, esVars, DueAll, Due, Reply, Terminated,
           Queue, SentAll, Ended, Killed
  <2>2. ES!Next \/ UNCHANGED esVars
    BY <1>2, <2>1, ClientServed, ServerServes DEF Next, Quiet
  <2>3. QED BY <2>2 DEF ES!vars, esVars, DueAll, Queue, SentAll, Ended
<1>3. QED BY Invariance, <1>1, <1>2, PTL DEF Spec, ImplementsEchoService, ES!Spec
=============================================================================
