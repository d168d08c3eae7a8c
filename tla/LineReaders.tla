---------------------------- MODULE LineReaders ----------------------------
(***************************************************************************)
(* sock_aux.c of Ficha6: myReadBlock, myReadLine1 and myReadLine2, at the  *)
(* grain of their calls to read, which returns what has arrived.  The last *)
(* one reads ahead into a static buffer that outlives the call.  A program *)
(* uses one of them, on one connection.                                    *)
(***************************************************************************)
EXTENDS Integers, Sequences

CONSTANTS
  Input,       \* bound: the streams of bytes that a peer may send, "nl" ends a line
  Counts,      \* bound: the values of the parameter count
  LbufSize,    \* sizeof(lbuf), 4096 in the code
  MaxCalls     \* bound: the calls that are followed

ASSUME ConstantsAssumption ==
  /\ Input \subseteq Seq(STRING) /\ Counts \subseteq Int
  /\ LbufSize \in Nat \ {0} /\ MaxCalls \in Nat

VARIABLES
  reader,      \* "myReadBlock", "myReadLine1" or "myReadLine2"
  input,       \* what the peer sends before it closes
  stream,      \* the part that no read has returned
  lbuf,        \* bytes read ahead; lbuf_n is its length
  pc, count,   \* where the call is, and the bytes it has room for
  buf,         \* what it has stored so far; n is its length
  calls,       \* the calls that have begun
  given, last, \* what they returned, all together and the last one
  spoiled      \* (history) memcpy was undefined: lbuf may not hold what it should

vars == <<reader, input, stream, lbuf, pc, count, buf, calls, given, last, spoiled>>

Init ==
  /\ reader \in {"myReadBlock", "myReadLine1", "myReadLine2"}
  /\ input \in Input /\ stream = input
  /\ lbuf = <<>> /\ buf = <<>> /\ given = <<>> /\ last = <<>>
  /\ pc = "idle" /\ count = 0 /\ calls = 0 /\ spoiled = FALSE

Cut(s, k) == SubSeq(s, k + 1, Len(s))
Least(i, j) == IF i < j THEN i ELSE j

Return(bytes) ==
  /\ last' = bytes /\ given' = given \o bytes
  /\ buf' = <<>>

Goes(to, bytes) == pc' = to /\ buf' = bytes /\ UNCHANGED <<given, last>>

\* mutant of Room: no place is left for the '\0'
RoomWithoutEnd(k) == k

\* --count: a line is ended by '\0'.
Room(k) == IF reader = "myReadBlock" THEN k ELSE k - 1

Call(k) ==
  /\ pc = "idle" /\ calls < MaxCalls
  /\ calls' = calls + 1
  /\ IF Room(k) =< 0
     THEN Return(<<>>) /\ UNCHANGED <<pc, count>>
     ELSE /\ Goes(IF reader = "myReadLine2" THEN "copy" ELSE "read", <<>>)
          /\ count' = Room(k)
  /\ UNCHANGED <<reader, input, stream, lbuf, spoiled>>

\* The call is over with these bytes.
Full(bytes) ==
  \/ Len(bytes) = count
  \/ reader # "myReadBlock" /\ bytes[Len(bytes)] = "nl"

\* myReadBlock and myReadLine1 read into the caller's buffer: all that is missing, as
\* far as it has arrived, and a single byte.
ReadSome ==
  /\ pc = "read" /\ reader # "myReadLine2" /\ stream # <<>>
  /\ \E k \in 1..Least(Len(stream), count - Len(buf)) :
       /\ reader = "myReadLine1" => k = 1
       /\ LET bytes == buf \o SubSeq(stream, 1, k) IN
            IF Full(bytes) THEN Return(bytes) /\ pc' = "idle" ELSE Goes("read", bytes)
       /\ stream' = Cut(stream, k)
  /\ UNCHANGED <<reader, input, lbuf, count, calls, spoiled>>

\* myReadLine2 reads ahead.
Fill ==
  /\ pc = "read" /\ reader = "myReadLine2" /\ stream # <<>>
  /\ \E k \in 1..Least(Len(stream), LbufSize) :
       /\ lbuf' = SubSeq(stream, 1, k)
       /\ stream' = Cut(stream, k)
  /\ pc' = "copy"
  /\ UNCHANGED <<reader, input, count, buf, calls, given, last, spoiled>>

\* nproc may be k after the inner loop: up to n bytes of s, up to a newline.
Processed(s, n, k) ==
  /\ k = n \/ k = Len(s) \/ s[k] = "nl"
  /\ \A j \in 1..(k - 1) : s[j] # "nl" /\ j # n

\* mutant of Left: the bytes behind the line are forgotten
LeftForgotten(s, k) == <<>>

\* The remaining bytes are moved to the beginning of lbuf ...
Left(s, k) == Cut(s, k)

\* ... but memcpy is not defined when they are more than those before them, as the regions
\* overlap: bytes of lbuf are left there, not necessarily these.
Undefined(s, k) ==
  IF Len(s) - k > k THEN [1..(Len(s) - k) -> {s[i] : i \in 1..Len(s)}] ELSE {}

CopyLine ==
  /\ pc = "copy" /\ lbuf # <<>>
  /\ \E k \in 1..Len(lbuf) :
       /\ Processed(lbuf, count - Len(buf), k)
       /\ LET bytes == buf \o SubSeq(lbuf, 1, k) IN
            IF Full(bytes) THEN Return(bytes) /\ pc' = "idle" ELSE Goes("read", bytes)
       /\ \/ lbuf' = Left(lbuf, k) /\ UNCHANGED spoiled
          \/ lbuf' \in Undefined(lbuf, k) /\ spoiled' = TRUE
  /\ UNCHANGED <<reader, input, stream, count, calls>>

NothingAhead ==
  /\ pc = "copy" /\ lbuf = <<>> /\ pc' = "read"
  /\ UNCHANGED <<reader, input, stream, lbuf, count, buf, calls, given, last, spoiled>>

\* mutant of EndOfStream: only -1 ends the loop
EndIgnored == pc = "read" /\ stream = <<>> /\ UNCHANGED vars

\* read returns 0.
EndOfStream ==
  /\ pc = "read" /\ stream = <<>>
  /\ pc' = "idle" /\ Return(buf)
  /\ UNCHANGED <<reader, input, stream, lbuf, count, calls, spoiled>>

\* read returns -1, which leaves lbuf_n = -1: a further call of myReadLine2 would have
\* no defined behaviour, and none is made.
ReadFails ==
  /\ pc = "read" /\ pc' = "failed"
  /\ Return(buf)
  /\ stream' = <<>>
  /\ UNCHANGED <<reader, input, lbuf, count, calls, spoiled>>

Step == ReadSome \/ Fill \/ CopyLine \/ NothingAhead \/ EndOfStream

Ended == (pc = "failed" \/ (pc = "idle" /\ calls = MaxCalls)) /\ UNCHANGED vars

Next == (\E k \in Counts : Call(k)) \/ Step \/ ReadFails \/ Ended

Spec == Init /\ [][Next]_vars /\ WF_vars(Step)
-----------------------------------------------------------------------------
(* Properties *)

TypeOK ==
  /\ reader \in {"myReadBlock", "myReadLine1", "myReadLine2"}
  /\ input \in Input
  /\ {stream, lbuf, buf, given, last} \subseteq Seq(STRING)
  /\ Len(lbuf) =< LbufSize
  /\ pc \in {"idle", "copy", "read", "failed"}
  /\ spoiled \in BOOLEAN /\ count \in Nat /\ calls \in 0..MaxCalls
  /\ pc \in {"copy", "read"} => Len(buf) < count

\* Byte by byte, in one block or read ahead of the line, in whatever portions the bytes
\* arrive: each call returns the next piece of the stream, all of the line or block that
\* there is room for, and nothing is lost between two calls, repeated or out of order.  The
\* bytes are those that were sent until memcpy has moved some onto themselves (l. 172).
LS == INSTANCE LineSource WITH
        kind <- IF reader = "myReadBlock" THEN "block"
                ELSE IF reader = "myReadLine2" THEN "ahead" ELSE "line",
        rest <- buf \o lbuf \o stream

ImplementsLineSource == LS!Spec

\* The piece and its '\0' fit in the buffer of the caller (l. 133, 141, 158, 182).
FitsBuffer ==
  [][last' # last =>
       \A k \in Counts : Room(k) = count =>
         Len(last') + (IF reader = "myReadBlock" THEN 0 ELSE 1) =< k]_vars

\* Every call returns, as long as the peer sends or closes.
CallReturns == (pc \in {"copy", "read"}) ~> (pc \in {"idle", "failed"})
=============================================================================
