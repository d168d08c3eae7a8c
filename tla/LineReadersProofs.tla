------------------------- MODULE LineReadersProofs -------------------------
(***************************************************************************)
(* The readers of sock_aux.c implement LineSource, for all streams, sizes  *)
(* and portions: what a call holds, what was read ahead and what has not   *)
(* arrived are together the rest of the stream, as many bytes as it has    *)
(* even when memcpy has spoiled some.                                      *)
(***************************************************************************)
EXTENDS LineReaders, SequenceTheorems, TLAPS

Text == Seq(STRING)

Busy == pc \in {"copy", "read"}

Inv ==
  /\ TypeOK
  /\ ~Busy => buf = <<>>
  /\ pc = "read" \/ reader # "myReadLine2" => lbuf = <<>>
  /\ pc = "copy" => reader = "myReadLine2"
  /\ Busy => \E k \in Counts : count = Room(k)
  /\ reader # "myReadBlock" => \A i \in 1..Len(buf) : buf[i] # "nl"

Rest == buf \o lbuf \o stream

USE ConstantsAssumption DEF ConstantsAssumption

-----------------------------------------------------------------------------
(* Sequences *)

LEMMA Split ==
  ASSUME NEW s \in Text, NEW k \in 0..Len(s)
  PROVE  /\ SubSeq(s, 1, k) \in Text /\ Len(SubSeq(s, 1, k)) = k
         /\ \A i \in 1..k : SubSeq(s, 1, k)[i] = s[i]
         /\ Cut(s, k) \in Text /\ Len(Cut(s, k)) = Len(s) - k
         /\ SubSeq(s, 1, k) \o Cut(s, k) = s
<1>0. Len(s) \in Nat BY LenProperties DEF Text
<1>1. \A i \in 1..k : s[i] \in STRING BY <1>0, ElementOfSeq DEF Text
<1>2. \A i \in (k + 1)..Len(s) : s[i] \in STRING BY <1>0, ElementOfSeq DEF Text
<1>3. /\ SubSeq(s, 1, k) \in Text /\ Len(SubSeq(s, 1, k)) = k
      /\ \A i \in 1..k : SubSeq(s, 1, k)[i] = s[i]
  BY <1>0, <1>1, SubSeqProperties DEF Text
<1>4. Cut(s, k) \in Text /\ Len(Cut(s, k)) = Len(s) - k
  BY <1>0, <1>2, SubSeqProperties DEF Text, Cut
<1>5. SubSeq(s, 1, k) \o Cut(s, k) = SubSeq(s, 1, Len(s))
  <2>1. 1 \in 1..(Len(s) + 1) /\ k \in (1 - 1)..Len(s) /\ Len(s) \in k..Len(s) BY <1>0
  <2>2. s \in Seq(STRING) BY DEF Text
  <2>3. SubSeq(s, 1, k) \o SubSeq(s, k + 1, Len(s)) = SubSeq(s, 1, Len(s))
    BY ONLY <2>1, <2>2, ConcatAdjacentSubSeq, Zenon
  <2>4. QED BY ONLY <2>3 DEF Cut
<1>6. SubSeq(s, 1, Len(s)) = s BY SubSeqFull DEF Text
<1>7. QED BY <1>3, <1>4, <1>5, <1>6

LEMMA Joined ==
  ASSUME NEW b \in Text, NEW t \in Text
  PROVE  /\ b \o t \in Text /\ Len(b \o t) = Len(b) + Len(t)
         /\ Len(b) \in Nat /\ Len(t) \in Nat
         /\ \A i \in 1..Len(b) : (b \o t)[i] = b[i]
         /\ SubSeq(b \o t, 1, Len(b)) = b
         /\ SubSeq(b \o t, Len(b) + 1, Len(b \o t)) = t
<1> DEFINE s == b \o t
<1>1. Len(b) \in Nat /\ Len(t) \in Nat BY LenProperties DEF Text
<1>2. s \in Text /\ Len(s) = Len(b) + Len(t)
      /\ \A i \in 1..(Len(b) + Len(t)) : s[i] = IF i <= Len(b) THEN b[i] ELSE t[i - Len(b)]
  BY ConcatProperties DEF Text
<1> HIDE DEF s
<1>3. Len(b) \in 0..Len(s) BY <1>1, <1>2
<1>4. SubSeq(s, 1, Len(b)) = b
  <2>1. SubSeq(s, 1, Len(b)) \in Text /\ Len(SubSeq(s, 1, Len(b))) = Len(b)
        /\ \A i \in 1..Len(b) : SubSeq(s, 1, Len(b))[i] = s[i]
    BY <1>2, <1>3, Split
  <2>2. \A i \in 1..Len(b) : SubSeq(s, 1, Len(b))[i] = b[i] BY <1>1, <1>2, <2>1
  <2>3. QED BY <2>1, <2>2, SeqEqual DEF Text
<1>5. SubSeq(s, Len(b) + 1, Len(s)) = t
  <2>1. \A i \in (Len(b) + 1)..Len(s) : s[i] \in STRING BY <1>1, <1>2, ElementOfSeq DEF Text
  <2>2. /\ SubSeq(s, Len(b) + 1, Len(s)) \in Text
        /\ Len(SubSeq(s, Len(b) + 1, Len(s))) = Len(t)
        /\ \A i \in 1..Len(t) : SubSeq(s, Len(b) + 1, Len(s))[i] = s[Len(b) + i]
    <3>1. Len(b) + 1 \in Int /\ Len(s) \in Int BY <1>1, <1>2
    <3>2. /\ SubSeq(s, Len(b) + 1, Len(s)) \in Seq(STRING)
          /\ Len(SubSeq(s, Len(b) + 1, Len(s))) =
               IF Len(b) + 1 <= Len(s) THEN Len(s) - (Len(b) + 1) + 1 ELSE 0
          /\ \A i \in 1..(Len(s) - (Len(b) + 1) + 1) :
               SubSeq(s, Len(b) + 1, Len(s))[i] = s[Len(b) + 1 + i - 1]
      BY <2>1, <3>1, SubSeqProperties
    <3>3. QED BY <1>1, <1>2, <3>2 DEF Text
  <2>3. ASSUME NEW i \in 1..Len(t) PROVE SubSeq(s, Len(b) + 1, Len(s))[i] = t[i]
    <3>1. SubSeq(s, Len(b) + 1, Len(s))[i] = s[Len(b) + i] BY <2>2
    <3>2. /\ Len(b) + i \in 1..(Len(b) + Len(t))
          /\ ~(Len(b) + i <= Len(b)) /\ (Len(b) + i) - Len(b) = i
      BY ONLY <1>1, i \in 1..Len(t)
    <3>3. s[Len(b) + i] = t[(Len(b) + i) - Len(b)] BY ONLY <1>2, <3>2
    <3>4. QED BY ONLY <3>1, <3>2, <3>3
  <2>4. QED BY <2>2, <2>3, SeqEqual DEF Text
<1>6. QED BY <1>1, <1>2, <1>4, <1>5 DEF s

LEMMA Grouped ==
  ASSUME NEW x \in Text, NEW y \in Text, NEW z \in Text
  PROVE  (x \o y) \o z = x \o (y \o z)
<1>1. x \in Seq(STRING) /\ y \in Seq(STRING) /\ z \in Seq(STRING) BY DEF Text
<1>2. QED BY ONLY <1>1

LEMMA Rejoin ==
  ASSUME NEW b \in Text, NEW s \in Text, NEW k \in 0..Len(s)
  PROVE  (b \o SubSeq(s, 1, k)) \o Cut(s, k) = b \o s
<1>1. SubSeq(s, 1, k) \in Text /\ Cut(s, k) \in Text /\ SubSeq(s, 1, k) \o Cut(s, k) = s
  BY Split
<1>2. (b \o SubSeq(s, 1, k)) \o Cut(s, k) = b \o (SubSeq(s, 1, k) \o Cut(s, k))
  BY ONLY <1>1, b \in Text, Grouped, Zenon
<1>3. QED BY ONLY <1>1, <1>2

LEMMA Moved ==
  ASSUME NEW s \in Text, NEW k \in 1..Len(s), NEW moved \in Undefined(s, k)
  PROVE  moved \in Text /\ Len(moved) = Len(s) - k
<1>1. Len(s) \in Nat BY LenProperties DEF Text
<1>2. \A i \in 1..Len(s) : s[i] \in STRING BY ElementOfSeq DEF Text
<1>3. moved \in [1..(Len(s) - k) -> {s[i] : i \in 1..Len(s)}]
  BY DEF Undefined
<1>4. moved \in [1..(Len(s) - k) -> STRING] BY <1>2, <1>3
<1>5. QED BY <1>1, <1>4 DEF Text

-----------------------------------------------------------------------------
(* What a call holds after it has stored k more bytes, the first ones of s *)

Grown(s, k) == buf \o SubSeq(s, 1, k)

Line == reader # "myReadBlock"

\* Nothing before the last byte ends a line.
OneLine(bytes) == Line => \A i \in 1..(Len(bytes) - 1) : bytes[i] # "nl"

LEMMA Growth ==
  ASSUME Inv, Busy, NEW s \in Text, NEW k \in 1..Len(s), k =< count - Len(buf),
         Line => \A i \in 1..(k - 1) : s[i] # "nl"
  PROVE  /\ Grown(s, k) \in Text /\ Len(Grown(s, k)) \in 1..count
         /\ OneLine(Grown(s, k))
         /\ ~Full(Grown(s, k)) =>
              /\ Len(Grown(s, k)) < count
              /\ Line => \A i \in 1..Len(Grown(s, k)) : Grown(s, k)[i] # "nl"
<1> DEFINE piece == SubSeq(s, 1, k)
           bytes == Grown(s, k)
<1>1. /\ buf \in Text /\ count \in Nat /\ Len(buf) < count
      /\ Line => \A i \in 1..Len(buf) : buf[i] # "nl"
  BY DEF Inv, TypeOK, Text, Busy, Line
<1>2. Len(s) \in Nat BY LenProperties DEF Text
<1>3. piece \in Text /\ Len(piece) = k /\ \A i \in 1..k : piece[i] = s[i]
  BY <1>2, Split
<1>4. Len(buf) \in Nat BY <1>1, LenProperties DEF Text
<1>5. /\ bytes \in Text /\ Len(bytes) = Len(buf) + k
      /\ \A i \in 1..(Len(buf) + k) :
           bytes[i] = IF i <= Len(buf) THEN buf[i] ELSE piece[i - Len(buf)]
  BY <1>1, <1>3, ConcatProperties DEF Text, Grown
<1> HIDE DEF piece, bytes
<1>6. Len(bytes) \in 1..count BY <1>1, <1>2, <1>4, <1>5
<1>7. ASSUME Line, NEW i \in 1..(Len(bytes) - 1) PROVE bytes[i] # "nl"
  <2>1. CASE i <= Len(buf) BY <1>1, <1>2, <1>4, <1>5, <1>7, <2>1
  <2>2. CASE i > Len(buf)
    <3>1. i - Len(buf) \in 1..(k - 1) BY <1>2, <1>4, <1>5, <2>2
    <3>2. i \in 1..(Len(buf) + k) /\ ~(i <= Len(buf)) BY <1>2, <1>4, <1>5, <2>2
    <3>3. bytes[i] = piece[i - Len(buf)] BY <1>5, <3>2
    <3>4. piece[i - Len(buf)] = s[i - Len(buf)] BY <1>2, <1>3, <3>1
    <3>5. QED BY <1>7, <3>1, <3>3, <3>4
  <2>3. QED BY <1>2, <1>4, <1>5, <2>1, <2>2
<1>8. ASSUME ~Full(bytes)
      PROVE  Len(bytes) < count /\ (Line => \A i \in 1..Len(bytes) : bytes[i] # "nl")
  <2>1. Len(bytes) # count /\ (Line => bytes[Len(bytes)] # "nl") BY <1>8 DEF Full, Line
  <2>2. QED BY <1>1, <1>6, <1>7, <2>1
<1>9. QED BY <1>5, <1>6, <1>7, <1>8 DEF OneLine, bytes

\* All that was read ahead has been copied, if that is not enough.
LEMMA Unfinished ==
  ASSUME Inv, Busy, reader = "myReadLine2", NEW k \in 1..Len(lbuf),
         Processed(lbuf, count - Len(buf), k), ~Full(Grown(lbuf, k))
  PROVE  k = Len(lbuf)
<1>1. buf \in Text /\ lbuf \in Text /\ count \in Nat
  BY DEF Inv, TypeOK, Text
<1>2. Len(buf) \in Nat /\ Len(lbuf) \in Nat BY <1>1, LenProperties DEF Text
<1>3. /\ SubSeq(lbuf, 1, k) \in Text /\ Len(SubSeq(lbuf, 1, k)) = k
      /\ SubSeq(lbuf, 1, k)[k] = lbuf[k]
  BY <1>1, <1>2, Split
<1>4. Len(Grown(lbuf, k)) = Len(buf) + k
  BY <1>1, <1>3, Joined DEF Grown
<1>5. Grown(lbuf, k)[Len(buf) + k] = lbuf[k]
  <2>1. Len(buf) + k \in 1..(Len(buf) + k) /\ ~(Len(buf) + k <= Len(buf))
        /\ Len(buf) + k - Len(buf) = k
    BY <1>2
  <2>2. QED BY <1>1, <1>2, <1>3, <2>1, ConcatProperties DEF Grown, Text
<1>6. lbuf[k] # "nl" /\ Len(buf) + k # count
  BY <1>4, <1>5 DEF Full
<1>7. QED BY <1>1, <1>2, <1>6 DEF Processed

-----------------------------------------------------------------------------
(* The invariant *)

LEMMA InitInv == Init => Inv
<1>1. SUFFICES ASSUME Init PROVE Inv OBVIOUS
<1>2. <<>> \in Seq(STRING) /\ Len(<<>>) = 0 BY EmptySeq
<1>3. input \in Seq(STRING) BY <1>1 DEF Init
<1>4. TypeOK
  <2>1. spoiled \in BOOLEAN BY <1>1 DEF Init
  <2>2. /\ {stream, lbuf, buf, given, last} \subseteq Seq(STRING)
        /\ Len(lbuf) =< LbufSize /\ count \in Nat /\ calls \in 0..MaxCalls
    BY <1>1, <1>2, <1>3 DEF Init
  <2>3. QED BY <1>1, <2>1, <2>2 DEF Init, TypeOK
<1>5. QED BY <1>1, <1>2, <1>4 DEF Init, Inv, Busy

LEMMA StepInv == Inv /\ [Next]_vars => Inv'
<1>1. SUFFICES ASSUME Inv, [Next]_vars PROVE Inv' OBVIOUS
<1>2. /\ {stream, lbuf, buf, given, last} \subseteq Text
      /\ <<>> \in Text /\ Len(<<>>) = 0
      /\ Len(stream) \in Nat /\ Len(lbuf) \in Nat /\ Len(buf) \in Nat /\ count \in Nat
  BY <1>1, EmptySeq, LenProperties DEF Inv, TypeOK, Text
<1>3. ASSUME NEW k \in Counts, Call(k) PROVE Inv'
  <2>1. k \in Int BY DEF ConstantsAssumption
  <2>2. given \o <<>> \in Text BY <1>2, Joined
  <2>3. CASE Room(k) =< 0
    BY <1>1, <1>2, <1>3, <2>2, <2>3
    DEF Inv, TypeOK, Call, Return, Busy, Text, Room
  <2>4. CASE ~(Room(k) =< 0)
    <3>1. Room(k) \in Nat /\ Room(k) > 0 BY <2>1, <2>4 DEF Room
    <3>2. /\ buf' = <<>> /\ count' = Room(k) /\ reader' = reader
          /\ pc' = IF reader = "myReadLine2" THEN "copy" ELSE "read"
          /\ calls' = calls + 1 /\ calls < MaxCalls
          /\ UNCHANGED <<given, last, input, stream, lbuf, spoiled>>
      BY <1>3, <2>4 DEF Call, Goes
    <3>3. TypeOK' BY <1>1, <1>2, <3>1, <3>2 DEF Inv, TypeOK, Text
    <3>4. lbuf = <<>> \/ reader = "myReadLine2" BY <1>1 DEF Inv
    <3>5. Room(k)' = Room(k) BY <3>2 DEF Room
    <3>6. \E j \in Counts : count' = Room(j)' BY <3>2, <3>5 DEF Room
    <3>7. QED BY <1>2, <3>2, <3>3, <3>4, <3>6 DEF Inv, Busy
  <2>5. QED BY <2>3, <2>4
<1>4. ASSUME ReadSome PROVE Inv'
  <2>1. PICK k \in 1..Least(Len(stream), count - Len(buf)) :
          /\ reader = "myReadLine1" => k = 1
          /\ IF Full(Grown(stream, k)) THEN Return(Grown(stream, k)) /\ pc' = "idle"
                                       ELSE Goes("read", Grown(stream, k))
          /\ stream' = Cut(stream, k)
    BY <1>4 DEF ReadSome, Grown
  <2>2. /\ pc = "read" /\ reader # "myReadLine2" /\ Busy
        /\ UNCHANGED <<reader, input, lbuf, count, calls, spoiled>>
    BY <1>4 DEF ReadSome, Busy
  <2>3. k \in 1..Len(stream) /\ k =< count - Len(buf) BY <1>2, <2>1 DEF Least
  <2>4. Line => k = 1 BY <1>1, <2>1, <2>2 DEF Inv, TypeOK, Line
  <2>5. /\ Grown(stream, k) \in Text /\ Len(Grown(stream, k)) \in 1..count
        /\ ~Full(Grown(stream, k)) =>
             /\ Len(Grown(stream, k)) < count
             /\ Line => \A i \in 1..Len(Grown(stream, k)) : Grown(stream, k)[i] # "nl"
    BY <1>1, <1>2, <2>2, <2>3, <2>4, Growth
  <2>6. stream' \in Text BY <1>2, <2>1, <2>3, Split
  <2>7. given \o Grown(stream, k) \in Text BY <1>2, <2>5, Joined
  <2>8. CASE Full(Grown(stream, k))
    <3>1. /\ pc' = "idle" /\ buf' = <<>> /\ last' = Grown(stream, k)
          /\ given' = given \o Grown(stream, k)
      BY <2>1, <2>8 DEF Return
    <3>2. {stream', lbuf', buf', given', last'} \subseteq Text
      BY <1>2, <2>2, <2>5, <2>6, <2>7, <3>1
    <3>3. TypeOK' BY <1>1, <2>2, <2>6, <3>1, <3>2 DEF Inv, TypeOK, Text
    <3>4. QED BY <1>1, <1>2, <2>2, <3>1, <3>3 DEF Inv, Busy
  <2>9. CASE ~Full(Grown(stream, k))
    <3>1. pc' = "read" /\ buf' = Grown(stream, k) /\ UNCHANGED <<given, last>>
      BY <2>1, <2>9 DEF Goes
    <3>2. TypeOK' BY <1>1, <1>2, <2>2, <2>5, <2>6, <2>9, <3>1 DEF Inv, TypeOK, Text
    <3>3. \E j \in Counts : count' = Room(j)' BY <1>1, <2>2 DEF Inv, Busy, Room
    <3>4. QED BY <1>1, <2>2, <2>5, <2>9, <3>1, <3>2, <3>3 DEF Inv, Busy, Line
  <2>10. QED BY <2>8, <2>9
<1>5. ASSUME Fill PROVE Inv'
  <2>1. PICK k \in 1..Least(Len(stream), LbufSize) :
          lbuf' = SubSeq(stream, 1, k) /\ stream' = Cut(stream, k)
    BY <1>5 DEF Fill
  <2>2. k \in 0..Len(stream) /\ k =< LbufSize BY <1>2, <2>1 DEF Least
  <2>3. stream' \in Text /\ lbuf' \in Text /\ Len(lbuf') =< LbufSize
    BY <1>2, <2>1, <2>2, Split
  <2>4. /\ pc = "read" /\ pc' = "copy" /\ reader = "myReadLine2"
        /\ UNCHANGED <<reader, input, count, buf, calls, given, last, spoiled>>
    BY <1>5 DEF Fill
  <2>5. QED BY <1>1, <2>3, <2>4 DEF Inv, TypeOK, Busy, Text, Room
<1>6. ASSUME CopyLine PROVE Inv'
  <2>1. PICK k \in 1..Len(lbuf) :
          /\ Processed(lbuf, count - Len(buf), k)
          /\ IF Full(Grown(lbuf, k)) THEN Return(Grown(lbuf, k)) /\ pc' = "idle"
                                     ELSE Goes("read", Grown(lbuf, k))
          /\ \/ lbuf' = Left(lbuf, k) /\ UNCHANGED spoiled
             \/ lbuf' \in Undefined(lbuf, k) /\ spoiled' = TRUE
    BY <1>6 DEF CopyLine, Grown
  <2>2. /\ pc = "copy" /\ reader = "myReadLine2" /\ Busy /\ Line
        /\ UNCHANGED <<reader, input, stream, count, calls>>
    BY <1>1, <1>6 DEF CopyLine, Busy, Inv, Line
  <2>3. \A j \in 1..(k - 1) : lbuf[j] # "nl" BY <2>1 DEF Processed
  <2>4. k =< count - Len(buf)
    <3>1. Len(buf) < count BY <1>1, <2>2 DEF Inv, TypeOK, Busy
    <3>2. count - Len(buf) \in Nat \ {0} BY <1>2, <3>1
    <3>3. \A j \in 1..(k - 1) : j # count - Len(buf) BY <2>1 DEF Processed
    <3>4. QED BY <1>2, <3>2, <3>3
  <2>5. /\ Grown(lbuf, k) \in Text /\ Len(Grown(lbuf, k)) \in 1..count
        /\ ~Full(Grown(lbuf, k)) =>
             /\ Len(Grown(lbuf, k)) < count
             /\ Line => \A i \in 1..Len(Grown(lbuf, k)) : Grown(lbuf, k)[i] # "nl"
    BY <1>1, <1>2, <2>2, <2>3, <2>4, Growth
  <2>6. /\ lbuf' \in Text /\ Len(lbuf') = Len(lbuf) - k /\ Len(lbuf') =< LbufSize
        /\ spoiled' \in BOOLEAN
    <3>1. k \in 1..Len(lbuf) /\ lbuf \in Text
      BY <1>2
    <3>2. Len(lbuf) =< LbufSize /\ spoiled \in BOOLEAN
      BY <1>1 DEF Inv, TypeOK
    <3>3. lbuf' \in Text /\ Len(lbuf') = Len(lbuf) - k
      <4>1. CASE lbuf' = Left(lbuf, k)
        BY <1>2, <3>1, <4>1, Split DEF Left
      <4>2. CASE lbuf' \in Undefined(lbuf, k)
        BY <3>1, <4>2, Moved
      <4>3. QED BY <2>1, <4>1, <4>2
    <3>4. spoiled' \in BOOLEAN
      BY <2>1, <3>2
    <3>5. QED BY <1>2, <3>1, <3>2, <3>3, <3>4
  <2>7. given \o Grown(lbuf, k) \in Text BY <1>2, <2>5, Joined
  <2>8. CASE Full(Grown(lbuf, k))
    <3>1. /\ pc' = "idle" /\ buf' = <<>> /\ last' = Grown(lbuf, k)
          /\ given' = given \o Grown(lbuf, k)
      BY <2>1, <2>8 DEF Return
    <3>2. {stream', lbuf', buf', given', last'} \subseteq Text
      BY <1>2, <2>2, <2>5, <2>6, <2>7, <3>1
    <3>3. TypeOK' BY <1>1, <2>2, <2>6, <3>1, <3>2 DEF Inv, TypeOK, Text
    <3>4. QED BY <1>1, <1>2, <2>2, <3>1, <3>3 DEF Inv, Busy
  <2>9. CASE ~Full(Grown(lbuf, k))
    <3>1. pc' = "read" /\ buf' = Grown(lbuf, k) /\ UNCHANGED <<given, last>>
      BY <2>1, <2>9 DEF Goes
    <3>2. TypeOK' BY <1>1, <1>2, <2>2, <2>5, <2>6, <2>9, <3>1 DEF Inv, TypeOK, Text
    <3>3. \E j \in Counts : count' = Room(j)' BY <1>1, <2>2 DEF Inv, Busy, Room
    <3>4. lbuf' = <<>>
      <4>4. k = Len(lbuf) BY <1>1, <2>1, <2>2, <2>9, Unfinished
      <4>5. Len(lbuf') = 0 BY <1>2, <2>6, <4>4
      <4>6. QED BY <2>6, <4>5, EmptySeq DEF Text
    <3>5. QED BY <1>1, <2>2, <2>5, <2>9, <3>1, <3>2, <3>3, <3>4 DEF Inv, Busy, Line
  <2>10. QED BY <2>8, <2>9
<1>7. ASSUME NothingAhead PROVE Inv'
  BY <1>1, <1>7 DEF NothingAhead, Inv, TypeOK, Busy, Room
<1>8. ASSUME EndOfStream PROVE Inv'
  <2>1. given \o buf \in Text BY <1>2, Joined
  <2>2. QED BY <1>1, <1>2, <1>8, <2>1 DEF EndOfStream, Return, Inv, TypeOK, Busy, Text
<1>9. ASSUME ReadFails PROVE Inv'
  <2>1. given \o buf \in Text BY <1>2, Joined
  <2>2. QED BY <1>1, <1>2, <1>9, <2>1 DEF ReadFails, Return, Inv, TypeOK, Busy, Text
<1>10. CASE UNCHANGED vars
  BY <1>1, <1>10 DEF vars, Inv, TypeOK, Busy, Room
<1>11. QED
  BY <1>1, <1>3, <1>4, <1>5, <1>6, <1>7, <1>8, <1>9, <1>10 DEF Next, Step, Ended

\* sock_aux.c l. 135-139, 152-180: a call goes on only while what it holds ends no piece and
\* leaves room, and reads on only when nothing is left of what was read ahead.
THEOREM Invariance == Spec => []Inv
BY InitInv, StepInv, PTL DEF Spec

\* sock_aux.c: a call never holds more than the caller has room for, nor the static
\* buffer more than its size.
THEOREM TypeCorrect == Spec => []TypeOK
<1>1. Inv => TypeOK BY DEF Inv
<1>2. QED BY Invariance, <1>1, PTL

-----------------------------------------------------------------------------
(* The pieces *)

\* What is left to be given: these bytes, or as many.
Keeps(left) ==
  \/ Rest' = left /\ UNCHANGED spoiled
  \/ reader = "myReadLine2" /\ Len(Rest') = Len(left) /\ spoiled' = TRUE

\* What has been given.
Told(bytes) == last' = bytes /\ given' = given \o bytes /\ UNCHANGED <<reader, input>>

LEMMA Delivered ==
  ASSUME Inv, Busy, NEW bytes \in Text, NEW left \in Text, Rest = bytes \o left,
         Len(bytes) =< count, OneLine(bytes), left = <<>> \/ (bytes # <<>> /\ Full(bytes)),
         Told(bytes), Keeps(left)
  PROVE  LS!Next
<1> DEFINE n == Len(bytes)
           s == Rest
<1>1. PICK j \in Counts : count = Room(j) BY DEF Inv
<1>2. LS!Room(j) = count BY <1>1 DEF LS!Room, Room
<1>3. n \in Nat /\ count \in Nat /\ count > 0
  BY LenProperties DEF Text, Inv, TypeOK, Busy
<1>4. /\ s \in Text /\ Len(s) = n + Len(left) /\ Len(left) \in Nat
      /\ \A i \in 1..n : s[i] = bytes[i]
      /\ SubSeq(s, 1, n) = bytes /\ SubSeq(s, n + 1, Len(s)) = left
  BY Joined
<1>5. bytes = <<>> => n = 0 BY EmptySeq
<1>6. left = <<>> => Len(left) = 0 BY EmptySeq
<1> HIDE DEF n, s
<1>7. LS!Within(s, count, n)
  <2>1. ASSUME NEW i \in 1..(n - 1) PROVE ~LS!Ends(s, count, i)
    <3>1. i # count /\ i # Len(s) /\ s[i] = bytes[i] BY <1>3, <1>4 DEF n
    <3>2. Line => s[i] # "nl" BY <3>1 DEF OneLine, n
    <3>3. QED BY <3>1, <3>2 DEF LS!Ends, Line
  <2>2. QED BY <2>1 DEF LS!Within
<1>8. LS!IsPiece(s, count, n)
  <2>1. CASE s = <<>>
    <3>1. Len(s) = 0 BY <2>1, EmptySeq
    <3>2. n = 0 BY ONLY <1>3, <1>4, <3>1
    <3>3. QED BY <2>1, <3>2 DEF LS!IsPiece
  <2>2. CASE s # <<>>
    <3>1. Len(s) > 0 BY <1>4, <2>2, EmptySeq DEF Text
    <3>2. n > 0
      <4>1. CASE left = <<>> BY <1>3, <1>4, <1>6, <3>1, <4>1
      <4>2. CASE bytes # <<>> /\ Full(bytes) BY <4>2, EmptySeq DEF n, Text
      <4>3. QED BY <4>1, <4>2
    <3>3. LS!Ends(s, count, n)
      <4>1. CASE left = <<>> BY <1>3, <1>4, <1>6, <4>1 DEF LS!Ends
      <4>2. CASE Full(bytes)
        <5>1. s[n] = bytes[n] BY <1>3, <1>4, <3>2
        <5>2. QED BY <4>2, <5>1 DEF Full, LS!Ends, n
      <4>3. QED BY <4>1, <4>2
    <3>4. ~(count =< 0) BY <1>3
    <3>5. QED BY <1>7, <2>2, <3>2, <3>3, <3>4 DEF LS!IsPiece
  <2>3. QED BY <2>1, <2>2
<1>9. LS!Give(n, SubSeq(s, n + 1, Len(s)))
  BY <1>4 DEF LS!Give, LS!Keeps, Keeps, Told, Rest, s
<1>10. n \in 0..Len(s) BY <1>3, <1>4
<1>11. LS!Take(count) BY <1>8, <1>9, <1>10 DEF LS!Take, Rest, s
<1>12. QED BY <1>1, <1>2, <1>11 DEF LS!Next

LEMMA Broken ==
  ASSUME Inv, pc = "read", Told(buf), Rest' = <<>>, UNCHANGED spoiled
  PROVE  LS!Next
<1> DEFINE n == Len(buf)
           s == Rest
<1>1. Busy BY DEF Busy
<1>2. PICK j \in Counts : count = Room(j) BY <1>1 DEF Inv
<1>3. LS!Room(j) = count BY <1>2 DEF LS!Room, Room
<1>4. buf \in Text /\ lbuf \in Text /\ stream \in Text BY DEF Inv, TypeOK, Text
<1>5. n \in Nat /\ count \in Nat /\ n < count
  BY <1>1, <1>4, LenProperties DEF Text, Inv, TypeOK
<1>6. lbuf \o stream \in Text /\ s = buf \o (lbuf \o stream)
  <2>1. lbuf \o stream \in Text BY ONLY <1>4, Joined, Zenon
  <2>2. (buf \o lbuf) \o stream = buf \o (lbuf \o stream) BY ONLY <1>4, Grouped, Zenon
  <2>3. QED BY ONLY <2>1, <2>2 DEF Rest
<1>7. /\ s \in Text /\ n \in 0..Len(s) /\ \A i \in 1..n : s[i] = buf[i]
      /\ SubSeq(s, 1, n) = buf
  <2>1. /\ s \in Text /\ Len(s) = n + Len(lbuf \o stream) /\ Len(lbuf \o stream) \in Nat
        /\ \A i \in 1..n : s[i] = buf[i] /\ SubSeq(s, 1, n) = buf
    BY <1>4, <1>6, Joined
  <2>2. QED BY <1>5, <2>1, <1>4, <1>6, Joined
<1> HIDE DEF n, s
<1>8. LS!Within(s, count, n)
  <2>1. ASSUME NEW i \in 1..(n - 1) PROVE ~LS!Ends(s, count, i)
    <3>1. i # count /\ i # Len(s) /\ s[i] = buf[i] /\ i \in 1..n BY <1>5, <1>7
    <3>2. Line => s[i] # "nl" BY <3>1 DEF Inv, Line, n
    <3>3. QED BY <3>1, <3>2 DEF LS!Ends, Line
  <2>2. QED BY <2>1 DEF LS!Within
<1>9. LS!Give(n, <<>>) BY <1>7 DEF LS!Give, LS!Keeps, Told, Rest, s
<1>10. LS!Break(count) BY <1>5, <1>7, <1>8, <1>9 DEF LS!Break, Rest, s
<1>11. QED BY <1>2, <1>3, <1>10 DEF LS!Next

lsVars == <<reader, input, given, last, Rest, spoiled>>

\* Either nothing changes in the caller's view or a piece is delivered, and it fits.
LEMMA StepMaps ==
  ASSUME Inv, [Next]_vars
  PROVE  /\ LS!Next \/ UNCHANGED lsVars
         /\ last' # last => last' = <<>> \/ Len(last') =< count
<1>1. /\ buf \in Text /\ lbuf \in Text /\ stream \in Text /\ given \in Text
      /\ <<>> \in Text /\ Len(<<>>) = 0 /\ count \in Nat
      /\ Len(stream) \in Nat /\ Len(lbuf) \in Nat /\ Len(buf) \in Nat
  BY EmptySeq, LenProperties DEF Inv, TypeOK, Text
<1>2. \A x \in Text : <<>> \o x = x /\ x \o <<>> = x BY ConcatEmptySeq DEF Text
<1>3. Rest \in Text /\ buf \o lbuf \in Text BY <1>1, Joined DEF Rest
<1>4. ASSUME NEW k \in Counts, Call(k)
      PROVE  (LS!Next \/ UNCHANGED lsVars) /\ (last' # last => last' = <<>>)
  <2>1. /\ buf = <<>> /\ buf' = <<>> /\ UNCHANGED <<reader, input, stream, lbuf, spoiled>>
    BY <1>4 DEF Inv, Call, Return, Goes, Busy
  <2>2. Rest' = Rest BY <2>1 DEF Rest
  <2>3. CASE Room(k) =< 0
    <3>1. last' = <<>> /\ given' = given \o <<>> BY <1>4, <2>3 DEF Call, Return
    <3>2. LS!Room(k) =< 0 BY <2>3 DEF LS!Room, Room
    <3>3. LS!IsPiece(Rest, LS!Room(k), 0) BY <3>2 DEF LS!IsPiece
    <3>4. SubSeq(Rest, 1, 0) = <<>> /\ 0 \in 0..Len(Rest)
      <4>1. Len(Rest) \in Nat BY <1>3, LenProperties DEF Text
      <4>2. 0 \in 0..Len(Rest) BY <4>1
      <4>3. SubSeq(Rest, 1, 0) \in Text /\ Len(SubSeq(Rest, 1, 0)) = 0
        BY <1>3, <4>2, Split
      <4>4. QED BY <4>2, <4>3, EmptySeq DEF Text
    <3>5. SubSeq(Rest, 0 + 1, Len(Rest)) = Rest BY <1>3, SubSeqFull DEF Text
    <3>6. LS!Give(0, SubSeq(Rest, 0 + 1, Len(Rest)))
      BY <2>1, <2>2, <3>1, <3>4, <3>5 DEF LS!Give, LS!Keeps, Rest
    <3>7. QED BY <3>1, <3>3, <3>4, <3>6 DEF LS!Take, LS!Next, Rest
  <2>4. CASE ~(Room(k) =< 0)
    BY <1>4, <2>1, <2>2, <2>4 DEF Call, Goes, lsVars
  <2>5. QED BY <2>3, <2>4
<1>5. ASSUME ReadSome
      PROVE  (LS!Next \/ UNCHANGED lsVars) /\ (last' # last => Len(last') =< count)
  <2>1. PICK k \in 1..Least(Len(stream), count - Len(buf)) :
          /\ reader = "myReadLine1" => k = 1
          /\ IF Full(Grown(stream, k)) THEN Return(Grown(stream, k)) /\ pc' = "idle"
                                       ELSE Goes("read", Grown(stream, k))
          /\ stream' = Cut(stream, k)
    BY <1>5 DEF ReadSome, Grown
  <2>2. /\ Busy /\ lbuf = <<>> /\ UNCHANGED <<reader, input, lbuf, spoiled>>
    BY <1>5 DEF ReadSome, Busy, Inv
  <2>3. k \in 1..Len(stream) /\ k =< count - Len(buf) BY <1>1, <2>1 DEF Least
  <2>4. Line => k = 1 BY <1>5, <2>1 DEF ReadSome, Inv, TypeOK, Line
  <2>5. /\ Grown(stream, k) \in Text /\ Len(Grown(stream, k)) \in 1..count
        /\ OneLine(Grown(stream, k))
    BY <1>1, <2>2, <2>3, <2>4, Growth
  <2>6. stream' \in Text BY <1>1, <2>1, <2>3, Split
  <2>7. Rest = Grown(stream, k) \o stream'
    <3>1. k \in 0..Len(stream) BY <1>1, <2>3
    <3>2. (buf \o SubSeq(stream, 1, k)) \o Cut(stream, k) = buf \o stream
      BY ONLY <1>1, <3>1, Rejoin
    <3>3. Rest = buf \o stream BY <1>1, <1>2, <2>2 DEF Rest
    <3>4. QED BY ONLY <2>1, <3>2, <3>3 DEF Grown
  <2>8. CASE Full(Grown(stream, k))
    <3>1. Told(Grown(stream, k)) /\ buf' = <<>> BY <2>1, <2>2, <2>8 DEF Return, Told
    <3>2. Rest' = stream' BY <1>1, <1>2, <2>2, <2>6, <3>1 DEF Rest
    <3>3. Grown(stream, k) # <<>> BY <1>1, <2>5
    <3>4. LS!Next
      <4>1. PICK g \in Text : g = Grown(stream, k) BY <2>5
      <4>2. PICK left \in Text : left = stream' BY <2>6
      <4>3. Rest = g \o left /\ Rest' = left BY ONLY <2>7, <3>2, <4>1, <4>2
      <4>7. Keeps(left) BY <2>2, <4>3 DEF Keeps
      <4>4. Len(g) =< count /\ OneLine(g) BY ONLY <1>1, <2>5, <4>1
      <4>5. g # <<>> /\ Full(g) /\ Told(g) BY ONLY <2>8, <3>1, <3>3, <4>1
      <4>6. QED BY <2>2, <4>3, <4>4, <4>5, <4>7, Delivered
    <3>5. QED BY <1>1, <2>5, <3>1, <3>4 DEF Told
  <2>9. CASE ~Full(Grown(stream, k))
    <3>1. buf' = Grown(stream, k) /\ UNCHANGED <<given, last>> BY <2>1, <2>9 DEF Goes
    <3>2. Rest' = Rest BY <1>2, <2>2, <2>5, <2>7, <3>1 DEF Rest
    <3>3. QED BY <2>2, <3>1, <3>2 DEF lsVars
  <2>10. QED BY <2>8, <2>9
<1>6. ASSUME Fill PROVE UNCHANGED lsVars
  <2>1. PICK k \in 1..Least(Len(stream), LbufSize) :
          lbuf' = SubSeq(stream, 1, k) /\ stream' = Cut(stream, k)
    BY <1>6 DEF Fill
  <2>2. k \in 0..Len(stream) BY <1>1, <2>1 DEF Least
  <2>3. lbuf = <<>> /\ UNCHANGED <<reader, input, buf, given, last, spoiled>>
    BY <1>6 DEF Fill, Inv
  <2>4. Rest' = Rest
    <3>1. (buf \o SubSeq(stream, 1, k)) \o Cut(stream, k) = buf \o stream
      BY ONLY <1>1, <2>2, Rejoin
    <3>2. Rest = buf \o stream BY <1>1, <1>2, <2>3 DEF Rest
    <3>3. Rest' = (buf \o SubSeq(stream, 1, k)) \o Cut(stream, k) BY <2>1, <2>3 DEF Rest
    <3>4. QED BY ONLY <3>1, <3>2, <3>3
  <2>5. QED BY <2>3, <2>4 DEF lsVars
<1>7. ASSUME CopyLine
      PROVE  (LS!Next \/ UNCHANGED lsVars) /\ (last' # last => Len(last') =< count)
  <2>1. PICK k \in 1..Len(lbuf) :
          /\ Processed(lbuf, count - Len(buf), k)
          /\ IF Full(Grown(lbuf, k)) THEN Return(Grown(lbuf, k)) /\ pc' = "idle"
                                     ELSE Goes("read", Grown(lbuf, k))
          /\ \/ lbuf' = Cut(lbuf, k) /\ UNCHANGED spoiled
             \/ lbuf' \in Undefined(lbuf, k) /\ spoiled' = TRUE
    BY <1>7 DEF CopyLine, Grown, Left
  <2>2. /\ Busy /\ reader = "myReadLine2" /\ UNCHANGED <<reader, input, stream>> BY <1>7 DEF CopyLine, Busy, Inv
  <2>3. \A j \in 1..(k - 1) : lbuf[j] # "nl" BY <2>1 DEF Processed
  <2>4. k =< count - Len(buf)
    <3>1. Len(buf) < count BY <2>2 DEF Inv, TypeOK, Busy
    <3>2. count - Len(buf) \in Nat \ {0} BY <1>1, <3>1
    <3>3. \A j \in 1..(k - 1) : j # count - Len(buf) BY <2>1 DEF Processed
    <3>4. QED BY <1>1, <3>2, <3>3
  <2>5. /\ Grown(lbuf, k) \in Text /\ Len(Grown(lbuf, k)) \in 1..count
        /\ OneLine(Grown(lbuf, k))
    BY <1>1, <2>2, <2>3, <2>4, Growth
  <2>6. k \in 0..Len(lbuf) BY <1>1, <2>1
  <2> DEFINE ahead == Cut(lbuf, k)
  <2>7. /\ ahead \in Text /\ Len(ahead) = Len(lbuf) - k
        /\ lbuf' \in Text /\ Len(lbuf') = Len(ahead)
    BY <1>1, <2>1, <2>6, Split, Moved
  <2>8. Grown(lbuf, k) \o ahead = buf \o lbuf
    BY ONLY <1>1, <2>6, Rejoin DEF Grown
  <2> HIDE DEF ahead
  <2>9. ahead \o stream \in Text BY <1>1, <2>7, Joined
  <2>10. Rest = Grown(lbuf, k) \o (ahead \o stream)
    <3>1. (Grown(lbuf, k) \o ahead) \o stream = Grown(lbuf, k) \o (ahead \o stream)
      <4>1. PICK g \in Text : g = Grown(lbuf, k) BY <2>5
      <4>2. PICK l \in Text : l = ahead BY <2>7
      <4>3. (g \o l) \o stream = g \o (l \o stream)
        <5>1. stream \in Text BY <1>1
        <5>2. QED BY ONLY <5>1, g \in Text, l \in Text, Grouped, Zenon
      <4>4. QED BY ONLY <4>1, <4>2, <4>3
    <3>2. QED BY ONLY <2>8, <3>1 DEF Rest
  <2>11. CASE Full(Grown(lbuf, k))
    <3>1. Told(Grown(lbuf, k)) /\ buf' = <<>> BY <2>1, <2>2, <2>11 DEF Return, Told
    <3>2. Rest' = lbuf' \o stream BY <1>2, <2>2, <2>7, <3>1 DEF Rest
    <3>3. Grown(lbuf, k) # <<>> BY <1>1, <2>5
    <3>4. LS!Next
      <4>1. PICK left \in Text : left = ahead \o stream BY <2>9
      <4>2. Rest = Grown(lbuf, k) \o left BY <2>10, <4>1
      <4>3. Len(Grown(lbuf, k)) =< count BY <1>1, <2>5
      <4>4. Keeps(left)
        <5>1. CASE lbuf' = ahead /\ UNCHANGED spoiled
          BY <3>2, <4>1, <5>1 DEF Keeps
        <5>2. CASE spoiled' = TRUE
          <6>1. Len(lbuf' \o stream) = Len(ahead \o stream)
            <7>1. PICK x \in Text : x = lbuf' BY <2>7
            <7>2. PICK y \in Text : y = ahead BY <2>7
            <7>3. stream \in Text BY <1>1
            <7>4. Len(x \o stream) = Len(x) + Len(stream) BY ONLY <7>3, x \in Text, Joined
            <7>5. Len(y \o stream) = Len(y) + Len(stream) BY ONLY <7>3, y \in Text, Joined
            <7>6. QED BY ONLY <2>7, <7>1, <7>2, <7>4, <7>5
          <6>2. QED BY <2>2, <3>2, <4>1, <5>2, <6>1 DEF Keeps
        <5>3. QED BY <2>1, <5>1, <5>2 DEF ahead
      <4>5. QED BY <1>1, <2>2, <2>5, <2>11, <3>1, <3>3, <4>2, <4>3, <4>4, Delivered
    <3>5. QED BY <1>1, <2>5, <3>1, <3>4 DEF Told
  <2>12. CASE ~Full(Grown(lbuf, k))
    <3>1. buf' = Grown(lbuf, k) /\ UNCHANGED <<given, last>> BY <2>1, <2>12 DEF Goes
    <3>2. k = Len(lbuf)
      <4>1. Inv /\ Busy /\ reader = "myReadLine2" BY <2>2
      <4>2. QED BY <2>1, <2>12, <4>1, Unfinished
    <3>3. lbuf' = ahead /\ UNCHANGED spoiled
      <4>1. ~(Len(lbuf) - k > k) BY <1>1, <3>2
      <4>2. QED BY <2>1, <4>1 DEF Undefined, ahead
    <3>4. Rest' = Rest BY <2>2, <2>8, <3>1, <3>3 DEF Rest
    <3>5. QED BY <2>2, <3>1, <3>3, <3>4 DEF lsVars
  <2>13. QED BY <2>11, <2>12
<1>8. ASSUME NothingAhead PROVE UNCHANGED lsVars
  BY <1>8 DEF NothingAhead, lsVars, Rest
<1>9. ASSUME EndOfStream PROVE LS!Next /\ Len(last') =< count
  <2>1. /\ Busy /\ lbuf = <<>> /\ stream = <<>> /\ buf' = <<>> /\ Told(buf)
        /\ UNCHANGED <<lbuf, stream, spoiled>>
    BY <1>9 DEF EndOfStream, Busy, Inv, Return, Told
  <2>2. Rest = buf \o <<>> BY <1>1, <1>2, <2>1 DEF Rest
  <2>3. Rest' = <<>> BY <1>1, <1>2, <2>1 DEF Rest
  <2>4. Len(buf) < count BY <2>1 DEF Inv, TypeOK, Busy
  <2>5. OneLine(buf) BY <1>1 DEF OneLine, Inv, Line
  <2>6. Len(buf) =< count BY <1>1, <2>4
  <2>9. Keeps(<<>>) BY <2>1, <2>3 DEF Keeps
  <2>7. LS!Next BY <1>1, <2>1, <2>2, <2>5, <2>6, <2>9, Delivered
  <2>8. QED BY <2>1, <2>6, <2>7 DEF Told
<1>10. ASSUME ReadFails PROVE LS!Next /\ Len(last') =< count
  <2>1. /\ Busy /\ lbuf = <<>> /\ stream' = <<>> /\ buf' = <<>> /\ Told(buf)
        /\ UNCHANGED <<lbuf, spoiled>>
    BY <1>10 DEF ReadFails, Busy, Inv, Return, Told
  <2>2. Rest' = <<>> BY <1>1, <1>2, <2>1 DEF Rest
  <2>3. LS!Next BY <1>10, <2>1, <2>2, Broken DEF ReadFails
  <2>4. Len(buf) < count BY <2>1 DEF Inv, TypeOK, Busy
  <2>5. QED BY <1>1, <2>1, <2>3, <2>4 DEF Told
<1>11. CASE UNCHANGED vars BY <1>11 DEF vars, lsVars, Rest
<1>12. QED
  <2>1. UNCHANGED lsVars => UNCHANGED last BY DEF lsVars
  <2>2. QED BY <1>4, <1>5, <1>6, <1>7, <1>8, <1>9, <1>10, <1>11, <2>1 DEF Next, Step, Ended

\* sock_aux.c l. 133, 141, 158, 182: what a call returns, with the '\0' of a line, is no
\* longer than the caller's buffer, for any stream and any portions.
THEOREM Fits == Spec => FitsBuffer
<1>1. ASSUME Inv, [Next]_vars
      PROVE  [last' # last =>
               \A k \in Counts : Room(k) = count =>
                 Len(last') + (IF reader = "myReadBlock" THEN 0 ELSE 1) =< k]_vars
  <2>1. SUFFICES ASSUME last' # last, NEW k \in Counts, Room(k) = count
                 PROVE  Len(last') + (IF reader = "myReadBlock" THEN 0 ELSE 1) =< k
    OBVIOUS
  <2>2. k \in Int /\ count \in Nat BY <1>1 DEF ConstantsAssumption, Inv, TypeOK
  <2>3. last' \in Seq(STRING) BY <1>1, StepInv DEF Inv, TypeOK
  <2>4. Len(last') \in Nat /\ Len(last') =< count
    <3>1. last' = <<>> \/ Len(last') =< count BY <1>1, <2>1, StepMaps
    <3>2. Len(last') \in Nat BY <2>3, LenProperties
    <3>3. QED BY <2>2, <3>1, <3>2, EmptySeq
  <2>5. QED BY <2>1, <2>2, <2>4 DEF Room
<1>2. QED BY Invariance, <1>1, PTL DEF Spec, FitsBuffer

\* sock_aux.c: read in one block, byte by byte or ahead of the line, each call returns
\* the next piece of what is left of the stream, as LineSource promises: what is left are the
\* bytes that were sent, but for those that an overlapping memcpy has moved, and as many.
THEOREM Implements == Spec => ImplementsLineSource
<1>1. Init => LS!Init
  <2>1. SUFFICES ASSUME Init PROVE LS!Init OBVIOUS
  <2>2. input \in Seq(STRING) BY <2>1 DEF Init, ConstantsAssumption
  <2>3. <<>> \in Seq(STRING) BY EmptySeq
  <2>4. (buf \o lbuf) \o stream = input BY <2>1, <2>2, <2>3, ConcatEmptySeq DEF Init
  <2>5. QED BY <2>1, <2>4 DEF Init, LS!Init
<1>2. ASSUME Inv, [Next]_vars
      PROVE  [LS!Next]_<<IF reader = "myReadBlock" THEN "block"
                         ELSE IF reader = "myReadLine2" THEN "ahead" ELSE "line",
                         input, given, last, buf \o lbuf \o stream, spoiled>>
  BY <1>2, StepMaps DEF lsVars, Rest
<1>3. QED BY Invariance, <1>1, <1>2, PTL DEF Spec, ImplementsLineSource, LS!Spec
=============================================================================
