------------------------- MODULE ForkServersProofs -------------------------
(***************************************************************************)
(* What the forking servers of Ficha6 store and answer, for any number of  *)
(* connections, of any sizes, any room for processes and any number of     *)
(* executions of the server.                                               *)
(***************************************************************************)
EXTENDS ForkServers, SequenceTheorems, FiniteSetTheorems, WellFoundedInduction, TLAPS

Origins == {"file", "old", "line", "blank", "junk", "name"}

Pieces == [of : Origins, at : Int, case : {"lower", "upper"}]

Text == Seq(Pieces)

TextInv ==
  /\ buffer \in [Client -> Text] /\ file \in [Client -> Text] /\ sent \in [Client -> Text]
  /\ printed \in [Client -> Text]
  /\ toServer \in [Client -> Text] /\ toClient \in [Client -> Text]
  /\ at \in [Client -> Nat]

States ==
  {"none", "zombie", "gone", "killed", "exit"} \cup
    IF prog = "ex2" THEN {"mkstemp", "read", "store", "echo"} ELSE {"select", "answer", "reply"}

\* TypeOK, without what it counts.
Plain ==
  /\ prog \in Programs /\ room \in 1..TableSize
  /\ spc \in {"off", "accept", "fork", "close"} /\ starts \in 0..MaxStarts
  /\ backlog \in Seq(Client) /\ held \subseteq Client /\ reset \subseteq Client
  /\ lost \subseteq Client
  /\ child \in [Client -> States]
  /\ cpc \in [Client -> {"start", "send", "reply", "done", "failed", "killed"}]
  /\ \A c \in Client : at[c] \in 0..Size[c]

Waits(c) == \E i \in 1..Len(backlog) : backlog[i] = c

\* The server holds the one connection it is forking for, or has forked for.
HeldInv ==
  /\ spc \in {"off", "accept"} => held = {}
  /\ spc \in {"fork", "close"} =>
       \E c \in Client : held = {c} /\ (child[c] = "none") = (spc = "fork")

\* A connection waits, is held, gets its process: in this order and once. One that was reset
\* has nobody at the server.
PlaceInv(c) ==
  /\ Waits(c) => child[c] = "none" /\ c \notin held
  /\ cpc[c] = "start" => child[c] = "none" /\ c \notin held /\ ~Waits(c) /\ c \notin reset
  /\ c \in reset => ~Open(c)

Once == \A i, j \in 1..Len(backlog) : backlog[i] = backlog[j] => i = j

QueueInv ==
  /\ Once
  /\ \A c \in Client : PlaceInv(c)

\* What the client has done so far.
ClientInv(c) ==
  /\ cpc[c] \in {"start", "send"} /\ prog # "ex2" => sent[c] = <<>>
  /\ cpc[c] = "start" => sent[c] = <<>>
  /\ at[c] =< Size[c]
  /\ cpc[c] = "start" \/ prog # "ex2" => at[c] = 0
  /\ cpc[c] = "send" => at[c] < Size[c]

Upper(x) == [x EXCEPT !.case = "upper"]

One(b) == IF b THEN 1 ELSE 0

\* ex2: of the bytes sent, the first are in the file, one, perhaps, in the buffer, and the next
\* are still to be read ...
Stored(outgoing, stored, read, unread, n) ==
  /\ Len(stored) + n + Len(unread) =< Len(outgoing)
  /\ \A i \in 1..Len(stored) : stored[i] = Upper(outgoing[i])
  /\ \A i \in 1..Len(unread) : unread[i] = outgoing[Len(stored) + n + i]
  /\ n = 1 => Len(read) = 1 /\ read[1] = outgoing[Len(stored) + 1]

\* ... and after these there are none.
Whole(outgoing, stored, unread, n) == Len(stored) + n + Len(unread) = Len(outgoing)

\* Of the bytes in the file, the first are on the screen, the next on their way, and one,
\* perhaps, is still to be sent back.
Echoed(stored, read, shown, coming, n) ==
  /\ Len(shown) + Len(coming) + n = Len(stored)
  /\ \A i \in 1..Len(shown) : shown[i] = stored[i]
  /\ \A i \in 1..Len(coming) : coming[i] = stored[Len(shown) + i]
  /\ n = 1 => Len(read) = 1 /\ Upper(read[1]) = stored[Len(stored)]

\* A process that was ended may have left a byte on either way.
StoreInv(c) ==
  \E n \in {0, 1} :
    /\ child[c] # "killed" => n = One(child[c] = "store")
    /\ Stored(sent[c], file[c], buffer[c], toServer[c], n)
    /\ Open(c) => Whole(sent[c], file[c], toServer[c], n)

EchoInv(c) ==
  \E n \in {0, 1} :
    /\ child[c] # "killed" => n = One(child[c] = "echo")
    /\ Echoed(file[c], buffer[c], printed[c], toClient[c], n)

\* The client's last read has failed: it may have shown more.
Broken(c) == cpc[c] = "done" /\ c \in reset

FileInv(c) == prog = "ex2" /\ c \notin lost => StoreInv(c) /\ (Broken(c) \/ EchoInv(c))

\* ex3 to ex5: the request was read in part; a line of one segment is not, by ex3.
Partly(c) == toServer[c] # <<>> /\ ~(prog = "ex3" /\ Size[c] = 1)

RequestInv(c) ==
  /\ cpc[c] \in {"start", "send"} => child[c] \notin {"answer", "reply"} /\ toServer[c] = <<>>
  /\ cpc[c] = "reply" => Len(sent[c]) = Size[c]
  /\ child[c] \in {"none", "select", "answer"} =>
       toServer[c] = <<>> \/ (toServer[c] = sent[c] /\ Len(sent[c]) = Size[c])
  /\ child[c] = "answer" => toServer[c] # <<>> \/ cpc[c] = "killed"
  /\ child[c] = "reply" => buffer[c] = sent[c] \/ Partly(c) \/ cpc[c] = "killed"

AnswerInv(c) ==
  /\ cpc[c] # "done" => printed[c] = <<>>
  /\ cpc[c] \in {"start", "send"} => toClient[c] = <<>>
  /\ toClient[c] # <<>> => child[c] \in {"exit", "zombie", "gone", "killed"}
  /\ cpc[c] = "done" => ~Open(c) \/ child[c] \in {"exit", "zombie", "gone", "killed"}
  /\ cpc[c] = "reply" /\ child[c] # "reply" =>
       toServer[c] # <<>> \/ toClient[c] # <<>> \/ c \in reset \/ child[c] = "killed"
  /\ cpc[c] = "reply" /\ toClient[c] # <<>> => toClient[c] = Answer(sent[c]) \/ Partly(c)
  /\ cpc[c] = "done" =>
       /\ prog = "ex3" => IsPrefix(printed[c], Answer(sent[c])) \/ Partly(c)
       /\ prog = "ex3" /\ Size[c] = 1 /\ printed[c] # <<>> => printed[c] = Answer(sent[c])
       /\ Fixed =>
            printed[c] = Answer(sent[c]) \/ Partly(c) \/ c \in reset \/ child[c] = "killed"

\* ex5: a line has letters and blanks.
TypedInv(c) ==
  prog = "ex5" => \A i \in 1..Len(sent[c]) : sent[c][i] \in {Blank, Piece("line", i)}

LineInv(c) == prog # "ex2" => RequestInv(c) /\ AnswerInv(c)

Inv ==
  /\ TypeOK /\ TextInv /\ HeldInv /\ QueueInv
  /\ \A c \in Client : ClientInv(c) /\ FileInv(c) /\ LineInv(c) /\ TypedInv(c)

USE ConstantsAssumption DEF ConstantsAssumption

-----------------------------------------------------------------------------
(* Sizes and texts *)

LEMMA SizeFacts ==
  /\ IsFiniteSet(Client) /\ Client \subseteq Nat
  /\ prog \in Programs => \A c \in Client : Size[c] \in Nat \ {0}
<1>1. Len(Sizes["ex2"]) \in Nat
  BY LenProperties DEF Programs
<1>2. IsFiniteSet(Client)
  <2>1. 1 \in Int /\ Len(Sizes["ex2"]) \in Int
    BY <1>1
  <2>2. QED BY <2>1, FS_Interval DEF Client
<1>4. Client \subseteq Nat
  BY <1>1 DEF Client
<1>3. ASSUME prog \in Programs, NEW c \in Client PROVE Size[c] \in Nat \ {0}
  <2>1. Sizes[prog] \in Seq(Nat \ {0}) /\ c \in 1..Len(Sizes[prog])
    BY <1>3 DEF Client, Programs
  <2>2. QED BY <2>1, ElementOfSeq DEF Size
<1>5. QED BY <1>2, <1>3, <1>4

LEMMA TextFacts ==
  ASSUME NEW s \in Text
  PROVE  /\ Len(s) \in Nat /\ DOMAIN s = 1..Len(s) /\ s = [i \in 1..Len(s) |-> s[i]]
         /\ \A i \in 1..Len(s) : s[i] \in Pieces
         /\ s # <<>> <=> Len(s) # 0
<1>1. \A i \in 1..Len(s) : s[i] \in Pieces
  BY ElementOfSeq DEF Text
<1>2. QED BY <1>1, LenProperties, EmptySeq DEF Text

LEMMA PieceFacts ==
  /\ \A from \in Origins, i \in Int : Piece(from, i) \in Pieces
  /\ Blank \in Pieces
  /\ \A x \in Pieces : Upper(x) \in Pieces /\ Upper(x).of = x.of
<1>1. \A from \in Origins, i \in Int : Piece(from, i) \in Pieces
  BY DEF Piece, Pieces
<1>2. Blank \in Pieces
  BY <1>1 DEF Blank, Origins
<1>3. ASSUME NEW x \in Pieces PROVE Upper(x) \in Pieces /\ Upper(x).of = x.of
  BY DEF Pieces, Upper
<1>4. QED BY <1>1, <1>2, <1>3

LEMMA OneText == ASSUME NEW x \in Pieces PROVE <<x>> \in Text /\ Len(<<x>>) = 1 /\ <<x>>[1] = x
BY DEF Text

LEMMA TwoTexts ==
  ASSUME NEW x \in Pieces, NEW y \in Pieces
  PROVE  <<x, y>> \in Text /\ Len(<<x, y>>) = 2
BY DEF Text

LEMMA EmptyText == <<>> \in Text /\ Len(<<>>) = 0
BY EmptySeq DEF Text

LEMMA UpperFacts ==
  ASSUME NEW s \in Text
  PROVE  /\ UpperAll(s) \in Text /\ Len(UpperAll(s)) = Len(s)
         /\ \A i \in 1..Len(s) : UpperAll(s)[i] = Upper(s[i])
<1>1. UpperAll(s) = [i \in 1..Len(s) |-> Upper(s[i])]
  BY TextFacts DEF UpperAll, Upper
<1>2. \A i \in 1..Len(s) : Upper(s[i]) \in Pieces
  BY TextFacts, PieceFacts
<1>3. Len(s) \in Nat
  BY TextFacts
<1>4. QED BY <1>1, <1>2, <1>3 DEF Text

LEMMA Joined ==
  ASSUME NEW s \in Text, NEW t \in Text
  PROVE  /\ s \o t \in Text /\ Len(s \o t) = Len(s) + Len(t)
         /\ \A i \in 1..Len(s) : (s \o t)[i] = s[i]
         /\ \A i \in 1..Len(t) : (s \o t)[Len(s) + i] = t[i]
<1>1. Len(s) \in Nat /\ Len(t) \in Nat
  BY TextFacts
<1>2. /\ s \o t \in Text /\ Len(s \o t) = Len(s) + Len(t)
      /\ \A i \in 1..(Len(s) + Len(t)) :
           (s \o t)[i] = IF i <= Len(s) THEN s[i] ELSE t[i - Len(s)]
  BY ConcatProperties DEF Text
<1>3. \A i \in 1..Len(t) : Len(s) + i \in 1..(Len(s) + Len(t)) /\ ~(Len(s) + i <= Len(s))
                           /\ (Len(s) + i) - Len(s) = i
  BY <1>1
<1>4. QED BY <1>1, <1>2, <1>3

LEMMA Cut ==
  ASSUME NEW s \in Text, NEW k \in 0..Len(s)
  PROVE  /\ SubSeq(s, 1, k) \in Text /\ Len(SubSeq(s, 1, k)) = k
         /\ \A i \in 1..k : SubSeq(s, 1, k)[i] = s[i]
         /\ SubSeq(s, k + 1, Len(s)) \in Text /\ Len(SubSeq(s, k + 1, Len(s))) = Len(s) - k
         /\ \A i \in 1..(Len(s) - k) : SubSeq(s, k + 1, Len(s))[i] = s[k + i]
<1>1. Len(s) \in Nat /\ \A i \in 1..Len(s) : s[i] \in Pieces
  BY TextFacts
<1>2. /\ SubSeq(s, 1, k) \in Text /\ Len(SubSeq(s, 1, k)) = k
      /\ \A i \in 1..k : SubSeq(s, 1, k)[i] = s[i]
  <2>1. \A i \in 1..k : s[i] \in Pieces BY <1>1
  <2>2. /\ SubSeq(s, 1, k) \in Seq(Pieces)
        /\ Len(SubSeq(s, 1, k)) = IF 1 <= k THEN k - 1 + 1 ELSE 0
        /\ \A i \in 1..(k - 1 + 1) : SubSeq(s, 1, k)[i] = s[1 + i - 1]
    BY <1>1, <2>1, SubSeqProperties
  <2>3. QED BY <1>1, <2>2 DEF Text
<1>3. /\ SubSeq(s, k + 1, Len(s)) \in Text /\ Len(SubSeq(s, k + 1, Len(s))) = Len(s) - k
      /\ \A i \in 1..(Len(s) - k) : SubSeq(s, k + 1, Len(s))[i] = s[k + i]
  <2>1. \A i \in (k + 1)..Len(s) : s[i] \in Pieces BY <1>1
  <2>2. /\ SubSeq(s, k + 1, Len(s)) \in Seq(Pieces)
        /\ Len(SubSeq(s, k + 1, Len(s))) =
             IF k + 1 <= Len(s) THEN Len(s) - (k + 1) + 1 ELSE 0
        /\ \A i \in 1..(Len(s) - (k + 1) + 1) :
             SubSeq(s, k + 1, Len(s))[i] = s[(k + 1) + i - 1]
    BY <1>1, <2>1, SubSeqProperties
  <2>3. QED BY <1>1, <2>2 DEF Text
<1>4. QED BY <1>2, <1>3

LEMMA PrefixFacts ==
  ASSUME NEW s \in Text, NEW t \in Text, Len(s) =< Len(t), \A i \in 1..Len(s) : s[i] = t[i]
  PROVE  IsPrefix(s, t) /\ (Len(s) = Len(t) => s = t)
<1>1. Len(s) \in 0..Len(t) /\ Len(s) \in 0..Len(s)
  BY TextFacts
<1>2. /\ SubSeq(t, 1, Len(s)) \in Text /\ Len(SubSeq(t, 1, Len(s))) = Len(s)
      /\ \A i \in 1..Len(s) : SubSeq(t, 1, Len(s))[i] = t[i]
  BY <1>1, Cut
<1>3. SubSeq(s, 1, Len(s)) = s
  BY SubSeqFull DEF Text
<1>4. SubSeq(t, 1, Len(s)) = s
  BY <1>2, SeqEqual DEF Text
<1>5. Len(s) = Len(t) => s = t
  BY SeqEqual DEF Text
<1>6. QED BY <1>3, <1>4, <1>5 DEF IsPrefix

LEMMA Least ==
  ASSUME NEW S, S \subseteq Nat, S # {}
  PROVE  Min(S) \in S /\ \A y \in S : Min(S) =< y
<1> DEFINE R == OpToRel(<, Nat)
<1>1. IsWellFoundedOn(R, Nat)
  BY NatLessThanWellFounded
<1>2. \A y, x \in Nat : <<y, x>> \in R <=> y < x
  BY DEF OpToRel
<1> HIDE DEF R
<1>3. PICK x \in S : \A y \in S : ~(<<y, x>> \in R)
  BY <1>1, WFMin
<1>4. ASSUME NEW y \in S PROVE x =< y
  <2>1. x \in Nat /\ y \in Nat /\ ~(<<y, x>> \in R)
    BY <1>3
  <2>2. ~(y < x)
    BY <1>2, <2>1
  <2>3. QED BY <2>1, <2>2
<1>5. QED BY <1>4 DEF Min

LEMMA Greatest ==
  ASSUME NEW n \in Nat, NEW S, S \subseteq 0..n, S # {}
  PROVE  Max(S) \in S /\ \A y \in S : Max(S) >= y
<1> DEFINE T == {i \in 0..n : n - i \in S}
<1>1. PICK s \in S : TRUE
  OBVIOUS
<1>2. n - s \in 0..n /\ n - (n - s) = s
  BY <1>1
<1>9. n - s \in T
  BY <1>1, <1>2
<1>3. T \subseteq Nat /\ T # {}
  <2>1. 0..n \subseteq Nat
    OBVIOUS
  <2>2. QED BY <1>9, <2>1
<1>4. Min(T) \in T /\ \A y \in T : Min(T) =< y
  BY <1>3, Least
<1>5. PICK t \in T : \A y \in T : t =< y
  BY <1>4
<1>6. n - t \in S /\ t \in 0..n
  BY <1>5
<1>7. ASSUME NEW y \in S PROVE n - t >= y
  <2>1. y \in 0..n /\ n - y \in 0..n /\ n - (n - y) = y
    BY <1>7
  <2>2. t =< n - y
    BY <1>5, <2>1
  <2>3. QED BY <1>6, <2>1, <2>2
<1>8. QED BY <1>6, <1>7 DEF Max

\* What sscanf leaves of a text has a piece of it at each place, the first one of the rest.
LEMMA ParsedFacts ==
  ASSUME NEW text \in Text
  PROVE  LET words == {i \in DOMAIN text : text[i] # Blank}
         IN  /\ Parsed(text) \in Text /\ Len(Parsed(text)) =< Len(text)
             /\ \A i \in words : i =< Len(Parsed(text))
             /\ \A i \in 1..Len(Parsed(text)) : \E j \in words :
                  /\ Parsed(text)[i] = text[j] /\ j >= i
                  /\ \A m \in words : m >= i => j =< m
<1> DEFINE words == {i \in DOMAIN text : text[i] # Blank}
<1> DEFINE n == Max(words \cup {0})
<1>1. Len(text) \in Nat /\ DOMAIN text = 1..Len(text) /\ \A i \in 1..Len(text) : text[i] \in Pieces
  BY TextFacts
<1>2. words \subseteq 1..Len(text)
  BY <1>1
<1> HIDE DEF words
<1>3. words \cup {0} \subseteq 0..Len(text) /\ words \cup {0} # {}
  BY <1>1, <1>2
<1>4. n \in words \cup {0} /\ \A y \in words \cup {0} : n >= y
  BY <1>1, <1>3, Greatest
<1>5. n \in 0..Len(text)
  BY <1>3, <1>4
<1> HIDE DEF n
<1> DEFINE next(i) == Min({j \in words : j >= i})
<1>6. ASSUME NEW i \in 1..n
      PROVE  next(i) \in words /\ next(i) >= i /\ \A m \in words : m >= i => next(i) =< m
  <2> DEFINE rest == {j \in words : j >= i}
  <2>1. n \in words
    BY <1>4, <1>5
  <2>2. n \in rest /\ rest \subseteq Nat
    <3>1. n >= i
      BY <1>1, <1>5
    <3>2. n \in rest
      BY <2>1, <3>1
    <3>3. 1..Len(text) \subseteq Nat
      BY <1>1
    <3>4. QED BY <1>2, <3>2, <3>3
  <2>3. Min(rest) \in rest /\ \A y \in rest : Min(rest) =< y
    BY <2>2, Least
  <2>4. QED BY <2>3
<1>7. Parsed(text) = [i \in 1..n |-> text[next(i)]]
  BY DEF Parsed, words, n
<1> HIDE DEF next
<1>8. \A i \in 1..n : text[next(i)] \in Pieces
  BY <1>1, <1>2, <1>6
<1>9. Parsed(text) \in Text /\ Len(Parsed(text)) = n
  BY <1>5, <1>7, <1>8 DEF Text
<1>10. \A i \in words : i =< n
  BY <1>2, <1>4, <1>5
<1>11. \A i \in 1..n : Parsed(text)[i] = text[next(i)]
  BY <1>7
<1>12. QED BY <1>1, <1>5, <1>6, <1>9, <1>10, <1>11 DEF words

LEMMA AnswerFacts ==
  ASSUME NEW s \in Text
  PROVE  LET t == IF prog = "ex5" THEN Parsed(s) ELSE s
         IN  /\ Answer(s) \in Text /\ Len(Answer(s)) = Len(t) + 1 /\ Answer(s) # <<>>
             /\ \A i \in 1..Len(t) : Answer(s)[i] = Upper(t[i])
             /\ Answer(s)[Len(t) + 1] = Piece("name", 1)
<1> DEFINE t == IF prog = "ex5" THEN Parsed(s) ELSE s
<1>1. t \in Text
  BY ParsedFacts
<1>2. Answer(s) = UpperAll(t) \o <<Piece("name", 1)>>
  BY DEF Answer
<1> HIDE DEF t
<1>3. /\ UpperAll(t) \in Text /\ Len(UpperAll(t)) = Len(t)
      /\ \A i \in 1..Len(t) : UpperAll(t)[i] = Upper(t[i])
  BY <1>1, UpperFacts
<1> DEFINE u == UpperAll(t)
<1> DEFINE name == <<Piece("name", 1)>>
<1>4. name \in Text /\ Len(name) = 1 /\ name[1] = Piece("name", 1)
  <2>1. Piece("name", 1) \in Pieces
    BY PieceFacts DEF Origins
  <2>2. QED BY <2>1, OneText
<1> HIDE DEF u, name
<1>5. /\ Answer(s) \in Text /\ Len(Answer(s)) = Len(t) + 1
      /\ \A i \in 1..Len(t) : Answer(s)[i] = Upper(t[i])
      /\ Answer(s)[Len(t) + 1] = Piece("name", 1)
  <2>1. Answer(s) = u \o name /\ u \in Text /\ 1 \in 1..Len(name)
    BY <1>2, <1>3, <1>4 DEF u, name
  <2>2. /\ u \o name \in Text /\ Len(u \o name) = Len(u) + Len(name)
        /\ \A i \in 1..Len(u) : (u \o name)[i] = u[i]
        /\ \A i \in 1..Len(name) : (u \o name)[Len(u) + i] = name[i]
    BY <1>4, <2>1, Joined
  <2>3. QED BY <1>3, <1>4, <2>1, <2>2 DEF u
<1>6. Answer(s) # <<>>
  BY <1>1, <1>5, TextFacts
<1>7. QED BY <1>5, <1>6 DEF t

-----------------------------------------------------------------------------
(* Steps *)

LEMMA PlainOfTypeOK == TypeOK => Plain
BY DEF TypeOK, Plain, States

LEMMA QueueOf == ASSUME backlog \in Seq(Client)
                 PROVE  ToSet(backlog) = {c \in Client : Waits(c)}
<1>1. DOMAIN backlog = 1..Len(backlog) /\ \A i \in 1..Len(backlog) : backlog[i] \in Client
  BY LenProperties, ElementOfSeq
<1>2. QED BY <1>1 DEF ToSet, Waits

LEMMA BlockFacts ==
  ASSUME NEW c \in Client, NEW i \in Nat, NEW bytes \in Block(c, i)
  PROVE  bytes \in Text
<1>1. Piece("file", i) \in Pieces /\ Piece("old", i - 1) \in Pieces /\ Piece("junk", i) \in Pieces
  BY PieceFacts DEF Origins
<1>2. QED BY <1>1, OneText, TwoTexts DEF Block

LEMMA TypedFacts ==
  ASSUME NEW n \in Nat, NEW blanks
  PROVE  LET s == [i \in 1..n |-> IF i \in blanks THEN Blank ELSE Piece("line", i)]
         IN  s \in Text /\ Len(s) = n
<1>1. ASSUME NEW i \in 1..n
      PROVE  (IF i \in blanks THEN Blank ELSE Piece("line", i)) \in Pieces
  BY PieceFacts DEF Origins
<1>2. QED BY <1>1 DEF Text

-----------------------------------------------------------------------------
(* Bytes on their way: outgoing ones o, stored f, read b, unread u, shown p and coming q *)

LEMMA Added ==
  ASSUME NEW s \in Text, NEW b \in Text, Len(b) = 1
  PROVE  /\ Len(s \o UpperAll(b)) = Len(s) + 1 /\ (s \o UpperAll(b))[Len(s) + 1] = Upper(b[1])
         /\ \A i \in 1..Len(s) : (s \o UpperAll(b))[i] = s[i]
<1> DEFINE u == UpperAll(b)
<1>1. 1 \in 1..Len(b)
  OBVIOUS
<1>2. u \in Text /\ Len(u) = 1 /\ u[1] = Upper(b[1])
  BY <1>1, UpperFacts
<1> HIDE DEF u
<1>3. 1 \in 1..Len(u)
  BY <1>2
<1>4. QED
  <2>1. /\ Len(s \o u) = Len(s) + Len(u) /\ \A i \in 1..Len(s) : (s \o u)[i] = s[i]
        /\ \A i \in 1..Len(u) : (s \o u)[Len(s) + i] = u[i]
    BY <1>2, Joined
  <2>2. QED BY <1>2, <1>3, <2>1 DEF u

LEMMA NothingSent ==
  ASSUME NEW f \in Text, NEW u \in Text, NEW b, NEW n \in {0, 1}, Stored(<<>>, f, b, u, n)
  PROVE  Whole(<<>>, f, u, n)
BY TextFacts, EmptyText DEF Stored, Whole

LEMMA ReadByte ==
  ASSUME NEW o \in Text, NEW f \in Text, NEW u \in Text, NEW b, Stored(o, f, b, u, 0), u # <<>>
  PROVE  /\ Stored(o, f, <<Head(u)>>, Tail(u), 1)
         /\ Whole(o, f, u, 0) => Whole(o, f, Tail(u), 1)
<1>1. /\ Len(o) \in Nat /\ Len(f) \in Nat /\ Len(u) \in Nat \ {0}
      /\ Tail(u) \in Text /\ Len(Tail(u)) = Len(u) - 1
      /\ \A i \in 1..Len(Tail(u)) : Tail(u)[i] = u[i + 1]
      /\ Len(<<Head(u)>>) = 1 /\ <<Head(u)>>[1] = u[1]
  BY TextFacts, HeadTailProperties DEF Text
<1>2. ASSUME NEW i \in 1..Len(Tail(u)) PROVE Tail(u)[i] = o[Len(f) + 1 + i]
  <2>1. i + 1 \in 1..Len(u) /\ Len(f) + 0 + (i + 1) = Len(f) + 1 + i
    BY <1>1
  <2>2. u[i + 1] = o[Len(f) + 0 + (i + 1)]
    BY <2>1 DEF Stored
  <2>3. QED BY <1>1, <2>1, <2>2
<1>3. u[1] = o[Len(f) + 1]
  <2>1. 1 \in 1..Len(u) /\ Len(f) + 0 + 1 = Len(f) + 1
    BY <1>1
  <2>2. QED BY <2>1 DEF Stored
<1>4. QED BY <1>1, <1>2, <1>3 DEF Stored, Whole

LEMMA OtherByte ==
  ASSUME NEW f, NEW b, NEW x, NEW p, NEW q, Echoed(f, b, p, q, 0)
  PROVE  Echoed(f, x, p, q, 0)
BY DEF Echoed

LEMMA StoreByte ==
  ASSUME NEW o \in Text, NEW f \in Text, NEW u \in Text, NEW b \in Text, Stored(o, f, b, u, 1)
  PROVE  /\ Stored(o, f \o UpperAll(b), b, u, 0)
         /\ Whole(o, f, u, 1) => Whole(o, f \o UpperAll(b), u, 0)
         /\ \A p, q \in Text : Echoed(f, b, p, q, 0) => Echoed(f \o UpperAll(b), b, p, q, 1)
<1> DEFINE g == f \o UpperAll(b)
<1>1. Len(b) = 1 /\ b[1] = o[Len(f) + 1] /\ Len(o) \in Nat /\ Len(f) \in Nat /\ Len(u) \in Nat
  BY TextFacts DEF Stored
<1>3. /\ Len(g) = Len(f) + 1 /\ g[Len(f) + 1] = Upper(b[1])
      /\ \A i \in 1..Len(f) : g[i] = f[i]
  BY <1>1, Added
<1> HIDE DEF g
<1>4. \A i \in 1..Len(g) : g[i] = Upper(o[i])
  <2>1. \A i \in 1..Len(g) : i \in 1..Len(f) \/ i = Len(f) + 1
    BY <1>1, <1>3
  <2>2. QED BY <1>1, <1>3, <2>1 DEF Stored
<1>5. Stored(o, g, b, u, 0) /\ (Whole(o, f, u, 1) => Whole(o, g, u, 0))
  <2>1. Len(g) + 0 + Len(u) = Len(f) + 1 + Len(u)
        /\ \A i \in 1..Len(u) : Len(g) + 0 + i = Len(f) + 1 + i
    BY <1>1, <1>3
  <2>2. QED BY <1>4, <2>1 DEF Stored, Whole
<1>6. ASSUME NEW p \in Text, NEW q \in Text, Echoed(f, b, p, q, 0) PROVE Echoed(g, b, p, q, 1)
  <2>1. Len(p) \in Nat /\ Len(q) \in Nat /\ Len(p) + Len(q) + 0 = Len(f)
    BY <1>6, TextFacts DEF Echoed
  <2>2. Len(p) + Len(q) + 1 = Len(g)
    BY <1>1, <1>3, <2>1
  <2>3. \A i \in 1..Len(p) : i \in 1..Len(f)
    BY <1>1, <2>1
  <2>4. \A i \in 1..Len(q) : Len(p) + i \in 1..Len(f)
    BY <1>1, <2>1
  <2>5. QED BY <1>1, <1>3, <1>6, <2>2, <2>3, <2>4 DEF Echoed
<1>7. QED BY <1>5, <1>6 DEF g

LEMMA EchoByte ==
  ASSUME NEW f \in Text, NEW b \in Text, NEW p \in Text, NEW q \in Text, Echoed(f, b, p, q, 1)
  PROVE  Echoed(f, b, p, q \o UpperAll(b), 0)
<1> DEFINE r == q \o UpperAll(b)
<1>1. /\ Len(b) = 1 /\ Upper(b[1]) = f[Len(f)] /\ Len(p) + Len(q) + 1 = Len(f)
      /\ Len(f) \in Nat /\ Len(p) \in Nat /\ Len(q) \in Nat
  BY TextFacts DEF Echoed
<1>3. /\ Len(r) = Len(q) + 1 /\ r[Len(q) + 1] = Upper(b[1])
      /\ \A i \in 1..Len(q) : r[i] = q[i]
  BY <1>1, Added
<1> HIDE DEF r
<1>4. ASSUME NEW i \in 1..Len(r) PROVE r[i] = f[Len(p) + i]
  <2>1. CASE i \in 1..Len(q)
    BY <1>3, <2>1 DEF Echoed
  <2>2. CASE i = Len(q) + 1
    <3>1. Len(p) + i = Len(f)
      BY <1>1, <2>2
    <3>2. QED BY <1>1, <1>3, <2>2, <3>1
  <2>3. QED BY <1>1, <1>3, <2>1, <2>2
<1>5. Len(p) + Len(r) + 0 = Len(f)
  BY <1>1, <1>3
<1>6. Echoed(f, b, p, r, 0)
  BY <1>4, <1>5 DEF Echoed
<1>7. QED BY <1>6 DEF r

LEMMA ShowBytes ==
  ASSUME NEW f \in Text, NEW b \in Text, NEW p \in Text, NEW q \in Text, NEW n \in {0, 1},
         Echoed(f, b, p, q, n), NEW k \in 1..Len(q)
  PROVE  Echoed(f, b, p \o SubSeq(q, 1, k), SubSeq(q, k + 1, Len(q)), n)
<1> DEFINE s == SubSeq(q, 1, k)
<1> DEFINE r == SubSeq(q, k + 1, Len(q))
<1>1. /\ Len(p) \in Nat /\ Len(q) \in Nat /\ Len(f) \in Nat /\ k \in 0..Len(q)
      /\ Len(p) + Len(q) + n = Len(f)
  BY TextFacts DEF Echoed
<1>2. /\ s \in Text /\ Len(s) = k /\ \A i \in 1..k : s[i] = q[i]
      /\ Len(r) = Len(q) - k /\ \A i \in 1..(Len(q) - k) : r[i] = q[k + i]
  BY <1>1, Cut
<1> HIDE DEF s, r
<1> DEFINE t == p \o s
<1>3. /\ Len(t) = Len(p) + k /\ \A i \in 1..Len(p) : t[i] = p[i]
      /\ \A i \in 1..k : t[Len(p) + i] = q[i]
  <2>1. /\ Len(t) = Len(p) + Len(s) /\ \A i \in 1..Len(p) : t[i] = p[i]
        /\ \A i \in 1..Len(s) : t[Len(p) + i] = s[i]
    BY <1>2, Joined
  <2> HIDE DEF t
  <2>2. QED BY <1>2, <2>1
<1> HIDE DEF t
<1>4. ASSUME NEW i \in 1..Len(t) PROVE t[i] = f[i]
  <2>1. CASE i \in 1..Len(p)
    BY <1>3, <2>1 DEF Echoed
  <2>2. CASE i \notin 1..Len(p)
    <3>1. i - Len(p) \in 1..k /\ i - Len(p) \in 1..Len(q) /\ i = Len(p) + (i - Len(p))
      BY <1>1, <1>3, <2>2
    <3>2. PICK j \in 1..k : j \in 1..Len(q) /\ i = Len(p) + j
      BY <3>1
    <3>3. QED BY <1>3, <3>2 DEF Echoed
  <2>3. QED BY <2>1, <2>2
<1>5. ASSUME NEW i \in 1..Len(r) PROVE r[i] = f[Len(t) + i]
  <2>1. k + i \in 1..Len(q) /\ Len(p) + (k + i) = Len(t) + i /\ i \in 1..(Len(q) - k)
    BY <1>1, <1>2, <1>3
  <2>2. q[k + i] = f[Len(p) + (k + i)]
    BY <2>1 DEF Echoed
  <2>3. QED BY <1>2, <2>1, <2>2
<1>6. Len(t) + Len(r) + n = Len(f)
  <2>1. Len(t) + Len(r) = Len(p) + Len(q)
    BY <1>1, <1>2, <1>3
  <2>2. QED BY <1>1, <2>1
<1>7. Echoed(f, b, t, r, n)
  BY <1>4, <1>5, <1>6 DEF Echoed
<1>8. QED BY <1>7 DEF t, s, r

LEMMA SendBytes ==
  ASSUME NEW o \in Text, NEW f \in Text, NEW u \in Text, NEW b, NEW n \in {0, 1},
         Stored(o, f, b, u, n), NEW x \in Text
  PROVE  /\ Stored(o \o x, f, b, u, n)
         /\ Whole(o, f, u, n) => /\ Stored(o \o x, f, b, u \o x, n)
                                 /\ Whole(o \o x, f, u \o x, n)
<1> DEFINE s == o \o x
<1> DEFINE v == u \o x
<1>1. /\ Len(o) \in Nat /\ Len(f) \in Nat /\ Len(u) \in Nat /\ Len(x) \in Nat
      /\ Len(f) + n + Len(u) =< Len(o)
  BY TextFacts DEF Stored
<1>2. /\ Len(s) = Len(o) + Len(x) /\ \A i \in 1..Len(o) : s[i] = o[i]
      /\ \A i \in 1..Len(x) : s[Len(o) + i] = x[i]
  BY Joined
<1>3. /\ Len(v) = Len(u) + Len(x) /\ \A i \in 1..Len(u) : v[i] = u[i]
      /\ \A i \in 1..Len(x) : v[Len(u) + i] = x[i]
  BY Joined
<1> HIDE DEF s, v
<1>4. /\ \A i \in 1..Len(f) : i \in 1..Len(o)
      /\ \A i \in 1..Len(u) : Len(f) + n + i \in 1..Len(o)
      /\ n = 1 => Len(f) + 1 \in 1..Len(o)
  BY <1>1
<1>5. /\ \A i \in 1..Len(f) : f[i] = Upper(s[i])
      /\ \A i \in 1..Len(u) : u[i] = s[Len(f) + n + i]
      /\ n = 1 => Len(b) = 1 /\ b[1] = s[Len(f) + 1]
  BY <1>2, <1>4 DEF Stored
<1>6. Stored(s, f, b, u, n)
  <2>1. Len(f) + n + Len(u) =< Len(s)
    BY <1>1, <1>2
  <2>2. QED BY <1>5, <2>1 DEF Stored
<1>7. ASSUME Whole(o, f, u, n) PROVE Stored(s, f, b, v, n) /\ Whole(s, f, v, n)
  <2>1. Len(f) + n + Len(u) = Len(o)
    BY <1>7 DEF Whole
  <2>2. Len(f) + n + Len(v) = Len(s)
    <3>1. Len(f) + n + Len(v) = (Len(f) + n + Len(u)) + Len(x)
      BY <1>1, <1>3
    <3>2. QED BY <1>2, <2>1, <3>1
  <2>3. ASSUME NEW i \in 1..Len(v) PROVE v[i] = s[Len(f) + n + i]
    <3>1. CASE i \in 1..Len(u)
      BY <1>3, <1>5, <3>1
    <3>2. CASE i \notin 1..Len(u)
      <4>1. i - Len(u) \in 1..Len(x) /\ i = Len(u) + (i - Len(u))
        BY <1>1, <1>3, <3>2
      <4>2. PICK j \in 1..Len(x) : i = Len(u) + j
        BY <4>1
      <4>3. Len(f) + n + i = Len(o) + j
        <5>1. Len(f) + n + i = (Len(f) + n + Len(u)) + j
          BY <1>1, <4>2
        <5>2. QED BY <2>1, <5>1
      <4>4. QED BY <1>2, <1>3, <4>2, <4>3
    <3>3. QED BY <3>1, <3>2
  <2>4. Len(f) + n + Len(v) =< Len(s)
    BY <1>1, <1>2, <2>2
  <2>5. QED BY <1>5, <2>2, <2>3, <2>4 DEF Stored, Whole
<1>8. QED BY <1>6, <1>7 DEF s, v

-----------------------------------------------------------------------------
(* Steps *)

\* However the server ends, and whoever with it.
LEMMA WhoEnds ==
  ASSUME ForkFails \/ KillServer \/ CtrlC
  PROVE  \E victims \in SUBSET {c \in Client : Alive(child[c])} : Ends(victims)
BY DEF ForkFails, KillServer, CtrlC

LEMMA InitInv == Init => Inv
<1> SUFFICES ASSUME Init PROVE Inv
  OBVIOUS
<1>0. prog \in Programs /\ \A c \in Client : Size[c] \in Nat \ {0}
  BY SizeFacts DEF Init
<1>1. TypeOK /\ TextInv
  <2>1. Cardinality(held) = 0
    BY FS_EmptySet DEF Init
  <2>2. Processes = {} /\ Cardinality(Processes) = 0
    BY FS_EmptySet DEF Init, Processes, Alive
  <2>3. TextInv
    BY EmptyText DEF Init, TextInv, Empty
  <2>4. backlog \in Seq(Client)
    BY EmptySeq DEF Init
  <2>5. QED BY <1>0, <2>1, <2>2, <2>3, <2>4 DEF Init, TypeOK
<1>2. HeldInv
  BY DEF Init, HeldInv
<1>3. \A c \in Client : ~Waits(c)
  BY EmptySeq DEF Init, Waits
<1>4. QueueInv
  BY <1>3, EmptySeq DEF Init, QueueInv, Once, PlaceInv
<1>5. ASSUME NEW c \in Client PROVE ClientInv(c) /\ FileInv(c) /\ LineInv(c) /\ TypedInv(c)
  <2>1. /\ buffer[c] = <<>> /\ file[c] = <<>> /\ sent[c] = <<>> /\ printed[c] = <<>>
        /\ toServer[c] = <<>> /\ toClient[c] = <<>> /\ at[c] = 0
        /\ child[c] = "none" /\ cpc[c] = "start"
    BY DEF Init, Empty
  <2>2. ClientInv(c)
    BY <1>0, <2>1 DEF ClientInv
  <2>3. StoreInv(c) /\ EchoInv(c)
    <3>1. One(child[c] = "store") = 0 /\ One(child[c] = "echo") = 0
      BY <2>1 DEF One
    <3>2. /\ Stored(sent[c], file[c], buffer[c], toServer[c], 0)
          /\ Whole(sent[c], file[c], toServer[c], 0)
          /\ Echoed(file[c], buffer[c], printed[c], toClient[c], 0)
      BY <2>1, EmptySeq DEF Stored, Whole, Echoed
    <3>3. QED BY <3>1, <3>2 DEF StoreInv, EchoInv
  <2>4. RequestInv(c) /\ AnswerInv(c)
    BY <2>1, EmptySeq DEF RequestInv, AnswerInv
  <2>5. TypedInv(c)
    BY <2>1, EmptySeq DEF TypedInv
  <2>6. QED BY <2>2, <2>3, <2>4, <2>5 DEF FileInv, LineInv
<1>6. QED BY <1>1, <1>2, <1>4, <1>5 DEF Inv

LEMMA TypeStep == Inv /\ [Next]_vars => Plain' /\ TextInv'
<1> SUFFICES ASSUME Inv, [Next]_vars PROVE Plain' /\ TextInv'
  OBVIOUS
<1> USE DEF Plain, setting, server, session, client, streams
<1>0. Plain /\ TextInv /\ QueueInv /\ HeldInv /\ \A c \in Client : ClientInv(c)
  BY PlainOfTypeOK DEF Inv
<1>s. \A c \in Client : Size[c] \in Nat \ {0}
  BY <1>0, SizeFacts
<1>t. ASSUME UNCHANGED prog PROVE States' = States /\ Size' = Size
  BY <1>t DEF States, Size
<1>l. ASSUME NEW up, NEW children, NEW resets, resets \subseteq Client, Leave(up, children, resets)
      PROVE  reset' \subseteq Client /\ backlog' \in Seq(Client)
  BY <1>0, <1>l, QueueOf, EmptySeq DEF Leave
<1>1. CASE Start
  BY <1>0, <1>1, <1>t DEF Start, TextInv
<1>2. CASE Accept
  BY <1>0, <1>2, <1>t, HeadTailProperties DEF Accept, TextInv
<1>3. CASE Fork
  <2>1. child' \in [Client -> States]
    BY <1>0, <1>3 DEF Fork, States
  <2>2. QED BY <1>0, <1>3, <1>t, <2>1 DEF Fork, TextInv
<1>4. ASSUME NEW victims \in SUBSET Client, Ends(victims) PROVE Plain' /\ TextInv'
  <2>1. child' \in [Client -> States]
    BY <1>0, <1>4 DEF Ends, States
  <2>2. reset \cup Unread(held \cup victims, child') \subseteq Client
    BY <1>0 DEF Unread
  <2>3. reset' \subseteq Client /\ backlog' \in Seq(Client)
    BY <1>4, <1>l, <2>2 DEF Ends
  <2>4. QED BY <1>0, <1>4, <1>t, <2>1, <2>3 DEF Ends, TextInv
<1>5. CASE ParentClose
  BY <1>0, <1>5, <1>t DEF ParentClose, TextInv, Kept, Unread
<1>6. ASSUME NEW c \in Client, Exit(c) PROVE Plain' /\ TextInv'
  <2>1. child' \in [Client -> States]
    BY <1>0, <1>6 DEF Exit, Step, States
  <2>2. reset' \subseteq Client /\ backlog' \in Seq(Client)
    BY <1>0, <1>6, <1>l DEF Exit
  <2>3. QED BY <1>0, <1>6, <1>t, <2>1, <2>2 DEF Exit, TextInv
<1>7. ASSUME NEW c \in Client, Mkstemp(c) \/ ReadEnds(c) \/ Select(c) \/ Timeout(c)
      PROVE  Plain' /\ TextInv'
  <2>1. child' \in [Client -> States]
    BY <1>0, <1>7 DEF Mkstemp, ReadEnds, Select, Timeout, Step, States
  <2>2. UNCHANGED <<setting, server, buffer, file, lost, client, streams>>
    BY <1>7 DEF Mkstemp, ReadEnds, Select, Timeout
  <2>3. QED BY <1>0, <1>t, <2>1, <2>2 DEF TextInv
<1>8. ASSUME NEW c \in Client, Read(c) PROVE Plain' /\ TextInv'
  <2>1. child' \in [Client -> States]
    BY <1>0, <1>8 DEF Read, Step, States
  <2>2. <<Head(toServer[c])>> \in Text /\ Tail(toServer[c]) \in Text
    <3>1. Head(toServer[c]) \in Pieces /\ Tail(toServer[c]) \in Text
      BY <1>0, <1>8, HeadTailProperties DEF Read, TextInv, Text
    <3>2. QED BY <3>1, OneText
  <2>3. QED BY <1>0, <1>8, <1>t, <2>1, <2>2 DEF Read, TextInv
<1>9. ASSUME NEW c \in Client, Store(c) PROVE Plain' /\ TextInv'
  <2>1. child' \in [Client -> States]
    BY <1>0, <1>9 DEF Store, Step, States
  <2>2. file[c] \o UpperAll(buffer[c]) \in Text /\ <<>> \in Text
    BY <1>0, UpperFacts, Joined, EmptyText DEF TextInv
  <2>3. file' \in [Client -> Text] /\ lost' \subseteq Client
    <3>1. /\ lost' = lost \/ lost' = lost \cup {c}
          /\ \/ file' = [file EXCEPT ![c] = file[c] \o UpperAll(buffer[c])]
             \/ file' = [file EXCEPT ![c] = <<>>]
      BY <1>9 DEF Store
    <3>2. lost' \subseteq Client
      BY <1>0, <3>1
    <3>3. file' \in [Client -> Text]
      BY <1>0, <2>2, <3>1 DEF TextInv
    <3>4. QED BY <3>2, <3>3
  <2>4. QED BY <1>0, <1>9, <1>t, <2>1, <2>3 DEF Store, TextInv
<1>10. ASSUME NEW c \in Client, Echo(c) PROVE Plain' /\ TextInv'
  <2>1. child' \in [Client -> States]
    BY <1>0, <1>10 DEF Echo, Step, States
  <2>2. toClient[c] \o UpperAll(buffer[c]) \in Text
    BY <1>0, UpperFacts, Joined DEF TextInv
  <2>3. QED BY <1>0, <1>10, <1>t, <2>1, <2>2 DEF Echo, TextInv
<1>11. ASSUME NEW c \in Client, ReadRequest(c) PROVE Plain' /\ TextInv'
  <2>1. PICK k \in 0..Len(toServer[c]) :
          /\ toServer' = [toServer EXCEPT ![c] = SubSeq(@, k + 1, Len(@))]
          /\ \/ /\ Step(c, "answer", "reply")
                /\ \E text \in TextRead(c, SubSeq(toServer[c], 1, k)) :
                     buffer' = [buffer EXCEPT ![c] = text]
             \/ Step(c, "answer", "exit") /\ UNCHANGED buffer
    BY <1>11 DEF ReadRequest
  <2>2. child' \in [Client -> States]
    BY <1>0, <2>1 DEF Step, States
  <2>3. SubSeq(toServer[c], 1, k) \in Text /\ SubSeq(toServer[c], k + 1, Len(toServer[c])) \in Text
    BY <1>0, Cut DEF TextInv
  <2>4. ASSUME NEW text \in TextRead(c, SubSeq(toServer[c], 1, k)) PROVE text \in Text
    <3> DEFINE read == SubSeq(toServer[c], 1, k)
    <3>1. read \in Text /\ Len(read) \in Nat
      BY <2>3, TextFacts
    <3> HIDE DEF read
    <3>2. Piece("junk", Len(read)) \in Pieces
      BY <3>1, PieceFacts DEF Origins
    <3>3. Append(read, Piece("junk", Len(read))) \in Text
      BY <3>1, <3>2, AppendProperties DEF Text
    <3>4. text \in {read, Append(read, Piece("junk", Len(read)))}
      BY <2>4 DEF TextRead, read
    <3>5. QED BY <3>1, <3>3, <3>4
  <2>5. buffer' \in [Client -> Text]
    BY <1>0, <2>1, <2>4 DEF TextInv
  <2>6. QED BY <1>0, <1>11, <1>t, <2>1, <2>2, <2>3, <2>5 DEF ReadRequest, TextInv
<1>12. ASSUME NEW c \in Client, Reply(c) PROVE Plain' /\ TextInv'
  <2>1. child' \in [Client -> States]
    BY <1>0, <1>12 DEF Reply, Step, States
  <2>2. Answer(buffer[c]) \in Text
    BY <1>0, AnswerFacts DEF TextInv
  <2>3. QED BY <1>0, <1>12, <1>t, <2>1, <2>2 DEF Reply, TextInv
<1>13. ASSUME NEW c \in Client, Connect(c) PROVE Plain' /\ TextInv'
  <2>1. Append(backlog, c) \in Seq(Client)
    BY <1>0, AppendProperties
  <2>2. QED BY <1>0, <1>13, <1>t, <2>1 DEF Connect, Go, TextInv
<1>w. ASSUME NEW c \in Client, NEW bytes \in Text, Write(c, bytes)
      PROVE  /\ sent' \in [Client -> Text] /\ toServer' \in [Client -> Text]
             /\ reset' \subseteq Client
  <2>1. sent[c] \o bytes \in Text /\ toServer[c] \o bytes \in Text
    BY <1>0, Joined DEF TextInv
  <2>2. QED BY <1>0, <1>w, <2>1 DEF Write, TextInv
<1>14. ASSUME NEW c \in Client, SendBlock(c) PROVE Plain' /\ TextInv'
  <2>1. PICK bytes \in Block(c, at[c] + 1) : Write(c, bytes)
    BY <1>14 DEF SendBlock
  <2>2. at[c] \in Nat /\ at[c] < Size[c]
    BY <1>0, <1>14 DEF SendBlock, ClientInv, TextInv
  <2>3. bytes \in Text
    BY <2>1, <2>2, BlockFacts
  <2>4. at' \in [Client -> Nat] /\ \A d \in Client : at'[d] \in 0..Size[d]
    BY <1>0, <1>s, <1>14, <2>2 DEF SendBlock, TextInv
  <2>5. QED BY <1>0, <1>14, <1>t, <1>w, <2>1, <2>3, <2>4 DEF SendBlock, TextInv
<1>15. ASSUME NEW c \in Client, SendLine(c) PROVE Plain' /\ TextInv'
  <2>1. PICK blanks : Write(c, [i \in 1..Size[c] |-> IF i \in blanks THEN Blank
                                                                  ELSE Piece("line", i)])
    BY <1>15 DEF SendLine
  <2>2. [i \in 1..Size[c] |-> IF i \in blanks THEN Blank ELSE Piece("line", i)] \in Text
    <3>1. Size[c] \in Nat
      BY <1>s
    <3>2. QED BY <3>1, TypedFacts
  <2>3. QED BY <1>0, <1>15, <1>t, <1>w, <2>1, <2>2 DEF SendLine, Go, TextInv
<1>16. ASSUME NEW c \in Client, SendFails(c) \/ Kill(c) PROVE Plain' /\ TextInv'
  BY <1>0, <1>16, <1>t DEF SendFails, Kill, Go, TextInv
<1>17. ASSUME NEW c \in Client, RecvReply(c) PROVE Plain' /\ TextInv'
  <2>1. PICK k \in 1..Len(toClient[c]) :
          /\ printed' = [printed EXCEPT ![c] = @ \o SubSeq(toClient[c], 1, k)]
          /\ toClient' = [toClient EXCEPT ![c] = SubSeq(@, k + 1, Len(@))]
    BY <1>17 DEF RecvReply
  <2>2. k \in 0..Len(toClient[c])
    BY <2>1
  <2>3. SubSeq(toClient[c], 1, k) \in Text /\ SubSeq(toClient[c], k + 1, Len(toClient[c])) \in Text
    BY <1>0, <2>2, Cut DEF TextInv
  <2>4. printed[c] \o SubSeq(toClient[c], 1, k) \in Text
    BY <1>0, <2>3, Joined DEF TextInv
  <2>5. QED BY <1>0, <1>17, <1>t, <2>1, <2>3, <2>4 DEF RecvReply, TextInv
<1>18. ASSUME NEW c \in Client, RecvEnds(c) PROVE Plain' /\ TextInv'
  <2>1. <<Piece("junk", 0)>> \in Text
    <3>1. Piece("junk", 0) \in Pieces
      BY PieceFacts DEF Origins
    <3>2. QED BY <3>1, OneText
  <2>2. Append(printed[c], Piece("junk", 0)) \in Text
    <3>1. Piece("junk", 0) \in Pieces /\ printed[c] \in Seq(Pieces)
      BY <1>0, PieceFacts DEF Origins, TextInv, Text
    <3>2. QED BY <3>1, AppendProperties DEF Text
  <2>3. ShownAtEnd(c) \subseteq Text
    <3>1. printed[c] \in Text
      BY <1>0 DEF TextInv
    <3>2. QED BY <2>1, <2>2, <3>1, Zenon DEF ShownAtEnd
  <2>4. QED BY <1>0, <1>18, <1>t, <2>3 DEF RecvEnds, Go, TextInv
<1>19. CASE UNCHANGED vars
  BY <1>0, <1>19, <1>t DEF vars, TextInv
<1>20. CASE ForkFails \/ KillServer \/ CtrlC
  <2>1. PICK victims \in SUBSET {c \in Client : Alive(child[c])} : Ends(victims)
    BY <1>20, WhoEnds
  <2>2. victims \in SUBSET Client
    OBVIOUS
  <2>3. QED BY <1>4, <2>1, <2>2
<1>21. QED
  BY <1>1, <1>2, <1>3, <1>5, <1>6, <1>7, <1>8, <1>9, <1>10, <1>11, <1>12, <1>13,
     <1>14, <1>15, <1>16, <1>17, <1>18, <1>19, <1>20
  DEF Next, ServerStep, ChildStep, ClientStep

\* Whom the server forks for.
LEMMA NewFacts ==
  ASSUME HeldInv, Plain, Fork
  PROVE  /\ New \in Client /\ held = {New} /\ child[New] = "none" /\ spc' = "close"
         /\ child' = [child EXCEPT ![New] = IF prog = "ex2" THEN "mkstemp" ELSE "select"]
<1>1. PICK c \in Client : held = {c} /\ child[c] = "none"
  BY DEF Fork, HeldInv
<1>2. New \in held /\ child[New] = "none"
  BY <1>1 DEF New
<1>3. QED BY <1>1, <1>2 DEF Fork

LEMMA HeldStep == Inv /\ [Next]_vars => HeldInv'
<1> SUFFICES ASSUME Inv, [Next]_vars PROVE HeldInv'
  OBVIOUS
<1> USE DEF setting, server, session, client, streams
<1>0. Plain /\ HeldInv /\ QueueInv
  BY PlainOfTypeOK DEF Inv
<1>1. CASE Start
  BY <1>0, <1>1 DEF Start, HeldInv
<1>2. CASE Accept
  <2>1. Head(backlog) \in Client /\ Waits(Head(backlog))
    BY <1>0, <1>2, HeadTailProperties, EmptySeq DEF Accept, Plain, Waits
  <2>2. child[Head(backlog)] = "none"
    BY <1>0, <2>1 DEF QueueInv, PlaceInv
  <2>3. held' = {Head(backlog)} /\ spc' = "fork" /\ UNCHANGED child
    BY <1>0, <1>2 DEF Accept, HeldInv
  <2>4. QED BY <2>1, <2>2, <2>3 DEF HeldInv
<1>3. CASE Fork
  BY <1>0, <1>3, NewFacts DEF HeldInv, Plain, States, Fork
<1>4. CASE ForkFails \/ KillServer \/ CtrlC
  BY <1>4 DEF ForkFails, KillServer, CtrlC, Ends, HeldInv
<1>5. CASE ParentClose
  <2>1. PICK c \in Client : held = {c} /\ child[c] # "none"
    BY <1>0, <1>5 DEF ParentClose, HeldInv
  <2>2. held' = {} /\ spc' = "accept"
    BY <1>5, <2>1 DEF ParentClose, Kept
  <2>3. QED BY <2>2 DEF HeldInv
<1>6. ASSUME UNCHANGED <<spc, held>>,
             \A d \in Client : child'[d] = "none" <=> child[d] = "none"
      PROVE  HeldInv'
  BY <1>0, <1>6 DEF HeldInv
<1>7. ASSUME NEW c \in Client, ChildStep(c) PROVE HeldInv'
  BY <1>0, <1>6, <1>7 DEF Plain, ChildStep, Step, Mkstemp, Read, ReadEnds, Store, Echo, Select,
     Timeout, ReadRequest, Reply, Exit
<1>8. ASSUME NEW c \in Client, Connect(c) \/ SendLine(c) \/ ClientStep(c) \/ Kill(c)
      PROVE  HeldInv'
  <2>1. UNCHANGED <<spc, held, child>>
    BY <1>8 DEF Connect, SendLine, ClientStep, SendBlock, SendFails, RecvReply, RecvEnds, Kill
  <2>2. QED BY <1>6, <2>1
<1>9. CASE UNCHANGED vars
  BY <1>6, <1>9 DEF vars
<1>10. QED
  BY <1>1, <1>2, <1>3, <1>4, <1>5, <1>7, <1>8, <1>9
  DEF Next, ServerStep

LEMMA CountStep == Inv /\ [Next]_vars => TypeOK'
<1> SUFFICES ASSUME Inv, [Next]_vars PROVE TypeOK'
  OBVIOUS
<1> USE DEF setting, server, session, client, streams
<1>0. Plain /\ HeldInv /\ Plain' /\ HeldInv' /\ room \in Nat /\ Cardinality(Processes) =< room
  BY PlainOfTypeOK, TypeStep, HeldStep DEF Inv, TypeOK
<1>1. Cardinality(held)' = IF spc' \in {"fork", "close"} THEN 1 ELSE 0
  <2>1. CASE spc' \in {"fork", "close"}
    <3>1. PICK c \in Client : held' = {c}
      BY <1>0, <2>1 DEF HeldInv
    <3>2. QED BY <2>1, <3>1, FS_Singleton
  <2>2. CASE spc' \in {"off", "accept"}
    <3>1. held' = {}
      BY <1>0, <2>2 DEF HeldInv
    <3>2. QED BY <2>2, <3>1, FS_EmptySet
  <2>3. QED BY <1>0, <2>1, <2>2 DEF Plain
<1>2. IsFiniteSet(Processes) /\ Cardinality(Processes) \in Nat
  <2>1. IsFiniteSet(Client) /\ Processes \in SUBSET Client
    BY SizeFacts DEF Processes
  <2>2. IsFiniteSet(Processes)
    BY <2>1, FS_Subset
  <2>3. QED BY <2>2, FS_CardinalityType
<1>3. UNCHANGED room
  BY DEF Next, vars, ServerStep, ForkFails, KillServer, CtrlC, ChildStep, ClientStep, Start,
     Accept, Fork, Ends, ParentClose, Mkstemp, Read, ReadEnds, Store, Echo, Select, Timeout,
     ReadRequest, Reply, Exit, Connect, SendLine, SendBlock, SendFails, RecvReply, RecvEnds, Kill
<1>4. ASSUME Processes' \subseteq Processes PROVE Cardinality(Processes)' =< room
  <2>1. Cardinality(Processes') =< Cardinality(Processes) /\ IsFiniteSet(Processes')
    BY <1>2, <1>4, FS_Subset
  <2>2. Cardinality(Processes') \in Nat
    BY <2>1, FS_CardinalityType
  <2>3. QED BY <1>0, <1>2, <2>1, <2>2
<1>5. ASSUME Fork PROVE Cardinality(Processes)' =< room
  <2>1. /\ New \in Client
        /\ child' = [child EXCEPT ![New] = IF prog = "ex2" THEN "mkstemp" ELSE "select"]
    BY <1>0, <1>5, NewFacts
  <2>2. PICK c \in Client : c = New
    BY <2>1
  <2>3. Processes' = Processes \cup {c}
    BY <1>0, <2>1, <2>2 DEF Processes, Alive, Plain
  <2>4. Cardinality(Processes \cup {c}) \in Nat
        /\ Cardinality(Processes \cup {c}) =< Cardinality(Processes) + 1
    <3>1. Cardinality(Processes \cup {c})
            = IF c \in Processes THEN Cardinality(Processes) ELSE Cardinality(Processes) + 1
      BY <1>2, FS_AddElement
    <3>2. QED BY <1>2, <3>1
  <2>5. Cardinality(Processes') = Cardinality(Processes \cup {c})
    BY <2>3
  <2>6. Cardinality(Processes) < room
    BY <1>5 DEF Fork
  <2>7. QED BY <1>0, <1>2, <2>4, <2>5, <2>6
<1>6. ASSUME ForkFails \/ KillServer \/ CtrlC PROVE Cardinality(Processes)' =< room
  <2>1. Processes' \subseteq Processes
    BY <1>0, <1>6 DEF ForkFails, KillServer, CtrlC, Ends, Processes, Alive, Plain
  <2>2. QED BY <1>4, <2>1
<1>7. ASSUME NEW c \in Client, ChildStep(c) PROVE Cardinality(Processes)' =< room
  <2>1. /\ \A d \in Client \ {c} : child'[d] = child[d]
        /\ child[c] \notin {"none", "zombie", "gone", "killed"}
    BY <1>0, <1>7 DEF Plain, ChildStep, Step, Mkstemp, Read, ReadEnds, Store, Echo, Select,
       Timeout, ReadRequest, Reply, Exit
  <2>2. Processes' \subseteq Processes
    BY <2>1 DEF Processes, Alive
  <2>3. QED BY <1>4, <2>2
<1>8. ASSUME UNCHANGED child PROVE Cardinality(Processes)' =< room
  <2>1. Processes' \subseteq Processes
    BY <1>8 DEF Processes
  <2>2. QED BY <1>4, <2>1
<1>9. ASSUME Start \/ Accept \/ ParentClose \/ UNCHANGED vars
      PROVE  UNCHANGED child
  BY <1>9 DEF Start, Accept, ParentClose, vars
<1>10. ASSUME NEW c \in Client, Connect(c) \/ SendLine(c) \/ ClientStep(c) \/ Kill(c)
      PROVE  UNCHANGED child
  BY <1>10 DEF Connect, SendLine, ClientStep, SendBlock, SendFails, RecvReply, RecvEnds, Kill
<1>11. Cardinality(Processes)' =< room'
  BY <1>3, <1>5, <1>6, <1>7, <1>8, <1>9, <1>10 DEF Next, ServerStep
<1>12. QED BY <1>0, <1>1, <1>11 DEF TypeOK, Plain, States

LEMMA OpenFacts ==
  ASSUME Plain, NEW c \in Client
  PROVE  Open(c) <=> c \in held \/ child[c] \notin {"none", "zombie", "gone", "killed"} \/ Waits(c)
BY QueueOf DEF Plain, Open, Alive

\* Nobody takes up a connection again, and no reset is taken back.
Later(c) == /\ Open(c)' => Open(c) \/ cpc[c] = "start"
            /\ c \in reset => c \in reset'

LEMMA QueueStep == Inv /\ [Next]_vars => QueueInv' /\ \A c \in Client : Later(c)
<1> SUFFICES ASSUME Inv, [Next]_vars PROVE QueueInv' /\ \A c \in Client : Later(c)
  OBVIOUS
<1> USE DEF setting, server, session, client, streams
<1>0. /\ Plain /\ Plain' /\ HeldInv /\ Once /\ \A d \in Client : PlaceInv(d)
      /\ backlog \in Seq(Client) /\ backlog' \in Seq(Client)
  BY PlainOfTypeOK, TypeStep DEF Inv, QueueInv, Plain
<1>1. ASSUME NEW d \in Client
      PROVE  /\ Open(d) <=>
                  d \in held \/ child[d] \notin {"none", "zombie", "gone", "killed"} \/ Waits(d)
             /\ Open(d)' <=>
                  \/ d \in held' \/ Waits(d)'
                  \/ child'[d] \notin {"none", "zombie", "gone", "killed"}
  <2>1. Open(d) <=>
          d \in held \/ child[d] \notin {"none", "zombie", "gone", "killed"} \/ Waits(d)
    BY <1>0, OpenFacts
  <2>2. Open(d)' <=> d \in held' \/ Alive(child'[d]) \/ d \in ToSet(backlog')
    BY DEF Open
  <2>3. ToSet(backlog') = {c \in Client : Waits(c)'}
    <3>1. DOMAIN backlog' = 1..Len(backlog') /\ \A i \in 1..Len(backlog') : backlog'[i] \in Client
      BY <1>0, LenProperties, ElementOfSeq
    <3>2. QED BY <3>1 DEF ToSet, Waits
  <2>4. QED BY <2>1, <2>2, <2>3 DEF Alive
<1>2. ASSUME UNCHANGED backlog PROVE Once' /\ \A d \in Client : Waits(d)' = Waits(d)
  BY <1>0, <1>2 DEF Once, Waits
\* A step that leaves the queue, and what the server holds, as they are.
<1>4. ASSUME UNCHANGED <<backlog, held>>, reset \subseteq reset',
             \A d \in Client :
               /\ child'[d] = child[d] \/ (child[d] # "none" /\ child'[d] # "none" /\ Open(d))
               /\ cpc'[d] = "start" => cpc[d] = "start"
               /\ d \in reset' => d \in reset \/ (~Open(d)' /\ cpc[d] # "start")
      PROVE  QueueInv' /\ \A c \in Client : Later(c)
  BY <1>0, <1>1, <1>2, <1>4 DEF QueueInv, PlaceInv, Later
<1>5. CASE Start
  BY <1>4, <1>5 DEF Start
<1>6. CASE Accept
  <2>1. /\ Len(backlog) \in Nat \ {0} /\ Len(backlog') = Len(backlog) - 1
        /\ \A i \in 1..Len(backlog') : backlog'[i] = backlog[i + 1]
        /\ Head(backlog) = backlog[1] /\ Head(backlog) \in Client
    BY <1>0, <1>6, HeadTailProperties, EmptySeq DEF Accept
  <2>2. Once'
    BY ONLY <1>0, <2>1, Once DEF Once
  <2>3. \A d \in Client : Waits(d)' => Waits(d)
    BY ONLY <2>1 DEF Waits
  <2>4. Waits(Head(backlog))
    BY ONLY <2>1 DEF Waits
  <2>5. \A i \in 1..Len(backlog') : backlog'[i] # Head(backlog)
    BY ONLY <1>0, <2>1, Once DEF Once
  <2>6. \A d \in Client : Waits(d)' => d # Head(backlog)
    BY ONLY <2>5 DEF Waits
  <2>7. held' = held \cup {Head(backlog)} /\ UNCHANGED <<child, cpc, reset>>
    BY <1>6 DEF Accept
  <2>8. \A d \in Client : (Open(d)' => Open(d)) /\ PlaceInv(d)'
    BY <1>0, <1>1, <2>1, <2>3, <2>4, <2>6, <2>7 DEF PlaceInv
  <2>9. QED BY <2>2, <2>7, <2>8 DEF QueueInv, Later
<1>7. CASE Fork
  <2>1. /\ New \in Client /\ held = {New} /\ child[New] = "none"
        /\ child' = [child EXCEPT ![New] = IF prog = "ex2" THEN "mkstemp" ELSE "select"]
    BY <1>0, <1>7, NewFacts
  <2>2. UNCHANGED <<backlog, held, reset, cpc>>
    BY <1>7 DEF Fork
  <2>3. \A d \in Client : (Open(d)' => Open(d)) /\ PlaceInv(d)'
    BY <1>0, <1>1, <1>2, <2>1, <2>2 DEF PlaceInv, Plain
  <2>4. QED BY <1>2, <2>2, <2>3 DEF QueueInv, Later
<1>8. ASSUME NEW up, NEW children, NEW resets, Leave(up, children, resets),
             reset \subseteq resets
      PROVE  /\ Once' /\ \A d \in Client : Waits(d)' => Waits(d)
             /\ reset \subseteq reset'
             /\ \A d \in reset' : d \in resets \/ (Waits(d) /\ ~Waits(d)')
  <2>1. CASE Listening(up, children)
    BY <1>2, <1>8, <2>1 DEF Leave
  <2>2. CASE ~Listening(up, children)
    <3>1. backlog' = <<>> /\ reset' = resets \cup ToSet(backlog)
      BY <1>8, <2>2 DEF Leave
    <3>2. Once' /\ \A d \in Client : ~Waits(d)'
      BY <3>1, EmptySeq DEF Once, Waits
    <3>3. QED BY <1>0, <1>8, <3>1, <3>2, QueueOf
  <2>3. QED BY <2>1, <2>2
<1>9. CASE ForkFails \/ KillServer \/ CtrlC
  <2>0. PICK victims \in SUBSET {c \in Client : Alive(child[c])} : Ends(victims)
    BY <1>9, WhoEnds
  <2> DEFINE unread == Unread(held \cup victims, child')
  <2>1. /\ Once' /\ \A d \in Client : Waits(d)' => Waits(d)
        /\ reset \subseteq reset'
        /\ \A d \in reset' : d \in reset \cup unread \/ (Waits(d) /\ ~Waits(d)')
    BY <1>8, <2>0 DEF Ends
  <2>2. /\ held' = {} /\ UNCHANGED cpc
        /\ child' = [c \in Client |->
                       IF c \in victims THEN "killed"
                       ELSE IF child[c] = "zombie" THEN "gone" ELSE child[c]]
    BY <2>0 DEF Ends
  <2>3. \A d \in unread : d \in held \cup victims
                           /\ child'[d] \in {"none", "zombie", "gone", "killed"}
    BY DEF Unread, Alive
  <2>4. \A d \in victims : child[d] \notin {"none", "zombie", "gone", "killed"}
    BY DEF Alive
  <2> HIDE DEF unread
  <2>5. \A d \in Client : (Open(d)' => Open(d)) /\ PlaceInv(d)'
    BY <1>0, <1>1, <2>1, <2>2, <2>3, <2>4 DEF PlaceInv
  <2>6. QED BY <2>1, <2>5 DEF QueueInv, Later
<1>10. CASE ParentClose
  <2>1. PICK c \in Client : held = {c} /\ child[c] # "none"
    BY <1>0, <1>10 DEF ParentClose, HeldInv
  <2>2. /\ held' = {} /\ reset' = reset \cup Unread(held, child) /\ UNCHANGED <<backlog, child, cpc>>
    BY <1>10, <2>1 DEF ParentClose, Kept
  <2>3. \A d \in Unread(held, child) : d \in held /\ child[d] \in {"none", "zombie", "gone", "killed"}
    BY DEF Unread, Alive
  <2>4. \A d \in Client : (Open(d)' => Open(d)) /\ PlaceInv(d)'
    BY <1>0, <1>1, <1>2, <2>2, <2>3 DEF PlaceInv
  <2>5. QED BY <1>2, <2>2, <2>4 DEF QueueInv, Later
<1>11. ASSUME NEW c \in Client, Exit(c) PROVE QueueInv' /\ \A d \in Client : Later(d)
  <2>1. /\ child[c] = "exit" /\ child'[c] \in {"zombie", "gone"}
        /\ \A d \in Client \ {c} : child'[d] = child[d]
        /\ UNCHANGED <<held, cpc>>
    BY <1>0, <1>11 DEF Exit, Step, Plain
  <2>2. /\ Once' /\ \A d \in Client : Waits(d)' => Waits(d)
        /\ reset \subseteq reset'
        /\ \A d \in reset' : d \in reset \/ (d = c /\ c \notin held) \/ (Waits(d) /\ ~Waits(d)')
    <3> DEFINE resets == IF toServer[c] # <<>> /\ c \notin held THEN reset \cup {c} ELSE reset
    <3>1. Leave(spc # "off", child', resets) /\ reset \subseteq resets
          /\ \A d \in resets : d \in reset \/ (d = c /\ c \notin held)
      BY <1>11 DEF Exit
    <3> HIDE DEF resets
    <3>2. QED BY <1>8, <3>1
  <2>3. \A d \in Client : (Open(d)' => Open(d)) /\ PlaceInv(d)'
    BY <1>0, <1>1, <2>1, <2>2 DEF PlaceInv
  <2>4. QED BY <2>2, <2>3 DEF QueueInv, Later
<1>12. ASSUME NEW c \in Client,
              \/ Mkstemp(c) \/ Read(c) \/ ReadEnds(c) \/ Store(c) \/ Echo(c)
              \/ Select(c) \/ Timeout(c) \/ ReadRequest(c) \/ Reply(c)
       PROVE  QueueInv' /\ \A d \in Client : Later(d)
  <2>1. /\ child[c] \notin {"none", "zombie", "gone", "killed"} /\ child'[c] # "none"
        /\ \A d \in Client \ {c} : child'[d] = child[d]
        /\ UNCHANGED <<backlog, held, cpc, reset>>
    BY <1>0, <1>12 DEF Mkstemp, Read, ReadEnds, Store, Echo, Select, Timeout, ReadRequest,
       Reply, Step, Plain
  <2>2. QED BY <1>1, <1>4, <2>1
<1>13. ASSUME NEW c \in Client, Connect(c) PROVE QueueInv' /\ \A d \in Client : Later(d)
  <2>1. /\ cpc[c] = "start" /\ cpc'[c] # "start" /\ UNCHANGED <<held, child, reset>>
        /\ \A d \in Client \ {c} : cpc'[d] = cpc[d]
        /\ backlog' = backlog \/ backlog' = Append(backlog, c)
        /\ child[c] = "none" /\ c \notin held /\ ~Waits(c) /\ c \notin reset
    BY <1>0, <1>13 DEF Connect, Go, Plain, PlaceInv
  <2>2. CASE backlog' = backlog
    BY <1>4, <2>1, <2>2
  <2>3. CASE backlog' = Append(backlog, c)
    <3>1. /\ Len(backlog') = Len(backlog) + 1 /\ backlog'[Len(backlog) + 1] = c
          /\ \A i \in 1..Len(backlog) : backlog'[i] = backlog[i]
          /\ Len(backlog) \in Nat /\ ~Waits(c)
      BY <1>0, <2>1, <2>3, AppendProperties, LenProperties DEF PlaceInv
    <3>2. Once'
      BY ONLY <1>0, <3>1, Once DEF Once, Waits
    <3>3. \A d \in Client : Waits(d)' => Waits(d) \/ d = c
      <4>1. \A i \in 1..Len(backlog') : i \in 1..Len(backlog) \/ i = Len(backlog) + 1
        BY ONLY <3>1
      <4>2. QED BY ONLY <3>1, <4>1 DEF Waits
    <3>4. \A d \in Client : (Open(d)' => Open(d) \/ d = c) /\ PlaceInv(d)'
      BY <1>0, <1>1, <2>1, <3>3 DEF PlaceInv
    <3>5. QED BY <2>1, <3>2, <3>4 DEF QueueInv, Later
  <2>4. QED BY <2>1, <2>2, <2>3
<1>14. ASSUME NEW c \in Client, SendLine(c) \/ ClientStep(c) \/ Kill(c)
       PROVE  QueueInv' /\ \A d \in Client : Later(d)
  <2>1. /\ UNCHANGED <<backlog, held, child>>
        /\ \A d \in Client : cpc'[d] = "start" => cpc[d] = "start"
        /\ reset' = reset \/ (reset' = reset \cup {c} /\ ~Open(c) /\ cpc[c] # "start")
    BY <1>0, <1>14 DEF SendLine, ClientStep, SendBlock, SendFails, RecvReply, RecvEnds, Kill, Go,
       Write, Plain
  <2>2. Open(c)' = Open(c)
    BY <2>1 DEF Open
  <2>3. QED BY <1>4, <2>1, <2>2
<1>15. CASE UNCHANGED vars
  BY <1>4, <1>15 DEF vars
<1>16. QED
  BY <1>5, <1>6, <1>7, <1>9, <1>10, <1>11, <1>12, <1>13, <1>14, <1>15
  DEF Next, ServerStep, ChildStep

\* A step that leaves what a client and its process have said as it is.
Framed(c) ==
  /\ UNCHANGED <<cpc[c], at[c], sent[c], printed[c], toServer[c], toClient[c],
                 buffer[c], file[c], c \in lost>>
  /\ \/ UNCHANGED child[c]
     \/ Alive(child[c]) /\ child'[c] = "killed"
     \/ child[c] \in {"exit", "zombie", "gone"} /\ child'[c] \in {"zombie", "gone"}
     \/ /\ child[c] = "none" /\ c \in held
        /\ child'[c] = IF prog = "ex2" THEN "mkstemp" ELSE "select"

\* A step of a client, or of its process.
Own(c) ==
  \/ Mkstemp(c) \/ Read(c) \/ ReadEnds(c) \/ Store(c) \/ Echo(c)
  \/ Select(c) \/ Timeout(c) \/ ReadRequest(c) \/ Reply(c)
  \/ Connect(c) \/ SendLine(c) \/ ClientStep(c) \/ Kill(c)

LEMMA Moves == Inv /\ [Next]_vars => UNCHANGED prog /\ \A c \in Client : Framed(c) \/ Own(c)
<1> SUFFICES ASSUME Inv, [Next]_vars
             PROVE  UNCHANGED prog /\ \A c \in Client : Framed(c) \/ Own(c)
  OBVIOUS
<1> USE DEF setting, server, session, client, streams
<1>0. Plain /\ HeldInv /\ TextInv
  BY PlainOfTypeOK DEF Inv
<1>1. CASE Start \/ Accept \/ ParentClose \/ UNCHANGED vars
  BY <1>1 DEF Start, Accept, ParentClose, vars, Framed
<1>2. CASE Fork
  <2>1. /\ New \in Client /\ held = {New} /\ child[New] = "none"
        /\ child' = [child EXCEPT ![New] = IF prog = "ex2" THEN "mkstemp" ELSE "select"]
    BY <1>0, <1>2, NewFacts
  <2>2. UNCHANGED <<prog, client, buffer, file, lost, toServer, toClient>>
    BY <1>2 DEF Fork
  <2>3. QED BY <1>0, <2>1, <2>2 DEF Framed, Plain
<1>3. CASE ForkFails \/ KillServer \/ CtrlC
  <2>0. PICK victims \in SUBSET {c \in Client : Alive(child[c])} : Ends(victims)
    BY <1>3, WhoEnds
  <2>1. /\ child' = [c \in Client |->
                       IF c \in victims THEN "killed"
                       ELSE IF child[c] = "zombie" THEN "gone" ELSE child[c]]
        /\ UNCHANGED <<prog, client, buffer, file, lost, toServer, toClient>>
    BY <2>0 DEF Ends
  <2>2. QED BY <2>1 DEF Framed
<1>4. ASSUME NEW c \in Client, Exit(c)
      PROVE  UNCHANGED prog /\ \A d \in Client : Framed(d) \/ Own(d)
  <2>1. /\ child[c] = "exit" /\ child'[c] \in {"zombie", "gone"}
        /\ \A d \in Client \ {c} : child'[d] = child[d]
        /\ UNCHANGED <<prog, client, buffer, file, lost, toServer, toClient>>
    BY <1>0, <1>4 DEF Exit, Step, Plain
  <2>2. QED BY <2>1 DEF Framed
<1>5. ASSUME NEW c \in Client, Own(c)
      PROVE  UNCHANGED prog /\ \A d \in Client \ {c} : Framed(d)
  <2>0. /\ \A d \in Client \ {c} :
             /\ Mkstemp(c) \/ Read(c) \/ ReadEnds(c) \/ Store(c) \/ Echo(c) => Framed(d)
             /\ Select(c) \/ Timeout(c) \/ ReadRequest(c) \/ Reply(c) => Framed(d)
    BY <1>0 DEF Mkstemp, Read, ReadEnds, Store, Echo, Select, Timeout, ReadRequest, Reply, Step,
       Framed, Plain, TextInv
  <2>1. \A d \in Client \ {c} : Connect(c) \/ SendFails(c) \/ Kill(c) \/ RecvEnds(c) => Framed(d)
    BY <1>0 DEF Connect, SendFails, Kill, RecvEnds, Go, Framed, Plain, TextInv
  <2>2. \A d \in Client \ {c} : SendBlock(c) \/ SendLine(c) => Framed(d)
    BY <1>0 DEF SendBlock, SendLine, Write, Go, Framed, Plain, TextInv
  <2>3. \A d \in Client \ {c} : RecvReply(c) => Framed(d)
    BY <1>0 DEF RecvReply, Framed, Plain, TextInv
  <2>4. UNCHANGED prog
    BY <1>5 DEF Own, ClientStep, Mkstemp, Read, ReadEnds, Store, Echo, Select, Timeout,
       ReadRequest, Reply, Connect, SendLine, SendBlock, SendFails, RecvReply, RecvEnds, Kill
  <2>5. QED BY <1>5, <2>0, <2>1, <2>2, <2>3, <2>4 DEF Own, ClientStep
<1>6. QED
  BY <1>1, <1>2, <1>3, <1>4, <1>5
  DEF Next, ServerStep, ChildStep, Own

LEMMA FileFrame ==
  ASSUME TextInv, NEW c \in Client, ClientInv(c), Later(c),
         UNCHANGED <<sent[c], printed[c], toServer[c], toClient[c], buffer[c], file[c]>>,
         child'[c] # "killed" =>
           /\ child[c] # "killed"
           /\ child'[c] = "store" <=> child[c] = "store"
           /\ child'[c] = "echo" <=> child[c] = "echo"
  PROVE  (StoreInv(c) => StoreInv(c)') /\ (EchoInv(c) => EchoInv(c)')
<1>1. child'[c] # "killed" =>
        /\ child[c] # "killed"
        /\ One(child[c] = "store")' = One(child[c] = "store")
        /\ One(child[c] = "echo")' = One(child[c] = "echo")
  BY DEF One
<1>2. ASSUME StoreInv(c) PROVE StoreInv(c)'
  <2>1. PICK n \in {0, 1} :
          /\ child[c] # "killed" => n = One(child[c] = "store")
          /\ Stored(sent[c], file[c], buffer[c], toServer[c], n)
          /\ Open(c) => Whole(sent[c], file[c], toServer[c], n)
    BY <1>2 DEF StoreInv
  <2>2. ASSUME sent[c] = <<>> PROVE Whole(sent[c], file[c], toServer[c], n)
    <3>1. file[c] \in Text /\ toServer[c] \in Text
      BY DEF TextInv
    <3>2. QED BY <2>1, <2>2, <3>1, NothingSent
  <2>3. Open(c)' => Open(c) \/ sent[c] = <<>>
    BY DEF Later, ClientInv
  <2>4. /\ child'[c] # "killed" => n = One(child[c] = "store")'
        /\ Stored(sent[c], file[c], buffer[c], toServer[c], n)'
        /\ Open(c)' => Whole(sent[c], file[c], toServer[c], n)'
    BY <1>1, <2>1, <2>2, <2>3
  <2>5. QED BY <2>4 DEF StoreInv
<1>3. ASSUME EchoInv(c) PROVE EchoInv(c)'
  BY <1>1, <1>3 DEF EchoInv
<1>4. QED BY <1>2, <1>3

LEMMA Frame ==
  ASSUME Plain, TextInv, NEW c \in Client, UNCHANGED prog, Framed(c), Later(c),
         ClientInv(c), FileInv(c), LineInv(c), TypedInv(c)
  PROVE  ClientInv(c)' /\ FileInv(c)' /\ LineInv(c)' /\ TypedInv(c)'
<1> USE DEF Framed
<1>1. Size' = Size
  BY DEF Size
<1>2. ClientInv(c)' /\ TypedInv(c)'
  BY <1>1 DEF ClientInv, TypedInv
<1>3. FileInv(c)'
  <2>1. ASSUME prog = "ex2"
        PROVE  (StoreInv(c) => StoreInv(c)') /\ (EchoInv(c) => EchoInv(c)')
    <3>1. child'[c] # "killed" =>
            /\ child[c] # "killed"
            /\ child'[c] = "store" <=> child[c] = "store"
            /\ child'[c] = "echo" <=> child[c] = "echo"
      BY <2>1
    <3>2. QED BY <3>1, FileFrame
  <2>2. Broken(c) => Broken(c)'
    BY DEF Broken, Later
  <2>3. QED BY <2>1, <2>2 DEF FileInv
<1>4. ASSUME prog # "ex2" PROVE RequestInv(c)' /\ AnswerInv(c)'
  <2>1. RequestInv(c) /\ AnswerInv(c)
    BY <1>4 DEF LineInv
  <2>2. Partly(c)' = Partly(c) /\ Answer(sent[c])' = Answer(sent[c]) /\ Fixed' = Fixed
    BY <1>1 DEF Partly, Answer, Fixed
  <2>3. RequestInv(c)'
    BY <1>1, <1>4, <2>1, <2>2 DEF RequestInv
  <2>4. cpc[c] = "done" => ~Open(c)' \/ child'[c] \in {"exit", "zombie", "gone", "killed"}
    BY <1>4, <2>1 DEF AnswerInv, Later, Open
  <2>5. AnswerInv(c)'
    BY <1>1, <1>4, <2>1, <2>2, <2>4 DEF AnswerInv, Later
  <2>6. QED BY <2>3, <2>5
<1>5. QED BY <1>2, <1>3, <1>4 DEF LineInv

LEMMA OwnClientStep ==
  ASSUME Plain, TextInv, NEW c \in Client, UNCHANGED prog, Own(c), ClientInv(c), TypedInv(c)
  PROVE  ClientInv(c)' /\ TypedInv(c)'
<1> USE DEF setting, server, session, client, streams
<1>0. Size' = Size /\ Size[c] \in Nat \ {0} /\ at[c] \in Nat
  BY SizeFacts DEF Size, Plain, TextInv
<1>1. CASE UNCHANGED client
  BY <1>0, <1>1 DEF ClientInv, TypedInv
<1>2. CASE \/ Mkstemp(c) \/ Read(c) \/ ReadEnds(c) \/ Store(c) \/ Echo(c)
           \/ Select(c) \/ Timeout(c) \/ ReadRequest(c) \/ Reply(c)
  <2>1. UNCHANGED client
    BY <1>2 DEF Mkstemp, Read, ReadEnds, Store, Echo, Select, Timeout, ReadRequest, Reply
  <2>2. QED BY <1>1, <2>1
<1>3. CASE Connect(c) \/ SendFails(c) \/ RecvReply(c) \/ RecvEnds(c) \/ Kill(c)
  <2>1. /\ UNCHANGED <<at, sent>>
        /\ \/ cpc[c] = "start" /\ cpc'[c] \in {"send", "failed"}
           \/ cpc[c] # "start" /\ cpc'[c] \notin {"start", "send"}
    BY <1>3 DEF Connect, SendFails, RecvReply, RecvEnds, Kill, Go, Plain
  <2>2. QED BY <1>0, <2>1 DEF ClientInv, TypedInv
<1>4. CASE SendLine(c)
  <2>1. PICK blanks : Write(c, [i \in 1..Size[c] |-> IF i \in blanks THEN Blank
                                                                  ELSE Piece("line", i)])
    BY <1>4 DEF SendLine
  <2> DEFINE typed == [i \in 1..Size[c] |-> IF i \in blanks THEN Blank ELSE Piece("line", i)]
  <2>2. typed \in Text /\ Len(typed) = Size[c]
        /\ \A i \in 1..Len(typed) : typed[i] \in {Blank, Piece("line", i)}
    BY <1>0, TypedFacts
  <2> HIDE DEF typed
  <2>3. prog # "ex2" /\ cpc[c] = "send" /\ cpc'[c] = "reply" /\ UNCHANGED at /\ Write(c, typed)
    BY <1>4, <2>1 DEF SendLine, Go, Plain, typed
  <2>4. sent'[c] = typed
    <3>1. sent[c] = <<>>
      BY <2>3 DEF ClientInv
    <3>2. sent'[c] = <<>> \o typed
      BY <2>3, <3>1 DEF Write, TextInv
    <3>3. QED BY <2>2, <3>2, ConcatEmptySeq DEF Text
  <2>5. QED BY <1>0, <2>2, <2>3, <2>4 DEF ClientInv, TypedInv
<1>5. CASE SendBlock(c)
  <2>1. /\ prog = "ex2" /\ cpc[c] = "send" /\ at'[c] = at[c] + 1
        /\ cpc'[c] = IF at'[c] = Size[c] THEN "reply" ELSE "send"
    BY <1>5 DEF SendBlock, Plain, TextInv
  <2>2. at[c] < Size[c]
    BY <2>1 DEF ClientInv
  <2>3. QED BY <1>0, <2>1, <2>2 DEF ClientInv, TypedInv
<1>6. QED BY <1>2, <1>3, <1>4, <1>5 DEF Own, ClientStep

LEMMA OwnFileStep ==
  ASSUME Plain, TextInv, NEW c \in Client, prog = "ex2", UNCHANGED prog, Own(c), Later(c),
         ClientInv(c), FileInv(c)
  PROVE  FileInv(c)'
<1> USE DEF setting, server, session, client, streams
<1>0. /\ sent[c] \in Text /\ file[c] \in Text /\ buffer[c] \in Text
      /\ printed[c] \in Text /\ toServer[c] \in Text /\ toClient[c] \in Text
      /\ One(child[c] = "store") \in {0, 1} /\ One(child[c] = "echo") \in {0, 1}
  BY DEF TextInv, One
\* A file that lacks a byte is not followed, and what was shown too much remains.
<1>k. /\ c \in lost => c \in lost'
      /\ Broken(c) => Broken(c)'
  <2>1. cpc[c] = "done" => cpc'[c] = "done"
    BY DEF Own, ClientStep, Mkstemp, Read, ReadEnds, Store, Echo, Select, Timeout, ReadRequest,
       Reply, Connect, SendLine, SendBlock, SendFails, RecvReply, RecvEnds, Kill, Go, Plain
  <2>2. lost' = lost \/ lost' = lost \cup {c}
    BY DEF Own, ClientStep, Mkstemp, Read, ReadEnds, Store, Echo, Select, Timeout, ReadRequest,
       Reply, Connect, SendLine, SendBlock, SendFails, RecvReply, RecvEnds, Kill
  <2>3. QED BY <2>1, <2>2 DEF Broken, Later
<1>i. SUFFICES ASSUME c \notin lost, StoreInv(c), Broken(c) \/ EchoInv(c)
               PROVE  FileInv(c)'
  BY <1>k DEF FileInv
<1>1. CASE \/ Mkstemp(c) \/ ReadEnds(c) \/ Select(c) \/ Timeout(c) \/ ReadRequest(c) \/ Reply(c)
           \/ Connect(c) \/ SendFails(c) \/ RecvEnds(c) \/ Kill(c)
  <2>1. ~(Select(c) \/ Timeout(c) \/ ReadRequest(c) \/ Reply(c))
    BY DEF Select, Timeout, ReadRequest, Reply, Step, Plain, States
  <2>2. /\ UNCHANGED <<sent[c], toServer[c], toClient[c], buffer[c], file[c], lost>>
        /\ child'[c] # "killed" =>
             /\ child[c] # "killed"
             /\ child'[c] = "store" <=> child[c] = "store"
             /\ child'[c] = "echo" <=> child[c] = "echo"
    BY <1>1, <2>1 DEF Mkstemp, ReadEnds, Connect, SendFails, RecvEnds, Kill, Step, Plain
  <2>3. UNCHANGED printed[c] \/ Broken(c)'
    <3>1. CASE RecvEnds(c)
      BY <3>1 DEF RecvEnds, Go, ShownAtEnd, Fixed, Broken, TextInv, Plain
    <3>2. CASE ~RecvEnds(c)
      BY <1>1, <2>1, <3>2 DEF Mkstemp, ReadEnds, Connect, SendFails, Kill
    <3>3. QED BY <3>1, <3>2
  <2>4. StoreInv(c)'
    <3>1. PICK n \in {0, 1} :
            /\ child[c] # "killed" => n = One(child[c] = "store")
            /\ Stored(sent[c], file[c], buffer[c], toServer[c], n)
            /\ Open(c) => Whole(sent[c], file[c], toServer[c], n)
      BY <1>i DEF StoreInv
    <3>2. sent[c] = <<>> => Whole(sent[c], file[c], toServer[c], n)
      BY <1>0, <3>1, NothingSent
    <3>3. Open(c)' => Open(c) \/ sent[c] = <<>>
      BY DEF Later, ClientInv
    <3>4. child'[c] # "killed" => n = One(child'[c] = "store")
      BY <2>2, <3>1 DEF One
    <3>5. /\ Stored(sent[c], file[c], buffer[c], toServer[c], n)'
          /\ Open(c)' => Whole(sent[c], file[c], toServer[c], n)'
      BY <2>2, <3>1, <3>2, <3>3
    <3>6. QED BY <3>4, <3>5 DEF StoreInv
  <2>5. UNCHANGED printed[c] => Broken(c)' \/ EchoInv(c)'
    BY <1>i, <1>k, <2>2, FileFrame
  <2>6. QED BY <1>k, <2>3, <2>4, <2>5 DEF FileInv
<1>2. CASE SendLine(c)
  BY <1>2 DEF SendLine
<1>3. CASE Read(c)
  <2>1. /\ child[c] = "read" /\ child'[c] = "store" /\ toServer[c] # <<>>
        /\ buffer'[c] = <<Head(toServer[c])>> /\ toServer'[c] = Tail(toServer[c])
        /\ UNCHANGED <<file, lost, sent, printed, toClient>>
    BY <1>3 DEF Read, Step, Plain, TextInv
  <2>2. Open(c)
    BY <2>1 DEF Open, Alive
  <2>3. Stored(sent[c], file[c], buffer[c], toServer[c], 0)
        /\ Whole(sent[c], file[c], toServer[c], 0)
    BY <1>i, <2>1, <2>2 DEF StoreInv, One
  <2>4. Stored(sent[c], file[c], <<Head(toServer[c])>>, Tail(toServer[c]), 1)
        /\ Whole(sent[c], file[c], Tail(toServer[c]), 1)
    BY <1>0, <2>1, <2>3, ReadByte
  <2>5. StoreInv(c)'
    BY <2>1, <2>4 DEF StoreInv, One
  <2>6. EchoInv(c) => EchoInv(c)'
    <3> SUFFICES ASSUME EchoInv(c) PROVE EchoInv(c)'
      OBVIOUS
    <3>1. Echoed(file[c], buffer[c], printed[c], toClient[c], 0)
      BY <2>1 DEF EchoInv, One
    <3>2. Echoed(file[c], <<Head(toServer[c])>>, printed[c], toClient[c], 0)
      BY <3>1, OtherByte
    <3>3. QED BY <2>1, <3>2 DEF EchoInv, One
  <2>7. QED BY <1>i, <1>k, <2>5, <2>6 DEF FileInv
<1>4. CASE Store(c)
  <2>0. c \in lost' => FileInv(c)'
    BY DEF FileInv
  <2> SUFFICES ASSUME c \notin lost' PROVE FileInv(c)'
    BY <2>0
  <2>1. /\ child[c] = "store" /\ child'[c] = "echo"
        /\ file'[c] = file[c] \o UpperAll(buffer[c])
        /\ UNCHANGED <<buffer, toServer, sent, printed, toClient>>
    BY <1>4 DEF Store, Step, Plain, TextInv
  <2>2. Open(c)
    BY <2>1 DEF Open, Alive
  <2>3. /\ Stored(sent[c], file[c], buffer[c], toServer[c], 1)
        /\ Whole(sent[c], file[c], toServer[c], 1)
        /\ EchoInv(c) => Echoed(file[c], buffer[c], printed[c], toClient[c], 0)
    BY <1>i, <2>1, <2>2 DEF StoreInv, EchoInv, One
  <2>4. /\ Stored(sent[c], file[c] \o UpperAll(buffer[c]), buffer[c], toServer[c], 0)
        /\ Whole(sent[c], file[c] \o UpperAll(buffer[c]), toServer[c], 0)
        /\ EchoInv(c) =>
             Echoed(file[c] \o UpperAll(buffer[c]), buffer[c], printed[c], toClient[c], 1)
    BY <1>0, <2>3, StoreByte
  <2>5. StoreInv(c)' /\ (EchoInv(c) => EchoInv(c)')
    BY <2>1, <2>4 DEF StoreInv, EchoInv, One
  <2>6. QED BY <1>i, <1>k, <2>5 DEF FileInv
<1>5. CASE Echo(c)
  <2>1. /\ child[c] = "echo" /\ child'[c] = "read"
        /\ toClient'[c] = toClient[c] \o UpperAll(buffer[c])
        /\ UNCHANGED <<buffer, file, lost, toServer, sent, printed>>
    BY <1>5 DEF Echo, Step, Plain, TextInv
  <2>2. Open(c)
    BY <2>1 DEF Open, Alive
  <2>3. EchoInv(c) => Echoed(file[c], buffer[c], printed[c], toClient[c], 1)
    BY <2>1 DEF EchoInv, One
  <2>4. EchoInv(c) => Echoed(file[c], buffer[c], printed[c], toClient[c] \o UpperAll(buffer[c]), 0)
    BY <1>0, <2>3, EchoByte
  <2>5. StoreInv(c)' /\ (EchoInv(c) => EchoInv(c)')
    BY <1>i, <2>1, <2>2, <2>4 DEF StoreInv, EchoInv, One
  <2>6. QED BY <1>i, <1>k, <2>5 DEF FileInv
<1>6. CASE SendBlock(c)
  <2>1. PICK bytes \in Block(c, at[c] + 1) : Write(c, bytes)
    BY <1>6 DEF SendBlock
  <2>2. bytes \in Text
    <3>1. at[c] + 1 \in Nat
      BY DEF TextInv
    <3>2. QED BY <2>1, <3>1, BlockFacts
  <2>3. /\ sent'[c] = sent[c] \o bytes
        /\ toServer'[c] = IF Open(c) THEN toServer[c] \o bytes ELSE toServer[c]
        /\ UNCHANGED <<child, buffer, file, lost, printed, toClient, held, backlog>>
    BY <1>6, <2>1 DEF SendBlock, Write, TextInv
  <2>4. Open(c)' = Open(c)
    BY <2>3 DEF Open
  <2>5. StoreInv(c)'
    <3>1. PICK n \in {0, 1} :
            /\ child[c] # "killed" => n = One(child[c] = "store")
            /\ Stored(sent[c], file[c], buffer[c], toServer[c], n)
            /\ Open(c) => Whole(sent[c], file[c], toServer[c], n)
      BY <1>i DEF StoreInv
    <3>2. /\ Stored(sent[c], file[c], buffer[c], toServer[c], n)'
          /\ Open(c)' => Whole(sent[c], file[c], toServer[c], n)'
      BY <1>0, <2>2, <2>3, <2>4, <3>1, SendBytes
    <3>3. QED BY <2>3, <3>1, <3>2 DEF StoreInv
  <2>6. EchoInv(c) => EchoInv(c)'
    BY <2>3 DEF EchoInv
  <2>7. QED BY <1>i, <1>k, <2>5, <2>6 DEF FileInv
<1>7. CASE RecvReply(c)
  <2>1. PICK k \in 1..Len(toClient[c]) :
          /\ printed'[c] = printed[c] \o SubSeq(toClient[c], 1, k)
          /\ toClient'[c] = SubSeq(toClient[c], k + 1, Len(toClient[c]))
    BY <1>7 DEF RecvReply, TextInv
  <2>2. UNCHANGED <<child, buffer, file, lost, toServer, sent, held, backlog>>
    BY <1>7 DEF RecvReply
  <2>3. StoreInv(c)'
    BY <1>i, <2>2 DEF StoreInv, Open
  <2>4. EchoInv(c) => EchoInv(c)'
    <3> SUFFICES ASSUME EchoInv(c) PROVE EchoInv(c)'
      OBVIOUS
    <3>1. PICK n \in {0, 1} :
            /\ child[c] # "killed" => n = One(child[c] = "echo")
            /\ Echoed(file[c], buffer[c], printed[c], toClient[c], n)
      BY DEF EchoInv
    <3>2. Echoed(file[c], buffer[c], printed[c], toClient[c], n)
      BY <3>1
    <3>3. Echoed(file[c], buffer[c], printed[c] \o SubSeq(toClient[c], 1, k),
                 SubSeq(toClient[c], k + 1, Len(toClient[c])), n)
      <4>1. /\ file[c] \in Text /\ buffer[c] \in Text
            /\ printed[c] \in Text /\ toClient[c] \in Text
        BY <1>0
      <4>2. QED BY <2>1, <3>1, <3>2, <4>1, ShowBytes
    <3>4. QED BY <2>1, <2>2, <3>1, <3>3 DEF EchoInv
  <2>5. QED BY <1>i, <1>k, <2>3, <2>4 DEF FileInv
<1>8. QED BY <1>1, <1>2, <1>3, <1>4, <1>5, <1>6, <1>7 DEF Own, ClientStep

LEMMA OwnLineStep ==
  ASSUME Plain, TextInv, NEW c \in Client, prog # "ex2", UNCHANGED prog, Own(c),
         PlaceInv(c), ClientInv(c), RequestInv(c), AnswerInv(c)
  PROVE  RequestInv(c)' /\ AnswerInv(c)'
<1> USE DEF setting, server, session, client, streams
<1>0. /\ sent[c] \in Text /\ buffer[c] \in Text /\ printed[c] \in Text
      /\ toServer[c] \in Text /\ toClient[c] \in Text
      /\ Size' = Size /\ Size[c] \in Nat \ {0} /\ Fixed' = Fixed
      /\ child[c] \in {"none", "zombie", "gone", "killed", "exit", "select", "answer", "reply"}
  BY SizeFacts DEF TextInv, Size, Fixed, Plain, States
<1>a. Answer(sent[c]) \in Text /\ Answer(sent[c]) # <<>>
  BY <1>0, AnswerFacts
<1>b. ASSUME UNCHANGED sent[c] PROVE Answer(sent[c])' = Answer(sent[c])
  BY <1>b DEF Answer
<1>c. ASSUME UNCHANGED toServer[c] PROVE Partly(c)' = Partly(c)
  BY <1>0, <1>c DEF Partly
<1>d. child[c] \in {"select", "answer", "reply"} => Open(c) /\ cpc[c] # "done"
  BY DEF Open, Alive, AnswerInv
<1>1. CASE Mkstemp(c) \/ Read(c) \/ ReadEnds(c) \/ Store(c) \/ Echo(c) \/ SendBlock(c)
  BY <1>0, <1>1 DEF Mkstemp, Read, ReadEnds, Store, Echo, SendBlock, Step
<1>2. CASE Select(c) \/ Timeout(c)
  <2>1. /\ child[c] = "select" /\ child'[c] \in {"answer", "exit"}
        /\ child'[c] = "answer" => toServer[c] # <<>> \/ cpc[c] = "killed"
        /\ UNCHANGED <<cpc, sent, printed, toServer, toClient, buffer, reset>>
    BY <1>2 DEF Select, Timeout, Step, Plain
  <2>2. RequestInv(c)'
    BY <1>0, <1>c, <2>1 DEF RequestInv
  <2>3. AnswerInv(c)'
    BY <1>0, <1>b, <1>c, <1>d, <2>1 DEF AnswerInv
  <2>4. QED BY <2>2, <2>3
<1>3. CASE ReadRequest(c)
  <2>1. PICK k \in 0..Len(toServer[c]) :
          /\ k = 0 => toServer[c] = <<>>
          /\ toServer'[c] = SubSeq(toServer[c], k + 1, Len(toServer[c]))
          /\ child[c] = "answer"
          /\ \/ /\ child'[c] = "reply"
                /\ \E text \in TextRead(c, SubSeq(toServer[c], 1, k)) : buffer'[c] = text
             \/ prog = "ex3" /\ k < Size[c] /\ child'[c] = "exit"
    <3>1. PICK k \in 0..Len(toServer[c]) :
            /\ k = 0 => toServer[c] = <<>>
            /\ toServer' = [toServer EXCEPT ![c] = SubSeq(@, k + 1, Len(@))]
            /\ \/ /\ Step(c, "answer", "reply")
                  /\ \E text \in TextRead(c, SubSeq(toServer[c], 1, k)) :
                       buffer' = [buffer EXCEPT ![c] = text]
               \/ prog = "ex3" /\ k < Size[c] /\ Step(c, "answer", "exit")
      BY <1>3 DEF ReadRequest
    <3>2. toServer'[c] = SubSeq(toServer[c], k + 1, Len(toServer[c]))
      BY <3>1 DEF TextInv
    <3>3. ASSUME NEW to, Step(c, "answer", to) PROVE child[c] = "answer" /\ child'[c] = to
      BY <3>3 DEF Step, Plain
    <3>4. ASSUME NEW text, buffer' = [buffer EXCEPT ![c] = text] PROVE buffer'[c] = text
      BY <3>4 DEF TextInv
    <3>5. QED BY <3>1, <3>2, <3>3, <3>4
  <2>2. UNCHANGED <<cpc, sent, printed, toClient, reset>>
    BY <1>3 DEF ReadRequest
  <2>3. /\ cpc[c] \notin {"start", "send", "done"} /\ toClient[c] = <<>> /\ printed[c] = <<>>
        /\ cpc[c] # "killed" => toServer[c] = sent[c] /\ Len(sent[c]) = Size[c]
        /\ cpc[c] = "reply" => Len(sent[c]) = Size[c]
    BY <1>d, <2>1 DEF RequestInv, AnswerInv
  <2>4. ASSUME cpc[c] # "killed", child'[c] = "reply"
        PROVE  buffer'[c] = sent[c] \/ Partly(c)'
    <3>1. toServer[c] = sent[c] /\ Len(sent[c]) = Size[c] /\ k \in 1..Size[c]
      <4>1. toServer[c] # <<>>
        BY <1>0, <2>3, <2>4, EmptyText
      <4>2. QED BY <1>0, <2>1, <2>3, <2>4, <4>1
    <3>2. PICK text \in TextRead(c, SubSeq(sent[c], 1, k)) : buffer'[c] = text
      BY <2>1, <2>4, <3>1
    <3>3. Len(SubSeq(sent[c], 1, k)) = k
      BY <1>0, <2>1, <3>1, Cut
    <3>4. CASE k = Size[c]
      <4>1. SubSeq(sent[c], 1, k) = sent[c]
        BY <1>0, <3>1, <3>4, SubSeqFull DEF Text
      <4>2. text = sent[c]
        BY <3>1, <3>2, <4>1 DEF TextRead
      <4>3. QED BY <3>2, <4>2
    <3>5. CASE k # Size[c]
      <4>1. toServer'[c] # <<>>
        <5>1. Len(SubSeq(toServer[c], k + 1, Len(toServer[c]))) = Len(toServer[c]) - k
          BY <1>0, <2>1, Cut
        <5>2. Len(toServer[c]) - k # 0
          BY <1>0, <3>1, <3>5
        <5>3. QED BY <2>1, <5>1, <5>2, EmptyText
      <4>2. Size[c] # 1
        BY <3>1, <3>5
      <4>3. QED BY <1>0, <4>1, <4>2 DEF Partly
    <3>6. QED BY <3>4, <3>5
  <2>5. ASSUME cpc[c] # "killed", child'[c] # "reply" PROVE toServer'[c] # <<>>
    <3>1. toServer[c] = sent[c] /\ Len(sent[c]) = Size[c] /\ k < Size[c]
      BY <2>1, <2>3, <2>5
    <3>2. Len(SubSeq(toServer[c], k + 1, Len(toServer[c]))) = Len(toServer[c]) - k
      BY <1>0, <2>1, Cut
    <3>3. Len(toServer[c]) - k # 0
      BY <1>0, <2>1, <3>1
    <3>4. QED BY <2>1, <3>2, <3>3, EmptyText
  <2>6. RequestInv(c)'
    BY <1>0, <2>1, <2>2, <2>3, <2>4 DEF RequestInv
  <2>7. AnswerInv(c)'
    BY <1>0, <2>1, <2>2, <2>3, <2>5 DEF AnswerInv
  <2>8. QED BY <2>6, <2>7
<1>4. CASE Reply(c)
  <2>1. /\ child[c] = "reply" /\ child'[c] = "exit" /\ toClient'[c] = Answer(buffer[c])
        /\ UNCHANGED <<cpc, sent, printed, toServer, buffer, reset>>
    BY <1>4 DEF Reply, Step, Plain, TextInv
  <2>2. /\ cpc[c] \notin {"start", "send", "done"} /\ printed[c] = <<>>
        /\ buffer[c] = sent[c] \/ Partly(c) \/ cpc[c] = "killed"
    BY <1>d, <2>1 DEF RequestInv, AnswerInv
  <2>3. toClient'[c] # <<>>
    BY <1>0, <2>1, AnswerFacts
  <2>4. RequestInv(c)'
    BY <1>0, <2>1 DEF RequestInv
  <2>5. AnswerInv(c)'
    BY <1>0, <1>b, <1>c, <2>1, <2>2, <2>3 DEF AnswerInv
  <2>6. QED BY <2>4, <2>5
<1>5. CASE Connect(c) \/ SendFails(c) \/ Kill(c)
  <2>1. /\ cpc[c] \in {"start", "send", "reply"} /\ cpc'[c] \in {"send", "failed", "killed"}
        /\ cpc'[c] = "send" => cpc[c] = "start"
        /\ UNCHANGED <<child, sent, printed, toServer, toClient, buffer, reset>>
    BY <1>5 DEF Connect, SendFails, Kill, Go, Plain
  <2>2. cpc'[c] = "failed" => cpc[c] \in {"start", "send"}
    BY <1>5 DEF Connect, SendFails, Kill, Go, Plain
  <2>3. RequestInv(c)'
    BY <1>0, <1>c, <2>1, <2>2 DEF RequestInv
  <2>4. AnswerInv(c)'
    BY <1>0, <2>1 DEF AnswerInv
  <2>5. QED BY <2>3, <2>4
<1>6. CASE SendLine(c)
  <2>1. PICK blanks : Write(c, [i \in 1..Size[c] |-> IF i \in blanks THEN Blank
                                                                  ELSE Piece("line", i)])
    BY <1>6 DEF SendLine
  <2> DEFINE typed == [i \in 1..Size[c] |-> IF i \in blanks THEN Blank ELSE Piece("line", i)]
  <2>2. typed \in Text /\ Len(typed) = Size[c]
    BY <1>0, TypedFacts
  <2> HIDE DEF typed
  <2>3. cpc[c] = "send" /\ cpc'[c] = "reply" /\ Write(c, typed)
        /\ UNCHANGED <<child, printed, toClient, buffer>>
    BY <1>6, <2>1 DEF SendLine, Go, Plain, typed
  <2>4. /\ sent[c] = <<>> /\ toServer[c] = <<>> /\ toClient[c] = <<>> /\ printed[c] = <<>>
        /\ child[c] \notin {"answer", "reply"}
    BY <2>3 DEF ClientInv, RequestInv, AnswerInv
  <2>5. <<>> \o typed = typed /\ typed # <<>>
    BY <1>0, <2>2, ConcatEmptySeq, EmptyText DEF Text
  <2>6. /\ sent'[c] = typed
        /\ IF Open(c) THEN toServer'[c] = typed ELSE toServer'[c] = <<>> /\ c \in reset'
    BY <2>3, <2>4, <2>5 DEF Write, TextInv
  <2>7. RequestInv(c)'
    BY <1>0, <2>2, <2>3, <2>4, <2>6 DEF RequestInv
  <2>8. AnswerInv(c)'
    BY <1>0, <2>3, <2>4, <2>5, <2>6 DEF AnswerInv
  <2>9. QED BY <2>7, <2>8
<1>7. CASE RecvReply(c)
  <2>1. PICK k \in 1..Len(toClient[c]) :
          /\ prog # "ex3" \/ Size[c] = 1 => k = Len(toClient[c])
          /\ printed'[c] = printed[c] \o SubSeq(toClient[c], 1, k)
          /\ toClient'[c] = SubSeq(toClient[c], k + 1, Len(toClient[c]))
    BY <1>7 DEF RecvReply, TextInv
  <2>2. /\ cpc[c] = "reply" /\ toClient[c] # <<>> /\ cpc'[c] = "done"
        /\ UNCHANGED <<child, sent, toServer, buffer, reset>>
    BY <1>7 DEF RecvReply, Plain
  <2>3. /\ child[c] \in {"exit", "zombie", "gone", "killed"} /\ printed[c] = <<>>
        /\ toClient[c] = Answer(sent[c]) \/ Partly(c)
    BY <2>2 DEF AnswerInv
  <2>4. printed'[c] = SubSeq(toClient[c], 1, k)
    <3>1. k \in 0..Len(toClient[c])
      BY <1>0, TextFacts
    <3>2. SubSeq(toClient[c], 1, k) \in Text
      BY <1>0, <3>1, Cut
    <3>3. QED BY <2>1, <2>3, <3>2, ConcatEmptySeq DEF Text
  <2>5. k = Len(toClient[c]) => printed'[c] = toClient[c]
    BY <1>0, <2>4, SubSeqFull DEF Text
  <2>6. IsPrefix(printed'[c], toClient[c])
    <3>1. Len(toClient[c]) \in Nat /\ k \in 0..Len(toClient[c])
      BY <1>0, TextFacts
    <3>2. /\ printed'[c] \in Text /\ Len(printed'[c]) = k
          /\ \A i \in 1..k : printed'[c][i] = toClient[c][i]
      BY <1>0, <2>4, <3>1, Cut
    <3>3. k =< Len(toClient[c])
      BY <3>1
    <3>4. QED BY <1>0, <3>2, <3>3, PrefixFacts
  <2>7. RequestInv(c)'
    BY <1>0, <1>c, <2>2, <2>3 DEF RequestInv
  <2>8. Fixed => prog # "ex3"
    BY DEF Fixed
  <2>9. prog = "ex3" /\ Size[c] = 1 => ~Partly(c)
    BY DEF Partly
  <2>10. AnswerInv(c)'
    BY <1>0, <1>b, <1>c, <2>1, <2>2, <2>3, <2>5, <2>6, <2>8, <2>9 DEF AnswerInv
  <2>11. QED BY <2>7, <2>10
<1>8. CASE RecvEnds(c)
  <2>1. /\ cpc[c] = "reply" /\ cpc'[c] = "done"
        /\ c \in reset \/ (toClient[c] = <<>> /\ ~Open(c))
        /\ printed'[c] \in ShownAtEnd(c)
        /\ UNCHANGED <<child, held, backlog, sent, toServer, toClient, buffer, reset>>
    BY <1>8 DEF RecvEnds, Go, Plain, TextInv
  <2>2. ~Open(c) /\ Open(c)' = Open(c)
    BY <2>1 DEF PlaceInv, Open
  <2>3. child[c] # "reply" /\ printed[c] = <<>>
    BY <1>d, <2>1, <2>2 DEF AnswerInv
  <2>4. c \in reset \/ toServer[c] # <<>> \/ child[c] = "killed"
    BY <2>1, <2>3 DEF AnswerInv
  <2>5. Fixed => Partly(c) \/ c \in reset \/ child[c] = "killed"
    BY <2>4 DEF Fixed, Partly
  <2>6. ~Fixed => printed'[c] = <<>>
    BY <2>1, <2>3 DEF ShownAtEnd
  <2>7. IsPrefix(<<>>, Answer(sent[c]))
    <3>1. Len(<<>>) =< Len(Answer(sent[c])) /\ \A i \in 1..Len(<<>>) : FALSE
      BY <1>a, EmptyText, TextFacts
    <3>2. QED BY <1>a, <3>1, EmptyText, PrefixFacts
  <2>8. prog = "ex3" => ~Fixed
    BY DEF Fixed
  <2>9. RequestInv(c)'
    BY <1>0, <1>c, <2>1, <2>3 DEF RequestInv
  <2>10. AnswerInv(c)'
    BY <1>0, <1>b, <1>c, <2>1, <2>2, <2>5, <2>6, <2>7, <2>8 DEF AnswerInv
  <2>11. QED BY <2>9, <2>10
<1>9. QED BY <1>1, <1>2, <1>3, <1>4, <1>5, <1>6, <1>7, <1>8 DEF Own, ClientStep

-----------------------------------------------------------------------------
(* Theorems *)

LEMMA Preserved == Inv /\ [Next]_vars => Inv'
<1> SUFFICES ASSUME Inv, [Next]_vars PROVE Inv'
  OBVIOUS
<1>1. /\ Plain /\ TextInv /\ HeldInv /\ \A c \in Client : PlaceInv(c)
      /\ \A c \in Client : ClientInv(c) /\ FileInv(c) /\ LineInv(c) /\ TypedInv(c)
  BY PlainOfTypeOK DEF Inv, QueueInv
<1>2. TypeOK' /\ TextInv' /\ HeldInv' /\ QueueInv' /\ \A c \in Client : Later(c)
  BY CountStep, TypeStep, HeldStep, QueueStep
<1>3. UNCHANGED prog /\ \A c \in Client : Framed(c) \/ Own(c)
  BY Moves
<1>4. ASSUME NEW c \in Client
      PROVE  ClientInv(c)' /\ FileInv(c)' /\ LineInv(c)' /\ TypedInv(c)'
  <2>1. CASE Framed(c)
    BY <1>1, <1>2, <1>3, <2>1, Frame
  <2>2. CASE Own(c)
    <3>1. ClientInv(c)' /\ TypedInv(c)'
      BY <1>1, <1>3, <2>2, OwnClientStep
    <3>2. FileInv(c)'
      <4>1. CASE prog = "ex2"
        BY <1>1, <1>2, <1>3, <2>2, <4>1, OwnFileStep
      <4>2. CASE prog # "ex2"
        BY <1>3, <4>2 DEF FileInv
      <4>3. QED BY <4>1, <4>2
    <3>3. LineInv(c)'
      BY <1>1, <1>3, <2>2, OwnLineStep DEF LineInv
    <3>4. QED BY <3>1, <3>2, <3>3
  <2>3. QED BY <1>3, <2>1, <2>2
<1>5. QED BY <1>2, <1>4 DEF Inv

\* Connections, processes, streams, files and screens agree with each other, however many
\* connections come, whoever is ended or killed, and whatever fork, mkstemp and read answer.
THEOREM Invariance == Spec => []Inv
<1>1. QED BY InitInv, Preserved, PTL DEF Spec

\* The server holds one connection at most, its processes and zombies fit in the table, and
\* each process is in a state of its own program.
THEOREM TypeCorrect == Spec => []TypeOK
<1>1. Inv => TypeOK
  BY DEF Inv
<1>2. QED BY <1>1, Invariance, PTL

LEMMA StoredBegins ==
  ASSUME NEW o \in Text, NEW f \in Text, NEW u \in Text, NEW b \in Text, NEW n \in {0, 1},
         Stored(o, f, b, u, n)
  PROVE  IsPrefix(f, UpperAll(o))
<1>1. /\ UpperAll(o) \in Text /\ Len(UpperAll(o)) = Len(o)
      /\ \A i \in 1..Len(o) : UpperAll(o)[i] = Upper(o[i])
  BY UpperFacts
<1>2. /\ Len(o) \in Nat /\ Len(f) \in Nat /\ Len(u) \in Nat
      /\ Len(f) + n + Len(u) =< Len(o)
  BY TextFacts DEF Stored
<1>3. Len(f) =< Len(o) /\ \A i \in 1..Len(f) : i \in 1..Len(o)
  BY <1>2
<1>4. \A i \in 1..Len(f) : f[i] = UpperAll(o)[i]
  BY <1>1, <1>3 DEF Stored
<1>5. QED BY <1>1, <1>3, <1>4, PrefixFacts

LEMMA ShownBegins ==
  ASSUME NEW f \in Text, NEW b \in Text, NEW p \in Text, NEW q \in Text, NEW n \in {0, 1},
         Echoed(f, b, p, q, n)
  PROVE  IsPrefix(p \o q, f)
<1> DEFINE s == p \o q
<1>1. /\ Len(f) \in Nat /\ Len(p) \in Nat /\ Len(q) \in Nat /\ Len(p) + Len(q) + n = Len(f)
  BY TextFacts DEF Echoed
<1>2. /\ s \in Text /\ Len(s) = Len(p) + Len(q) /\ \A i \in 1..Len(p) : s[i] = p[i]
      /\ \A i \in 1..Len(q) : s[Len(p) + i] = q[i]
  BY Joined
<1> HIDE DEF s
<1>3. ASSUME NEW i \in 1..Len(s) PROVE s[i] = f[i]
  <2>1. CASE i \in 1..Len(p)
    BY <1>2, <2>1 DEF Echoed
  <2>2. CASE i \notin 1..Len(p)
    <3>1. i - Len(p) \in 1..Len(q) /\ i = Len(p) + (i - Len(p))
      BY <1>1, <1>2, <2>2
    <3>2. PICK j \in 1..Len(q) : i = Len(p) + j
      BY <3>1
    <3>3. QED BY <1>2, <3>2 DEF Echoed
  <2>3. QED BY <2>1, <2>2
<1>4. Len(s) =< Len(f)
  BY <1>1, <1>2
<1>5. IsPrefix(s, f)
  BY <1>2, <1>3, <1>4, PrefixFacts
<1>6. QED BY <1>5 DEF s

\* ex2: for any number of clients and any files, while no write to its file has failed, the file
\* is what the client sent, in order and in upper case, and what the client is shown is in it
\* already: but for what it shows after its last read, if that has failed.
THEOREM StoredFirst == Spec => []StoredBeforeShown
<1>1. ASSUME Inv, prog = "ex2", NEW c \in Client \ lost
      PROVE  /\ IsPrefix(printed[c] \o toClient[c], file[c]) \/ (cpc[c] = "done" /\ c \in reset)
             /\ IsPrefix(file[c], UpperAll(sent[c]))
  <2>1. /\ sent[c] \in Text /\ file[c] \in Text /\ toServer[c] \in Text
        /\ buffer[c] \in Text /\ printed[c] \in Text /\ toClient[c] \in Text
    BY <1>1 DEF Inv, TextInv
  <2>2. StoreInv(c) /\ (Broken(c) \/ EchoInv(c))
    BY <1>1 DEF Inv, FileInv
  <2>3. PICK n \in {0, 1} : Stored(sent[c], file[c], buffer[c], toServer[c], n)
    BY <2>2 DEF StoreInv
  <2>4. IsPrefix(file[c], UpperAll(sent[c]))
    BY <2>1, <2>3, StoredBegins
  <2>5. ASSUME EchoInv(c) PROVE IsPrefix(printed[c] \o toClient[c], file[c])
    <3>1. PICK m \in {0, 1} : Echoed(file[c], buffer[c], printed[c], toClient[c], m)
      BY <2>5 DEF EchoInv
    <3>2. QED BY <2>1, <3>1, ShownBegins
  <2>6. QED BY <2>2, <2>4, <2>5 DEF Broken
<1>2. Inv => StoredBeforeShown
  BY <1>1 DEF StoredBeforeShown
<1>3. QED BY <1>2, Invariance, PTL

\* ex3 and ex4, for any number of clients and any lengths of lines.  ex3: what is shown begins
\* the client's own answer, unless its line was read in part; a line of one segment is answered
\* whole or not at all.  ex4: all of the answer is shown, unless the message was read in part,
\* its process was ended or the connection was reset: then anything may be.
THEOREM OwnAnswer == Spec => []AnsweredWholeOrNot
<1>1. ASSUME Inv, NEW c \in Client
      PROVE  LET due == Append(UpperAll(sent[c]), Piece("name", 1))
                 cut == toServer[c] # <<>>
             IN  /\ prog = "ex3" =>
                      /\ IsPrefix(printed[c], due) \/ cut
                      /\ Size[c] = 1 /\ printed[c] # <<>> => printed[c] = due
                 /\ prog = "ex4" /\ cpc[c] = "done" =>
                      printed[c] = due \/ cut \/ c \in reset \/ child[c] = "killed"
  <2> DEFINE due == Append(UpperAll(sent[c]), Piece("name", 1))
  <2>1. sent[c] \in Text /\ UpperAll(sent[c]) \in Text /\ Piece("name", 1) \in Pieces
    BY <1>1, UpperFacts, PieceFacts DEF Inv, TextInv, Origins
  <2>2. due \in Text /\ due = UpperAll(sent[c]) \o <<Piece("name", 1)>>
    BY <2>1, AppendProperties, AppendIsConcat DEF Text
  <2>3. prog # "ex5" => due = Answer(sent[c])
    BY <2>2 DEF Answer
  <2> HIDE DEF due
  <2>4. prog \in {"ex3", "ex4"} => AnswerInv(c)
    BY <1>1 DEF Inv, LineInv
  <2>5. IsPrefix(<<>>, due)
    <3>1. Len(<<>>) =< Len(due) /\ \A i \in 1..Len(<<>>) : FALSE
      BY <2>2, EmptyText, TextFacts
    <3>2. QED BY <2>2, <3>1, EmptyText, PrefixFacts
  <2>6. prog = "ex3" =>
          /\ IsPrefix(printed[c], due) \/ toServer[c] # <<>>
          /\ Size[c] = 1 /\ printed[c] # <<>> => printed[c] = due
    BY <2>3, <2>4, <2>5 DEF AnswerInv, Partly
  <2>7. prog = "ex4" /\ cpc[c] = "done" =>
          printed[c] = due \/ toServer[c] # <<>> \/ c \in reset \/ child[c] = "killed"
    BY <2>3, <2>4 DEF AnswerInv, Partly, Fixed
  <2>8. QED BY <2>6, <2>7 DEF due
<1>2. Inv => AnsweredWholeOrNot
  BY <1>1 DEF AnsweredWholeOrNot
<1>3. QED BY <1>2, Invariance, PTL

LEMMA LineFacts ==
  (\A i \in Int : Piece("line", i).of = "line") /\ Piece("name", 1).of = "name"
<1>1. \A i \in Int : Piece("line", i).of = "line"
  BY DEF Piece
<1>2. Piece("name", 1).of = "name"
  BY DEF Piece
<1>3. QED BY <1>1, <1>2

\* ex5: for lines of any length and any blanks in them, each letter is shown in its place, and
\* no blank is shown.
THEOREM WordsShown == Spec => []WordsInPlace
<1>1. ASSUME Inv, prog = "ex5", NEW c \in Client, Answered(c)
      PROVE  /\ Last(printed[c]).of = "name"
             /\ \A i \in DOMAIN sent[c] :
                  sent[c][i] # Blank =>
                    i < Len(printed[c]) /\ printed[c][i] = UpperAll(sent[c])[i]
             /\ \A i \in 1..(Len(printed[c]) - 1) : printed[c][i].of = "line"
  <2>1. sent[c] \in Text /\ printed[c] = Answer(sent[c])
        /\ \A i \in 1..Len(sent[c]) : sent[c][i] \in {Blank, Piece("line", i)}
    BY <1>1 DEF Inv, TextInv, LineInv, AnswerInv, Partly, Fixed, TypedInv, Answered
  <2>2. PICK s \in Text : s = sent[c]
    BY <2>1
  <2> DEFINE t == Parsed(s)
  <2> DEFINE words == {i \in DOMAIN s : s[i] # Blank}
  <2>3. /\ t \in Text /\ Len(t) =< Len(s) /\ \A i \in words : i =< Len(t)
        /\ \A i \in 1..Len(t) : \E j \in words :
             t[i] = s[j] /\ j >= i /\ \A m \in words : m >= i => j =< m
    BY ParsedFacts
  <2>4. words = {i \in 1..Len(s) : s[i] # Blank} /\ Len(s) \in Nat /\ Len(t) \in Nat
    BY <2>3, TextFacts
  <2>5. /\ Len(printed[c]) = Len(t) + 1
        /\ \A i \in 1..Len(t) : printed[c][i] = Upper(t[i])
        /\ printed[c][Len(t) + 1] = Piece("name", 1)
    BY <1>1, <2>1, <2>2, AnswerFacts
  <2>6. \A i \in 1..Len(s) : UpperAll(s)[i] = Upper(s[i])
    BY UpperFacts
  <2> HIDE DEF t, words
  <2>7. Last(printed[c]).of = "name"
    BY <2>5, LineFacts DEF Last
  <2>8. ASSUME NEW i \in words PROVE i \in 1..Len(t) /\ t[i] = s[i]
    <3>1. i \in 1..Len(s) /\ i \in 1..Len(t)
      BY <2>3, <2>4
    <3>2. PICK j \in words : t[i] = s[j] /\ j >= i /\ \A m \in words : m >= i => j =< m
      BY <2>3, <3>1
    <3>3. j = i
      BY <2>4, <3>1, <3>2
    <3>4. QED BY <3>1, <3>2, <3>3
  <2>9. ASSUME NEW i \in words
        PROVE  i < Len(printed[c]) /\ printed[c][i] = UpperAll(s)[i]
    BY <2>4, <2>5, <2>6, <2>8
  <2>10. ASSUME NEW i \in 1..Len(t) PROVE printed[c][i].of = "line"
    <3>1. PICK j \in words : t[i] = s[j]
      BY <2>3
    <3>2. j \in 1..Len(s) /\ s[j] = Piece("line", j)
      BY <2>1, <2>2, <2>4
    <3>3. s[j] \in Pieces /\ s[j].of = "line"
      BY <3>2, LineFacts, TextFacts
    <3>4. printed[c][i] = Upper(s[j])
      BY <2>5, <3>1
    <3>5. QED BY <3>3, <3>4, PieceFacts
  <2>11. Len(printed[c]) - 1 = Len(t)
    BY <2>4, <2>5
  <2>12. DOMAIN sent[c] = 1..Len(s)
    BY <2>2, TextFacts
  <2>13. \A i \in DOMAIN sent[c] : sent[c][i] # Blank => i \in words
    BY <2>2, <2>4, <2>12
  <2>14. QED BY <2>2, <2>7, <2>9, <2>10, <2>11, <2>13
<1>2. Inv => WordsInPlace
  BY <1>1 DEF WordsInPlace
<1>3. QED BY <1>2, Invariance, PTL
=============================================================================
