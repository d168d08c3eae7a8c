----------------------------- MODULE LineSource -----------------------------
(***************************************************************************)
(* What Ficha6/ficha-sockets-ficheiros/sock_aux.c promises of its readers: *)
(* each call takes, in one go, the next piece of what the peer has sent: a *)
(* line, or a block, but no more than the caller has room for.  What was   *)
(* read ahead of a line may be damaged when it is moved.                   *)
(***************************************************************************)
EXTENDS Integers, Sequences

CONSTANTS
  Input,     \* the streams that a peer may send
  Counts     \* the room a caller may have

VARIABLES
  kind,    \* "block", "line", or "ahead": a line, and more is read with it
  input,   \* what the peer sends before it closes
  given,   \* what the calls have returned so far ...
  last,    \* ... the last of them ...
  rest,    \* ... and what they have not
  spoiled  \* bytes of it may not be those that were sent

Init ==
  /\ kind \in {"block", "line", "ahead"}
  /\ input \in Input /\ rest = input
  /\ given = <<>> /\ last = <<>>
  /\ spoiled = FALSE

\* A line needs room for its '\0'.
Room(count) == IF kind = "block" THEN count ELSE count - 1

\* The i-th byte of s is the last one of a piece of at most n.
Ends(s, n, i) == i = n \/ i = Len(s) \/ (kind # "block" /\ s[i] = "nl")

Within(s, n, k) == \A i \in 1..(k - 1) : ~Ends(s, n, i)

\* The first k bytes of s are the piece due to a caller with room for n.
IsPiece(s, n, k) ==
  IF n =< 0 \/ s = <<>> THEN k = 0 ELSE k > 0 /\ Ends(s, n, k) /\ Within(s, n, k)

\* The bytes that were read ahead are moved, with their values or without.
Keeps(left) ==
  \/ rest' = left /\ UNCHANGED spoiled
  \/ kind = "ahead" /\ Len(rest') = Len(left) /\ spoiled' = TRUE

Give(k, left) ==
  /\ last' = SubSeq(rest, 1, k)
  /\ given' = given \o last'
  /\ Keeps(left)
  /\ UNCHANGED <<kind, input>>

Take(n) == \E k \in 0..Len(rest) : IsPiece(rest, n, k) /\ Give(k, SubSeq(rest, k + 1, Len(rest)))

\* The connection fails in the middle of a call: what it has got is returned, the rest
\* is lost.
Break(n) == \E k \in 0..Len(rest) : n > 0 /\ Within(rest, n, k) /\ Give(k, <<>>)

Next == \E count \in Counts : Take(Room(count)) \/ Break(Room(count))

Spec == Init /\ [][Next]_<<kind, input, given, last, rest, spoiled>>
=============================================================================
