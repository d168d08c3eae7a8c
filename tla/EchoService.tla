---------------------------- MODULE EchoService ----------------------------
(***************************************************************************)
(* What Ficha6 ex1 promises its clients: they are answered one at a time   *)
(* and in the order in which they came, with every byte of their answer in *)
(* its turn, and nobody who still listens is left in the middle of it.     *)
(***************************************************************************)
EXTENDS Naturals, Sequences

CONSTANTS Client, Byte

VARIABLES
  due,        \* the answer each client is to get
  queue,      \* those who have come, the first one being answered
  answered,   \* what each client has been sent
  served,     \* the clients that the service has finished with
  gone        \* those who listen no longer

vars == <<due, queue, answered, served, gone>>

Init ==
  /\ due = [c \in Client |-> <<>>] /\ answered = [c \in Client |-> <<>>]
  /\ queue = <<>> /\ served = {} /\ gone = {}

Known == {queue[i] : i \in DOMAIN queue} \cup served

\* Any answer may become due, before the client has come.
Ask(c) ==
  /\ c \notin Known /\ due[c] = <<>>
  /\ due'[c] \in Seq(Byte) /\ due' = [due EXCEPT ![c] = due'[c]]
  /\ UNCHANGED <<queue, answered, served, gone>>

Come(c) ==
  /\ c \notin Known
  /\ queue' = Append(queue, c)
  /\ UNCHANGED <<due, answered, served, gone>>

Go(c) ==
  /\ gone' = gone \cup {c}
  /\ UNCHANGED <<due, queue, answered, served>>

Serves(c) == queue # <<>> /\ Head(queue) = c

Answer(c) ==
  /\ Serves(c) /\ c \notin gone
  /\ Len(answered[c]) < Len(due[c])
  /\ answered' = [answered EXCEPT ![c] = Append(@, due[c][Len(@) + 1])]
  /\ UNCHANGED <<due, queue, served, gone>>

Finish(c) ==
  /\ Serves(c)
  /\ c \in gone \/ answered[c] = due[c]
  /\ queue' = Tail(queue) /\ served' = served \cup {c}
  /\ UNCHANGED <<due, answered, gone>>

Next == \E c \in Client : Ask(c) \/ Come(c) \/ Go(c) \/ Answer(c) \/ Finish(c)

Spec == Init /\ [][Next]_vars
=============================================================================
