--------------------------- MODULE ValuePipeline ---------------------------
(***************************************************************************)
(* SISTC_Avaliacao/ficha2-11.c and sinais-iv.c: fun1 generates a value,    *)
(* a child of its own processes it in fun2, nobody waits.  sinais-iv.c is  *)
(* ficha2-11.c with the zombies taken care of.  A child works on the copy  *)
(* of memory that fork made, buffered output included.                     *)
(***************************************************************************)
EXTENDS Naturals, FiniteSets

CONSTANTS
  MaxValue,    \* bound: the values generated by the endless loop
  TableSize    \* the system's limit on processes, running or zombie

ASSUME ConstantsAssumption == MaxValue \in Nat /\ TableSize \in Nat

VARIABLES
  prog,      \* which of the two programs this is
  tty,       \* stdout is a terminal, so that each line is written at once
  pc,        \* the parent: "fun1", "fork" or "exited"
  dados,     \* the parent's variable
  buf,       \* the generated values whose lines are in the parent's stdio buffer
  child,     \* the child created for each value
  copy,      \* that child's copy of dados ...
  copyBuf,   \* ... and of the buffer
  generated, \* how often "Novo valor gerado em fun1: v" was written
  processed, \* the v of the lines "Valor processado por fun2: v" of each child
  pend       \* SIGCHLD is pending

parent == <<prog, tty, pc, dados, buf>>
vars == <<parent, child, copy, copyBuf, generated, processed, pend>>

Value == 1..MaxValue

TypeOK ==
  /\ prog \in {"ficha2-11", "sinais-iv"} /\ tty \in BOOLEAN
  /\ pc \in {"fun1", "fork", "exited"}
  /\ dados \in 0..MaxValue
  /\ buf \subseteq Value
  /\ child \in [Value -> {"none", "running", "zombie", "gone"}]
  /\ copy \in [Value -> 0..MaxValue] /\ copyBuf \in [Value -> SUBSET Value]
  /\ generated \in [Value -> Nat] /\ processed \in [Value -> SUBSET Value]
  /\ pend \in BOOLEAN

Init ==
  /\ prog \in {"ficha2-11", "sinais-iv"} /\ tty \in BOOLEAN
  /\ pc = "fun1" /\ dados = 0 /\ buf = {}
  /\ child = [v \in Value |-> "none"]
  /\ copy = [v \in Value |-> 0] /\ copyBuf = [v \in Value |-> {}]
  /\ generated = [v \in Value |-> 0] /\ processed = [v \in Value |-> {}]
  /\ pend = FALSE

\* The lines of the values in B reach the output.
Flush(B) == generated' = [v \in Value |-> generated[v] + IF v \in B THEN 1 ELSE 0]

\* mutant of PrintGenerated: setvbuf makes a terminal's output buffered too
PrintBuffered(v) == buf' = buf \cup {v} /\ UNCHANGED generated

PrintGenerated(v) ==
  IF tty THEN Flush({v}) /\ UNCHANGED buf
         ELSE buf' = buf \cup {v} /\ UNCHANGED generated

Fun1 ==
  /\ pc = "fun1" /\ dados < MaxValue
  /\ dados' = dados + 1
  /\ PrintGenerated(dados + 1)
  /\ pc' = "fork"
  /\ UNCHANGED <<prog, tty, child, copy, copyBuf, processed, pend>>

\* fork succeeds as long as the system's table has room.
Room == Cardinality({v \in Value : child[v] \in {"running", "zombie"}}) < TableSize

Fork ==
  /\ pc = "fork" /\ Room
  /\ child' = [child EXCEPT ![dados] = "running"]
  /\ copy' = [copy EXCEPT ![dados] = dados]
  /\ copyBuf' = [copyBuf EXCEPT ![dados] = buf]
  /\ pc' = "fun1"
  /\ UNCHANGED <<prog, tty, dados, buf, generated, processed, pend>>

\* ficha2-11.c takes -1 for the parent's case and generates the next value.
GoOn == pc' = "fun1" /\ UNCHANGED <<buf, generated>>

\* mutant of GiveUp: sinais-iv.c without its test for -1
GiveUpForgotten == GoOn

GiveUp == pc' = "exited" /\ Flush(buf) /\ buf' = {}

ForkFails ==
  /\ pc = "fork" /\ ~Room
  /\ IF prog = "sinais-iv" THEN GiveUp ELSE GoOn
  /\ UNCHANGED <<prog, tty, dados, child, copy, copyBuf, processed, pend>>

\* mutant of Operand: fun2 works on the parent's variable, as a thread would
OperandShared(v) == dados

\* What the child for v finds in *d.
Operand(v) == copy[v]

\* mutant of StateAfterExit: sinais-iv.c with sa_flags = 0
StateWithoutFlag(v) == "zombie"

\* SA_NOCLDWAIT: the child leaves nothing behind.
StateAfterExit(v) == IF prog = "sinais-iv" THEN "gone" ELSE "zombie"

\* fun2 and exit(0), which flushes the buffer the child inherited.
Fun2(v) ==
  /\ child[v] = "running"
  /\ processed' = [processed EXCEPT ![v] = @ \cup {Operand(v)}]
  /\ Flush(copyBuf[v])
  /\ child' = [child EXCEPT ![v] = StateAfterExit(v)]
  /\ pend' = (prog = "sinais-iv" /\ pc # "exited")
  /\ UNCHANGED <<parent, copy, copyBuf>>

\* The loop on waitpid finds nothing to collect when SA_NOCLDWAIT is set.
SigchldHandler ==
  /\ pend /\ pc # "exited"
  /\ pend' = FALSE
  /\ child' = [v \in Value |-> IF child[v] = "zombie" THEN "gone" ELSE child[v]]
  /\ UNCHANGED <<parent, copy, copyBuf, generated, processed>>

\* The bound on values is reached, or the parent has exited.
Ended ==
  /\ pc = "exited" \/ (pc = "fun1" /\ dados = MaxValue)
  /\ \A v \in Value : child[v] # "running"
  /\ UNCHANGED vars

Next ==
  \/ Fun1 \/ Fork \/ ForkFails \/ SigchldHandler
  \/ \E v \in Value : Fun2(v)
  \/ Ended

Spec ==
  /\ Init /\ [][Next]_vars
  /\ WF_vars(Fun1 \/ Fork \/ ForkFails) /\ \A v \in Value : WF_vars(Fun2(v))
-----------------------------------------------------------------------------
(* Properties *)

\* What a child processes is the value it was created for, however far the parent
\* has gone on in the meantime (ficha2-11.c l. 27-32).
ProcessedAsGenerated == \A v \in Value : processed[v] \subseteq {v}

\* Values are processed without a gap: as nobody collects the zombies of ficha2-11.c, its
\* table, once full, stays full, and after a value that was skipped none gets a child;
\* sinais-iv.c would have room again, but does not go on (ficha2-11.c l. 26-34, sinais-iv.c
\* l. 39-43).
NoGaps ==
  \A v, w \in Value : v < w /\ child[w] # "none" => child[v] # "none"

\* sinais-iv.c gives up only when as many children are at work as the table has room for:
\* those that have ended do not count, however late their SIGCHLDs are handled (l. 26-30).
GivesUpWhenBusy ==
  [][pc # "exited" /\ pc' = "exited" =>
       Cardinality({v \in Value : child[v] = "running"}) >= TableSize]_vars

\* No value that sinais-iv.c has generated and left behind lacks a child of its
\* own: it stops rather than skip one (l. 39-43).
NoneSkipped ==
  prog = "sinais-iv" /\ pc = "fun1" => \A v \in 1..dados : child[v] # "none"

\* On a terminal no line of fun1 appears twice, although every child inherits the
\* parent's stdio buffer and flushes it at exit.
LinesOnce == tty => \A v \in Value : generated[v] =< 1

\* In sinais-iv.c a generated value is eventually processed, unless the program
\* gives up.
AllProcessed ==
  \A v \in Value :
    (prog = "sinais-iv" /\ dados = v) ~> (processed[v] # {} \/ pc = "exited")
=============================================================================
