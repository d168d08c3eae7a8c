---------------------------- MODULE SplitVector ----------------------------
(***************************************************************************)
(* A vector worked on by several tasks:                                    *)
(*   "par"        Ficha4/par.c, threads, each with its part of the vector  *)
(*   "ficha2-12"  SISTC_Avaliacao/ficha2-12.c, processes, in rounds        *)
(*   "ficha2-5"   SISTC_Avaliacao/ficha2-5.c, one process and one block    *)
(* Threads share the vector, a process has the copy that fork made.  Parts *)
(* are counted from 0, as in the code.                                     *)
(***************************************************************************)
EXTENDS Integers, Sequences

Programs == {"par", "ficha2-12", "ficha2-5"}

CONSTANTS
  Elems,      \* NUM_ELEM, NELEM, and 1 for the block
  Tasks,      \* N_THREADS, 30, and 1
  Rounds      \* NITER of ficha2-12

ASSUME ConstantsAssumption ==
  /\ Elems \in [Programs -> Nat \ {0}] /\ Tasks \in [Programs -> Nat \ {0}]
  /\ Tasks["ficha2-5"] = 1 /\ Rounds \in Nat \ {0}

VARIABLES
  prog,
  pc, next,     \* main, and its loop variable
  round,        \* rounds that are over
  dados,        \* the vector of main
  wild,         \* something was written behind the vector
  task,         \* the tasks: "none", at work, "ended" (a zombie), "reaped"
  args,         \* of the threads: where the part begins and its length
  forked,       \* r[j] is not -1
  own,          \* the copies of the processes
  val, idx,     \* local variables of a task
  out           \* what is printed of the data

program == <<pc, next, round, out>>
vars == <<prog, program, dados, wild, task, args, forked, own, val, idx>>

N == Tasks[prog]
E == Elems[prog]
Task == 0..(N - 1)
Cell == 0..(E - 1)
Threads == prog = "par"

\* The value of an element that was never written, or while drand48 and sin play with it.
Noise == -1

\* The block of ficha2-5 holds "pai" or "filho".
Pai == 0
Filho == 1

Initial(j) == CASE prog = "par" -> j [] prog = "ficha2-12" -> Noise [] OTHER -> Pai

Init ==
  /\ prog \in Programs
  /\ pc = "create" /\ next = 0 /\ round = 0 /\ out = <<>>
  /\ dados = [j \in Cell |-> Initial(j)] /\ wild = FALSE
  /\ task = [t \in Task |-> "none"] /\ forked = [t \in Task |-> FALSE]
  /\ args = [t \in Task |-> [ptr |-> 0, n |-> 0]]
  /\ own = [t \in Task |-> dados]
  /\ val = [t \in Task |-> 0] /\ idx = [t \in Task |-> 0]
-----------------------------------------------------------------------------
(* main *)

\* The loop variable goes on, and after the last task the next loop begins.
Advance(from, to) ==
  /\ pc' = IF next + 1 = N THEN to ELSE from
  /\ next' = IF next + 1 = N THEN 0 ELSE next + 1

\* The part that par.c gives to thread i: its length is computed as its beginning is.
ParPart(i) == [ptr |-> (i * E) \div N, n |-> (i * E) \div N]

\* The part that ficha2-12.c gives to process j.
Ficha12Part(j) == [ptr |-> (j * E) \div N, n |-> E \div N]

PthreadCreate ==
  /\ Threads /\ pc = "create"
  /\ args' = [args EXCEPT ![next] = ParPart(next)]
  /\ task' = [task EXCEPT ![next] = "first"]
  /\ Advance("create", "wait")
  /\ UNCHANGED <<prog, round, out, dados, wild, forked, own, val, idx>>

\* The child finds a copy of main's memory, and the part it computes itself.
Fork ==
  /\ ~Threads /\ pc = "create"
  /\ task' = [task EXCEPT ![next] = "write"]
  /\ forked' = [forked EXCEPT ![next] = TRUE]
  /\ own' = [own EXCEPT ![next] = dados]
  /\ args' = [args EXCEPT ![next] = Ficha12Part(next)]
  /\ idx' = [idx EXCEPT ![next] = 0]
  /\ Advance("create", "wait")
  /\ UNCHANGED <<prog, round, out, dados, wild, val>>

\* The -1 is kept in r[j] and not looked at.
ForkFails ==
  /\ ~Threads /\ pc = "create"
  /\ forked' = [forked EXCEPT ![next] = FALSE]
  /\ Advance("create", "wait")
  /\ UNCHANGED <<prog, round, out, dados, wild, task, args, own, val, idx>>

PthreadJoin ==
  /\ Threads /\ pc = "wait" /\ task[next] = "ended"
  /\ task' = [task EXCEPT ![next] = "reaped"]
  /\ Advance("wait", "print")
  /\ UNCHANGED <<prog, round, out, dados, wild, args, forked, own, val, idx>>

Working(t) == task[t] \in {"first", "scratch", "write", "printf"}

\* Whom waitpid(r[k], ...) may collect: with -1, any child.
Awaited == IF forked[next] THEN {next} ELSE Task

Reap(t) == task[t] = "ended" /\ task' = [task EXCEPT ![t] = "reaped"]

\* ECHILD
NoChild == (\A t \in Awaited : task[t] \in {"none", "reaped"}) /\ UNCHANGED task

\* mutant of WaitReturns: WNOHANG
WaitPolls == (\E t \in Awaited : Reap(t)) \/ UNCHANGED task

\* mutant of WaitReturns: called again until it has a child
WaitInsists == \E t \in Awaited : Reap(t)

\* With a child, or at once if there is none to wait for.
WaitReturns == (\E t \in Awaited : Reap(t)) \/ NoChild

Waitpid ==
  /\ ~Threads /\ pc = "wait"
  /\ WaitReturns
  /\ IF prog = "ficha2-12" /\ next + 1 = N /\ round + 1 < Rounds
     THEN pc' = "create" /\ next' = 0 /\ round' = round + 1
     ELSE Advance("wait", "print") /\ UNCHANGED round
  /\ UNCHANGED <<prog, out, dados, wild, args, forked, own, val, idx>>

\* print_data, or the block; ficha2-12 prints the time only.
PrintData ==
  /\ pc = "print" /\ pc' = "done"
  /\ out' = IF prog = "ficha2-12" THEN out ELSE Append(out, dados)
  /\ UNCHANGED <<prog, next, round, dados, wild, task, args, forked, own, val, idx>>
-----------------------------------------------------------------------------
(* The tasks *)

Goes(t, from, to) == task[t] = from /\ task' = [task EXCEPT ![t] = to]

\* mutant of Put: the child has the memory of its parent, as after vfork
PutShared(t, j, v) ==
  /\ wild' = (wild \/ j >= E)
  /\ dados' = IF j < E THEN [dados EXCEPT ![j] = v] ELSE dados
  /\ UNCHANGED own

\* A task writes an element; behind the vector lies memory that is not its own.
Put(t, j, v) ==
  /\ wild' = (wild \/ j >= E)
  /\ IF Threads
     THEN dados' = (IF j < E THEN [dados EXCEPT ![j] = v] ELSE dados) /\ UNCHANGED own
     ELSE own' = (IF j < E THEN [own EXCEPT ![t][j] = v] ELSE own) /\ UNCHANGED dados

\* Each thread has a targs_t of its own, which main does not touch again.
Part(t) == args[t]

\* mutant of ReadFirst: val is read when the part has been played with
ReadLater(t) ==
  /\ Goes(t, "first", "scratch")
  /\ val' = [val EXCEPT ![t] = IF Part(t).n > 0 THEN Noise ELSE 0]
  /\ UNCHANGED <<prog, program, dados, wild, args, forked, own, idx>>

\* val = vector[0]
ReadFirst(t) ==
  /\ Goes(t, "first", "scratch")
  /\ val' = [val EXCEPT ![t] = dados[Part(t).ptr]]
  /\ UNCHANGED <<prog, program, dados, wild, args, forked, own, idx>>

\* The NITER passes that only take time: one stands for all, as each leaves noise.
Scratch(t) ==
  /\ task[t] = "scratch"
  /\ IF idx[t] < Part(t).n
     THEN /\ Put(t, Part(t).ptr + idx[t], Noise)
          /\ idx' = [idx EXCEPT ![t] = @ + 1] /\ UNCHANGED task
     ELSE /\ idx' = [idx EXCEPT ![t] = 0] /\ Goes(t, "scratch", "write")
          /\ UNCHANGED <<dados, wild, own>>
  /\ UNCHANGED <<prog, program, args, forked, val>>

\* (val + i)*2.0
Twice(v, i) == IF v = Noise THEN Noise ELSE 2 * (v + i)

\* What a task writes at its i-th element: par.c, rectangular2polar (a value of the
\* element), ficha2-5.c.
Result(t, i) ==
  CASE prog = "par" -> Twice(val[t], i)
    [] prog = "ficha2-12" -> Part(t).ptr + i
    [] OTHER -> Filho

Write(t) ==
  /\ task[t] = "write" /\ idx[t] < Part(t).n
  /\ Put(t, Part(t).ptr + idx[t], Result(t, idx[t]))
  /\ idx' = [idx EXCEPT ![t] = @ + 1]
  /\ UNCHANGED <<prog, program, task, args, forked, val>>

WriteEnds(t) ==
  /\ Goes(t, "write", IF prog = "ficha2-5" THEN "printf" ELSE "ended")
  /\ idx[t] >= Part(t).n
  /\ UNCHANGED <<prog, program, dados, wild, args, forked, own, val, idx>>

ChildPrints(t) ==
  /\ Goes(t, "printf", "ended")
  /\ out' = Append(out, own[t])
  /\ UNCHANGED <<prog, pc, next, round, dados, wild, args, forked, own, val, idx>>

\* What was overwritten may end the program at any later moment.
Crash ==
  /\ wild /\ pc \notin {"done", "crashed"} /\ pc' = "crashed"
  /\ task' = [t \in Task |-> IF Working(t) THEN "ended" ELSE task[t]]
  /\ UNCHANGED <<prog, next, round, out, dados, wild, args, forked, own, val, idx>>
-----------------------------------------------------------------------------
MainStep == PthreadCreate \/ Fork \/ PthreadJoin \/ Waitpid \/ PrintData

TaskStep(t) == ReadFirst(t) \/ Scratch(t) \/ Write(t) \/ WriteEnds(t) \/ ChildPrints(t)

Ended == pc \in {"done", "crashed"} /\ (\A t \in Task : ~Working(t)) /\ UNCHANGED vars

Next == MainStep \/ ForkFails \/ (\E t \in Task : TaskStep(t)) \/ Crash \/ Ended

\* The kernel runs main, and some task as long as one has steps to take; none has
\* infinitely many.
Spec ==
  /\ Init /\ [][Next]_vars
  /\ WF_vars(MainStep) /\ WF_vars(\E t \in Task : TaskStep(t))
-----------------------------------------------------------------------------
(* Properties *)

TypeOK ==
  /\ prog \in Programs
  /\ pc \in {"create", "wait", "print", "done", "crashed"} /\ next \in Task
  /\ round \in 0..(Rounds - 1)
  /\ dados \in [Cell -> Int] /\ wild \in BOOLEAN
  /\ task \in [Task -> {"none", "first", "scratch", "write", "printf", "ended", "reaped"}]
  /\ args \in [Task -> [ptr : Cell, n : Nat]]
  /\ forked \in [Task -> BOOLEAN]
  /\ own \in [Task -> [Cell -> Int]]
  /\ val \in [Task -> Int] /\ idx \in [Task -> Nat]
  /\ out \in Seq([Cell -> Int])

\* The threads of par.c whose part has element j.
Writers(j) == {t \in Task : ParPart(t).ptr =< j /\ j < ParPart(t).ptr + ParPart(t).n}

\* par.c: although threads race for the elements their parts have in common, what one
\* thread alone writes, from a first element that is its own, is printed doubled; what
\* no thread writes is printed as it was.
DoubledWhereAlone ==
  prog = "par" /\ pc = "done" =>
    \A j \in Cell :
      /\ Writers(j) = {} => out[1][j] = j
      /\ \A t \in Task : Writers(j) = {t} /\ Writers(ParPart(t).ptr) = {t} => out[1][j] = 2 * j

\* ficha2-12.c, ficha2-5.c: no child of a round is left, not even as a zombie, when the
\* next one begins or the program ends, however many calls of fork have failed.
RoundsApart ==
  ~Threads /\ (pc \in {"print", "done"} \/ (pc = "create" /\ next = 0)) =>
    \A t \in Task : task[t] \in {"none", "reaped"}

\* ficha2-5.c: "Parent waits for child termination (waitpid) before printing its own
\* unchanged data"; ficha2-12.c: what the processes write is never seen by their parent.
ParentUnchanged ==
  /\ ~Threads => \A j \in Cell : dados[j] = Initial(j)
  /\ prog = "ficha2-5" /\ pc = "done" =>
       out = (IF forked[0] THEN <<[j \in Cell |-> Filho]>> ELSE <<>>) \o <<dados>>

\* The programs come to an end, however many calls of fork have failed.
Finishes == <>(pc \in {"done", "crashed"})

\* par.c l. 71: "this should print the sequence 0, 2, 4, ... , 2*(NUM_ELEM-1)".
SequencePrinted ==
  prog = "par" /\ pc = "done" => \A j \in Cell : out[1][j] = 2 * j
=============================================================================
