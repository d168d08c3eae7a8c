------------------------- MODULE SplitVectorProofs -------------------------
(***************************************************************************)
(* Theorems about SplitVector, for any number of elements, tasks and       *)
(* rounds: what the threads of par.c make of the elements that only one of *)
(* them writes, the rounds of ficha2-12.c, and the copy of ficha2-5.c.     *)
(***************************************************************************)
EXTENDS SplitVector, SequenceTheorems, TLAPS

Idle(t) == task[t] \in {"none", "reaped"}

\* What ficha2-5's child prints.
Filhos == [j \in Cell |-> Filho]

\* A thread that is the only one to write its first element; while it runs, what has
\* become of an element that only it writes.
Sole(t) == Writers(ParPart(t).ptr) = {t}

Stage(t, j) ==
  /\ task[t] \in {"none", "first"} => dados[j] = j
  /\ task[t] \in {"scratch", "write"} => val[t] = ParPart(t).ptr
  /\ task[t] = "write" /\ j < ParPart(t).ptr + idx[t] => dados[j] = 2 * j
  /\ task[t] \in {"ended", "reaped"} => dados[j] = 2 * j

ParInv ==
  /\ \A t \in Task :
       /\ pc = "create" => (task[t] = "none") = (t >= next)
       /\ pc = "wait" => task[t] # "none" /\ (t < next => task[t] = "reaped")
       /\ pc \in {"print", "done"} => task[t] = "reaped"
       /\ task[t] # "none" => args[t] = ParPart(t)
       /\ task[t] # "printf"
  /\ \A j \in Cell : Writers(j) = {} => dados[j] = j
  /\ \A t \in Task, j \in Cell : Sole(t) /\ Writers(j) = {t} => Stage(t, j)
  /\ pc = "done" => out = <<dados>>
  /\ pc # "done" => out = <<>>

ForkInv ==
  \A t \in Task :
    /\ pc = "create" => (t >= next => Idle(t)) /\ (forked[t] \/ Idle(t))
    /\ pc = "wait" => (t < next => Idle(t)) /\ (forked[t] \/ Idle(t))
    /\ pc \in {"print", "done"} => Idle(t)

CopyInv ==
  /\ pc = "create" => task[0] = "none" /\ ~forked[0]
  /\ task[0] = "none" <=> ~forked[0]
  /\ forked[0] => args[0] = Ficha12Part(0)
  /\ task[0] \in {"none", "write", "printf", "ended", "reaped"}
  /\ task[0] = "write" => \A j \in Cell : j < idx[0] => own[0][j] = Filho
  /\ task[0] = "printf" => own[0] = Filhos
  /\ pc # "done" => out = IF task[0] \in {"ended", "reaped"} THEN <<Filhos>> ELSE <<>>
  /\ pc = "done" => out = (IF forked[0] THEN <<Filhos>> ELSE <<>>) \o <<dados>>

Inv ==
  /\ TypeOK
  /\ ~Threads => \A j \in Cell : dados[j] = Initial(j)
  /\ pc # "crashed" => /\ Threads => ParInv
                       /\ ~Threads => ForkInv
                       /\ prog = "ficha2-5" => CopyInv
  /\ pc = "crashed" => \A t \in Task : ~Working(t)

USE ConstantsAssumption DEF ConstantsAssumption
-----------------------------------------------------------------------------
(* The parts *)

LEMMA DivRange ==
  ASSUME NEW e \in Nat \ {0}, NEW n \in Nat \ {0}, NEW i \in 0..(n - 1)
  PROVE  (i * e) \div n \in 0..(e - 1)
<1>1. i * e \in Nat /\ n * e \in Nat OBVIOUS
<1>2. i * e < n * e OBVIOUS
<1> DEFINE q == (i * e) \div n
<1>3. q \in Int /\ n * q =< i * e /\ i * e < n * (q + 1) BY <1>1
<1>4. q >= 0 BY <1>1, <1>3
<1>5. n * q < n * e BY <1>1, <1>2, <1>3
<1>6. q < e BY <1>3, <1>5
<1>7. QED BY <1>3, <1>4, <1>6

LEMMA Constants ==
  ASSUME prog \in Programs
  PROVE  /\ N \in Nat \ {0} /\ E \in Nat \ {0}
         /\ prog = "ficha2-5" => N = 1 /\ Task = {0} /\ Ficha12Part(0) = [ptr |-> 0, n |-> E]
<1>1. N \in Nat \ {0} /\ E \in Nat \ {0} BY DEF N, E
<1>2. ASSUME prog = "ficha2-5"
      PROVE  N = 1 /\ Task = {0} /\ Ficha12Part(0) = [ptr |-> 0, n |-> E]
  <2>1. N = 1 /\ Task = {0} BY <1>2 DEF N, Task
  <2>2. (0 * E) \div 1 = 0 /\ E \div 1 = E BY <1>1
  <2>3. QED BY <2>1, <2>2 DEF Ficha12Part
<1>3. QED BY <1>1, <1>2

LEMMA Parts ==
  ASSUME prog \in Programs, NEW t \in Task
  PROVE  /\ ParPart(t).ptr \in Cell /\ ParPart(t).n \in Nat
         /\ ParPart(t) \in [ptr : Cell, n : Nat] /\ Ficha12Part(t) \in [ptr : Cell, n : Nat]
<1>1. N \in Nat \ {0} /\ E \in Nat \ {0} BY Constants
<1>2. (t * E) \div N \in 0..(E - 1) BY <1>1, DivRange DEF Task
<1>3. E \div N \in Nat BY <1>1
<1>4. QED BY <1>1, <1>2, <1>3 DEF ParPart, Ficha12Part, Cell

LEMMA Same ==
  ASSUME prog' = prog
  PROVE  /\ Task' = Task /\ Cell' = Cell /\ N' = N /\ E' = E /\ (Threads)' = Threads
         /\ \A t : (ParPart(t))' = ParPart(t) /\ (Ficha12Part(t))' = Ficha12Part(t)
         /\ \A j : (Initial(j))' = Initial(j) /\ (Writers(j))' = Writers(j)
         /\ \A t : (Sole(t))' = Sole(t)
         /\ Filhos' = Filhos
BY DEF Task, Cell, N, E, Threads, ParPart, Ficha12Part, Initial, Writers, Sole, Filhos

LEMMA ProgKept == Next => prog' = prog
BY DEF Next, MainStep, TaskStep, PthreadCreate, Fork, PthreadJoin, Waitpid, PrintData,
       ReadFirst, Scratch, Write, WriteEnds, ChildPrints, ForkFails, Crash, Ended, vars

\* A step of main from one loop to the next.
LEMMA Advances ==
  ASSUME prog \in Programs, next \in Task, NEW from, NEW to, Advance(from, to)
  PROVE  /\ next' \in Task
         /\ \/ next + 1 = N /\ pc' = to /\ next' = 0
            \/ next + 1 # N /\ pc' = from /\ next' = next + 1
BY Constants DEF Task, Advance

-----------------------------------------------------------------------------
(* Types *)

LEMMA InitType == Init => TypeOK
<1>1. SUFFICES ASSUME Init PROVE TypeOK OBVIOUS
<1>2. prog \in Programs BY <1>1 DEF Init
<1>3. N \in Nat \ {0} /\ E \in Nat \ {0} BY <1>2, Constants
<1>4. 0 \in Task /\ 0 \in Cell BY <1>3 DEF Task, Cell
<1>5. \A j \in Cell : Initial(j) \in Int BY <1>3 DEF Cell, Initial, Noise, Pai
<1>6. <<>> \in Seq([Cell -> Int]) BY EmptySeq
<1>7. dados \in [Cell -> Int] BY <1>1, <1>5 DEF Init
<1>8. own \in [Task -> [Cell -> Int]] BY <1>1, <1>7 DEF Init
<1>9. args \in [Task -> [ptr : Cell, n : Nat]] BY <1>1, <1>4 DEF Init
<1>10. 0 \in 0..(Rounds - 1) OBVIOUS
<1>11. val \in [Task -> Int] /\ idx \in [Task -> Nat] BY <1>1 DEF Init
<1>12. /\ task \in [Task -> {"none", "first", "scratch", "write", "printf", "ended", "reaped"}]
       /\ forked \in [Task -> BOOLEAN]
  BY <1>1 DEF Init
<1>13. /\ pc \in {"create", "wait", "print", "done", "crashed"} /\ next \in Task
       /\ round \in 0..(Rounds - 1) /\ wild \in BOOLEAN /\ out \in Seq([Cell -> Int])
  BY <1>1, <1>4, <1>6, <1>10 DEF Init
<1>14. QED BY <1>2, <1>7, <1>8, <1>9, <1>11, <1>12, <1>13 DEF TypeOK

LEMMA PutType ==
  ASSUME TypeOK, NEW t \in Task, NEW j, NEW v \in Int, Put(t, j, v)
  PROVE  /\ wild' \in BOOLEAN /\ dados' \in [Cell -> Int]
         /\ own' \in [Task -> [Cell -> Int]]
         /\ Threads => own' = own /\ \A i \in Cell : i # j => dados'[i] = dados[i]
         /\ ~Threads => dados' = dados
<1>1. dados \in [Cell -> Int] /\ own \in [Task -> [Cell -> Int]] /\ wild \in BOOLEAN
  BY DEF TypeOK
<1>2. wild' \in BOOLEAN BY <1>1 DEF Put
<1>3. CASE Threads BY <1>1, <1>2, <1>3 DEF Put
<1>4. CASE ~Threads
  <2>1. dados' = dados /\ own' = (IF j < E THEN [own EXCEPT ![t][j] = v] ELSE own)
    BY <1>4 DEF Put
  <2>2. [own[t] EXCEPT ![j] = v] \in [Cell -> Int] BY <1>1
  <2>3. QED BY <1>1, <1>2, <1>4, <2>1, <2>2
<1>5. QED BY <1>3, <1>4

LEMMA TypeStep ==
  ASSUME TypeOK, Next
  PROVE  TypeOK'
<1>1. prog' = prog /\ prog \in Programs BY ProgKept DEF TypeOK
<1>2. N \in Nat \ {0} /\ E \in Nat \ {0} BY <1>1, Constants
<1>3. Task' = Task /\ Cell' = Cell BY <1>1, Same
<1>4. dados \in [Cell -> Int] /\ out \in Seq([Cell -> Int]) /\ own \in [Task -> [Cell -> Int]]
  BY DEF TypeOK
<1>5. CASE PthreadCreate
  <2>1. next' \in Task /\ pc' \in {"create", "wait"}
    BY <1>1, <1>5, Advances DEF PthreadCreate, TypeOK
  <2>2. ParPart(next) \in [ptr : Cell, n : Nat] BY <1>1, Parts DEF TypeOK
  <2>3. QED BY <1>1, <1>3, <1>5, <2>1, <2>2 DEF PthreadCreate, TypeOK
<1>6. CASE Fork
  <2>1. next' \in Task /\ pc' \in {"create", "wait"}
    BY <1>1, <1>6, Advances DEF Fork, TypeOK
  <2>2. Ficha12Part(next) \in [ptr : Cell, n : Nat] BY <1>1, Parts DEF TypeOK
  <2>3. QED BY <1>1, <1>3, <1>6, <2>1, <2>2 DEF Fork, TypeOK
<1>7. CASE ForkFails
  <2>1. next' \in Task /\ pc' \in {"create", "wait"}
    BY <1>1, <1>7, Advances DEF ForkFails, TypeOK
  <2>2. QED BY <1>1, <1>3, <1>7, <2>1 DEF ForkFails, TypeOK
<1>8. CASE PthreadJoin
  <2>1. next' \in Task /\ pc' \in {"wait", "print"}
    BY <1>1, <1>8, Advances DEF PthreadJoin, TypeOK
  <2>2. QED BY <1>1, <1>3, <1>8, <2>1 DEF PthreadJoin, TypeOK
<1>9. CASE Waitpid
  <2>1. task' \in [Task -> {"none", "first", "scratch", "write", "printf", "ended", "reaped"}]
    <3>1. task \in [Task -> {"none", "first", "scratch", "write", "printf", "ended", "reaped"}]
      BY DEF TypeOK
    <3>2. task' = task \/ \E t \in Awaited : task' = [task EXCEPT ![t] = "reaped"]
      BY <1>9 DEF Waitpid, WaitReturns, Reap, NoChild
    <3>3. QED BY ONLY <3>1, <3>2
  <2>2. CASE prog = "ficha2-12" /\ next + 1 = N /\ round + 1 < Rounds
    <3>1. pc' = "create" /\ next' = 0 /\ round' = round + 1 BY <1>9, <2>2 DEF Waitpid
    <3>2. round' \in 0..(Rounds - 1) BY <2>2, <3>1 DEF TypeOK
    <3>3. next' \in Task BY <1>2, <3>1 DEF Task
    <3>4. QED BY <1>1, <1>3, <1>9, <2>1, <3>1, <3>2, <3>3 DEF Waitpid, TypeOK
  <2>3. CASE ~(prog = "ficha2-12" /\ next + 1 = N /\ round + 1 < Rounds)
    <3>1. Advance("wait", "print") /\ round' = round BY <1>9, <2>3 DEF Waitpid
    <3>2. next' \in Task /\ pc' \in {"wait", "print"} BY <1>1, <3>1, Advances DEF TypeOK
    <3>3. QED BY <1>1, <1>3, <1>9, <2>1, <3>1, <3>2 DEF Waitpid, TypeOK
  <2>4. QED BY <2>2, <2>3
<1>10. CASE PrintData
  <2>1. out' \in Seq([Cell -> Int]) BY <1>4, <1>10, AppendProperties DEF PrintData
  <2>2. QED BY <1>1, <1>3, <1>10, <2>1 DEF PrintData, TypeOK
<1>11. ASSUME NEW t \in Task, TaskStep(t) PROVE TypeOK'
  <2>1. val[t] \in Int /\ idx[t] \in Nat /\ args[t] \in [ptr : Cell, n : Nat]
    BY DEF TypeOK
  <2>2. CASE ReadFirst(t)
    <3>1. dados[Part(t).ptr] \in Int BY <1>4, <2>1 DEF Part
    <3>2. QED BY <1>1, <1>3, <2>2, <3>1 DEF ReadFirst, Goes, TypeOK, program
  <2>3. CASE Scratch(t)
    <3>1. /\ wild' \in BOOLEAN /\ dados' \in [Cell -> Int] /\ own' \in [Task -> [Cell -> Int]]
      <4>1. CASE idx[t] < Part(t).n
        BY <2>3, <4>1, PutType DEF Scratch, Noise
      <4>2. CASE ~(idx[t] < Part(t).n) BY <2>3, <4>2 DEF Scratch, TypeOK
      <4>3. QED BY <4>1, <4>2
    <3>2. /\ task' \in [Task -> {"none", "first", "scratch", "write", "printf", "ended", "reaped"}]
          /\ idx' \in [Task -> Nat]
      <4>1. CASE idx[t] < Part(t).n
        <5>1. idx' = [idx EXCEPT ![t] = @ + 1] /\ task' = task BY <2>3, <4>1 DEF Scratch
        <5>2. idx \in [Task -> Nat] /\ idx[t] \in Nat /\ t \in Task BY <2>1 DEF TypeOK
        <5>3. idx' \in [Task -> Nat] BY ONLY <5>1, <5>2
        <5>4. QED BY <5>1, <5>3 DEF TypeOK
      <4>2. CASE ~(idx[t] < Part(t).n)
        <5>1. idx' = [idx EXCEPT ![t] = 0] /\ task' = [task EXCEPT ![t] = "write"]
          BY <2>3, <4>2 DEF Scratch, Goes
        <5>2. QED BY <5>1 DEF TypeOK
      <4>3. QED BY <4>1, <4>2
    <3>3. QED BY <1>1, <1>3, <2>3, <3>1, <3>2 DEF Scratch, TypeOK, program
  <2>4. CASE Write(t)
    <3>1. Result(t, idx[t]) \in Int
      BY <1>2, <2>1 DEF Result, Twice, Noise, Filho, Part, Cell
    <3>2. /\ wild' \in BOOLEAN /\ dados' \in [Cell -> Int] /\ own' \in [Task -> [Cell -> Int]]
      BY <2>4, <3>1, PutType DEF Write
    <3>3. idx' \in [Task -> Nat]
      <4>1. idx \in [Task -> Nat] /\ idx[t] \in Nat /\ t \in Task BY <2>1 DEF TypeOK
      <4>2. idx' = [idx EXCEPT ![t] = @ + 1] BY <2>4 DEF Write
      <4>3. QED BY ONLY <4>1, <4>2
    <3>4. QED BY <1>1, <1>3, <2>4, <3>2, <3>3 DEF Write, TypeOK, program
  <2>5. CASE WriteEnds(t)
    BY <1>1, <1>3, <2>5 DEF WriteEnds, Goes, TypeOK, program
  <2>6. CASE ChildPrints(t)
    <3>1. out' \in Seq([Cell -> Int]) BY <1>4, <2>6, AppendProperties DEF ChildPrints
    <3>2. QED BY <1>1, <1>3, <2>6, <3>1 DEF ChildPrints, Goes, TypeOK
  <2>7. QED BY <1>11, <2>2, <2>3, <2>4, <2>5, <2>6 DEF TaskStep
<1>12. CASE Crash BY <1>1, <1>3, <1>12 DEF Crash, TypeOK, Working
<1>13. CASE Ended BY <1>1, <1>3, <1>13 DEF Ended, vars, program, TypeOK
<1>14. QED
  BY <1>5, <1>6, <1>7, <1>8, <1>9, <1>10, <1>11, <1>12, <1>13 DEF Next, MainStep

-----------------------------------------------------------------------------
(* par.c *)

LEMMA InitPar == Init /\ Threads => ParInv
<1>1. SUFFICES ASSUME Init, Threads PROVE ParInv OBVIOUS
<1>2. \A j \in Cell : dados[j] = j BY <1>1 DEF Init, Initial, Threads
<1>3. \A t \in Task : task[t] = "none" /\ t >= next BY <1>1 DEF Init, Task
<1>4. pc = "create" /\ out = <<>> BY <1>1 DEF Init
<1>5. QED BY <1>2, <1>3, <1>4 DEF ParInv, Stage

LEMMA TaskFrame ==
  ASSUME TypeOK, NEW u \in Task, TaskStep(u)
  PROVE  /\ UNCHANGED <<prog, pc, next, round, args, forked>> /\ Working(u)
         /\ \A t \in Task : t # u => task'[t] = task[t] /\ val'[t] = val[t] /\ idx'[t] = idx[t]
         /\ task'[u] \in {"scratch", "write", "printf", "ended"}
<1>1. CASE ReadFirst(u) BY <1>1 DEF ReadFirst, Goes, TypeOK, program, Working
<1>2. CASE Scratch(u) BY <1>2 DEF Scratch, Goes, TypeOK, program, Working
<1>3. CASE Write(u) BY <1>3 DEF Write, TypeOK, program, Working
<1>4. CASE WriteEnds(u) BY <1>4 DEF WriteEnds, Goes, TypeOK, program, Working
<1>5. CASE ChildPrints(u) BY <1>5 DEF ChildPrints, Goes, TypeOK, Working
<1>6. QED BY <1>1, <1>2, <1>3, <1>4, <1>5 DEF TaskStep

\* A thread changes the elements of its part only.
LEMMA Touches ==
  ASSUME TypeOK, Threads, NEW u \in Task, args[u] = ParPart(u), TaskStep(u),
         NEW j \in Cell, u \notin Writers(j)
  PROVE  dados'[j] = dados[j]
<1>1. ParPart(u).ptr \in Cell /\ ParPart(u).n \in Nat BY Parts DEF TypeOK
<1>2. idx[u] \in Nat /\ val[u] \in Int BY DEF TypeOK
<1>3. E \in Nat /\ N \in Nat \ {0} BY Constants DEF TypeOK
<1>4. idx[u] < ParPart(u).n => ParPart(u).ptr + idx[u] # j
  BY <1>1, <1>2, <1>3 DEF Writers, Cell
<1>5. CASE Scratch(u)
  <2>1. CASE idx[u] < Part(u).n
    <3>1. Put(u, Part(u).ptr + idx[u], Noise) BY <1>5, <2>1 DEF Scratch
    <3>2. Part(u).ptr + idx[u] # j BY <1>4, <2>1 DEF Part
    <3>3. QED BY <3>1, <3>2, PutType DEF Noise
  <2>2. CASE ~(idx[u] < Part(u).n) BY <1>5, <2>2 DEF Scratch
  <2>3. QED BY <2>1, <2>2
<1>6. CASE Write(u)
  <2>1. Put(u, Part(u).ptr + idx[u], Result(u, idx[u])) /\ idx[u] < Part(u).n
    BY <1>6 DEF Write
  <2>2. Result(u, idx[u]) \in Int BY <1>2 DEF Result, Threads, Twice, Noise
  <2>3. Part(u).ptr + idx[u] # j BY <1>4, <2>1 DEF Part
  <2>4. QED BY <2>1, <2>2, <2>3, PutType
<1>7. CASE ReadFirst(u) BY <1>7 DEF ReadFirst
<1>8. CASE WriteEnds(u) BY <1>8 DEF WriteEnds
<1>9. CASE ChildPrints(u) BY <1>9 DEF ChildPrints
<1>10. QED BY <1>5, <1>6, <1>7, <1>8, <1>9 DEF TaskStep

\* What a thread does with an element that it alone writes.
LEMMA StageStep ==
  ASSUME TypeOK, Threads, ParInv, NEW t \in Task, NEW j \in Cell, Sole(t), Writers(j) = {t},
         TaskStep(t)
  PROVE  (Stage(t, j))'
<1> DEFINE p == ParPart(t).ptr
           n == ParPart(t).n
<1>1. p \in Cell /\ n \in Nat BY Parts DEF TypeOK
<1>2. /\ idx[t] \in Nat /\ val[t] \in Int /\ E \in Nat /\ N \in Nat \ {0}
      /\ dados \in [Cell -> Int] /\ idx \in [Task -> Nat] /\ val \in [Task -> Int]
      /\ task \in [Task -> {"none", "first", "scratch", "write", "printf", "ended", "reaped"}]
  BY Constants DEF TypeOK
<1>3. Stage(t, j) /\ Stage(t, p) BY <1>1 DEF ParInv, Sole
<1>4. Working(t) /\ prog' = prog BY TaskFrame
<1>5. args[t] = ParPart(t) BY <1>4 DEF ParInv, Working
<1>6. p =< j /\ j < p + n BY DEF Writers
<1>7. (ParPart(t))' = ParPart(t) BY <1>4, Same
<1>8. p \in Nat /\ j \in Nat /\ j < E BY <1>1, <1>2 DEF Cell
<1> HIDE DEF p, n
<1>9. CASE ReadFirst(t)
  <2>1. task[t] = "first" /\ task'[t] = "scratch" /\ dados' = dados
    BY <1>2, <1>9 DEF ReadFirst, Goes
  <2>2. val'[t] = dados[p] BY <1>2, <1>5, <1>9 DEF ReadFirst, Part, p
  <2>3. dados[p] = p BY <1>3, <2>1 DEF Stage
  <2>4. QED BY <1>7, <2>1, <2>2, <2>3 DEF Stage, p
<1>10. CASE Scratch(t)
  <2>1. task[t] = "scratch" /\ val' = val BY <1>10 DEF Scratch
  <2>2. val[t] = p BY <1>3, <2>1 DEF Stage, p
  <2>3. CASE idx[t] < Part(t).n
    <3>1. task' = task BY <1>10, <2>3 DEF Scratch
    <3>2. QED BY <1>7, <2>1, <2>2, <3>1 DEF Stage, p
  <2>4. CASE ~(idx[t] < Part(t).n)
    <3>1. task'[t] = "write" /\ idx'[t] = 0 BY <1>2, <1>10, <2>4 DEF Scratch, Goes
    <3>2. ~(j < p + idx'[t]) BY <1>6, <1>8, <3>1
    <3>3. QED BY <1>7, <2>1, <2>2, <3>1, <3>2 DEF Stage, p
  <2>5. QED BY <2>3, <2>4
<1>11. CASE Write(t)
  <2>1. task[t] = "write" /\ val' = val /\ task' = task /\ idx'[t] = idx[t] + 1
    BY <1>2, <1>11 DEF Write
  <2>2. val[t] = p BY <1>3, <2>1 DEF Stage, p
  <2>3. Put(t, p + idx[t], Twice(val[t], idx[t]))
    BY <1>5, <1>11 DEF Write, Part, Result, Threads, p
  <2>4. Twice(val[t], idx[t]) = 2 * (p + idx[t]) BY <1>2, <1>8, <2>2 DEF Twice, Noise
  <2>5. ASSUME j < p + idx'[t] PROVE dados'[j] = 2 * j
    <3>1. CASE j < p + idx[t]
      <4>1. p + idx[t] # j BY <1>2, <1>8, <3>1
      <4>2. 2 * (p + idx[t]) \in Int BY <1>2, <1>8
      <4>3. dados'[j] = dados[j] BY <2>3, <2>4, <4>1, <4>2, PutType
      <4>4. QED BY <1>3, <2>1, <3>1, <4>3 DEF Stage, p
    <3>2. CASE ~(j < p + idx[t])
      <4>1. j = p + idx[t] BY <1>2, <1>8, <2>1, <2>5, <3>2
      <4>2. dados'[j] = 2 * (p + idx[t]) BY <1>2, <1>8, <2>3, <2>4, <4>1 DEF Put
      <4>3. QED BY <4>1, <4>2
    <3>3. QED BY <3>1, <3>2
  <2>6. QED BY <1>7, <2>1, <2>2, <2>5 DEF Stage, p
<1>12. CASE WriteEnds(t)
  <2>1. /\ task[t] = "write" /\ task'[t] = "ended" /\ dados' = dados /\ idx[t] >= n
    BY <1>2, <1>5, <1>12 DEF WriteEnds, Goes, Threads, Part, n
  <2>2. j < p + idx[t] BY <1>1, <1>2, <1>6, <1>8, <2>1 DEF n
  <2>3. dados[j] = 2 * j BY <1>3, <2>1, <2>2 DEF Stage, p
  <2>4. QED BY <2>1, <2>3 DEF Stage
<1>13. CASE ChildPrints(t) BY <1>13 DEF ChildPrints, Goes, ParInv
<1>14. QED BY <1>9, <1>10, <1>11, <1>12, <1>13 DEF TaskStep

LEMMA ParStep ==
  ASSUME TypeOK, Threads, ParInv, Next, pc' # "crashed"
  PROVE  ParInv'
<1>1. prog' = prog /\ prog \in Programs BY ProgKept DEF TypeOK
<1>2. N \in Nat \ {0} /\ E \in Nat \ {0} BY <1>1, Constants
<1>3. /\ Task' = Task /\ Cell' = Cell
      /\ \A t : (ParPart(t))' = ParPart(t) /\ (Sole(t))' = Sole(t)
      /\ \A j : (Writers(j))' = Writers(j)
  BY <1>1, Same
<1>4. /\ next \in Task /\ \A t \in Task : t \in 0..(N - 1)
      /\ task \in [Task -> {"none", "first", "scratch", "write", "printf", "ended", "reaped"}]
      /\ args \in [Task -> [ptr : Cell, n : Nat]]
  BY DEF TypeOK, Task
<1>5. CASE PthreadCreate
  <2>1. /\ pc = "create" /\ task' = [task EXCEPT ![next] = "first"]
        /\ args' = [args EXCEPT ![next] = ParPart(next)]
        /\ UNCHANGED <<dados, val, idx, out>>
    BY <1>5 DEF PthreadCreate
  <2>2. \/ next + 1 = N /\ pc' = "wait" /\ next' = 0
        \/ next + 1 # N /\ pc' = "create" /\ next' = next + 1
    BY <1>1, <1>4, <1>5, Advances DEF PthreadCreate
  <2>3. ASSUME NEW t \in Task
        PROVE  /\ pc' = "create" => (task'[t] = "none") = (t >= next')
               /\ pc' = "wait" => task'[t] # "none" /\ (t < next' => task'[t] = "reaped")
               /\ pc' \notin {"print", "done"}
               /\ task'[t] # "none" => args'[t] = ParPart(t)
               /\ task'[t] # "printf"
    <3>1. (task[t] = "none") = (t >= next) BY <2>1 DEF ParInv
    <3>2. CASE t = next BY <1>2, <1>4, <2>1, <2>2, <3>2
    <3>3. CASE t # next BY <1>2, <1>4, <2>1, <2>2, <3>1, <3>3 DEF ParInv
    <3>4. QED BY <3>2, <3>3
  <2>4. ASSUME NEW t \in Task, NEW j \in Cell, Sole(t), Writers(j) = {t}
        PROVE  (Stage(t, j))'
    <3>1. Stage(t, j) BY <2>4 DEF ParInv
    <3>2. task[next] = "none" BY <1>2, <1>4, <2>1 DEF ParInv
    <3>3. QED BY <1>3, <1>4, <2>1, <3>1, <3>2 DEF Stage
  <2>5. \A j \in Cell : Writers(j) = {} => dados'[j] = j BY <2>1 DEF ParInv
  <2>6. pc' # "done" /\ out' = <<>> BY <2>1, <2>2 DEF ParInv
  <2>7. QED BY <1>3, <2>3, <2>4, <2>5, <2>6 DEF ParInv
<1>6. CASE PthreadJoin
  <2>1. /\ pc = "wait" /\ task[next] = "ended" /\ task' = [task EXCEPT ![next] = "reaped"]
        /\ UNCHANGED <<dados, val, idx, out, args>>
    BY <1>6 DEF PthreadJoin
  <2>2. \/ next + 1 = N /\ pc' = "print" /\ next' = 0
        \/ next + 1 # N /\ pc' = "wait" /\ next' = next + 1
    BY <1>1, <1>4, <1>6, Advances DEF PthreadJoin
  <2>3. ASSUME NEW t \in Task
        PROVE  /\ pc' # "create"
               /\ pc' = "wait" => task'[t] # "none" /\ (t < next' => task'[t] = "reaped")
               /\ pc' \in {"print", "done"} => task'[t] = "reaped"
               /\ task'[t] # "none" => args'[t] = ParPart(t)
               /\ task'[t] # "printf"
    <3>1. task[t] # "none" /\ (t < next => task[t] = "reaped") BY <2>1 DEF ParInv
    <3>2. CASE t = next BY <1>2, <1>4, <2>1, <2>2, <3>2 DEF ParInv
    <3>3. CASE t # next BY <1>2, <1>4, <2>1, <2>2, <3>1, <3>3 DEF ParInv
    <3>4. QED BY <3>2, <3>3
  <2>4. ASSUME NEW t \in Task, NEW j \in Cell, Sole(t), Writers(j) = {t}
        PROVE  (Stage(t, j))'
    <3>1. Stage(t, j) BY <2>4 DEF ParInv
    <3>2. QED BY <1>3, <1>4, <2>1, <3>1 DEF Stage
  <2>5. \A j \in Cell : Writers(j) = {} => dados'[j] = j BY <2>1 DEF ParInv
  <2>6. pc' # "done" /\ out' = <<>> BY <2>1, <2>2 DEF ParInv
  <2>7. QED BY <1>3, <2>3, <2>4, <2>5, <2>6 DEF ParInv
<1>7. CASE PrintData
  <2>1. /\ pc = "print" /\ pc' = "done" /\ out' = Append(out, dados)
        /\ UNCHANGED <<next, dados, task, args, val, idx>>
    BY <1>7 DEF PrintData, Threads
  <2>2. out' = <<dados>> BY <2>1 DEF ParInv
  <2>3. \A t \in Task, j \in Cell : Stage(t, j) => (Stage(t, j))'
    BY <1>3, <2>1 DEF Stage
  <2>4. QED BY <1>3, <2>1, <2>2, <2>3 DEF ParInv
<1>8. ASSUME NEW u \in Task, TaskStep(u) PROVE ParInv'
  <2>1. /\ UNCHANGED <<prog, pc, next, args>> /\ Working(u)
        /\ \A t \in Task : t # u => task'[t] = task[t] /\ val'[t] = val[t] /\ idx'[t] = idx[t]
        /\ task'[u] \in {"scratch", "write", "printf", "ended"}
    BY <1>8, TaskFrame
  <2>2. args[u] = ParPart(u) /\ task[u] # "printf" BY <2>1 DEF ParInv, Working
  <2>3. task'[u] # "printf" /\ out' = out
    BY <1>4, <1>8, <2>2
    DEF TaskStep, ReadFirst, Scratch, Write, WriteEnds, ChildPrints, Goes, Threads, program
  <2>4. ASSUME NEW t \in Task
        PROVE  /\ pc' = "create" => (task'[t] = "none") = (t >= next')
               /\ pc' = "wait" => task'[t] # "none" /\ (t < next' => task'[t] = "reaped")
               /\ pc' \in {"print", "done"} => task'[t] = "reaped"
               /\ task'[t] # "none" => args'[t] = ParPart(t)
               /\ task'[t] # "printf"
    <3>1. CASE t = u BY <2>1, <2>2, <2>3, <3>1 DEF ParInv, Working
    <3>2. CASE t # u BY <2>1, <3>2 DEF ParInv
    <3>3. QED BY <3>1, <3>2
  <2>5. ASSUME NEW t \in Task, NEW j \in Cell, Sole(t), Writers(j) = {t}
        PROVE  (Stage(t, j))'
    <3>1. CASE t = u BY <1>8, <2>5, <3>1, StageStep
    <3>2. CASE t # u
      <4>1. dados'[j] = dados[j] BY <1>8, <2>2, <2>5, <3>2, Touches
      <4>2. Stage(t, j) BY <2>5 DEF ParInv
      <4>3. QED BY <1>3, <2>1, <3>2, <4>1, <4>2 DEF Stage
    <3>3. QED BY <3>1, <3>2
  <2>6. ASSUME NEW j \in Cell, Writers(j) = {} PROVE dados'[j] = j
    <3>1. dados'[j] = dados[j] BY <1>8, <2>2, <2>6, Touches
    <3>2. QED BY <2>6, <3>1 DEF ParInv
  <2>7. pc # "done" /\ pc' # "done" BY <2>1 DEF ParInv, Working
  <2>8. out' = <<>> BY <2>3, <2>7 DEF ParInv
  <2>9. QED BY <1>3, <2>4, <2>5, <2>6, <2>7, <2>8 DEF ParInv
<1>9. CASE Fork \/ ForkFails \/ Waitpid BY <1>9 DEF Fork, ForkFails, Waitpid
<1>10. CASE Crash BY <1>10 DEF Crash
<1>11. CASE Ended
  <2>1. UNCHANGED <<pc, next, out, dados, task, args, val, idx>>
    BY <1>11 DEF Ended, vars, program
  <2>2. \A t \in Task, j \in Cell : Stage(t, j) => (Stage(t, j))'
    BY <1>3, <2>1 DEF Stage
  <2>3. QED BY <1>3, <2>1, <2>2 DEF ParInv
<1>12. QED
  BY <1>5, <1>6, <1>7, <1>8, <1>9, <1>10, <1>11 DEF Next, MainStep

-----------------------------------------------------------------------------
(* The processes *)

\* waitpid, for r[next] or for any child, leaves no child that was forked for next.
LEMMA Collects ==
  ASSUME TypeOK, ~Threads, ForkInv, Waitpid
  PROVE  /\ task'[next] \in {"none", "reaped"}
         /\ \A t \in Task : task'[t] = task[t] \/ (task[t] = "ended" /\ task'[t] = "reaped")
<1>1. pc = "wait" /\ WaitReturns BY DEF Waitpid
<1>2. /\ next \in Task
      /\ task \in [Task -> {"none", "first", "scratch", "write", "printf", "ended", "reaped"}]
  BY DEF TypeOK
<1>3. forked[next] \/ task[next] \in {"none", "reaped"} BY <1>1, <1>2 DEF ForkInv, Idle
<1>4. CASE NoChild
  <2>1. task[next] \in {"none", "reaped"} BY <1>3, <1>4 DEF NoChild, Awaited
  <2>2. QED BY <1>4, <2>1 DEF NoChild
<1>5. ASSUME NEW u \in Awaited, Reap(u)
      PROVE  /\ task'[next] \in {"none", "reaped"}
             /\ \A t \in Task : task'[t] = task[t] \/ (task[t] = "ended" /\ task'[t] = "reaped")
  <2>1. u \in Task /\ (forked[next] => u = next) BY <1>2, <1>5 DEF Awaited
  <2>2. task[u] = "ended" /\ task' = [task EXCEPT ![u] = "reaped"] BY <1>5 DEF Reap
  <2>3. QED BY <1>2, <1>3, <2>1, <2>2
<1>6. QED BY <1>1, <1>4, <1>5 DEF WaitReturns

LEMMA ForkStep ==
  ASSUME TypeOK, ~Threads, ForkInv, Next, pc' # "crashed"
  PROVE  ForkInv'
<1>1. prog' = prog /\ prog \in Programs BY ProgKept DEF TypeOK
<1>2. N \in Nat \ {0} BY <1>1, Constants
<1>3. Task' = Task BY <1>1, Same
<1>4. /\ next \in Task /\ \A t \in Task : t \in 0..(N - 1)
      /\ task \in [Task -> {"none", "first", "scratch", "write", "printf", "ended", "reaped"}]
      /\ forked \in [Task -> BOOLEAN]
  BY DEF TypeOK, Task
<1>5. SUFFICES ASSUME NEW t \in Task
               PROVE  /\ pc' = "create" => (t >= next' => (Idle(t))') /\ (forked'[t] \/ (Idle(t))')
                      /\ pc' = "wait" => (t < next' => (Idle(t))') /\ (forked'[t] \/ (Idle(t))')
                      /\ pc' \in {"print", "done"} => (Idle(t))'
  BY <1>3 DEF ForkInv
<1>6. CASE Fork \/ ForkFails
  <2>1. /\ pc = "create" /\ \A u \in Task : u # next => task'[u] = task[u] /\ forked'[u] = forked[u]
        /\ forked'[next] \/ (task' = task /\ Idle(next))
    BY <1>2, <1>4, <1>6 DEF Fork, ForkFails, ForkInv
  <2>2. \/ next + 1 = N /\ pc' = "wait" /\ next' = 0
        \/ next + 1 # N /\ pc' = "create" /\ next' = next + 1
    BY <1>1, <1>4, <1>6, Advances DEF Fork, ForkFails
  <2>3. CASE t = next BY <1>2, <1>4, <2>1, <2>2, <2>3 DEF Idle
  <2>4. CASE t # next BY <1>2, <1>4, <2>1, <2>2, <2>4 DEF ForkInv, Idle
  <2>5. QED BY <2>3, <2>4
<1>7. CASE Waitpid
  <2>1. /\ task'[next] \in {"none", "reaped"}
        /\ task'[t] = task[t] \/ (task[t] = "ended" /\ task'[t] = "reaped")
    BY <1>7, Collects
  <2>2. pc = "wait" /\ forked' = forked BY <1>7 DEF Waitpid
  <2>3. \/ next + 1 = N /\ pc' \in {"print", "create"} /\ next' = 0
        \/ next + 1 # N /\ pc' = "wait" /\ next' = next + 1
    BY <1>1, <1>4, <1>7, Advances DEF Waitpid
  <2>4. (t < next => Idle(t)) /\ (forked[t] \/ Idle(t)) BY <2>2 DEF ForkInv
  <2>5. t =< next => (Idle(t))' BY <1>4, <2>1, <2>4 DEF Idle
  <2>6. ~forked[t] => (Idle(t))' BY <2>1, <2>4 DEF Idle
  <2>7. forked'[t] = forked[t] BY <2>2
  <2>8. QED BY <1>2, <1>4, <2>3, <2>5, <2>6, <2>7
<1>8. CASE PrintData BY <1>8 DEF PrintData, ForkInv, Idle
<1>9. ASSUME NEW u \in Task, TaskStep(u)
      PROVE  /\ pc' = "create" => (t >= next' => (Idle(t))') /\ (forked'[t] \/ (Idle(t))')
             /\ pc' = "wait" => (t < next' => (Idle(t))') /\ (forked'[t] \/ (Idle(t))')
             /\ pc' \in {"print", "done"} => (Idle(t))'
  <2>1. /\ UNCHANGED <<pc, next, forked>> /\ Working(u) /\ (t # u => task'[t] = task[t])
    BY <1>9, TaskFrame
  <2>2. ~Idle(u) BY <2>1 DEF Working, Idle
  <2>3. CASE t = u BY <2>1, <2>2, <2>3 DEF ForkInv
  <2>4. CASE t # u BY <2>1, <2>4 DEF ForkInv, Idle
  <2>5. QED BY <2>3, <2>4
<1>10. CASE Ended BY <1>10 DEF Ended, vars, program, ForkInv, Idle
<1>11. CASE PthreadCreate \/ PthreadJoin \/ Crash
  BY <1>11 DEF PthreadCreate, PthreadJoin, Crash
<1>12. QED BY <1>6, <1>7, <1>8, <1>9, <1>10, <1>11 DEF Next, MainStep

LEMMA CopyStep ==
  ASSUME TypeOK, prog = "ficha2-5", ForkInv, CopyInv, Next, pc' # "crashed"
  PROVE  CopyInv'
<1>1. prog' = prog /\ prog \in Programs BY ProgKept DEF TypeOK
<1>2. /\ N = 1 /\ Task = {0} /\ Ficha12Part(0) = [ptr |-> 0, n |-> E] /\ E \in Nat \ {0}
      /\ next = 0 /\ ~Threads
  BY <1>1, Constants DEF TypeOK, Threads
<1>3. /\ Cell' = Cell /\ Filhos' = Filhos /\ (Ficha12Part(0))' = Ficha12Part(0)
  BY <1>1, Same
<1>4. /\ task \in [{0} -> {"none", "first", "scratch", "write", "printf", "ended", "reaped"}]
      /\ forked \in [{0} -> BOOLEAN] /\ args \in [{0} -> [ptr : Cell, n : Nat]]
      /\ own \in [{0} -> [Cell -> Int]] /\ idx \in [{0} -> Nat]
  BY <1>2 DEF TypeOK
<1>5. CASE Fork
  <2>1. /\ pc = "create" /\ pc' = "wait" /\ task'[0] = "write" /\ forked'[0]
        /\ args'[0] = Ficha12Part(0) /\ idx'[0] = 0 /\ out' = out
    BY <1>2, <1>4, <1>5 DEF Fork, Advance
  <2>2. \A j \in Cell : ~(j < idx'[0]) BY <1>2, <2>1 DEF Cell
  <2>3. out' = <<>> BY <2>1 DEF CopyInv
  <2>4. QED BY <1>3, <2>1, <2>2, <2>3 DEF CopyInv
<1>6. CASE ForkFails
  <2>1. /\ pc = "create" /\ pc' = "wait" /\ task' = task /\ ~forked'[0] /\ out' = out
    BY <1>2, <1>4, <1>6 DEF ForkFails, Advance
  <2>2. task[0] = "none" /\ out = <<>> BY <2>1 DEF CopyInv
  <2>3. QED BY <1>3, <2>1, <2>2 DEF CopyInv
<1>7. CASE Waitpid
  <2>1. pc = "wait" /\ pc' = "print" /\ UNCHANGED <<forked, args, own, idx, out>>
    BY <1>2, <1>7 DEF Waitpid, Advance
  <2>2. /\ task'[0] \in {"none", "reaped"}
        /\ task'[0] = task[0] \/ (task[0] = "ended" /\ task'[0] = "reaped")
    BY <1>2, <1>7, Collects
  <2>3. QED BY <1>3, <2>1, <2>2 DEF CopyInv
<1>8. CASE PrintData
  <2>1. /\ pc = "print" /\ pc' = "done" /\ out' = Append(out, dados)
        /\ UNCHANGED <<task, forked, args, own, idx, dados>>
    BY <1>1, <1>8 DEF PrintData
  <2>2. task[0] \in {"none", "reaped"} BY <1>2, <2>1 DEF ForkInv, Idle
  <2>3. out = IF forked[0] THEN <<Filhos>> ELSE <<>> BY <2>1, <2>2 DEF CopyInv
  <2>4. out' = (IF forked[0] THEN <<Filhos>> ELSE <<>>) \o <<dados>>
    <3>1. CASE forked[0]
      <4>1. out' = Append(<<Filhos>>, dados) BY <2>1, <2>3, <3>1
      <4>2. Append(<<Filhos>>, dados) = <<Filhos>> \o <<dados>> OBVIOUS
      <4>3. QED BY <3>1, <4>1, <4>2
    <3>2. CASE ~forked[0]
      <4>1. out' = Append(<<>>, dados) BY <2>1, <2>3, <3>2
      <4>2. Append(<<>>, dados) = <<>> \o <<dados>> OBVIOUS
      <4>3. QED BY <3>2, <4>1, <4>2
    <3>3. QED BY <3>1, <3>2
  <2>5. QED BY <1>3, <2>1, <2>4 DEF CopyInv
<1>9. ASSUME TaskStep(0) PROVE CopyInv'
  <2>1. UNCHANGED <<pc, forked, args>> /\ Working(0) BY <1>2, <1>9, TaskFrame
  <2>2. pc = "wait"
    <3>1. pc # "create" BY <2>1 DEF CopyInv, Working
    <3>2. pc \notin {"print", "done"} BY <1>2, <2>1 DEF ForkInv, Idle, Working
    <3>3. pc # "crashed" BY <2>1
    <3>4. QED BY <3>1, <3>2, <3>3 DEF TypeOK
  <2>3. /\ forked[0] /\ args[0] = [ptr |-> 0, n |-> E] /\ out = <<>>
        /\ task[0] \in {"write", "printf"}
    BY <1>2, <2>1, <2>2 DEF CopyInv, Working
  <2>4. CASE Write(0)
    <3>1. /\ task[0] = "write" /\ idx[0] < E /\ idx'[0] = idx[0] + 1 /\ UNCHANGED <<task, out>>
          /\ Put(0, idx[0], Filho)
      <4>1. Part(0).ptr = 0 /\ Part(0).n = E /\ 0 + idx[0] = idx[0]
        BY <1>4, <2>3 DEF Part
      <4>2. Result(0, idx[0]) = Filho BY DEF Result
      <4>3. QED BY <1>4, <2>4, <4>1, <4>2 DEF Write, program
    <3>2. own'[0] = [own[0] EXCEPT ![idx[0]] = Filho] BY <1>2, <1>4, <3>1 DEF Put
    <3>3. ASSUME NEW j \in Cell, j < idx'[0] PROVE own'[0][j] = Filho
      <4>1. own[0] \in [Cell -> Int] BY <1>4
      <4>2. CASE j = idx[0] BY <3>2, <4>1, <4>2
      <4>3. CASE j # idx[0]
        <5>1. j < idx[0] BY <1>2, <1>4, <3>1, <3>3, <4>3 DEF Cell
        <5>2. own[0][j] = Filho BY <3>1, <5>1 DEF CopyInv
        <5>3. QED BY <3>2, <4>1, <4>3, <5>2
      <4>4. QED BY <4>2, <4>3
    <3>4. QED BY <1>3, <2>1, <2>2, <2>3, <3>1, <3>3 DEF CopyInv
  <2>5. CASE WriteEnds(0)
    <3>1. /\ task[0] = "write" /\ task'[0] = "printf" /\ idx[0] >= E /\ UNCHANGED <<own, out>>
      BY <1>4, <2>3, <2>5 DEF WriteEnds, Goes, Part, program
    <3>2. \A j \in Cell : j < idx[0] BY <1>2, <1>4, <3>1 DEF Cell
    <3>3. own[0] \in [Cell -> Int] /\ \A j \in Cell : own[0][j] = Filho
      BY <1>4, <3>1, <3>2 DEF CopyInv
    <3>4. own[0] = Filhos BY <3>3 DEF Filhos
    <3>5. QED BY <1>3, <2>1, <2>2, <2>3, <3>1, <3>4 DEF CopyInv
  <2>6. CASE ChildPrints(0)
    <3>1. task[0] = "printf" /\ task'[0] = "ended" /\ out' = Append(out, own[0])
      BY <1>4, <2>6 DEF ChildPrints, Goes
    <3>2. out' = <<Filhos>> BY <2>3, <3>1 DEF CopyInv
    <3>3. QED BY <1>3, <2>1, <2>2, <2>3, <3>1, <3>2 DEF CopyInv
  <2>7. CASE ReadFirst(0) \/ Scratch(0) BY <2>3, <2>7 DEF ReadFirst, Scratch, Goes
  <2>8. QED BY <1>9, <2>4, <2>5, <2>6, <2>7 DEF TaskStep
<1>10. CASE Ended
  BY <1>3, <1>10 DEF Ended, vars, program, CopyInv
<1>11. CASE PthreadCreate \/ PthreadJoin \/ Crash
  BY <1>2, <1>11 DEF PthreadCreate, PthreadJoin, Crash
<1>12. QED
  BY <1>2, <1>5, <1>6, <1>7, <1>8, <1>9, <1>10, <1>11 DEF Next, MainStep

-----------------------------------------------------------------------------
(* The invariant *)

LEMMA InitInv == Init => Inv
<1>1. SUFFICES ASSUME Init PROVE Inv OBVIOUS
<1>2. TypeOK /\ prog \in Programs BY <1>1, InitType DEF Init
<1>3. \A j \in Cell : dados[j] = Initial(j) BY <1>1 DEF Init
<1>4. pc = "create" /\ next = 0 /\ out = <<>> BY <1>1 DEF Init
<1>5. \A t \in Task : task[t] = "none" /\ ~forked[t] BY <1>1 DEF Init
<1>6. Threads => ParInv BY <1>1, InitPar
<1>7. ForkInv BY <1>4, <1>5 DEF ForkInv, Idle
<1>8. prog = "ficha2-5" => CopyInv BY <1>2, <1>4, <1>5, Constants DEF CopyInv
<1>9. QED BY <1>2, <1>3, <1>4, <1>6, <1>7, <1>8 DEF Inv

LEMMA StepInv == Inv /\ [Next]_vars => Inv'
<1>1. SUFFICES ASSUME Inv, [Next]_vars PROVE Inv' OBVIOUS
<1>2. CASE Next
  <2>1. TypeOK' /\ prog' = prog /\ TypeOK BY <1>1, <1>2, TypeStep, ProgKept DEF Inv
  <2>2. Cell' = Cell /\ Task' = Task /\ (Threads)' = Threads /\ \A j : (Initial(j))' = Initial(j)
    BY <2>1, Same
  <2>3. ~Threads => dados' = dados
    <3>1. SUFFICES ASSUME ~Threads PROVE dados' = dados OBVIOUS
    <3>2. ASSUME NEW t \in Task, TaskStep(t) PROVE dados' = dados
      BY <3>1, <3>2 DEF TaskStep, ReadFirst, Scratch, Write, WriteEnds, ChildPrints, Put
    <3>3. QED
      BY <1>2, <3>1, <3>2
      DEF Next, MainStep, PthreadCreate, Fork, ForkFails, PthreadJoin, Waitpid, PrintData, Crash,
          Ended, vars
  <2>4. ~Threads => \A j \in Cell : dados'[j] = Initial(j) BY <1>1, <2>3 DEF Inv
  <2>5. CASE pc = "crashed"
    <3>1. \A t \in Task : ~Working(t) BY <1>1, <2>5 DEF Inv
    <3>2. UNCHANGED vars
      <4>1. ASSUME NEW t \in Task, TaskStep(t) PROVE FALSE BY <2>1, <3>1, <4>1, TaskFrame
      <4>2. QED
        BY <1>2, <2>5, <4>1
        DEF Next, MainStep, PthreadCreate, Fork, ForkFails, PthreadJoin, Waitpid, PrintData,
            Crash, Ended
    <3>3. pc' = "crashed" /\ task' = task BY <2>5, <3>2 DEF vars, program
    <3>4. \A t \in Task : ~(Working(t))' BY <3>1, <3>3 DEF Working
    <3>5. QED BY <2>1, <2>2, <2>4, <3>3, <3>4 DEF Inv
  <2>6. CASE pc # "crashed" /\ pc' # "crashed"
    <3>1. Threads => ParInv' BY <1>1, <1>2, <2>1, <2>6, ParStep DEF Inv
    <3>2. ~Threads => ForkInv' BY <1>1, <1>2, <2>1, <2>6, ForkStep DEF Inv
    <3>3. prog = "ficha2-5" => CopyInv'
      BY <1>1, <1>2, <2>1, <2>6, CopyStep DEF Inv, Threads
    <3>4. QED BY <2>1, <2>2, <2>4, <2>6, <3>1, <3>2, <3>3 DEF Inv
  <2>7. CASE pc # "crashed" /\ pc' = "crashed"
    <3>1. Crash
      <4>1. ASSUME NEW t \in Task, TaskStep(t) PROVE pc' = pc BY <2>1, <4>1, TaskFrame
      <4>2. ~MainStep
        BY <2>7 DEF MainStep, PthreadCreate, Fork, PthreadJoin, Waitpid, PrintData, Advance
      <4>3. ~ForkFails BY <2>7 DEF ForkFails, Advance
      <4>4. ~Ended BY <2>7 DEF Ended, vars, program
      <4>5. QED BY <1>2, <2>7, <4>1, <4>2, <4>3, <4>4 DEF Next
    <3>2. \A t \in Task : ~(Working(t))' BY <3>1 DEF Crash, Working
    <3>3. QED BY <2>1, <2>2, <2>4, <2>7, <3>2 DEF Inv
  <2>8. QED BY <2>5, <2>6, <2>7
<1>3. CASE UNCHANGED vars
  <2>1. UNCHANGED <<prog, pc, next, round, out, dados, wild, task, args, forked, own, val, idx>>
    BY <1>3 DEF vars, program
  <2>2. /\ Task' = Task /\ Cell' = Cell /\ (Threads)' = Threads /\ Filhos' = Filhos
        /\ \A t : (ParPart(t))' = ParPart(t) /\ (Sole(t))' = Sole(t)
                 /\ (Ficha12Part(t))' = Ficha12Part(t)
        /\ \A j : (Initial(j))' = Initial(j) /\ (Writers(j))' = Writers(j)
    BY <2>1, Same
  <2>3. TypeOK' BY <1>1, <2>1, <2>2 DEF Inv, TypeOK
  <2>4. \A t, j : Stage(t, j) => (Stage(t, j))' BY <2>1, <2>2 DEF Stage
  <2>5. ParInv => ParInv' BY <2>1, <2>2, <2>4 DEF ParInv
  <2>6. ForkInv => ForkInv' BY <2>1, <2>2 DEF ForkInv, Idle
  <2>7. CopyInv => CopyInv' BY <2>1, <2>2 DEF CopyInv
  <2>8. \A t : ~Working(t) => ~(Working(t))' BY <2>1 DEF Working
  <2>9. QED BY <1>1, <2>1, <2>2, <2>3, <2>5, <2>6, <2>7, <2>8 DEF Inv
<1>4. QED BY <1>1, <1>2, <1>3

\* par.c, ficha2-12.c, ficha2-5.c: each stage of a thread has left in the elements that it alone
\* writes what it should, and main has still to wait for no process but those it will wait for.
THEOREM Invariance == Spec => []Inv
BY InitInv, StepInv, PTL DEF Spec

\* SplitVector: main, its tasks and their copies of the vector stay within their types.
THEOREM TypeCorrect == Spec => []TypeOK
<1>1. Inv => TypeOK BY DEF Inv
<1>2. QED BY Invariance, <1>1, PTL

\* par.c: for any sizes and any order of the threads, an element that one thread alone
\* writes is printed doubled, provided that the thread's first element is its own, and
\* an element of no thread is printed as it was.
THEOREM AloneIsDoubled == Spec => []DoubledWhereAlone
<1>1. Inv => DoubledWhereAlone
  <2>1. SUFFICES ASSUME Inv, prog = "par", pc = "done" PROVE DoubledWhereAlone
    BY DEF DoubledWhereAlone
  <2>2. ParInv BY <2>1 DEF Inv, Threads
  <2>3. out[1] = dados BY <2>1, <2>2 DEF ParInv
  <2>4. ASSUME NEW j \in Cell, Writers(j) = {} PROVE out[1][j] = j
    BY <2>2, <2>3, <2>4 DEF ParInv
  <2>5. ASSUME NEW j \in Cell, NEW t \in Task, Writers(j) = {t}, Writers(ParPart(t).ptr) = {t}
        PROVE  out[1][j] = 2 * j
    <3>1. Stage(t, j) /\ task[t] = "reaped" BY <2>1, <2>2, <2>5 DEF ParInv, Sole
    <3>2. QED BY <2>3, <3>1 DEF Stage
  <2>6. QED BY <2>4, <2>5 DEF DoubledWhereAlone
<1>2. QED BY Invariance, <1>1, PTL

\* ficha2-12.c: any number of processes and rounds, any calls of fork that fail, and no
\* child outlives its round.
THEOREM NoChildOutlivesRound == Spec => []RoundsApart
<1>1. Inv => RoundsApart
  <2>1. SUFFICES ASSUME Inv, ~Threads,
                        pc \in {"print", "done"} \/ (pc = "create" /\ next = 0)
                 PROVE  \A t \in Task : task[t] \in {"none", "reaped"}
    BY DEF RoundsApart
  <2>2. ForkInv BY <2>1 DEF Inv
  <2>3. pc = "create" /\ next = 0 => \A t \in Task : t >= next BY DEF Task
  <2>4. QED BY <2>1, <2>2, <2>3 DEF ForkInv, Idle
<1>2. QED BY Invariance, <1>1, PTL

\* ficha2-5.c, ficha2-12.c: what children write stays in their copies, and ficha2-5.c
\* prints the child's data before its own.
THEOREM CopyIsChilds == Spec => []ParentUnchanged
<1>1. Inv => ParentUnchanged
  BY DEF Inv, ParentUnchanged, CopyInv, Filhos, Threads
<1>2. QED BY Invariance, <1>1, PTL
=============================================================================
