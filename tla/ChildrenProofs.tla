--------------------------- MODULE ChildrenProofs ---------------------------
(***************************************************************************)
(* What a child inherits at fork, masks and dispositions (SinaisIII) or    *)
(* memory and buffers (ValuePipeline), and what it leaves to its parent.   *)
(* The safety properties of both, for any number of children and values.   *)
(***************************************************************************)
EXTENDS SinaisIII, ValuePipeline, FiniteSetTheorems, TLAPS

-----------------------------------------------------------------------------
(* SinaisIII.  Its invariant says what has been set where a process is         *)
(* (MaskInv) and how far the handler of one signal has come (HandlerInv).      *)

Places ==
  {"unborn", "start", "blocked", "sleep", "fork", "work", "zombie", "reaped", "dead"}

Types == at \in [Proc -> Places] /\ S3TypeOK

\* The parent's mask is set before its first fork and inherited; a child's own settings
\* add to it.
MaskInv ==
  /\ at["parent"] \notin {"start", "dead"} => {"INT", "QUIT"} \subseteq mask["parent"]
  /\ \A c \in Child : at[c] # "unborn" => {"INT", "QUIT"} \subseteq mask[c]
  /\ \A c \in Child : at[c] \in {"blocked", "work"} => "TSTP" \in mask[c]
  /\ \A c \in Child : at[c] = "work" => disp[c]["TERM"] = "ignore"

\* A child has been created.
Born == \E c \in Child : at[c] # "unborn"

\* A SIGCHLD is kept only while the handler is set; the handler is entered once and
\* left once, with one child reaped, and it is never set again.
HandlerInv ==
  /\ at["parent"] \in {"start", "blocked"} => ~waiting /\ ~pendChld /\ ~Born
  /\ pendChld => disp["parent"]["CHLD"] = "handler" /\ Born
  /\ waiting => disp["parent"]["CHLD"] # "handler" /\ Born
  /\ \A c \in stopped : at[c] # "unborn"
  /\ waiting \/ disp["parent"]["CHLD"] = "handler" => \A c \in Child : at[c] # "reaped"
  /\ \A c, d \in Child : at[c] = "reaped" /\ at[d] = "reaped" => c = d

S3Inv == Types /\ MaskInv /\ HandlerInv

USE ChildAssumption DEF ChildAssumption

LEMMA S3InitInv == S3Init => S3Inv
<1> SUFFICES ASSUME S3Init PROVE S3Inv
  OBVIOUS
<1> USE DEF S3Init
<1>1. Types BY DEF Types, S3TypeOK, Places, Proc, Sig, Disposition
<1>2. MaskInv BY DEF MaskInv, Proc
<1>3. HandlerInv BY DEF HandlerInv, Born, Proc
<1>4. QED BY <1>1, <1>2, <1>3 DEF S3Inv

LEMMA TypesStep == Types /\ [S3Next]_s3vars => Types'
<1> SUFFICES ASSUME Types, [S3Next]_s3vars PROVE Types'
  OBVIOUS
<1> USE DEF Types, S3TypeOK, Places, Proc, Move, Block, Dispose, RaiseChld, ParentAt, ChildAt,
            Alive
<1> USE DEF Sig, Terminating, Stopping, Unstoppable, Blockable, Disposition
<1>1. CASE BlockIntQuit BY <1>1 DEF BlockIntQuit
<1>2. CASE SetMyHandler BY <1>2 DEF SetMyHandler
<1>3. CASE WaitSomething \/ ForkChildFails BY <1>3 DEF WaitSomething, ForkChildFails
<1>4. CASE HandleChld BY <1>4 DEF HandleChld, AfterDelivery
<1>5. ASSUME NEW c \in Child, ForkChild(c) PROVE Types'
  BY <1>5 DEF ForkChild, Inherited
<1>6. ASSUME NEW c \in Child, WaitReaps(c) PROVE Types'
  BY <1>6 DEF WaitReaps
<1>7. ASSUME NEW c \in Child, BlockTstp(c) PROVE Types'
  BY <1>7 DEF BlockTstp
<1>8. ASSUME NEW c \in Child, IgnoreTerm(c) PROVE Types'
  BY <1>8 DEF IgnoreTerm
<1>9. ASSUME NEW c \in Child, ChildExits(c) PROVE Types'
  BY <1>9 DEF ChildExits
<1>10. ASSUME NEW c \in Child, StopChild(c) \/ Continue(c) PROVE Types'
  BY <1>10 DEF StopChild, Continue
<1>11. ASSUME NEW p \in Proc, Terminate(p) PROVE Types'
  BY <1>11 DEF Terminate
<1>12. CASE UNCHANGED s3vars BY <1>12 DEF s3vars
<1>13. QED
  BY <1>1, <1>2, <1>3, <1>4, <1>5, <1>6, <1>7, <1>8, <1>9, <1>10, <1>11, <1>12
  DEF S3Next, ParentStep, ChildStep, AllEnded

\* Masks and dispositions: only ForkChild, the calls of a process itself and the delivery to
\* the parent change them.
LEMMA MaskStep == Types /\ MaskInv /\ [S3Next]_s3vars => MaskInv'
<1> SUFFICES ASSUME Types, MaskInv, [S3Next]_s3vars PROVE MaskInv'
  OBVIOUS
<1> USE DEF Types, S3TypeOK, MaskInv, Proc, Move, Block, Dispose, ParentAt, ChildAt, Alive
<1> USE DEF Sig, Terminating, Stopping
<1>1. CASE BlockIntQuit BY <1>1 DEF BlockIntQuit
<1>2. CASE SetMyHandler BY <1>2 DEF SetMyHandler
<1>3. CASE WaitSomething \/ ForkChildFails BY <1>3 DEF WaitSomething, ForkChildFails
<1>4. CASE HandleChld BY <1>4 DEF HandleChld, AfterDelivery
<1>5. ASSUME NEW c \in Child, ForkChild(c) PROVE MaskInv'
  BY <1>5 DEF ForkChild, Inherited
<1>6. ASSUME NEW c \in Child, WaitReaps(c) \/ ChildExits(c) PROVE MaskInv'
  BY <1>6 DEF WaitReaps, ChildExits
<1>7. ASSUME NEW c \in Child, BlockTstp(c) PROVE MaskInv'
  BY <1>7 DEF BlockTstp
<1>8. ASSUME NEW c \in Child, IgnoreTerm(c) PROVE MaskInv'
  BY <1>8 DEF IgnoreTerm
<1>9. ASSUME NEW c \in Child, StopChild(c) \/ Continue(c) PROVE MaskInv'
  BY <1>9 DEF StopChild, Continue
<1>10. ASSUME NEW p \in Proc, Terminate(p) PROVE MaskInv'
  BY <1>10 DEF Terminate
<1>11. CASE UNCHANGED s3vars BY <1>11 DEF s3vars
<1>12. QED
  BY <1>1, <1>2, <1>3, <1>4, <1>5, <1>6, <1>7, <1>8, <1>9, <1>10, <1>11
  DEF S3Next, ParentStep, ChildStep, AllEnded

LEMMA HandlerStep == Types /\ HandlerInv /\ [S3Next]_s3vars => HandlerInv'
<1> SUFFICES ASSUME Types, HandlerInv, [S3Next]_s3vars PROVE HandlerInv'
  OBVIOUS
<1> USE DEF Types, S3TypeOK, HandlerInv, Born, Proc, Move, Block, Dispose, RaiseChld,
            ParentAt, ChildAt, Alive, Sig
<1>1. CASE BlockIntQuit BY <1>1 DEF BlockIntQuit
<1>2. CASE SetMyHandler BY <1>2 DEF SetMyHandler
<1>3. CASE WaitSomething \/ ForkChildFails BY <1>3 DEF WaitSomething, ForkChildFails
<1>4. CASE HandleChld BY <1>4 DEF HandleChld, AfterDelivery
<1>5. ASSUME NEW c \in Child, ForkChild(c) PROVE HandlerInv'
  BY <1>5 DEF ForkChild
<1>6. ASSUME NEW c \in Child, WaitReaps(c) PROVE HandlerInv'
  BY <1>6 DEF WaitReaps
<1>7. ASSUME NEW c \in Child, ChildStep(c) PROVE HandlerInv'
  BY <1>7 DEF ChildStep, BlockTstp, IgnoreTerm, ChildExits
<1>8. ASSUME NEW c \in Child, StopChild(c) \/ Continue(c) PROVE HandlerInv'
  BY <1>8 DEF StopChild, Continue
<1>9. ASSUME NEW p \in Proc, Terminate(p) PROVE HandlerInv'
  BY <1>9 DEF Terminate
<1>10. CASE UNCHANGED s3vars BY <1>10 DEF s3vars
<1>11. QED
  BY <1>1, <1>2, <1>3, <1>4, <1>5, <1>6, <1>7, <1>8, <1>9, <1>10
  DEF S3Next, ParentStep, AllEnded

\* Wherever the processes are, their masks and dispositions are the ones that the calls
\* made so far and the fork have given them, and the handler runs once.
THEOREM MasksAgree == S3Spec => []S3Inv
<1>1. S3Inv /\ [S3Next]_s3vars => S3Inv'
  BY TypesStep, MaskStep, HandlerStep DEF S3Inv
<1>2. QED BY <1>1, S3InitInv, PTL DEF S3Spec

\* A child in do_something is protected from SIGINT, SIGQUIT, SIGTSTP and SIGTERM by
\* what it has inherited and what it has set itself, however many there are.
THEOREM ChildrenAtWorkProtected == S3Spec => []WorkersProtected
<1>1. S3Inv => WorkersProtected
  <2> SUFFICES ASSUME S3Inv, NEW c \in Child, at[c] = "work",
                      NEW s \in {"INT", "QUIT", "TSTP", "TERM"}
               PROVE  Effect(mask[c], disp[c], s) = "nothing"
    BY DEF WorkersProtected
  <2>1. s \in mask[c] \/ disp[c][s] = "ignore"
    BY DEF S3Inv, MaskInv
  <2>2. s \notin Unstoppable
    BY DEF Unstoppable
  <2>3. QED BY <2>1, <2>2 DEF Effect
<1>2. QED BY <1>1, MasksAgree, PTL

\* The wait() of myHandler has a child to wait for, so that wstatus is always set.
THEOREM WaitNeverFails == S3Spec => []WaitHasChild
<1>1. S3Inv => WaitHasChild
  BY DEF S3Inv, HandlerInv, Born, WaitHasChild
<1>2. QED BY <1>1, MasksAgree, PTL

\* SA_RESETHAND: of any number of children, the handler reaps one at most.
THEOREM AtMostOneReaped == S3Spec => []OneChildReaped
<1>1. S3Inv => OneChildReaped
  <2> SUFFICES ASSUME S3Inv PROVE OneChildReaped
    OBVIOUS
  <2> DEFINE Reaped == {c \in Child : at[c] = "reaped"}
  <2>1. CASE Reaped = {}
    BY <2>1, FS_EmptySet DEF OneChildReaped
  <2>2. CASE Reaped # {}
    <3>1. PICK c \in Child : Reaped = {c}
      BY <2>2 DEF S3Inv, HandlerInv
    <3>2. Cardinality(Reaped) = 1
      BY <3>1, FS_Singleton
    <3>3. QED BY <3>2 DEF OneChildReaped
  <2>3. QED BY <2>1, <2>2
<1>2. QED BY <1>1, MasksAgree, PTL

\* Masks, dispositions and life cycles keep their types.
THEOREM ProcessesTyped == S3Spec => []S3TypeOK
<1>1. S3Inv => S3TypeOK BY DEF S3Inv, Types
<1>2. QED BY MasksAgree, <1>1, PTL

HIDE ChildAssumption DEF ChildAssumption
-----------------------------------------------------------------------------
(* ValuePipeline *)

\* A value that was generated exists, and a child has it in its copy of memory.
CopyInv ==
  /\ pc = "fork" => dados > 0
  /\ \A v \in Value : child[v] # "none" => copy[v] = v

\* Only the last value, while fork is still to be called, may lack its child.
CreatedInv ==
  prog = "sinais-iv" =>
    \A v \in Value :
      v < dados \/ (v = dados /\ pc = "fun1") => child[v] # "none"

\* SA_NOCLDWAIT: sinais-iv.c never has a zombie.
NoZombies == prog = "sinais-iv" => \A v \in Value : child[v] # "zombie"

\* A value has its child after its fork at the earliest, and in ficha2-11.c, where nobody is
\* collected, a value that was skipped is the sign of a table that is full for good.
SkipInv ==
  /\ \A v \in Value : v > dados \/ (v = dados /\ pc = "fork") => child[v] = "none"
  /\ prog = "ficha2-11" =>
       /\ ~pend /\ pc # "exited" /\ \A v \in Value : child[v] # "gone"
       /\ \A v \in Value :
            (v < dados \/ (v = dados /\ pc = "fun1")) /\ child[v] = "none" => ~Room

\* On a terminal nothing is kept in a buffer, so that nothing is copied with it.
LineInv ==
  tty =>
    /\ buf = {} /\ \A v \in Value : copyBuf[v] = {}
    /\ \A v \in Value : v > dados => generated[v] = 0

Inv ==
  /\ TypeOK /\ CopyInv /\ CreatedInv /\ LineInv
  /\ ProcessedAsGenerated /\ NoZombies /\ LinesOnce /\ SkipInv /\ NoGaps

USE ConstantsAssumption DEF ConstantsAssumption

LEMMA InitInv == Init => Inv
<1> SUFFICES ASSUME Init PROVE Inv
  OBVIOUS
<1>1. TypeOK
  <2>1. tty \in BOOLEAN /\ pend \in BOOLEAN
    BY DEF Init
  <2>2. QED BY <2>1 DEF Init, TypeOK, Value
<1>2. CopyInv /\ CreatedInv /\ ProcessedAsGenerated /\ NoZombies
  BY DEF Init, CopyInv, CreatedInv, ProcessedAsGenerated, NoZombies, Value
<1>3. LineInv /\ LinesOnce
  BY DEF Init, LineInv, LinesOnce, Value
<1>4. SkipInv /\ NoGaps
  BY DEF Init, SkipInv, NoGaps, Value
<1>5. QED BY <1>1, <1>2, <1>3, <1>4 DEF Inv

\* Whatever is written, the numbers of written lines stay natural numbers.
LEMMA FlushType ==
  ASSUME generated \in [Value -> Nat], NEW B, Flush(B)
  PROVE  generated' \in [Value -> Nat]
  BY DEF Flush

LEMMA TypeStep == Inv /\ [Next]_vars => TypeOK'
<1> SUFFICES ASSUME Inv, [Next]_vars PROVE TypeOK'
  OBVIOUS
<1>0. TypeOK /\ CopyInv
  BY DEF Inv
<1> USE <1>0 DEF TypeOK, Value, parent
<1>1. CASE Fun1
  <2>1. buf' \subseteq Value /\ generated' \in [Value -> Nat]
    <3>1. CASE tty
      BY <1>1, <3>1, FlushType DEF Fun1, PrintGenerated
    <3>2. CASE ~tty
      <4>1. dados + 1 \in Value
        BY <1>1 DEF Fun1
      <4>2. buf' = buf \cup {dados + 1} /\ generated' = generated
        BY <1>1, <3>2 DEF Fun1, PrintGenerated
      <4>3. QED BY <4>1, <4>2
    <3>3. QED BY <3>1, <3>2
  <2>2. QED BY <1>1, <2>1 DEF Fun1
<1>2. CASE Fork BY <1>2 DEF Fork
<1>3. CASE ForkFails
  <2>1. /\ pc' \in {"fun1", "exited"}
        /\ buf' \subseteq Value /\ generated' \in [Value -> Nat]
    BY <1>3, FlushType DEF ForkFails, GiveUp, GoOn
  <2>2. QED BY <1>3, <2>1 DEF ForkFails
<1>4. CASE SigchldHandler BY <1>4 DEF SigchldHandler
<1>5. ASSUME NEW v \in Value, Fun2(v) PROVE TypeOK'
  <2>1. pend' \in BOOLEAN
    BY <1>5 DEF Fun2
  <2>2. generated' \in [Value -> Nat]
    BY <1>5, FlushType DEF Fun2
  <2>3. Operand(v) = v
    BY <1>5 DEF Fun2, Operand, CopyInv
  <2>4. processed' \in [Value -> SUBSET Value]
    BY <1>5, <2>3 DEF Fun2
  <2>5. child' \in [Value -> {"none", "running", "zombie", "gone"}]
    BY <1>5 DEF Fun2, StateAfterExit
  <2>6. QED BY <1>5, <2>1, <2>2, <2>4, <2>5 DEF Fun2
<1>6. CASE UNCHANGED vars BY <1>6 DEF vars
<1>7. QED BY <1>1, <1>2, <1>3, <1>4, <1>5, <1>6 DEF Next, Ended

LEMMA ChildrenStep ==
  Inv /\ [Next]_vars => CopyInv' /\ CreatedInv' /\ ProcessedAsGenerated' /\ NoZombies'
<1> SUFFICES ASSUME Inv, [Next]_vars
             PROVE  CopyInv' /\ CreatedInv' /\ ProcessedAsGenerated' /\ NoZombies'
  OBVIOUS
<1> USE DEF Inv, TypeOK, CopyInv, CreatedInv, ProcessedAsGenerated, NoZombies, Value, parent
<1>1. CASE Fun1 BY <1>1 DEF Fun1
<1>2. CASE Fork BY <1>2 DEF Fork
<1>3. CASE ForkFails BY <1>3 DEF ForkFails, GiveUp, GoOn
<1>4. CASE SigchldHandler BY <1>4 DEF SigchldHandler
<1>5. ASSUME NEW v \in Value, Fun2(v)
      PROVE  CopyInv' /\ CreatedInv' /\ ProcessedAsGenerated' /\ NoZombies'
  BY <1>5 DEF Fun2, Operand, StateAfterExit
<1>6. CASE UNCHANGED vars BY <1>6 DEF vars
<1>7. QED BY <1>1, <1>2, <1>3, <1>4, <1>5, <1>6 DEF Next, Ended

\* Who is in the table, and whether it is full, does not change when a child of ficha2-11.c ends.
LEMMA SkipStep == Inv /\ [Next]_vars => SkipInv' /\ NoGaps'
<1> SUFFICES ASSUME Inv, [Next]_vars PROVE SkipInv' /\ NoGaps'
  OBVIOUS
<1> USE DEF Inv, TypeOK, SkipInv, NoGaps, CreatedInv, Value, parent
<1> DEFINE Table == {v \in Value : child[v] \in {"running", "zombie"}}
<1>1. ASSUME Table' = Table PROVE Room' = Room
  BY <1>1 DEF Room
<1> HIDE DEF Table
<1>2. CASE Fun1
  <2>1. Table' = Table BY <1>2 DEF Fun1, Table
  <2>2. QED BY <1>1, <1>2, <2>1 DEF Fun1
<1>3. CASE Fork
  <2>1. \A v \in Value : v < dados => child[v] # "none"
    BY <1>3 DEF Fork
  <2>2. QED BY <1>3, <2>1 DEF Fork
<1>4. CASE ForkFails
  <2>1. Table' = Table BY <1>4 DEF ForkFails, Table
  <2>2. ~Room' BY <1>1, <1>4, <2>1 DEF ForkFails
  <2>3. QED BY <1>4, <2>2 DEF ForkFails, GiveUp, GoOn
<1>5. CASE SigchldHandler BY <1>5 DEF SigchldHandler
<1>6. ASSUME NEW v \in Value, Fun2(v) PROVE SkipInv' /\ NoGaps'
  <2>1. NoGaps' BY <1>6 DEF Fun2, StateAfterExit
  <2>2. CASE prog = "sinais-iv"
    BY <1>6, <2>2 DEF Fun2, StateAfterExit
  <2>3. CASE prog = "ficha2-11"
    <3>1. child' = [child EXCEPT ![v] = "zombie"] /\ child[v] = "running" /\ ~pend'
      BY <1>6, <2>3 DEF Fun2, StateAfterExit
    <3>2. Table' = Table BY <3>1 DEF Table
    <3>3. QED BY <1>1, <1>6, <2>3, <3>1, <3>2 DEF Fun2
  <2>4. QED BY <2>2, <2>3, <2>1
<1>7. CASE UNCHANGED vars
  <2>1. Table' = Table BY <1>7 DEF vars, Table
  <2>2. QED BY <1>1, <1>7, <2>1 DEF vars
<1>8. QED BY <1>2, <1>3, <1>4, <1>5, <1>6, <1>7 DEF Next, Ended

LEMMA OutputStep == Inv /\ [Next]_vars => LineInv' /\ LinesOnce'
<1> SUFFICES ASSUME Inv, [Next]_vars PROVE LineInv' /\ LinesOnce'
  OBVIOUS
<1>1. UNCHANGED tty
  BY DEF Next, Fun1, Fork, ForkFails, SigchldHandler, Fun2, Ended, vars, parent
<1>2. CASE ~tty
  BY <1>1, <1>2 DEF LineInv, LinesOnce
<1>3. CASE tty
  <2>1. /\ dados \in Nat /\ buf = {} /\ generated \in [Value -> Nat]
        /\ \A v \in Value : copyBuf[v] = {} /\ generated[v] =< 1
        /\ \A v \in Value : v > dados => generated[v] = 0
        /\ copyBuf \in [Value -> SUBSET Value]
    BY <1>3 DEF Inv, TypeOK, LineInv, LinesOnce
  <2>2. /\ dados' \in Nat /\ dados' >= dados
        /\ buf' = {} /\ \A v \in Value : copyBuf'[v] = {}
        /\ \A v \in Value :
             generated'[v] = generated[v] \/ (v = dados' /\ v > dados /\ generated'[v] = 1)
    <3> USE <2>1
    <3>1. CASE Fun1
      <4>1. dados' = dados + 1 /\ UNCHANGED <<buf, copyBuf>> /\ Flush({dados + 1})
        BY <1>3, <3>1 DEF Fun1, PrintGenerated
      <4>2. QED BY <4>1 DEF Flush, Value
    <3>2. CASE Fork BY <3>2 DEF Fork, parent
    <3>3. CASE ForkFails BY <3>3 DEF ForkFails, GiveUp, GoOn, Flush
    <3>4. CASE SigchldHandler BY <3>4 DEF SigchldHandler, parent
    <3>5. ASSUME NEW v \in Value, Fun2(v)
          PROVE  UNCHANGED <<dados, buf, copyBuf>> /\ Flush({})
      BY <3>5 DEF Fun2, parent
    <3>6. CASE UNCHANGED <<dados, buf, copyBuf>> /\ Flush({})
      BY <3>6 DEF Flush
    <3>7. CASE UNCHANGED vars BY <3>7 DEF vars, parent
    <3>8. QED BY <3>1, <3>2, <3>3, <3>4, <3>5, <3>6, <3>7 DEF Next, Ended
  <2>3. ASSUME NEW v \in Value
        PROVE  generated'[v] =< 1 /\ (v > dados' => generated'[v] = 0)
    <3>1. v \in Nat /\ (v > dados' => v > dados)
      BY <2>1, <2>2 DEF Value
    <3>2. CASE generated'[v] = generated[v] BY <2>1, <3>1, <3>2
    <3>3. CASE v = dados' /\ generated'[v] = 1 BY <3>1, <3>3
    <3>4. QED BY <2>2, <3>2, <3>3
  <2>4. QED BY <2>2, <2>3 DEF LineInv, LinesOnce
<1>4. QED BY <1>2, <1>3

\* Values, their children, the children's copies and the output stay in step, whatever
\* the order in which parent and children run and whenever the process table is full.
THEOREM SpecInv == Spec => []Inv
<1>1. Inv /\ [Next]_vars => Inv'
  BY TypeStep, ChildrenStep, SkipStep, OutputStep DEF Inv
<1>2. QED BY <1>1, InitInv, PTL DEF Spec

\* A child processes the value it was created for, however far the parent has gone on
\* with dados (fun1, fun2).
THEOREM OwnValueProcessed == Spec => []ProcessedAsGenerated
<1>1. Inv => ProcessedAsGenerated BY DEF Inv
<1>2. QED BY <1>1, SpecInv, PTL

\* No value is processed after one that was skipped, for any room in the process table.
THEOREM NothingAfterGap == Spec => []NoGaps
<1>1. Inv => NoGaps BY DEF Inv
<1>2. QED BY <1>1, SpecInv, PTL

\* sinais-iv.c gives up only with a table full of children at work: the children that have
\* ended take no room, whether their signals have been handled or not.
THEOREM GivesUpForRoom == Spec => GivesUpWhenBusy
<1>1. ASSUME Inv, [Next]_vars, pc # "exited", pc' = "exited"
      PROVE  Cardinality({v \in Value : child[v] = "running"}) >= TableSize
  <2>1. prog = "sinais-iv" /\ ~Room
    BY <1>1 DEF Next, Fun1, Fork, ForkFails, GoOn, SigchldHandler, Fun2, Ended, vars, parent,
                Inv, TypeOK
  <2>2. {v \in Value : child[v] = "running"}
          = {v \in Value : child[v] \in {"running", "zombie"}}
    BY <1>1, <2>1 DEF Inv, NoZombies
  <2>3. Cardinality({v \in Value : child[v] \in {"running", "zombie"}}) \in Nat
    <3>1. IsFiniteSet(Value) BY FS_Interval DEF Value
    <3>2. QED BY <3>1, FS_Subset, FS_CardinalityType
  <2>4. QED BY <2>1, <2>2, <2>3 DEF Room
<1>2. Inv /\ [Next]_vars => [pc # "exited" /\ pc' = "exited" =>
       Cardinality({v \in Value : child[v] = "running"}) >= TableSize]_vars
  BY <1>1
<1>3. QED BY <1>2, SpecInv, PTL DEF Spec, GivesUpWhenBusy

\* sinais-iv.c goes on to the next value only when the last one has its child.
THEOREM NoValueSkipped == Spec => []NoneSkipped
<1>1. Inv => NoneSkipped
  BY DEF Inv, TypeOK, CreatedInv, NoneSkipped, Value
<1>2. QED BY <1>1, SpecInv, PTL

\* On a terminal no exit of a child writes a line of fun1 again.
THEOREM NoLineRepeated == Spec => []LinesOnce
<1>1. Inv => LinesOnce BY DEF Inv
<1>2. QED BY <1>1, SpecInv, PTL

\* The table of children, the copies and the output keep their types.
THEOREM TypeCorrect == Spec => []TypeOK
<1>1. Inv => TypeOK BY DEF Inv
<1>2. QED BY SpecInv, <1>1, PTL
=============================================================================
