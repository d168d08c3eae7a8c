--------------------------- MODULE SinaisVProofs ---------------------------
(***************************************************************************)
(* The safety properties of SinaisV, for any number of children.  Inv is   *)
(* inductive; its parts say where main is (MainInv), which handlers are    *)
(* active (TopInv) and what they have loaded (RegInv).                     *)
(***************************************************************************)
EXTENDS SinaisV, TLAPS

\* Where main is decides how far nc is behind the number of children created.
MainInv ==
  /\ pc \in {"fork", "next", "sigint"} => stage = "create"
  /\ pc \in {"ready", "pause"} => stage = "idle"
  /\ stage = "create" /\ pc # "sigint" => nc < NProcs
  /\ running + stopped + zombie + reaped =
       nc + IF stage = "create" /\ pc \in {"block", "printf", "unblock", "next"}
              THEN 1 ELSE 0
  /\ block_sigchld /\ pc = "printf" => masked

TopInv ==
  /\ top = "main" => hpc["cld"] = "off" /\ hpc["int"] = "off"
  /\ \A s \in Sig : top = s => hpc[s] # "off"

\* A stale value of nt is held only by the handler that is interrupted, and it
\* is never ahead of nt.
RegInv ==
  /\ \A s \in Sig : hpc[s] = "store" => reg[s] =< nt
  /\ top = "cld" /\ hpc["cld"] = "store" => reg["cld"] = nt
  /\ top = "int" /\ hpc["int"] = "store" /\ hpc["cld"] # "off" => reg["int"] = nt

Inv == TypeOK /\ MainInv /\ TopInv /\ RegInv /\ CountSound

USE ConstantsAssumption DEF ConstantsAssumption

LEMMA InitInv == Init => Inv
<1> SUFFICES ASSUME Init PROVE Inv
  OBVIOUS
<1> USE DEF Init, Sig
<1>1. TypeOK
  <2>1. nc \in 0..NProcs /\ stops \in 0..MaxStops
    OBVIOUS
  <2>2. block_sigchld \in BOOLEAN
    OBVIOUS
  <2>3. pend \in [Sig -> BOOLEAN]
    OBVIOUS
  <2>4. reg \in [Sig -> Nat] /\ top \in Sig \cup {"main"}
    OBVIOUS
  <2>5. hpc \in [Sig -> {"off", "enter", "loop", "load", "store", "print"}]
    OBVIOUS
  <2>6. QED BY <2>1, <2>2, <2>3, <2>4, <2>5 DEF TypeOK
<1>2. MainInv BY DEF MainInv
<1>3. TopInv BY DEF TopInv
<1>4. RegInv BY DEF RegInv
<1>5. CountSound BY DEF CountSound, Uncounted
<1>6. QED BY <1>1, <1>2, <1>3, <1>4, <1>5 DEF Inv

\* The steps of main leave the handlers alone.
LEMMA MainStep ==
  ASSUME Inv,
         \/ Fork \/ ForkFails \/ BlockChld \/ Printf \/ UnblockChld \/ NextChild
         \/ SetIntHandler \/ EnterPause
  PROVE  Inv'
<1> USE DEF Inv, TypeOK, MainInv, TopInv, RegInv, CountSound, Uncounted, InMain,
            main, children, counters, signals, handlers
<1>1. CASE Fork BY <1>1 DEF Fork
<1>2. CASE ForkFails BY <1>2 DEF ForkFails
<1>3. CASE BlockChld BY <1>3 DEF BlockChld
<1>4. CASE Printf BY <1>4 DEF Printf
<1>5. CASE UnblockChld BY <1>5 DEF UnblockChld, AfterUnblock
<1>6. CASE NextChild BY <1>6 DEF NextChild
<1>7. CASE SetIntHandler BY <1>7 DEF SetIntHandler
<1>8. CASE EnterPause BY <1>8 DEF EnterPause
<1>9. QED BY <1>1, <1>2, <1>3, <1>4, <1>5, <1>6, <1>7, <1>8

\* What happens outside, and the arrival of a signal.
LEMMA SignalStep ==
  ASSUME Inv,
         \/ ChildExit \/ ChildStop \/ ChildContinue \/ StoppedKilled \/ CtrlC \/ Killed
         \/ \E s \in Sig : Deliver(s)
  PROVE  Inv'
<1> USE DEF Inv, TypeOK, MainInv, TopInv, RegInv, CountSound, Uncounted, Sig,
            main, children, counters, signals, handlers, RaiseChld
<1>1. CASE ChildExit BY <1>1 DEF ChildExit
<1>2. CASE ChildStop BY <1>2 DEF ChildStop
<1>3. CASE CtrlC BY <1>3 DEF CtrlC
<1>4. CASE Killed BY <1>4 DEF Killed
<1>5. CASE Deliver("cld") BY <1>5 DEF Deliver, Blocked
<1>6. CASE Deliver("int") BY <1>6 DEF Deliver, Blocked
<1>7. CASE ChildContinue BY <1>7 DEF ChildContinue
<1>8. CASE StoppedKilled BY <1>8 DEF StoppedKilled
<1>9. QED BY <1>1, <1>2, <1>3, <1>4, <1>5, <1>6, <1>7, <1>8

\* The steps of the handlers.
LEMMA HandlerStep ==
  ASSUME Inv,
         \/ PrintEntering \/ CldReturns \/ IntExits
         \/ \E s \in Sig : Handler(s)
  PROVE  Inv'
<1> USE DEF Inv, TypeOK, MainInv, TopInv, RegInv, CountSound, Uncounted, Sig,
            main, children, counters, signals, handlers, At, Goto
<1>1. CASE PrintEntering BY <1>1 DEF PrintEntering
<1>2. CASE CldReturns BY <1>2 DEF CldReturns, LeaveCld
<1>3. CASE IntExits BY <1>3 DEF IntExits
<1>4. ASSUME NEW s \in Sig, WaitpidReaps(s) PROVE Inv'
  BY <1>4 DEF WaitpidReaps
<1>5. ASSUME NEW s \in Sig, LoadNt(s) PROVE Inv'
  BY <1>5 DEF LoadNt
<1>6. ASSUME NEW s \in Sig, StoreNt(s) PROVE Inv'
  BY <1>6 DEF StoreNt
<1>7. ASSUME NEW s \in Sig, PrintRemaining(s) PROVE Inv'
  BY <1>7 DEF PrintRemaining
<1>8. QED BY <1>1, <1>2, <1>3, <1>4, <1>5, <1>6, <1>7 DEF Handler

LEMMA NextInv == Inv /\ [Next]_vars => Inv'
<1> SUFFICES ASSUME Inv, [Next]_vars PROVE Inv'
  OBVIOUS
<1>1. CASE UNCHANGED vars
  BY <1>1 DEF vars, main, children, counters, signals, handlers, Inv, TypeOK, MainInv,
              TopInv, RegInv, CountSound, Uncounted, Sig
<1>2. CASE Next
  BY <1>1, <1>2, MainStep, SignalStep, HandlerStep DEF Next, Running, Ended
<1>3. QED BY <1>1, <1>2

\* Every reachable state has the types of the program's variables, and main, the
\* handlers and the counters are in the relation Inv.
THEOREM SpecInv == Spec => []Inv
  BY InitInv, NextInv, PTL DEF Spec

\* The variables keep their types: nc stays within the loop's bound and the
\* counters of children never go below zero.
THEOREM TypeCorrect == Spec => []TypeOK
<1>1. Inv => TypeOK BY DEF Inv
<1>2. QED BY <1>1, SpecInv, PTL

\* No interleaving of main, cld_handler and int_handler counts a child twice, and
\* as long as int_handler does not run none is missed.
THEOREM CountingIsSound == Spec => []CountSound
<1>1. Inv => CountSound BY DEF Inv
<1>2. QED BY <1>1, SpecInv, PTL
-----------------------------------------------------------------------------
LEMMA ZombieStep ==
  ASSUME Inv, NoStrandedZombie, [Next]_vars
  PROVE  NoStrandedZombie'
<1> USE DEF NoStrandedZombie, Inv, TypeOK, Sig, main, children, counters, signals,
            handlers
<1>1. CASE Fork \/ ForkFails \/ BlockChld \/ Printf
  BY <1>1 DEF Fork, ForkFails, BlockChld, Printf
<1>2. CASE UnblockChld \/ NextChild \/ SetIntHandler \/ EnterPause
  BY <1>2 DEF UnblockChld, AfterUnblock, NextChild, SetIntHandler, EnterPause
<1>3. CASE ChildExit \/ ChildStop \/ ChildContinue \/ StoppedKilled \/ CtrlC \/ Killed
  BY <1>3 DEF ChildExit, ChildStop, ChildContinue, StoppedKilled, RaiseChld, CtrlC, Killed
<1>4. ASSUME NEW s \in Sig, Deliver(s) PROVE NoStrandedZombie'
  BY <1>4 DEF Deliver
<1>5. CASE PrintEntering \/ CldReturns \/ IntExits
  BY <1>5 DEF PrintEntering, CldReturns, LeaveCld, IntExits, At, Goto
<1>6. ASSUME NEW s \in Sig, Handler(s) PROVE NoStrandedZombie'
  BY <1>6 DEF Handler, WaitpidReaps, LoadNt, StoreNt, PrintRemaining, At, Goto
<1>7. CASE UNCHANGED vars
  BY <1>7 DEF vars
<1>8. QED BY <1>1, <1>2, <1>3, <1>4, <1>5, <1>6, <1>7 DEF Next, Running, Ended

\* Although SIGCHLDs merge, a zombie always has a SIGCHLD pending for it or a
\* handler that is going to call waitpid again.
THEOREM NoZombieForgotten == Spec => []NoStrandedZombie
<1>1. Init => NoStrandedZombie
  BY DEF Init, NoStrandedZombie
<1>2. Inv /\ NoStrandedZombie /\ [Next]_vars => NoStrandedZombie'
  BY ZombieStep
<1>3. QED BY <1>1, <1>2, SpecInv, PTL DEF Spec

LEMMA PrintfStep ==
  ASSUME Inv, PrintfUndisturbed, [Next]_vars
  PROVE  PrintfUndisturbed'
<1> USE DEF PrintfUndisturbed, Inv, TypeOK, MainInv, TopInv, Sig, InMain, main,
            children, counters, signals, handlers
<1>1. CASE Fork \/ ForkFails \/ BlockChld \/ Printf
  BY <1>1 DEF Fork, ForkFails, BlockChld, Printf
<1>2. CASE UnblockChld \/ NextChild \/ SetIntHandler \/ EnterPause
  BY <1>2 DEF UnblockChld, AfterUnblock, NextChild, SetIntHandler, EnterPause
<1>3. CASE ChildExit \/ ChildStop \/ ChildContinue \/ StoppedKilled \/ CtrlC \/ Killed
  BY <1>3 DEF ChildExit, ChildStop, ChildContinue, StoppedKilled, RaiseChld, CtrlC, Killed
<1>4. ASSUME NEW s \in Sig, Deliver(s) PROVE PrintfUndisturbed'
  BY <1>4 DEF Deliver, Blocked
<1>5. CASE PrintEntering \/ CldReturns \/ IntExits
  BY <1>5 DEF PrintEntering, CldReturns, LeaveCld, IntExits, At, Goto
<1>6. ASSUME NEW s \in Sig, Handler(s) PROVE PrintfUndisturbed'
  BY <1>6 DEF Handler, WaitpidReaps, LoadNt, StoreNt, PrintRemaining, At, Goto
<1>7. CASE UNCHANGED vars
  BY <1>7 DEF vars
<1>8. QED BY <1>1, <1>2, <1>3, <1>4, <1>5, <1>6, <1>7 DEF Next, Running, Ended

\* With the argument "b" no SIGCHLD is handled while main prints.
THEOREM PrintfProtected == Spec => []PrintfUndisturbed
<1>1. Init => PrintfUndisturbed
  BY DEF Init, PrintfUndisturbed
<1>2. Inv /\ PrintfUndisturbed /\ [Next]_vars => PrintfUndisturbed'
  BY PrintfStep
<1>3. QED BY <1>1, <1>2, SpecInv, PTL DEF Spec
-----------------------------------------------------------------------------
LEMMA ReaperStep ==
  ASSUME Inv, [Next]_vars
  PROVE  [R!Next]_R!vars
<1> USE DEF Inv, TypeOK, MainInv, Sig, main, children, counters, signals, handlers,
            R!Next, R!vars
<1>1. CASE Fork
  BY <1>1 DEF Fork, R!Fork, InMain
<1>2. CASE ForkFails \/ Killed \/ IntExits
  BY <1>2 DEF ForkFails, Killed, IntExits, InMain, At, R!Stop
<1>3. CASE BlockChld \/ Printf \/ UnblockChld \/ NextChild \/ SetIntHandler \/ EnterPause
  BY <1>3 DEF BlockChld, Printf, UnblockChld, AfterUnblock, NextChild, SetIntHandler,
              EnterPause
<1>4. CASE ChildExit \/ ChildStop \/ ChildContinue \/ StoppedKilled
  BY <1>4 DEF ChildExit, ChildStop, ChildContinue, StoppedKilled, R!Exit, R!Halt,
              R!Resume, R!Kill
<1>5. CASE CtrlC \/ PrintEntering \/ CldReturns
  BY <1>5 DEF CtrlC, PrintEntering, CldReturns, LeaveCld
<1>6. ASSUME NEW s \in Sig, Deliver(s) PROVE [R!Next]_R!vars
  BY <1>6 DEF Deliver
<1>7. ASSUME NEW s \in Sig, WaitpidReaps(s) PROVE [R!Next]_R!vars
  BY <1>7 DEF WaitpidReaps, At, R!Reap
<1>8. ASSUME NEW s \in Sig, LoadNt(s) \/ StoreNt(s) \/ PrintRemaining(s)
      PROVE [R!Next]_R!vars
  BY <1>8 DEF LoadNt, StoreNt, PrintRemaining
<1>9. CASE UNCHANGED vars
  BY <1>9 DEF vars
<1>10. QED
  BY <1>1, <1>2, <1>3, <1>4, <1>5, <1>6, <1>7, <1>8, <1>9
  DEF Next, Running, Handler, Ended

\* The safety part of the refinement: every step of the program is a step of
\* Reaper or leaves its variables unchanged.
THEOREM ImplementsReaper == Spec => R!Init /\ [][R!Next]_R!vars
<1>1. Init => R!Init
  BY DEF Init, R!Init
<1>2. Inv /\ [Next]_vars => [R!Next]_R!vars
  BY ReaperStep
<1>3. QED BY <1>1, <1>2, SpecInv, PTL DEF Spec
=============================================================================
