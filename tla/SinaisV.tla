------------------------------ MODULE SinaisV ------------------------------
(***************************************************************************)
(* SISTC_Avaliacao/sinais-v.c: a parent creates NProcs children and        *)
(* collects them in its SIGCHLD handler; its SIGINT handler collects what  *)
(* is left and exits.  A handler runs on top of main or of the other       *)
(* handler, between any two steps of what it interrupts.                   *)
(***************************************************************************)
EXTENDS Integers

CONSTANTS
  NProcs,    \* the bound of the creation loop (100 in the program)
  MaxStops   \* bound: SIGCHLDs that announce no termination

ASSUME ConstantsAssumption == NProcs \in Nat \ {0} /\ MaxStops \in Nat

VARIABLES
  parent,                   \* "alive", or how the parent ended
  block_sigchld,            \* the program was given the argument "b"
  stage,                    \* the part of main: creation loop, banner, pause loop
  pc,                       \* the next step of main
  masked,                   \* SIGCHLD is in the mask main has set
  running, stopped,         \* the children, counted by state
  zombie, reaped,
  nc, nt,                   \* the program's counters
  pend,                     \* the pending signals of the parent
  stops,                    \* stops of children so far
  hpc,                      \* the next step of each handler, "off" when not active
  top,                      \* what runs: "main" or the innermost handler
  reg                       \* the value of nt that a handler has loaded

main == <<block_sigchld, stage, pc, masked>>
children == <<running, stopped, zombie, reaped>>
counters == <<nc, nt>>
signals == <<pend, stops>>
handlers == <<hpc, top, reg>>
vars == <<parent, main, children, counters, signals, handlers>>

Sig == {"cld", "int"}

Init ==
  /\ parent = "alive" /\ block_sigchld \in BOOLEAN
  /\ stage = "create" /\ pc = "fork" /\ masked = FALSE
  /\ running = 0 /\ stopped = 0 /\ zombie = 0 /\ reaped = 0
  /\ nc = 0 /\ nt = 0
  /\ pend = [s \in Sig |-> FALSE] /\ stops = 0
  /\ hpc = [s \in Sig |-> "off"] /\ top = "main" /\ reg = [s \in Sig |-> 0]
-----------------------------------------------------------------------------
(* main *)

InMain(p) == parent = "alive" /\ top = "main" /\ pc = p

Fork ==
  /\ InMain("fork")
  /\ running' = running + 1
  /\ pc' = "block"
  /\ UNCHANGED <<parent, block_sigchld, stage, masked, stopped, zombie, reaped,
                 counters, signals, handlers>>

ForkFails ==
  /\ InMain("fork")
  /\ parent' = "aborted"
  /\ UNCHANGED <<main, children, counters, signals, handlers>>

\* mutant of BlockChld: block_sigchld is never consulted
BlockForgotten ==
  /\ InMain("block")
  /\ pc' = "printf"
  /\ UNCHANGED <<parent, block_sigchld, stage, masked, children, counters, signals,
                 handlers>>

BlockChld ==
  /\ InMain("block")
  /\ masked' = (masked \/ block_sigchld)
  /\ pc' = "printf"
  /\ UNCHANGED <<parent, block_sigchld, stage, children, counters, signals, handlers>>

Printf ==
  /\ InMain("printf")
  /\ pc' = "unblock"
  /\ UNCHANGED <<parent, block_sigchld, stage, masked, children, counters, signals,
                 handlers>>

AfterUnblock ==
  /\ pc' = IF stage = "create" THEN "next" ELSE "ready"
  /\ stage' = IF stage = "banner" THEN "idle" ELSE stage
  /\ UNCHANGED <<parent, block_sigchld, children, counters, signals, handlers>>

\* mutant of UnblockChld: the mask is left as it is
UnblockForgotten == InMain("unblock") /\ AfterUnblock /\ UNCHANGED masked

UnblockChld == InMain("unblock") /\ AfterUnblock /\ masked' = FALSE

NextChild ==
  /\ InMain("next")
  /\ nc' = nc + 1
  /\ pc' = IF nc + 1 < NProcs THEN "fork" ELSE "sigint"
  /\ UNCHANGED <<parent, block_sigchld, stage, masked, children, nt, signals, handlers>>

SetIntHandler ==
  /\ InMain("sigint")
  /\ stage' = "banner" /\ pc' = "block"
  /\ UNCHANGED <<parent, block_sigchld, masked, children, counters, signals, handlers>>

EnterPause ==
  /\ InMain("ready")
  /\ pc' = "pause"
  /\ UNCHANGED <<parent, block_sigchld, stage, masked, children, counters, signals,
                 handlers>>
-----------------------------------------------------------------------------
(* Children and signals *)

RaiseChld == pend' = [pend EXCEPT !["cld"] = TRUE]

\* The child's exit(1) after sleep(5), or a signal that ends it before.
ChildExit ==
  /\ running > 0
  /\ running' = running - 1 /\ zombie' = zombie + 1
  /\ RaiseChld
  /\ UNCHANGED <<parent, main, stopped, reaped, counters, stops, handlers>>

\* A child stopped or continued raises SIGCHLD too, as sa_flags is 0.
ChildStop ==
  /\ running > 0 /\ stops < MaxStops
  /\ stops' = stops + 1
  /\ running' = running - 1 /\ stopped' = stopped + 1
  /\ RaiseChld
  /\ UNCHANGED <<parent, main, zombie, reaped, counters, handlers>>

\* Somebody else's SIGCONT; a child may as well stay stopped for good.
ChildContinue ==
  /\ stopped > 0
  /\ stopped' = stopped - 1 /\ running' = running + 1
  /\ RaiseChld
  /\ UNCHANGED <<parent, main, zombie, reaped, counters, stops, handlers>>

\* SIGKILL ends a stopped child too.
StoppedKilled ==
  /\ stopped > 0
  /\ stopped' = stopped - 1 /\ zombie' = zombie + 1
  /\ RaiseChld
  /\ UNCHANGED <<parent, main, running, reaped, counters, stops, handlers>>

CtrlC ==
  /\ parent = "alive" /\ ~pend["int"]
  /\ pend' = [pend EXCEPT !["int"] = TRUE]
  /\ UNCHANGED <<parent, main, children, counters, stops, handlers>>

\* mutant of Blocked: SA_NODEFER, a handler's own signal is not blocked
BlockedNoDefer(s) == s = "cld" /\ masked

\* A handler's own signal is blocked while it runs; both sa_masks are empty.
Blocked(s) == hpc[s] # "off" \/ (s = "cld" /\ masked)

HasHandler(s) == s = "cld" \/ stage # "create"

Deliver(s) ==
  /\ parent = "alive" /\ pend[s] /\ ~Blocked(s) /\ HasHandler(s)
  /\ pend' = [pend EXCEPT ![s] = FALSE]
  /\ hpc' = [hpc EXCEPT ![s] = IF s = "int" THEN "enter" ELSE "loop"]
  /\ top' = s
  /\ UNCHANGED <<parent, main, children, counters, stops, reg>>

\* Until its handler is set SIGINT has its default disposition.
Killed ==
  /\ parent = "alive" /\ pend["int"] /\ ~HasHandler("int")
  /\ parent' = "killed"
  /\ UNCHANGED <<main, children, counters, signals, handlers>>
-----------------------------------------------------------------------------
(* The handlers: both loop while waitpid(-1, &wstatus, WNOHANG) > 0 *)

At(s, p) == parent = "alive" /\ top = s /\ hpc[s] = p

Goto(s, p) == hpc' = [hpc EXCEPT ![s] = p]

PrintEntering ==
  /\ At("int", "enter")
  /\ Goto("int", "loop")
  /\ UNCHANGED <<parent, main, children, counters, signals, top, reg>>

WaitpidReaps(s) ==
  /\ At(s, "loop") /\ zombie > 0
  /\ zombie' = zombie - 1 /\ reaped' = reaped + 1
  /\ Goto(s, "load")
  /\ UNCHANGED <<parent, main, running, stopped, counters, signals, top, reg>>

\* ++nt is a load and a store, and SIGCHLD may be handled in between.
LoadNt(s) ==
  /\ At(s, "load")
  /\ reg' = [reg EXCEPT ![s] = nt]
  /\ Goto(s, "store")
  /\ UNCHANGED <<parent, main, children, counters, signals, top>>

StoreNt(s) ==
  /\ At(s, "store")
  /\ nt' = reg[s] + 1
  /\ Goto(s, "print")
  /\ UNCHANGED <<parent, main, children, nc, signals, top, reg>>

PrintRemaining(s) ==
  /\ At(s, "print")
  /\ Goto(s, "loop")
  /\ UNCHANGED <<parent, main, children, counters, signals, top, reg>>

\* Back to int_handler, or to main, where a return from a handler ends pause().
LeaveCld ==
  /\ Goto("cld", "off")
  /\ top' = IF hpc["int"] # "off" THEN "int" ELSE "main"
  /\ pc' = IF hpc["int"] = "off" /\ pc = "pause" THEN "block" ELSE pc
  /\ UNCHANGED <<parent, block_sigchld, stage, masked, children, counters, signals, reg>>

\* mutant of CldReturns: one waitpid per signal
CldReturnsEarly == At("cld", "loop") /\ LeaveCld

CldReturns == At("cld", "loop") /\ zombie = 0 /\ LeaveCld

IntExits ==
  /\ At("int", "loop") /\ zombie = 0
  /\ parent' = "exited"
  /\ UNCHANGED <<main, children, counters, signals, handlers>>

Handler(s) == WaitpidReaps(s) \/ LoadNt(s) \/ StoreNt(s) \/ PrintRemaining(s)

\* The steps of the parent that depend on nothing from outside.
Running ==
  \/ Fork \/ BlockChld \/ Printf \/ UnblockChld \/ NextChild
  \/ SetIntHandler \/ EnterPause
  \/ PrintEntering \/ (\E s \in Sig : Handler(s)) \/ CldReturns \/ IntExits

Ended == parent # "alive" /\ running = 0 /\ UNCHANGED vars

Next ==
  \/ Running \/ ForkFails
  \/ ChildExit \/ ChildStop \/ ChildContinue \/ StoppedKilled \/ CtrlC
  \/ (\E s \in Sig : Deliver(s)) \/ Killed
  \/ Ended

\* A child that runs ends; one that is stopped need never be continued.
Fairness ==
  /\ WF_vars(Running)
  /\ WF_vars(ChildExit)
  /\ \A s \in Sig : WF_vars(Deliver(s))

Spec == Init /\ [][Next]_vars /\ Fairness
-----------------------------------------------------------------------------
(* Properties *)

TypeOK ==
  /\ parent \in {"alive", "aborted", "killed", "exited"}
  /\ block_sigchld \in BOOLEAN
  /\ stage \in {"create", "banner", "idle"}
  /\ pc \in {"fork", "block", "printf", "unblock", "next", "sigint", "ready", "pause"}
  /\ masked \in BOOLEAN
  /\ running \in Nat /\ stopped \in Nat /\ zombie \in Nat /\ reaped \in Nat
  /\ nc \in 0..NProcs /\ nt \in Nat
  /\ pend \in [Sig -> BOOLEAN] /\ stops \in 0..MaxStops
  /\ hpc \in [Sig -> {"off", "enter", "loop", "load", "store", "print"}]
  /\ top \in Sig \cup {"main"}
  /\ reg \in [Sig -> Nat]

\* A handler that has collected a child and not yet counted it.
Uncounted(s) == IF hpc[s] \in {"load", "store"} THEN 1 ELSE 0

\* Every collected child is counted once in nt (or is about to be), as long as
\* int_handler has not run; no interleaving ever counts a child that was not
\* collected (l. 86-87 and 102-103).
CountSound ==
  /\ nt + Uncounted("cld") + Uncounted("int") =< reaped
  /\ hpc["int"] = "off" => nt + Uncounted("cld") = reaped

\* SIGCHLDs merge while one is pending, yet no zombie is forgotten: if there is
\* one, a SIGCHLD is still pending or a handler will call waitpid again (l. 86).
NoStrandedZombie ==
  parent = "alive" /\ zombie > 0 =>
    pend["cld"] \/ \E s \in Sig : hpc[s] # "off"

\* With the argument "b", cld_handler never runs while main is inside printf,
\* not even on top of int_handler (l. 56-58, 67-69, 74-76).
PrintfUndisturbed == block_sigchld /\ pc = "printf" => hpc["cld"] = "off"

\* Unless fork fails or SIGINT intervenes, nt reaches the number of children, but
\* for those that stay stopped.
AllCounted == <>(parent # "alive" \/ hpc["int"] # "off" \/ nt + stopped = NProcs)

\* The parent keeps the promise of Reaper: whatever the interleaving, a zombie is
\* collected while the parent is alive.
R == INSTANCE Reaper WITH up <- parent = "alive"
ReaperSpec == R!Spec
=============================================================================
