------------------------------- MODULE Reaper -------------------------------
(***************************************************************************)
(* What a parent that creates children promises about their termination:   *)
(* a child runs, unless something stops it, becomes a zombie, and every    *)
(* zombie is collected while the parent is up.  SinaisV is shown to        *)
(* implement this module.                                                  *)
(***************************************************************************)
EXTENDS Naturals

CONSTANT NProcs             \* how many children are created at most

VARIABLES running, stopped, zombie, reaped, up

vars == <<running, stopped, zombie, reaped, up>>

TypeOK ==
  /\ running \in 0..NProcs /\ stopped \in 0..NProcs
  /\ zombie \in 0..NProcs /\ reaped \in 0..NProcs
  /\ running + stopped + zombie + reaped =< NProcs
  /\ up \in BOOLEAN

Init == running = 0 /\ stopped = 0 /\ zombie = 0 /\ reaped = 0 /\ up = TRUE

Fork ==
  /\ up /\ running + stopped + zombie + reaped < NProcs
  /\ running' = running + 1
  /\ UNCHANGED <<stopped, zombie, reaped, up>>

\* A child terminates and waits, as a zombie, to be collected.
Exit ==
  /\ running > 0
  /\ running' = running - 1 /\ zombie' = zombie + 1
  /\ UNCHANGED <<stopped, reaped, up>>

\* A child is stopped, and it may be continued or killed; nothing says it is.
Halt ==
  /\ running > 0
  /\ running' = running - 1 /\ stopped' = stopped + 1
  /\ UNCHANGED <<zombie, reaped, up>>

Resume ==
  /\ stopped > 0
  /\ stopped' = stopped - 1 /\ running' = running + 1
  /\ UNCHANGED <<zombie, reaped, up>>

Kill ==
  /\ stopped > 0
  /\ stopped' = stopped - 1 /\ zombie' = zombie + 1
  /\ UNCHANGED <<running, reaped, up>>

Reap ==
  /\ up /\ zombie > 0
  /\ zombie' = zombie - 1 /\ reaped' = reaped + 1
  /\ UNCHANGED <<running, stopped, up>>

\* The parent terminates, whatever is left of its children.
Stop == up /\ up' = FALSE /\ UNCHANGED <<running, stopped, zombie, reaped>>

Next == Fork \/ Exit \/ Halt \/ Resume \/ Kill \/ Reap \/ Stop

Fairness == WF_vars(Exit) /\ WF_vars(Reap)

Spec == Init /\ [][Next]_vars /\ Fairness
=============================================================================
