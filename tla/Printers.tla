------------------------------ MODULE Printers ------------------------------
(***************************************************************************)
(* Two tasks that print lines character by character on one screen:        *)
(*   "threads"  Ficha4/ex1.c, no lock                                      *)
(*   "mutex"    Ficha5/ex1.c, threads and a mutex                          *)
(*   "named"    Ficha5/ex2.c, processes and the named semaphore /sem1      *)
(*   "unnamed"  Ficha5/ex2_semaforo-sem-nome.c, processes, a semaphore and *)
(*              a text in memory they share, sem_init with pshared = 0     *)
(* The names a specification always has begin with P, as in PSpec: Mailbox *)
(* has its own, and SemaphoresProofs extends both.                         *)
(***************************************************************************)
EXTENDS Naturals

CONSTANTS
  Task,         \* the two threads or processes
  LineLen,      \* the characters of a line
  MaxRestarts   \* bound: how often the program is started again

ASSUME PAssumption ==
  Task # {} /\ LineLen \in Nat \ {0} /\ MaxRestarts \in Nat

VARIABLES
  prog,      \* which program this is
  pc,        \* where each task is
  pos,       \* the characters of its unfinished line on the screen
  value,     \* the semaphore, or 1 - the mutex
  alive,     \* the tasks that exist
  restarts

pvars == <<prog, pc, pos, value, alive, restarts>>

Program == {"threads", "mutex", "named", "unnamed"}

PInit ==
  /\ prog \in Program
  /\ pc = [t \in Task |-> "sprintf"] /\ pos = [t \in Task |-> 0]
  /\ value = 1
  /\ alive = Task /\ restarts = 0

At(t, p) == t \in alive /\ pc[t] = p

Move(t, to) == pc' = [pc EXCEPT ![t] = to]

Sprintf(t) ==
  /\ At(t, "sprintf")
  /\ Move(t, "sleep")
  /\ UNCHANGED <<prog, pos, value, alive, restarts>>

Sleep(t) ==
  /\ At(t, "sleep")
  /\ Move(t, IF prog = "threads" THEN "print" ELSE "wait")
  /\ UNCHANGED <<prog, pos, value, alive, restarts>>

\* mutant of Acquire: the test and the decrement are not one atomic step
AcquireBlindly(t) ==
  /\ At(t, "wait")
  /\ value' = 0 /\ Move(t, "print")
  /\ UNCHANGED <<prog, pos, alive, restarts>>

\* sem_wait or pthread_mutex_lock: it is free ...
Acquire(t) ==
  /\ At(t, "wait") /\ value > 0
  /\ value' = value - 1 /\ Move(t, "print")
  /\ UNCHANGED <<prog, pos, alive, restarts>>

\* ... or the task sleeps in the kernel until somebody wakes it.
Block(t) ==
  /\ At(t, "wait") /\ value = 0
  /\ Move(t, "blocked")
  /\ UNCHANGED <<prog, pos, value, alive, restarts>>

Fputc(t) ==
  /\ At(t, "print")
  /\ LET last == pos[t] + 1 = LineLen
     IN  /\ pos' = [pos EXCEPT ![t] = IF last THEN 0 ELSE @ + 1]
         /\ Move(t, IF ~last THEN "print"
                    ELSE IF prog = "threads" THEN "sleep" ELSE "post")
  /\ UNCHANGED <<prog, value, alive, restarts>>

\* Whom a post can wake: with pshared = 0 the kernel looks among the threads of
\* the caller's own process only.
Wakeable == IF prog = "unnamed" THEN {} ELSE {u \in alive : pc[u] = "blocked"}

\* mutant of Release: the post wakes nobody
ReleaseQuietly(t) ==
  /\ At(t, "post")
  /\ value' = value + 1 /\ Move(t, "sleep")
  /\ UNCHANGED <<prog, pos, alive, restarts>>

\* sem_post or pthread_mutex_unlock: one blocked task tries again.
Release(t) ==
  /\ At(t, "post")
  /\ value' = value + 1
  /\ \/ Wakeable = {} /\ Move(t, "sleep")
     \/ \E u \in Wakeable : pc' = [pc EXCEPT ![t] = "sleep", ![u] = "wait"]
  /\ UNCHANGED <<prog, pos, alive, restarts>>
-----------------------------------------------------------------------------
(* Ctrl-C ends all the tasks, kill -9 one process; the program can be started  *)
(* again.                                                                      *)

Interrupt ==
  /\ alive # {}
  /\ alive' = {}
  /\ UNCHANGED <<prog, pc, pos, value, restarts>>

Kill(t) ==
  /\ prog \in {"named", "unnamed"} /\ t \in alive
  /\ alive' = alive \ {t}
  /\ UNCHANGED <<prog, pc, pos, value, restarts>>

\* mutant of NewSemaphore: sem_open without the sem_unlink before it
NewSemaphoreKept == value' = IF prog = "named" THEN value ELSE 1

\* /sem1 outlives the program, but ex2.c removes it before it opens it.
NewSemaphore == value' = 1

Restart ==
  /\ alive = {} /\ restarts < MaxRestarts
  /\ restarts' = restarts + 1
  /\ alive' = Task
  /\ pc' = [t \in Task |-> "sprintf"] /\ pos' = [t \in Task |-> 0]
  /\ NewSemaphore
  /\ UNCHANGED prog

Step(t) ==
  Sprintf(t) \/ Sleep(t) \/ Acquire(t) \/ Block(t) \/ Fputc(t) \/ Release(t)

PNext ==
  \/ \E t \in Task : Step(t) \/ Kill(t)
  \/ Interrupt \/ Restart
  \/ alive = {} /\ UNCHANGED pvars

\* A task that releases the semaphore sleeps a second before it tries again, and
\* in that second a task that has been woken finds it free: hence SF on Acquire.
PSpec ==
  /\ PInit /\ [][PNext]_pvars
  /\ \A t \in Task : WF_pvars(Step(t)) /\ SF_pvars(Acquire(t))
-----------------------------------------------------------------------------
(* Properties *)

PTypeOK ==
  /\ prog \in Program
  /\ pc \in [Task -> {"sprintf", "sleep", "wait", "blocked", "print", "post"}]
  /\ pos \in [Task -> 0..LineLen - 1]
  /\ value \in {0, 1}
  /\ alive \subseteq Task
  /\ restarts \in 0..MaxRestarts

\* No character of one task comes between two characters of another one's line
\* (Ficha5/ex1.c l. 43-45, ex2.c l. 41-43); nobody promises it for Ficha4/ex1.c.
Unmixed ==
  prog # "threads" =>
    \A t, u \in alive : pos[t] > 0 /\ pos[u] > 0 => t = u

\* The semaphore is taken only by a task between its wait and its post: nobody
\* waits in vain unless that task was killed there.
HeldBySomebody ==
  prog # "threads" /\ value = 0 => \E t \in Task : pc[t] \in {"print", "post"}

\* After any number of Ctrl-C and restarts, at whatever point of a line, both tasks go on
\* printing: the state of /sem1 is not inherited from the last run. With the unnamed
\* semaphore this is promised of one process only: the other may sleep for ever, as
\* sem_init(psem, 0, 1) does not share it.
KeepsPrinting ==
  /\ \A t \in Task : prog # "unnamed" => []<>(alive # Task \/ pc[t] = "print")
  /\ []<>(alive # Task \/ \E t \in Task : pc[t] = "print")
=============================================================================
