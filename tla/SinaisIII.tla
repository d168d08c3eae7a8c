----------------------------- MODULE SinaisIII -----------------------------
(***************************************************************************)
(* SISTC_Avaliacao/sinais-iii.c: which signals can hit which process.  The *)
(* mask and the dispositions are inherited at fork and changed afterwards, *)
(* so every process has a window in which it is not yet protected; the     *)
(* parent's SIGCHLD handler is installed for one signal only and calls a   *)
(* wait() that blocks.  A blocked signal is never unblocked again.         *)
(* The names a specification always has begin with S3, as in S3Spec:       *)
(* ChildrenProofs extends this module and ValuePipeline.                   *)
(***************************************************************************)
EXTENDS Integers, Signals

CONSTANT Child      \* bound: the children of the endless loop that are followed

ASSUME ChildAssumption == IsFiniteSet(Child) /\ "parent" \notin Child

VARIABLES
  at,        \* where each process is; children: unborn, ..., zombie, reaped
  mask,      \* the blocked signals of each process
  disp,      \* the dispositions of each process
  stopped,   \* the processes stopped by a signal
  pendChld,  \* a SIGCHLD is pending for the parent
  waiting    \* the parent is inside myHandler, at wait()

s3vars == <<at, mask, disp, stopped, pendChld, waiting>>

Proc == Child \cup {"parent"}

Blockable == Sig \ Unstoppable

S3TypeOK ==
  /\ at["parent"] \in {"start", "blocked", "sleep", "fork", "dead"}
  /\ \A c \in Child : at[c] \in {"unborn", "start", "blocked", "work", "zombie", "reaped"}
  /\ mask \in [Proc -> SUBSET Blockable]
  /\ disp \in [Proc -> [Sig -> Disposition]]
  /\ stopped \subseteq Child
  /\ pendChld \in BOOLEAN /\ waiting \in BOOLEAN

S3Init ==
  /\ at = [p \in Proc |-> IF p = "parent" THEN "start" ELSE "unborn"]
  /\ mask = [p \in Proc |-> {}]
  /\ disp = [p \in Proc |-> [s \in Sig |-> "default"]]
  /\ stopped = {} /\ pendChld = FALSE /\ waiting = FALSE

Alive(p) == at[p] \notin {"unborn", "zombie", "reaped", "dead"}

Move(p, to) == at' = [at EXCEPT ![p] = to]
Block(p, S) == mask' = [mask EXCEPT ![p] = @ \cup S]
Dispose(p, s, d) == disp' = [disp EXCEPT ![p][s] = d]

\* SIGCHLD is kept for the parent only while it has a handler for it.
RaiseChld == pendChld' = (pendChld \/ disp["parent"]["CHLD"] = "handler")
-----------------------------------------------------------------------------
(* The parent, when it is not in its handler *)

ParentAt(p) == at["parent"] = p /\ ~waiting

BlockIntQuit ==
  /\ ParentAt("start")
  /\ Block("parent", {"INT", "QUIT"}) /\ Move("parent", "blocked")
  /\ UNCHANGED <<disp, stopped, pendChld, waiting>>

SetMyHandler ==
  /\ ParentAt("blocked")
  /\ Dispose("parent", "CHLD", "handler") /\ Move("parent", "sleep")
  /\ UNCHANGED <<mask, stopped, pendChld, waiting>>

WaitSomething ==
  /\ ParentAt("sleep")
  /\ Move("parent", "fork")
  /\ UNCHANGED <<mask, disp, stopped, pendChld, waiting>>

\* mutant of Inherited: the new process starts with an empty mask
InheritedMaskLost(c) == mask' = [mask EXCEPT ![c] = {}]

\* The new process starts with the mask of its parent.
Inherited(c) == mask' = [mask EXCEPT ![c] = mask["parent"]]

ForkChild(c) ==
  /\ ParentAt("fork") /\ at[c] = "unborn"
  /\ at' = [at EXCEPT ![c] = "start", !["parent"] = "sleep"]
  /\ Inherited(c)
  /\ disp' = [disp EXCEPT ![c] = disp["parent"]]
  /\ UNCHANGED <<stopped, pendChld, waiting>>

\* fork returns -1: nobody looks, the loop goes on.
ForkChildFails ==
  /\ ParentAt("fork")
  /\ Move("parent", "sleep")
  /\ UNCHANGED <<mask, disp, stopped, pendChld, waiting>>

\* mutant of AfterDelivery: without SA_RESETHAND
KeepHandler == UNCHANGED disp

\* SA_RESETHAND: the handler runs once.
AfterDelivery == Dispose("parent", "CHLD", "default")

HandleChld ==
  /\ Alive("parent") /\ pendChld /\ ~waiting
  /\ waiting' = TRUE /\ pendChld' = FALSE
  /\ AfterDelivery
  /\ UNCHANGED <<at, mask, stopped>>

\* mutant of WaitReaps: while(wait(&wstatus)), which -1 does not end
WaitReapsForever(c) ==
  /\ waiting /\ Alive("parent") /\ at[c] = "zombie"
  /\ Move(c, "reaped")
  /\ UNCHANGED <<mask, disp, stopped, pendChld, waiting>>

WaitReaps(c) ==
  /\ waiting /\ Alive("parent") /\ at[c] = "zombie"
  /\ Move(c, "reaped")
  /\ waiting' = FALSE
  /\ UNCHANGED <<mask, disp, stopped, pendChld>>
-----------------------------------------------------------------------------
(* A child *)

ChildAt(c, p) == at[c] = p /\ c \notin stopped

BlockTstp(c) ==
  /\ ChildAt(c, "start")
  /\ Block(c, {"TSTP"}) /\ Move(c, "blocked")
  /\ UNCHANGED <<disp, stopped, pendChld, waiting>>

IgnoreTerm(c) ==
  /\ ChildAt(c, "blocked")
  /\ Dispose(c, "TERM", "ignore") /\ Move(c, "work")
  /\ UNCHANGED <<mask, stopped, pendChld, waiting>>

ChildExits(c) ==
  /\ ChildAt(c, "work")
  /\ Move(c, "zombie") /\ RaiseChld
  /\ UNCHANGED <<mask, disp, stopped, waiting>>
-----------------------------------------------------------------------------
(* Signals from outside: those that have an effect *)

Terminate(p) ==
  /\ Alive(p)
  /\ \E s \in Sig : Effect(mask[p], disp[p], s) = "terminate"
  /\ Move(p, IF p = "parent" THEN "dead" ELSE "zombie")
  /\ stopped' = stopped \ {p}
  /\ IF p = "parent" THEN UNCHANGED pendChld ELSE RaiseChld
  /\ UNCHANGED <<mask, disp, waiting>>

StopChild(c) ==
  /\ Alive(c) /\ c \notin stopped
  /\ \E s \in Sig : Effect(mask[c], disp[c], s) = "stop"
  /\ stopped' = stopped \cup {c}
  /\ RaiseChld
  /\ UNCHANGED <<at, mask, disp, waiting>>

Continue(c) ==
  /\ c \in stopped
  /\ stopped' = stopped \ {c}
  /\ RaiseChld
  /\ UNCHANGED <<at, mask, disp, waiting>>

ParentStep ==
  \/ BlockIntQuit \/ SetMyHandler \/ WaitSomething
  \/ HandleChld \/ (\E c \in Child : ForkChild(c) \/ WaitReaps(c))

ChildStep(c) == BlockTstp(c) \/ IgnoreTerm(c) \/ ChildExits(c)

AllEnded == ~Alive("parent") /\ (\A c \in Child : ~Alive(c)) /\ UNCHANGED s3vars

S3Next ==
  \/ ParentStep \/ ForkChildFails
  \/ \E c \in Child : ChildStep(c) \/ StopChild(c) \/ Continue(c)
  \/ \E p \in Proc : Terminate(p)
  \/ AllEnded

S3Spec ==
  /\ S3Init /\ [][S3Next]_s3vars
  /\ WF_s3vars(ParentStep) /\ \A c \in Child : WF_s3vars(ChildStep(c))
-----------------------------------------------------------------------------
(* Properties *)

\* A child in do_something can be neither ended nor stopped by SIGINT, SIGQUIT,
\* SIGTSTP or SIGTERM: what it inherits and what it sets add up (l. 13-17, 35-39).
WorkersProtected ==
  \A c \in Child : at[c] = "work" =>
    \A s \in {"INT", "QUIT", "TSTP", "TERM"} : Effect(mask[c], disp[c], s) = "nothing"

\* wait() in myHandler never fails for want of a child, so that wstatus is never
\* read uninitialised (l. 59-63).
WaitHasChild ==
  waiting => \E c \in Child : at[c] \notin {"unborn", "reaped"}

\* SA_RESETHAND makes the first SIGCHLD the last one that is handled: all the
\* children but one stay zombies (l. 22).
OneChildReaped == Cardinality({c \in Child : at[c] = "reaped"}) =< 1

\* The parent hangs in its handler, creating no more processes, only if the
\* children it could wait for are stopped again and again, or for good (l. 61).
HangsOnlyOnStopped ==
  <>[](waiting /\ Alive("parent")) => []<>(stopped # {})
=============================================================================
