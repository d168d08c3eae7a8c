--------------------------- MODULE NestedHandlers ---------------------------
(***************************************************************************)
(* Ficha3 ex1, ex3 and ex4: a process that prints and sleeps for ever, and *)
(* the signals its user sends it.  ex1 ends in the handler of SIGTERM; ex3 *)
(* and ex4 block what they do not handle and refuse to end, ex4 with       *)
(* SA_NODEFER and so with handlers that nest without a limit.  SIGINT      *)
(* stands for the signals that ex3 keeps blocked (SIGUSR1, ...).           *)
(***************************************************************************)
EXTENDS Signals, Naturals, Sequences

CONSTANT MaxSignals   \* bound: the signals the user sends

ASSUME ConstantsAssumption == MaxSignals \in Nat

Programs == {"ex1", "ex3", "ex4"}
Signal == (Sig \ {"CHLD"}) \cup {"CONT"}

VARIABLES
  prog,
  todo, pc,    \* main: what is left of the setting up, and its place in the loop
  told,        \* the signals that print_pending has last found
  frames,      \* the handlers that run, the innermost one first
  mask, disp, pending,
  life,        \* "run", "stopped", "exit", or the signal that has ended the process
  sent         \* the number of signals so far

vars == <<prog, todo, pc, told, frames, mask, disp, pending, life, sent>>

\* The calls before the loop: sigprocmask, and signal or sigaction for each signal.
Setup(p) ==
  CASE p = "ex1" -> <<"TERM">>
    [] p = "ex3" -> <<"mask", "TERM", "QUIT">>
    [] OTHER -> <<"mask", "INT", "TERM", "QUIT", "TSTP">>

\* mutant of Admitted: a sigdelset is forgotten
AdmittedButQuit == IF prog = "ex3" THEN {"TERM"} ELSE {"TERM", "INT", "TSTP"}

\* What sigdelset takes out of the full mask.
Admitted == IF prog = "ex3" THEN {"TERM", "QUIT"} ELSE {"TERM", "INT", "TSTP", "QUIT"}

\* mutant of Deferred: SA_NODEFER in every program
DeferredNever(s) == {}

\* What is blocked while the handler of s runs: sa_mask is empty, ex4 has SA_NODEFER.
Deferred(s) == IF prog = "ex4" THEN {} ELSE {s}

Init ==
  /\ prog \in Programs /\ todo = Setup(prog) /\ pc = "print" /\ told = {}
  /\ frames = <<>> /\ mask = {} /\ pending = {}
  /\ disp = [s \in Signal |-> "default"]
  /\ life = "run" /\ sent = 0

\* Signals are seen to before the program goes on.
Deliverable == pending \ mask
Runs == life = "run" /\ Deliverable = {}
-----------------------------------------------------------------------------
(* main *)

MainRuns == Runs /\ frames = <<>>

Sigprocmask ==
  /\ MainRuns /\ todo # <<>> /\ Head(todo) = "mask"
  /\ todo' = Tail(todo)
  /\ mask' = (Signal \ Admitted) \ Unstoppable
  /\ UNCHANGED <<prog, pc, told, frames, disp, pending, life, sent>>

\* mutant of Choice: the handler for SIGQUIT is forgotten
ChoiceButQuit(s) ==
  IF s = "INT" THEN "ignore" ELSE IF s = "QUIT" THEN "default" ELSE "handler"

Choice(s) == IF s = "INT" THEN "ignore" ELSE "handler"

Sigaction ==
  /\ MainRuns /\ todo # <<>> /\ Head(todo) # "mask"
  /\ todo' = Tail(todo)
  /\ disp' = [disp EXCEPT ![Head(todo)] = Choice(Head(todo))]
  /\ UNCHANGED <<prog, pc, told, frames, mask, pending, life, sent>>

Loop(from, to) == MainRuns /\ todo = <<>> /\ pc = from /\ pc' = to

PrintOla ==
  /\ Loop("print", IF prog = "ex1" THEN "sleep" ELSE "pending")
  /\ UNCHANGED <<prog, todo, told, frames, mask, disp, pending, life, sent>>

PrintPending ==
  /\ Loop("pending", "sleep") /\ told' = pending
  /\ UNCHANGED <<prog, todo, frames, mask, disp, pending, life, sent>>

\* At its time, or sooner if a handler has run.
Sleep ==
  /\ Loop("sleep", "print")
  /\ UNCHANGED <<prog, todo, told, frames, mask, disp, pending, life, sent>>
-----------------------------------------------------------------------------
(* myhandler *)

Top == Head(frames)

Recebi ==
  /\ Runs /\ frames # <<>> /\ Top.at = "recebi"
  /\ IF prog = "ex1"
     THEN life' = "exit" /\ UNCHANGED frames
     ELSE frames' = [frames EXCEPT ![1].at = "sleep"] /\ UNCHANGED life
  /\ UNCHANGED <<prog, todo, pc, told, mask, disp, pending, sent>>

HandlerSleep ==
  /\ Runs /\ frames # <<>> /\ Top.at = "sleep"
  /\ frames' = [frames EXCEPT ![1].at = "fim"]
  /\ UNCHANGED <<prog, todo, pc, told, mask, disp, pending, life, sent>>

\* The return restores the mask.
Fim ==
  /\ Runs /\ frames # <<>> /\ Top.at = "fim"
  /\ frames' = Tail(frames) /\ mask' = Top.saved
  /\ UNCHANGED <<prog, todo, pc, told, disp, pending, life, sent>>
-----------------------------------------------------------------------------
(* The kernel, and the user *)

Deliver(s) ==
  /\ life = "run" /\ s \in Deliverable
  /\ pending' = pending \ {s}
  /\ LET effect == Effect(mask, disp, s)
     IN  /\ life' = CASE effect = "terminate" -> s [] effect = "stop" -> "stopped"
                      [] OTHER -> life
         /\ IF effect = "handle"
            THEN /\ frames' = <<[sig |-> s, at |-> "recebi", saved |-> mask]>> \o frames
                 /\ mask' = mask \cup Deferred(s)
            ELSE UNCHANGED <<frames, mask>>
  /\ UNCHANGED <<prog, todo, pc, told, disp, sent>>

\* SIGCONT cancels a SIGTSTP that waits, and the signals that stop cancel a SIGCONT.
Cancelled(s) == IF s = "CONT" THEN Stopping ELSE IF s \in Stopping THEN {"CONT"} ELSE {}

\* A signal that waits already is not kept twice; one that would do nothing is, if blocked.
Kept(s) == s \notin Unstoppable /\ (s \in mask \/ Effect(mask, disp, s) # "nothing")

Send(s) ==
  /\ life \in {"run", "stopped"} /\ sent < MaxSignals /\ sent' = sent + 1
  /\ pending' = (pending \ Cancelled(s)) \cup {x \in {s} : Kept(x)}
  /\ life' = CASE s = "KILL" -> s [] s = "STOP" -> "stopped" [] s = "CONT" -> "run"
               [] OTHER -> life
  /\ UNCHANGED <<prog, todo, pc, told, frames, mask, disp>>
-----------------------------------------------------------------------------
ProgramStep ==
  Sigprocmask \/ Sigaction \/ PrintOla \/ PrintPending \/ Sleep \/ Recebi \/ HandlerSleep \/ Fim

Rests == life # "run" /\ UNCHANGED vars

Next == ProgramStep \/ (\E s \in Signal : Deliver(s) \/ Send(s)) \/ Rests

\* The process is scheduled, and the kernel delivers; nobody has to send a SIGCONT.
Spec ==
  /\ Init /\ [][Next]_vars
  /\ WF_vars(ProgramStep) /\ WF_vars(\E s \in Signal : Deliver(s))
-----------------------------------------------------------------------------
(* Properties *)

Frame == [sig : Signal, at : {"recebi", "sleep", "fim"}, saved : SUBSET (Signal \ Unstoppable)]

TypeOK ==
  /\ prog \in Programs
  /\ todo \in Seq(Signal \cup {"mask"})
  /\ pc \in {"print", "pending", "sleep"} /\ told \subseteq Signal
  /\ frames \in Seq(Frame)
  /\ mask \subseteq Signal \ Unstoppable /\ pending \subseteq Signal \ Unstoppable
  /\ disp \in [Signal -> Disposition]
  /\ life \in {"run", "stopped", "exit"} \cup Terminating
  /\ sent \in Nat

\* ex3: "se enviar o mesmo sinal novamente nesta altura ele ficara bloqueado ate que a
\* funcao myhandler termine": no two calls for the same signal are open, so that SIGTERM
\* and SIGQUIT interrupt one another at most once. ex4: no call goes on while a signal
\* with a handler, its own included, waits.
NestsAsMeant ==
  /\ prog = "ex3" => \A i, j \in DOMAIN frames : frames[i].sig = frames[j].sig => i = j
  /\ prog = "ex4" => \A s \in mask : disp[s] # "handler"

\* "Mas nao quero terminar!": once ex3 and ex4 are set up only SIGKILL ends them, and ex1
\* ends by its exit(0) and not by SIGTERM; until then each may be ended by any signal.
OnlyKillEnds ==
  todo = <<>> /\ life \in Signal =>
    life = "KILL" \/ (prog = "ex1" /\ life # "TERM")

\* ex3, ex4: main never reports as pending a signal that has a handler, not even after
\* it was stopped with signals waiting.
ReportsBlockedOnly == \A s \in told : disp[s] # "handler"

\* A SIGTERM or SIGQUIT that waits, be it for the end of its own handler or for a
\* SIGCONT, gets its call as long as the process runs.
Answered ==
  \A s \in {"TERM", "QUIT"} :
    (prog # "ex1" /\ todo = <<>> /\ s \in pending) ~> (s \notin pending \/ life # "run")
=============================================================================
