------------------------------ MODULE Signals ------------------------------
(***************************************************************************)
(* The kernel's rules for signals, as far as the programs of this          *)
(* repository use them: what a signal does to a process with a given mask  *)
(* and given dispositions (ficha3-sinais.pdf, appendix).                   *)
(***************************************************************************)
EXTENDS FiniteSets

Terminating == {"INT", "QUIT", "TERM", "KILL"}
Stopping == {"TSTP", "STOP"}
Sig == Terminating \cup Stopping \cup {"CHLD"}

Disposition == {"default", "ignore", "handler"}

\* SIGKILL and SIGSTOP can be neither blocked nor caught nor ignored.
Unstoppable == {"KILL", "STOP"}

\* The action of s when nothing was done about it.
Default(s) ==
  IF s \in Terminating THEN "terminate" ELSE IF s \in Stopping THEN "stop" ELSE "nothing"

\* What the arrival of s does: nothing now, or an action.
Effect(mask, disp, s) ==
  IF s \in Unstoppable \/ (s \notin mask /\ disp[s] = "default") THEN Default(s)
  ELSE IF s \notin mask /\ disp[s] = "handler" THEN "handle"
  ELSE "nothing"
=============================================================================
