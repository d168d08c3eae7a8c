----------------------------- MODULE MCMailbox -----------------------------
(* Mailbox with a few executions of each program. *)
EXTENDS Mailbox, TLC

MCWriter == {"w1", "w2"}
=============================================================================
