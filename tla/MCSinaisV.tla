----------------------------- MODULE MCSinaisV -----------------------------
(* SinaisV on a small instance; the constants are given in the .cfg files. *)
EXTENDS SinaisV, TLC
=============================================================================
