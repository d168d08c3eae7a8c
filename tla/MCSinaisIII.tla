---------------------------- MODULE MCSinaisIII ----------------------------
(* SinaisIII with a few children; they are interchangeable, but the checks   *)
(* include liveness and so do without symmetry.                              *)
EXTENDS SinaisIII, TLC

MCChild == {"c1", "c2", "c3"}
=============================================================================
