--------------------------- MODULE MCSplitVector ---------------------------
(* SplitVector with vectors that the number of tasks divides, or does not. *)
EXTENDS SplitVector

MCElems == [p \in Programs |-> CASE p = "par" -> 6 [] p = "ficha2-12" -> 5 [] OTHER -> 1]

\* As many tasks as divide the vector of par.c, as 50 does 200.
MCElemsDivided == [MCElems EXCEPT !["par"] = 8]

MCTasks == [p \in Programs |-> CASE p = "par" -> 4 [] p = "ficha2-12" -> 3 [] OTHER -> 1]
=============================================================================
