--------------------------- MODULE MCForkServers ---------------------------
(* ForkServers with a process table that two sessions fill. *)
EXTENDS ForkServers

MCClients == [ex2 |-> 2, ex3 |-> 2, ex4 |-> 2, ex5 |-> 1]

MCSizes == [p \in Programs |-> IF p = "ex5" THEN <<3, 1>> ELSE <<2, 1>>]
=============================================================================
