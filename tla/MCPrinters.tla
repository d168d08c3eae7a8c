----------------------------- MODULE MCPrinters -----------------------------
(* Printers with the two tasks the programs have and lines of a few characters. *)
EXTENDS Printers, TLC

MCTask == {"ola", "ole"}
=============================================================================
