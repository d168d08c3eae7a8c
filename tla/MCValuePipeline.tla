-------------------------- MODULE MCValuePipeline --------------------------
(* ValuePipeline on a small instance; the .cfg files give the constants.     *)
EXTENDS ValuePipeline, TLC
=============================================================================
