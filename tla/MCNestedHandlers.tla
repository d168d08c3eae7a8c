-------------------------- MODULE MCNestedHandlers --------------------------
(* NestedHandlers with enough signals to nest, to wait, to stop and to go on. *)
EXTENDS NestedHandlers
=============================================================================
