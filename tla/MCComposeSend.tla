---------------------------- MODULE MCComposeSend ----------------------------
(* The model-checking instance of ComposeSend. *)
EXTENDS ComposeSendInv, TLC

KeySymmetry == Permutations(Keys)
===============================================================================
