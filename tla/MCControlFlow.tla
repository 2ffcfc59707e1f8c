--------------------------- MODULE MCControlFlow ---------------------------
(* ControlFlow on small instances: the cfg files choose the shapes. *)
EXTENDS ControlFlow
=============================================================================
