------------------------------ MODULE MCScopes ------------------------------
(* Scopes on small instances: the cfg files choose the names and shapes.     *)
EXTENDS Scopes
=============================================================================
