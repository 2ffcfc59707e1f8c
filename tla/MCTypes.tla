------------------------------ MODULE MCTypes ------------------------------
(* Types on small instances: the cfg files choose types, calls and shapes.  *)
EXTENDS Types
=============================================================================
