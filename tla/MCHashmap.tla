----------------------------- MODULE MCHashmap -----------------------------
(* Hashmap on small instances: three keys that share a bucket until the     *)
(* table has eight, and two of them in eight as well.                       *)
EXTENDS Hashmap, TLC

CONSTANTS k1, k2, k3

HashSpread == (k1 :> 1) @@ (k2 :> 5) @@ (k3 :> 17)
=============================================================================
