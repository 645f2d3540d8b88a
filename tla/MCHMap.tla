------------------------------- MODULE MCHMap -------------------------------
(* HMap on four keys that collide on two chains, with 7-bit sizes: the     *)
(* bytes of a table of 8 slots fit size_t, those of 16 do not.             *)
EXTENDS HMap, TLC
CONSTANTS k1, k2, k3, k4
MCMix == k1 :> 3 @@ k2 :> 3 @@ k3 :> 7 @@ k4 :> 1
=============================================================================
