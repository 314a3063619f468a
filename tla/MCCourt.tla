------------------------------ MODULE MCCourt ------------------------------
(***************************************************************************)
(* The court on a small instance: two cooperatives that trade both ways,   *)
(* two escrows that can be open together in one token.                     *)
(***************************************************************************)
EXTENDS ArbitrationRegistry, TLC

CONSTANTS bakery, farm, safe, escrowC, registryC, zero, eur, charter

CoopSymmetry == Permutations({bakery, farm})
=============================================================================
