--------------------------- MODULE MCStewardship ---------------------------
(***************************************************************************)
(* The contracts that read memberships on a small instance: two members,   *)
(* who may delegate to each other or to themselves, and two Safes.  With   *)
(* MaxUint = 7, Bps = 2 and a factor of 4, a reserve of 1 covers escrows   *)
(* up to 2 and a reserve of 3 overflows.  Base pays of 1 and 2 and ratios  *)
(* of 1, 3/2 and 2 make caps from 1 to 4, one of them rounded.  Four       *)
(* blocks hold up to three half-lives of one block, one and a half of two, *)
(* and two thirds of one of three; a score of 7 is gone after three.       *)
(***************************************************************************)
EXTENDS MemberContracts, TLC

CONSTANTS bakery, farm, safe, watch, escrowC, registryC, zero

OneOfTwo == {<<1, 1>>, <<1, 2>>, <<0, 0>>}

LowOrHigh == {<<1, 2, 4>>, <<2, 5, 7>>}
Low == <<1, 2, 4>>
Change == {-2, 3}

MCHorizon == [ledger |-> 2, payroll |-> 2, voting |-> 2, reputation |-> 4, issuers |-> 1]

CoopSymmetry == Permutations({bakery, farm})
=============================================================================
