--------------------------- MODULE MCProvisioner ---------------------------
(***************************************************************************)
(* The provisioner with two threads, so that a retry can overlap the       *)
(* request it repeats.                                                     *)
(***************************************************************************)
EXTENDS Provisioner

CONSTANTS ada, r1, r2
=============================================================================
