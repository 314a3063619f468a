------------------------------- MODULE Chain -------------------------------
(***************************************************************************)
(* What every contract of contracts/src shares: the addresses of the       *)
(* deployment (contracts/script/Deploy.s.sol) and the block timestamp.     *)
(*                                                                         *)
(* A transaction is one action: it runs every nested contract call in the  *)
(* same step, and when any guard of any of them fails the whole step is    *)
(* disabled, which is what a revert does.                                  *)
(***************************************************************************)
EXTENDS Integers

CONSTANTS
    Coops,            \* cooperatives' Safes and members: they trade and may hold an SBT
    Safes,            \* addresses the stewardship of CoopIdentity is handed to
    StewardSafe,      \* DEPLOY: the first steward, and the court's operator
    EscrowContract,   \* address(IskanderEscrow)
    RegistryContract, \* address(ArbitrationRegistry)
    ZeroAddress,      \* address(0)
    MaxTime           \* bound: last block timestamp explored

ASSUME AddressesDiffer ==
    /\ StewardSafe \in Safes
    /\ EscrowContract \notin Coops \cup Safes
    /\ RegistryContract \notin Coops \cup {EscrowContract}
    /\ ZeroAddress \notin Coops \cup Safes \cup {EscrowContract, RegistryContract}

ASSUME TimeAssumption == MaxTime \in Nat \ {0}

VARIABLE now          \* block.timestamp

\* Accounts that send transactions; the contracts act only inside one.
Accounts == (Coops \cup Safes) \ {RegistryContract}

ChainInit == now = 1

\* A later block.
Tick ==
    /\ now < MaxTime
    /\ now' = now + 1
=============================================================================
