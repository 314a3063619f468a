-------------------------- MODULE MemberContracts --------------------------
(***************************************************************************)
(* The contracts that gate on a CoopIdentity membership and are never told *)
(* when one ends: the stewardship ledger, the payroll, the votes and the   *)
(* two embassies.  They do not call each other; what they share is the     *)
(* block and the register of members, which the steward changes between    *)
(* any two of their calls.                                                 *)
(***************************************************************************)
EXTENDS StewardshipLedger, InternalPayroll, MACIVoting, ForeignReputation, TrustRegistry

CONSTANT Horizon      \* bound: the last block, by the contract called

VARIABLE called       \* bound: the one of them that is called in this behaviour

memberVars == << now, identityVars, ledgerVars, payrollVars, votingVars, reputationVars,
                 registryVars, called >>

MemberInit ==
    /\ Init /\ PayrollInit /\ VotingInit /\ ReputationInit /\ RegistryInit
    /\ called \in {"ledger", "payroll", "voting", "reputation", "issuers"}

MemberContractsNext ==
    /\ UNCHANGED called
    /\ \/ /\ now < Horizon[called] /\ Tick
          /\ UNCHANGED << identityVars, ledgerVars, payrollVars, votingVars, reputationVars, registryVars >>
       \/ /\ MembershipNext
          /\ UNCHANGED << now, ledgerVars, payrollVars, votingVars, reputationVars, registryVars >>
       \/ /\ called = "ledger"
          /\ \/ \E sender \in Accounts : OracleNext(sender)
             \/ \E sender \in Coops : MemberNext(sender)
          /\ UNCHANGED << payrollVars, votingVars, reputationVars, registryVars >>
       \/ /\ called = "payroll"
          /\ \E sender \in Accounts : PayrollNext(sender)
          /\ UNCHANGED << ledgerVars, votingVars, reputationVars, registryVars >>
       \/ /\ called = "voting"
          /\ \E sender \in Accounts : VotingNext(sender)
          /\ UNCHANGED << ledgerVars, payrollVars, reputationVars, registryVars >>
       \/ /\ called = "reputation"
          /\ \E sender \in Accounts : ReputationNext(sender)
          /\ UNCHANGED << ledgerVars, payrollVars, votingVars, registryVars >>
       \/ /\ called = "issuers"
          /\ \E sender \in Accounts : RegistryNext(sender)
          /\ UNCHANGED << ledgerVars, payrollVars, votingVars, reputationVars >>

MemberSpec == MemberInit /\ [][MemberContractsNext]_memberVars
=============================================================================
