------------------------- MODULE StewardshipLedger -------------------------
(***************************************************************************)
(* contracts/src/governance/StewardshipLedger.sol: liquid delegation of    *)
(* membership weight, gated by oracle scores and by a solvency circuit     *)
(* breaker.  It reads membership from CoopIdentity (balanceOf), so the     *)
(* steward's attest and revoke are steps of this specification; the other  *)
(* operations of CoopIdentity do not change what the ledger reads.         *)
(*                                                                         *)
(* uint256 is 0..MaxUint: `*' reverts above it, `-=' reverts below zero.   *)
(***************************************************************************)
EXTENDS CoopIdentity, FiniteSets

CONSTANTS
    MaxUint,            \* type(uint256).max
    Bps,                \* 10000, the scale of thresholds and factors
    Scores,             \* impact scores the oracle pushes
    Thresholds,         \* values given to setThreshold
    InitialThreshold,   \* _stewardThresholdBps
    solvencyFactorBps,  \* set once, by the constructor
    Reserves,           \* values given to updateFiatReserve
    EscrowTotals,       \* values given to updateTotalEscrow and to the reset
    OracleTimelock,     \* ORACLE_TIMELOCK, 48 hours
    Proposals,          \* proposal ids a veto may name
    MaxVetoes           \* bound: vetoes ever filed

ASSUME LedgerAssumption ==
    /\ MaxUint \in Nat \ {0} /\ Bps \in Nat \ {0, 1}
    /\ IsFiniteSet(Coops)
    /\ Scores \subseteq 0..MaxUint /\ Thresholds \subseteq 0..MaxUint
    /\ InitialThreshold \in 0..MaxUint
    /\ solvencyFactorBps \in 0..MaxUint
    /\ Reserves \subseteq 0..MaxUint /\ EscrowTotals \subseteq 0..MaxUint
    /\ OracleTimelock \in Nat \ {0}
    /\ MaxVetoes \in Nat

VARIABLES
    oracle,
    stewardThresholdBps,
    fiatReserveValue,
    totalEscrowValue,
    pendingOracle,
    pendingOracleActivation,
    impactScores,
    delegation,              \* member -> steward, ZeroAddress when self
    receivedDelegations,     \* steward -> inbound count
    hasWeight,
    vetos,                   \* the set of VetoRecords, numbered by vetoCount
    vetoCount,
    emergency,               \* history: tripped by hand and not reset since
    notice                   \* history: who was last proposed as oracle, and when

oracleVars == << oracle, pendingOracle, pendingOracleActivation, notice >>
dataVars == << stewardThresholdBps, fiatReserveValue, totalEscrowValue,
               impactScores, hasWeight, emergency >>
delegationVars == << delegation, receivedDelegations >>
vetoVars == << vetos, vetoCount >>
ledgerVars == << oracleVars, dataVars, delegationVars, vetoVars >>
vars == << now, identityVars, ledgerVars >>

NoNotice == [who |-> ZeroAddress, at |-> 0]

LedgerInit ==
    /\ oracle = StewardSafe
    /\ stewardThresholdBps = InitialThreshold
    /\ fiatReserveValue = 0
    /\ totalEscrowValue = 0
    /\ pendingOracle = ZeroAddress
    /\ pendingOracleActivation = 0
    /\ impactScores = [a \in Coops |-> 0]
    /\ delegation = [a \in Coops |-> ZeroAddress]
    /\ receivedDelegations = [a \in Coops |-> 0]
    /\ hasWeight = [a \in Coops |-> FALSE]
    /\ vetos = {}
    /\ vetoCount = 0
    /\ emergency = FALSE
    /\ notice = NoNotice

onlyOracle(sender) == sender = oracle

onlyMember(sender) == sender \in Coops /\ balances[sender] # 0

isStewardEligible(node) ==
    impactScores[node] >= stewardThresholdBps /\ balances[node] > 0

reserveFits == fiatReserveValue * solvencyFactorBps <= MaxUint
reserveThreshold == (fiatReserveValue * solvencyFactorBps) \div Bps

\* Variant of breakerAllows whose product wraps instead of reverting.
breakerWraps ==
    \/ fiatReserveValue = 0
    \/ totalEscrowValue <=
          ((fiatReserveValue * solvencyFactorBps) % (MaxUint + 1)) \div Bps

\* _checkCircuitBreaker lets the transaction go on.
breakerAllows ==
    \/ fiatReserveValue = 0
    \/ reserveFits /\ totalEscrowValue <= reserveThreshold

\* Variant of released that takes the count back from the member itself.
releasedFromSelf(m) ==
    IF delegation[m] = ZeroAddress
    THEN receivedDelegations
    ELSE [receivedDelegations EXCEPT ![m] = @ - 1]

\* The counts after a member's current delegation, if any, is taken back.
released(m) ==
    IF delegation[m] = ZeroAddress
    THEN receivedDelegations
    ELSE [receivedDelegations EXCEPT ![delegation[m]] = @ - 1]

\* The checked subtraction of released does not revert.
releasable(m) ==
    delegation[m] # ZeroAddress => receivedDelegations[delegation[m]] > 0

\* Variant of delegate that forgets the delegation it replaces.
delegateTwice(sender, node) ==
    /\ onlyMember(sender)
    /\ breakerAllows
    /\ isStewardEligible(node)
    /\ delegation' = [delegation EXCEPT ![sender] = node]
    /\ receivedDelegations' = [receivedDelegations EXCEPT ![node] = @ + 1]
    /\ UNCHANGED << now, identityVars, oracleVars, dataVars, vetoVars >>

delegate(sender, node) ==
    /\ onlyMember(sender)
    /\ breakerAllows
    /\ isStewardEligible(node)
    /\ releasable(sender)
    /\ delegation' = [delegation EXCEPT ![sender] = node]
    /\ receivedDelegations' = [released(sender) EXCEPT ![node] = @ + 1]
    /\ UNCHANGED << now, identityVars, oracleVars, dataVars, vetoVars >>

\* Variant of revokeDelegation for members only.
revokeByMember(sender) ==
    /\ onlyMember(sender)
    /\ delegation[sender] # ZeroAddress
    /\ releasable(sender)
    /\ receivedDelegations' = released(sender)
    /\ delegation' = [delegation EXCEPT ![sender] = ZeroAddress]
    /\ UNCHANGED << now, identityVars, oracleVars, dataVars, vetoVars >>

revokeDelegation(sender) ==
    /\ delegation[sender] # ZeroAddress
    /\ releasable(sender)
    /\ receivedDelegations' = released(sender)
    /\ delegation' = [delegation EXCEPT ![sender] = ZeroAddress]
    /\ UNCHANGED << now, identityVars, oracleVars, dataVars, vetoVars >>

emergencyVeto(sender, proposalId) ==
    /\ onlyMember(sender)
    /\ vetoCount < MaxVetoes                          \* bound
    /\ vetos' = vetos \cup {[id |-> vetoCount, vetoer |-> sender,
                             proposalId |-> proposalId, filedAt |-> now]}
    /\ vetoCount' = vetoCount + 1
    /\ UNCHANGED << now, identityVars, oracleVars, dataVars, delegationVars >>

\* A batch of scores; a node named twice in it keeps the last.
updateImpactScores(sender, batch) ==
    /\ onlyOracle(sender)
    /\ impactScores' = [a \in Coops |-> IF a \in DOMAIN batch THEN batch[a]
                                                             ELSE impactScores[a]]
    /\ UNCHANGED << now, identityVars, oracleVars, delegationVars, vetoVars,
                    stewardThresholdBps, fiatReserveValue, totalEscrowValue,
                    hasWeight, emergency >>

updateFiatReserve(sender, value) ==
    /\ onlyOracle(sender)
    /\ fiatReserveValue' = value
    /\ UNCHANGED << now, identityVars, oracleVars, delegationVars, vetoVars,
                    stewardThresholdBps, totalEscrowValue, impactScores,
                    hasWeight, emergency >>

updateTotalEscrow(sender, value) ==
    /\ onlyOracle(sender)
    /\ totalEscrowValue' = value
    /\ UNCHANGED << now, identityVars, oracleVars, delegationVars, vetoVars,
                    stewardThresholdBps, fiatReserveValue, impactScores,
                    hasWeight, emergency >>

registerMember(sender, member) ==
    /\ onlyOracle(sender)
    /\ hasWeight' = [hasWeight EXCEPT ![member] = TRUE]
    /\ UNCHANGED << now, identityVars, oracleVars, delegationVars, vetoVars,
                    stewardThresholdBps, fiatReserveValue, totalEscrowValue,
                    impactScores, emergency >>

setThreshold(sender, value) ==
    /\ onlyOracle(sender)
    /\ stewardThresholdBps' = value
    /\ UNCHANGED << now, identityVars, oracleVars, delegationVars, vetoVars,
                    fiatReserveValue, totalEscrowValue, impactScores,
                    hasWeight, emergency >>

\* Variant of proposeOracle that lets a new candidate inherit a running clock.
proposeKeepingClock(sender, newOracle) ==
    /\ onlyOracle(sender)
    /\ newOracle # ZeroAddress
    /\ pendingOracle' = newOracle
    /\ pendingOracleActivation' = IF pendingOracle = ZeroAddress
                                  THEN now + OracleTimelock
                                  ELSE pendingOracleActivation
    /\ notice' = [who |-> newOracle, at |-> now]
    /\ UNCHANGED << now, identityVars, oracle, dataVars, delegationVars, vetoVars >>

proposeOracle(sender, newOracle) ==
    /\ onlyOracle(sender)
    /\ newOracle # ZeroAddress
    /\ pendingOracle' = newOracle
    /\ pendingOracleActivation' = now + OracleTimelock
    /\ notice' = [who |-> newOracle, at |-> now]
    /\ UNCHANGED << now, identityVars, oracle, dataVars, delegationVars, vetoVars >>

acceptOracle(sender) ==
    /\ sender = pendingOracle
    /\ now >= pendingOracleActivation
    /\ oracle' = pendingOracle
    /\ pendingOracle' = ZeroAddress
    /\ pendingOracleActivation' = 0
    /\ UNCHANGED << now, identityVars, notice, dataVars, delegationVars, vetoVars >>

\* The event it emits computes the reserve threshold, so it reverts where
\* that product overflows.
triggerEmergencyCircuitBreaker(sender) ==
    /\ onlyOracle(sender)
    /\ reserveFits
    /\ totalEscrowValue' = MaxUint
    /\ emergency' = TRUE
    /\ UNCHANGED << now, identityVars, oracleVars, delegationVars, vetoVars,
                    stewardThresholdBps, fiatReserveValue, impactScores, hasWeight >>

resetEmergencyCircuitBreaker(sender, actualEscrow) ==
    /\ onlyOracle(sender)
    /\ totalEscrowValue' = actualEscrow
    /\ emergency' = FALSE
    /\ UNCHANGED << now, identityVars, oracleVars, delegationVars, vetoVars,
                    stewardThresholdBps, fiatReserveValue, impactScores, hasWeight >>

Batches == UNION { [nodes -> Scores] : nodes \in SUBSET Coops }

OracleNext(sender) ==
    \/ \E batch \in Batches : updateImpactScores(sender, batch)
    \/ \E v \in Reserves : updateFiatReserve(sender, v)
    \/ \E v \in EscrowTotals : updateTotalEscrow(sender, v)
    \/ \E m \in Coops : registerMember(sender, m)
    \/ \E v \in Thresholds : setThreshold(sender, v)
    \/ \E o \in Safes : proposeOracle(sender, o)
    \/ acceptOracle(sender)
    \/ triggerEmergencyCircuitBreaker(sender)
    \/ \E v \in EscrowTotals : resetEmergencyCircuitBreaker(sender, v)

MemberNext(sender) ==
    \/ \E s \in Coops : delegate(sender, s)
    \/ revokeDelegation(sender)
    \/ \E p \in Proposals : emergencyVeto(sender, p)

MembershipNext ==
    \E sender \in Accounts, a \in Coops : attest(sender, a) \/ revoke(sender, a)

Init == ChainInit /\ IdentityInit /\ LedgerInit

Next ==
    \/ Tick /\ UNCHANGED << identityVars, ledgerVars >>
    \/ MembershipNext /\ UNCHANGED << now, ledgerVars >>
    \/ \E sender \in Accounts : OracleNext(sender)
    \/ \E sender \in Coops : MemberNext(sender)

Spec == Init /\ [][Next]_vars

-----------------------------------------------------------------------------
Veto == [id : Nat, vetoer : Coops, proposalId : Proposals, filedAt : 1..MaxTime]

LedgerTypeOK ==
    /\ oracle \in Safes
    /\ stewardThresholdBps \in 0..MaxUint
    /\ fiatReserveValue \in 0..MaxUint
    /\ totalEscrowValue \in 0..MaxUint
    /\ pendingOracle \in Safes \cup {ZeroAddress}
    /\ pendingOracleActivation \in Nat
    /\ impactScores \in [Coops -> 0..MaxUint]
    /\ delegation \in [Coops -> Coops \cup {ZeroAddress}]
    /\ receivedDelegations \in [Coops -> Nat]
    /\ hasWeight \in [Coops -> BOOLEAN]
    /\ vetos \subseteq Veto
    /\ vetoCount \in 0..MaxVetoes
    /\ emergency \in BOOLEAN
    /\ notice \in [who : Safes \cup {ZeroAddress}, at : 0..MaxTime]

TypeOK ==
    /\ now \in 1..MaxTime
    /\ IdentityTypeOK
    /\ LedgerTypeOK

getVotingWeight(node) ==
    (IF hasWeight[node] THEN 1 ELSE 0) + receivedDelegations[node]

delegators(s) == {m \in Coops : delegation[m] = s}

(***************************************************************************)
(* The O(1) weight lookup is exact: the running count of every steward is  *)
(* the number of members whose delegation points at it, through every      *)
(* order of delegations, re-delegations, revocations and lost memberships. *)
(***************************************************************************)
DelegationsCounted ==
    \A s \in Coops : receivedDelegations[s] = Cardinality(delegators(s))

(***************************************************************************)
(* revoke() "MUST always be executable" (IStewardshipLedger.sol:59): once  *)
(* a delegation stands, its owner can take it back whatever became of the  *)
(* owner's membership, the steward's score, the breaker or the oracle.     *)
(***************************************************************************)
RevokeAlwaysExecutable ==
    \A m \in Coops : delegation[m] # ZeroAddress => ENABLED revokeDelegation(m)

delegationPossible == \E m, s \in Coops : ENABLED delegate(m, s)

(***************************************************************************)
(* The oracle can stop new delegations when it must: tripping the breaker  *)
(* goes through, or the very overflow that makes it revert makes every     *)
(* delegation revert too; and once tripped, with a reserve on record, no   *)
(* delegation is possible whatever the reserve says.                       *)
(***************************************************************************)
EmergencyStopWorks ==
    /\ delegationPossible => ENABLED triggerEmergencyCircuitBreaker(oracle)
    /\ totalEscrowValue = MaxUint /\ fiatReserveValue # 0 => ~delegationPossible

(***************************************************************************)
(* The oracle role changes hands only after the full notice: the new       *)
(* oracle is the one named last, and it was named OracleTimelock earlier.  *)
(* Naming another candidate in between restarts the clock.                 *)
(***************************************************************************)
OracleChangesOnNotice ==
    [][oracle' # oracle =>
          /\ oracle' = notice.who
          /\ now >= notice.at + OracleTimelock]_vars

(***************************************************************************)
(* The doc of triggerEmergencyCircuitBreaker (StewardshipLedger.sol:296):  *)
(* "Blocks all new delegations until reset."                               *)
(***************************************************************************)
EmergencyHolds ==
    [][emergency /\ emergency' =>
          \A m \in Coops : delegation'[m] \in {delegation[m], ZeroAddress}]_vars
=============================================================================
