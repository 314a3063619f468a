-------------------------- MODULE StewardshipProofs --------------------------
(***************************************************************************)
(* Theorems about StewardshipLedger, for every finite set of cooperatives  *)
(* and every threshold, factor, timelock and width of integers.            *)
(***************************************************************************)
EXTENDS StewardshipLedger, IdentityProofs, DataLemmas, TLAPS

\* The steward's transactions keep the ledger's view of membership well typed.
LEMMA MembershipTypeStep ==
    ASSUME IdentityTypeOK, MembershipNext
    PROVE  IdentityTypeOK'
<1>1. IdentityNext
  BY DEF MembershipNext, IdentityNext
<1>2. QED
  BY <1>1, IdentityTypeStep

\* A member's transaction keeps the ledger well typed.
LEMMA MemberTypeStep ==
    ASSUME LedgerTypeOK, now \in 1..MaxTime, NEW sender \in Coops, MemberNext(sender)
    PROVE  LedgerTypeOK'
<1> USE LedgerAssumption
<1>1. \A m \in Coops : releasable(m) => released(m) \in [Coops -> Nat]
  <2> SUFFICES ASSUME NEW m \in Coops, releasable(m)
               PROVE  released(m) \in [Coops -> Nat]
    OBVIOUS
  <2>1. CASE delegation[m] = ZeroAddress
    BY <2>1 DEF released, LedgerTypeOK
  <2>2. CASE delegation[m] # ZeroAddress
    <3>1. delegation[m] \in Coops
      BY <2>2 DEF LedgerTypeOK
    <3>2. receivedDelegations[delegation[m]] - 1 \in Nat
      BY <2>2, <3>1 DEF releasable, LedgerTypeOK
    <3>3. QED
      BY <2>2, <3>1, <3>2 DEF released, LedgerTypeOK
  <2>3. QED
    BY <2>1, <2>2
<1>2. ASSUME NEW s \in Coops, delegate(sender, s)
      PROVE  LedgerTypeOK'
  <2>1. released(sender) \in [Coops -> Nat]
    BY <1>1, <1>2 DEF delegate
  <2>2. receivedDelegations' \in [Coops -> Nat]
    BY <1>2, <2>1 DEF delegate
  <2>3. QED
    BY <1>2, <2>2 DEF delegate, LedgerTypeOK, oracleVars, dataVars, vetoVars
<1>3. CASE revokeDelegation(sender)
  <2>1. receivedDelegations' \in [Coops -> Nat]
    BY <1>1, <1>3 DEF revokeDelegation
  <2>2. QED
    BY <1>3, <2>1 DEF revokeDelegation, LedgerTypeOK, oracleVars, dataVars, vetoVars
<1>4. ASSUME NEW p \in Proposals, emergencyVeto(sender, p)
      PROVE  LedgerTypeOK'
  <2>1. [id |-> vetoCount, vetoer |-> sender, proposalId |-> p, filedAt |-> now] \in Veto
    BY DEF LedgerTypeOK, Veto
  <2>2. vetos' \subseteq Veto /\ vetoCount' \in 0..MaxVetoes
    BY <1>4, <2>1 DEF emergencyVeto, LedgerTypeOK
  <2>3. QED
    BY <1>4, <2>2 DEF emergencyVeto, LedgerTypeOK, oracleVars, dataVars, delegationVars
<1>5. QED
  BY <1>2, <1>3, <1>4 DEF MemberNext

\* An oracle's transaction keeps the ledger well typed.
LEMMA OracleTypeStep ==
    ASSUME LedgerTypeOK, now \in 1..MaxTime, NEW sender \in Accounts, OracleNext(sender)
    PROVE  LedgerTypeOK'
<1> USE LedgerAssumption, AddressesDiffer
<1> USE DEF LedgerTypeOK, oracleVars, delegationVars, vetoVars
<1>1. ASSUME NEW batch \in Batches, updateImpactScores(sender, batch)
      PROVE  LedgerTypeOK'
  <2>0. PICK nodes \in SUBSET Coops : batch \in [nodes -> Scores]
    BY DEF Batches
  <2>1. \A a \in DOMAIN batch : batch[a] \in 0..MaxUint
    BY <2>0
  <2>2. impactScores' \in [Coops -> 0..MaxUint]
    BY <1>1, <2>1 DEF updateImpactScores
  <2>3. QED
    BY <1>1, <2>2 DEF updateImpactScores
<1>2. ASSUME NEW v \in Reserves, updateFiatReserve(sender, v)
      PROVE  LedgerTypeOK'
  BY <1>2 DEF updateFiatReserve
<1>3. ASSUME NEW v \in EscrowTotals, updateTotalEscrow(sender, v)
      PROVE  LedgerTypeOK'
  BY <1>3 DEF updateTotalEscrow
<1>4. ASSUME NEW m \in Coops, registerMember(sender, m)
      PROVE  LedgerTypeOK'
  BY <1>4 DEF registerMember
<1>5. ASSUME NEW v \in Thresholds, setThreshold(sender, v)
      PROVE  LedgerTypeOK'
  BY <1>5 DEF setThreshold
<1>6. ASSUME NEW o \in Safes, proposeOracle(sender, o)
      PROVE  LedgerTypeOK'
  BY <1>6, TimeAssumption DEF proposeOracle, dataVars
<1>7. CASE acceptOracle(sender)
  <2>1. pendingOracle \in Safes
    BY <1>7 DEF acceptOracle, Accounts
  <2>2. QED
    BY <1>7, <2>1 DEF acceptOracle, dataVars
<1>8. CASE triggerEmergencyCircuitBreaker(sender)
  BY <1>8 DEF triggerEmergencyCircuitBreaker
<1>9. ASSUME NEW v \in EscrowTotals, resetEmergencyCircuitBreaker(sender, v)
      PROVE  LedgerTypeOK'
  BY <1>9 DEF resetEmergencyCircuitBreaker
<1>10. QED
  BY <1>1, <1>2, <1>3, <1>4, <1>5, <1>6, <1>7, <1>8, <1>9 DEF OracleNext
(***************************************************************************)
(* Every reachable state of the ledger is well typed; in particular the    *)
(* checked subtractions leave no count below zero.                         *)
(***************************************************************************)
THEOREM TypeCorrect == Spec => []TypeOK
<1>1. Init => TypeOK
  <2> SUFFICES ASSUME Init PROVE TypeOK
    OBVIOUS
  <2> USE IdentityAssumption, LedgerAssumption, AddressesDiffer, TimeAssumption
  <2>1. now \in 1..MaxTime
    BY DEF Init, ChainInit
  <2>2. IdentityTypeOK
    BY DEF Init, IdentityInit, IdentityTypeOK, NoRecord, MemberRecord
  <2>3. LedgerTypeOK
    <3>1. /\ delegation \in [Coops -> Coops \cup {ZeroAddress}]
          /\ impactScores \in [Coops -> 0..MaxUint]
          /\ receivedDelegations \in [Coops -> Nat]
          /\ hasWeight \in [Coops -> BOOLEAN]
      BY DEF Init, LedgerInit
    <3>2. /\ notice \in [who : Safes \cup {ZeroAddress}, at : 0..MaxTime]
          /\ vetos \subseteq Veto
      BY DEF Init, LedgerInit, NoNotice
    <3>3. /\ oracle \in Safes /\ pendingOracle \in Safes \cup {ZeroAddress}
          /\ stewardThresholdBps \in 0..MaxUint /\ fiatReserveValue \in 0..MaxUint
          /\ totalEscrowValue \in 0..MaxUint /\ pendingOracleActivation \in Nat
          /\ vetoCount \in 0..MaxVetoes
      BY DEF Init, LedgerInit
    <3>4. emergency \in BOOLEAN
      BY DEF Init, LedgerInit
    <3>5. QED
      BY <3>1, <3>2, <3>3, <3>4 DEF LedgerTypeOK
  <2>4. QED
    BY <2>1, <2>2, <2>3 DEF TypeOK
<1>2. TypeOK /\ [Next]_vars => TypeOK'
  <2> SUFFICES ASSUME TypeOK, [Next]_vars PROVE TypeOK'
    OBVIOUS
  <2>1. CASE Tick /\ UNCHANGED << identityVars, ledgerVars >>
    BY <2>1, TimeAssumption
    DEF Tick, TypeOK, IdentityTypeOK, LedgerTypeOK, identityVars, ledgerVars,
        oracleVars, dataVars, delegationVars, vetoVars
  <2>2. CASE MembershipNext /\ UNCHANGED << now, ledgerVars >>
    BY <2>2, MembershipTypeStep
    DEF TypeOK, LedgerTypeOK, ledgerVars, oracleVars, dataVars, delegationVars, vetoVars
  <2>3. ASSUME NEW sender \in Accounts, OracleNext(sender)
        PROVE  TypeOK'
    <3>1. UNCHANGED << now, identityVars >>
      BY <2>3 DEF OracleNext, updateImpactScores, updateFiatReserve, updateTotalEscrow,
         registerMember, setThreshold, proposeOracle, acceptOracle,
         triggerEmergencyCircuitBreaker, resetEmergencyCircuitBreaker
    <3>2. QED
      BY <2>3, <3>1, OracleTypeStep DEF TypeOK, IdentityTypeOK, identityVars
  <2>4. ASSUME NEW sender \in Coops, MemberNext(sender)
        PROVE  TypeOK'
    <3>1. UNCHANGED << now, identityVars >>
      BY <2>4 DEF MemberNext, delegate, revokeDelegation, emergencyVeto
    <3>2. QED
      BY <2>4, <3>1, MemberTypeStep DEF TypeOK, IdentityTypeOK, identityVars
  <2>5. CASE UNCHANGED vars
    BY <2>5 DEF vars, TypeOK, IdentityTypeOK, LedgerTypeOK, identityVars, ledgerVars,
       oracleVars, dataVars, delegationVars, vetoVars
  <2>6. QED
    BY <2>1, <2>2, <2>3, <2>4, <2>5 DEF Next
<1>3. QED
  BY <1>1, <1>2, PTL DEF Spec

-----------------------------------------------------------------------------
(***************************************************************************)
(* The running counts.  A step that moves one member's delegation changes  *)
(* at most two of the sets the counts stand for, each by that one member.  *)
(***************************************************************************)
\* How the set of a steward's delegators changes when one member re-points.
LEMMA RepointCounts ==
    ASSUME LedgerTypeOK, NEW m \in Coops, NEW new \in Coops \cup {ZeroAddress},
           delegation' = [delegation EXCEPT ![m] = new], NEW s \in Coops
    PROVE  /\ IsFiniteSet(delegators(s))
           /\ Cardinality(delegators(s)) \in Nat
           /\ new = s /\ delegation[m] # s =>
                  Cardinality(delegators(s)') = Cardinality(delegators(s)) + 1
           /\ new # s /\ delegation[m] = s =>
                  /\ Cardinality(delegators(s)') = Cardinality(delegators(s)) - 1
                  /\ Cardinality(delegators(s)) > 0
           /\ (new = s <=> delegation[m] = s) =>
                  Cardinality(delegators(s)') = Cardinality(delegators(s))
<1>1. IsFiniteSet(delegators(s)) /\ Cardinality(delegators(s)) \in Nat
  BY LedgerAssumption, FS_Subset, FS_CardinalityType DEF delegators
<1>2. new = s => delegators(s)' = delegators(s) \cup {m}
  BY DEF delegators, LedgerTypeOK
<1>3. new # s => delegators(s)' = delegators(s) \ {m}
  BY DEF delegators, LedgerTypeOK
<1>4. m \in delegators(s) <=> delegation[m] = s
  BY DEF delegators
<1>5. new = s /\ delegation[m] # s =>
          Cardinality(delegators(s)') = Cardinality(delegators(s)) + 1
  BY <1>1, <1>2, <1>4, FS_AddElement
<1>6. new # s /\ delegation[m] = s =>
          Cardinality(delegators(s)') = Cardinality(delegators(s)) - 1
  BY <1>1, <1>3, <1>4, FS_RemoveElement
<1>7. delegation[m] = s => Cardinality(delegators(s)) > 0
  BY <1>1, <1>4, FS_EmptySet
<1>8. (new = s <=> delegation[m] = s) =>
          Cardinality(delegators(s)') = Cardinality(delegators(s))
  <2>1. new = s /\ delegation[m] = s => delegators(s)' = delegators(s)
    BY <1>2, <1>4
  <2>2. new # s /\ delegation[m] # s => delegators(s)' = delegators(s)
    BY <1>3, <1>4
  <2>3. QED
    BY <2>1, <2>2
<1>9. QED
  BY <1>1, <1>5, <1>6, <1>7, <1>8

\* Delegating, re-delegating and revoking keep every count exact.
LEMMA CountsStep ==
    ASSUME TypeOK, DelegationsCounted, [Next]_vars
    PROVE  DelegationsCounted'
<1>1. LedgerTypeOK /\ ZeroAddress \notin Coops
  BY AddressesDiffer DEF TypeOK
<1>2. ASSUME NEW m \in Coops, NEW n \in Coops, delegate(m, n)
      PROVE  DelegationsCounted'
  <2>1. delegation' = [delegation EXCEPT ![m] = n]
    BY <1>2 DEF delegate
  <2>2. ASSUME NEW s \in Coops
        PROVE  receivedDelegations'[s] = Cardinality(delegators(s)')
    <3>1. receivedDelegations[s] = Cardinality(delegators(s))
      BY DEF DelegationsCounted
    <3>2. receivedDelegations' = [released(m) EXCEPT ![n] = @ + 1]
      BY <1>2 DEF delegate
    <3>3. receivedDelegations'[s] = IF n = s THEN released(m)[s] + 1 ELSE released(m)[s]
      BY <1>1, <3>2 DEF released, LedgerTypeOK
    <3>4. released(m)[s] = IF delegation[m] = s THEN receivedDelegations[s] - 1
                                                ELSE receivedDelegations[s]
      BY <1>1 DEF released, LedgerTypeOK
    <3>5. /\ Cardinality(delegators(s)) \in Nat
          /\ n = s /\ delegation[m] # s =>
                 Cardinality(delegators(s)') = Cardinality(delegators(s)) + 1
          /\ n # s /\ delegation[m] = s =>
                 Cardinality(delegators(s)') = Cardinality(delegators(s)) - 1
          /\ (n = s <=> delegation[m] = s) =>
                 Cardinality(delegators(s)') = Cardinality(delegators(s))
      <4>1. n \in Coops \cup {ZeroAddress}
        OBVIOUS
      <4>2. QED
        BY <1>1, <2>1, <4>1, RepointCounts
    <3>6. CASE n = s
      BY <3>1, <3>3, <3>4, <3>5, <3>6
    <3>7. CASE n # s
      BY <3>1, <3>3, <3>4, <3>5, <3>7
    <3>8. QED
      BY <3>6, <3>7
  <2>3. QED
    BY <2>2 DEF DelegationsCounted
<1>3. ASSUME NEW m \in Coops, revokeDelegation(m)
      PROVE  DelegationsCounted'
  <2>1. delegation' = [delegation EXCEPT ![m] = ZeroAddress]
    BY <1>3 DEF revokeDelegation
  <2>2. ASSUME NEW s \in Coops
        PROVE  receivedDelegations'[s] = Cardinality(delegators(s)')
    <3>1. receivedDelegations[s] = Cardinality(delegators(s)) /\ s # ZeroAddress
      BY <1>1 DEF DelegationsCounted
    <3>2. receivedDelegations'[s] = IF delegation[m] = s THEN receivedDelegations[s] - 1
                                                         ELSE receivedDelegations[s]
      BY <1>1, <1>3 DEF revokeDelegation, released, LedgerTypeOK
    <3>3. /\ Cardinality(delegators(s)) \in Nat
          /\ delegation[m] = s =>
                 Cardinality(delegators(s)') = Cardinality(delegators(s)) - 1
          /\ delegation[m] # s =>
                 Cardinality(delegators(s)') = Cardinality(delegators(s))
      <4>1. ZeroAddress \in Coops \cup {ZeroAddress}
        OBVIOUS
      <4>2. QED
        BY <1>1, <2>1, <3>1, <4>1, RepointCounts
    <3>4. CASE delegation[m] = s
      BY <3>1, <3>2, <3>3, <3>4
    <3>5. CASE delegation[m] # s
      BY <3>1, <3>2, <3>3, <3>5
    <3>6. QED
      BY <3>4, <3>5
  <2>3. QED
    BY <2>2 DEF DelegationsCounted
<1>4. CASE UNCHANGED delegationVars
  BY <1>4 DEF delegationVars, DelegationsCounted, delegators
<1>5. QED
  BY <1>2, <1>3, <1>4
  DEF Next, MemberNext, OracleNext, emergencyVeto, updateImpactScores, updateFiatReserve,
      updateTotalEscrow, registerMember, setThreshold, proposeOracle, acceptOracle,
      triggerEmergencyCircuitBreaker, resetEmergencyCircuitBreaker, vars, ledgerVars

(***************************************************************************)
(* Every steward's running count is the number of its delegators.          *)
(***************************************************************************)
THEOREM CountsExact == Spec => []DelegationsCounted
<1>1. Init => DelegationsCounted
  <2> SUFFICES ASSUME Init, NEW s \in Coops
               PROVE  receivedDelegations[s] = Cardinality(delegators(s))
    BY DEF DelegationsCounted
  <2>1. delegators(s) = {}
    BY AddressesDiffer DEF Init, LedgerInit, delegators
  <2>2. QED
    BY <2>1, FS_EmptySet DEF Init, LedgerInit
<1>2. TypeOK /\ DelegationsCounted /\ [Next]_vars => DelegationsCounted'
  BY CountsStep
<1>3. QED
  BY <1>1, <1>2, TypeCorrect, PTL DEF Spec

(***************************************************************************)
(* revoke() never meets the underflow check: a member that delegates finds *)
(* its steward's count above zero, so what is left of revoke's guard is    *)
(* that there is something to revoke.                                      *)
(***************************************************************************)
THEOREM RevokeNeverUnderflows == Spec => [](\A m \in Coops : releasable(m))
<1>1. TypeOK /\ DelegationsCounted => \A m \in Coops : releasable(m)
  <2> SUFFICES ASSUME TypeOK, DelegationsCounted, NEW m \in Coops,
                      delegation[m] # ZeroAddress
               PROVE  receivedDelegations[delegation[m]] > 0
    BY DEF releasable
  <2>1. PICK s \in Coops : delegation[m] = s
    BY DEF TypeOK, LedgerTypeOK
  <2>2. m \in delegators(s) /\ IsFiniteSet(delegators(s))
    BY <2>1, LedgerAssumption, FS_Subset DEF delegators
  <2>3. Cardinality(delegators(s)) \in Nat /\ Cardinality(delegators(s)) # 0
    BY <2>2, FS_CardinalityType, FS_EmptySet
  <2>4. QED
    BY <2>1, <2>3 DEF DelegationsCounted
<1>2. QED
  BY <1>1, TypeCorrect, CountsExact, PTL

-----------------------------------------------------------------------------
(***************************************************************************)
(* Oracle rotation.  While a candidate waits, it is the one named last and *)
(* its clock started when it was named.                                    *)
(***************************************************************************)
CandidateOnNotice ==
    pendingOracle # ZeroAddress =>
        /\ notice.who = pendingOracle
        /\ pendingOracleActivation = notice.at + OracleTimelock

\* The clock belongs to the pending candidate, and the oracle changes to no other.
LEMMA NoticeStep ==
    ASSUME TypeOK, CandidateOnNotice, [Next]_vars
    PROVE  /\ CandidateOnNotice'
           /\ oracle' # oracle => /\ oracle' = notice.who
                                  /\ now >= notice.at + OracleTimelock
<1> USE DEF CandidateOnNotice
<1>1. ASSUME NEW sender, NEW o \in Safes, proposeOracle(sender, o)
      PROVE  CandidateOnNotice' /\ oracle' = oracle
  BY <1>1 DEF proposeOracle
<1>2. ASSUME NEW sender \in Accounts, acceptOracle(sender)
      PROVE  /\ CandidateOnNotice'
             /\ oracle' = notice.who /\ now >= notice.at + OracleTimelock
  BY <1>2, AddressesDiffer DEF acceptOracle, Accounts
<1>3. CASE UNCHANGED oracleVars
  BY <1>3 DEF oracleVars
<1>4. QED
  BY <1>1, <1>2, <1>3
  DEF Next, MemberNext, OracleNext, delegate, revokeDelegation, emergencyVeto,
      updateImpactScores, updateFiatReserve, updateTotalEscrow, registerMember,
      setThreshold, triggerEmergencyCircuitBreaker, resetEmergencyCircuitBreaker,
      vars, ledgerVars

(***************************************************************************)
(* The oracle role goes only to the candidate named last, after the whole  *)
(* of its notice.                                                          *)
(***************************************************************************)
THEOREM OracleRotates == Spec => OracleChangesOnNotice
<1>1. Init => CandidateOnNotice
  BY DEF Init, LedgerInit, CandidateOnNotice
<1>2. TypeOK /\ CandidateOnNotice /\ [Next]_vars => CandidateOnNotice'
  BY NoticeStep
<1>3. TypeOK /\ CandidateOnNotice /\ [Next]_vars =>
          [oracle' # oracle => /\ oracle' = notice.who
                               /\ now >= notice.at + OracleTimelock]_vars
  BY NoticeStep
<1>4. QED
  BY <1>1, <1>2, <1>3, TypeCorrect, PTL DEF Spec, OracleChangesOnNotice

-----------------------------------------------------------------------------
(***************************************************************************)
(* The emergency stop, as far as the guards decide it.  The product of the *)
(* event fits wherever a delegation's own check lets it through, so the    *)
(* breaker can be tripped there; and once it is tripped, with a reserve on *)
(* record, that check lets none through, however large the reserve.        *)
(***************************************************************************)
THEOREM EmergencyStops ==
    Spec => [](/\ breakerAllows => reserveFits
               /\ totalEscrowValue = MaxUint /\ fiatReserveValue # 0 => ~breakerAllows)
<1>1. ASSUME TypeOK
      PROVE  /\ breakerAllows => reserveFits
             /\ totalEscrowValue = MaxUint /\ fiatReserveValue # 0 => ~breakerAllows
  <2>1. /\ fiatReserveValue \in Nat /\ totalEscrowValue \in Nat /\ solvencyFactorBps \in Nat
        /\ MaxUint \in Nat \ {0} /\ Bps \in Nat \ {0, 1}
    BY <1>1, LedgerAssumption DEF TypeOK, LedgerTypeOK
  <2> DEFINE product == fiatReserveValue * solvencyFactorBps
  <2>2. product \in Nat /\ (fiatReserveValue = 0 => product = 0)
    BY <2>1
  <2>3. breakerAllows => reserveFits
    BY <2>1, <2>2 DEF breakerAllows, reserveFits
  <2>4. ASSUME product <= MaxUint PROVE product \div Bps < MaxUint
    <3> HIDE DEF product
    <3>1. product \div Bps <= product \div 2 /\ product \div Bps \in Nat
      <4>1. Bps \in Nat \ {0} /\ 2 <= Bps /\ 2 \in Nat \ {0}
        BY <2>1
      <4>2. QED
        BY <2>2, <4>1, QuotientShrinks, Division
    <3>2. product \div 2 < MaxUint
      BY <2>1, <2>2, <2>4
    <3>3. QED
      BY <2>1, <2>2, <3>1, <3>2
  <2>5. totalEscrowValue = MaxUint /\ fiatReserveValue # 0 => ~breakerAllows
    <3>1. product \div Bps \in Nat
      <4> HIDE DEF product
      <4>1. QED
        BY <2>1, <2>2, Division
    <3>2. QED
      BY <2>1, <2>4, <3>1 DEF breakerAllows, reserveFits, reserveThreshold
  <2>6. QED
    BY <2>3, <2>5
<1>2. QED
  BY <1>1, TypeCorrect, PTL
=============================================================================
