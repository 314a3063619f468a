-------------------------- MODULE ForeignReputation --------------------------
(***************************************************************************)
(* contracts/src/governance/ForeignReputation.sol: scores of foreign       *)
(* co-ops, which decay as time passes, and the tiers they buy.  The oracle *)
(* keeps the scores; any member of CoopIdentity may force a co-op into     *)
(* quarantine.  The oracle is frsOracle in Deploy.s.sol; names the         *)
(* StewardshipLedger has too carry that prefix here.                       *)
(***************************************************************************)
EXTENDS CoopIdentity, ScoreDecay

CONSTANTS
    Sdcs,             \* foreign co-ops
    MaxScore,         \* MAX_SCORE, 10000
    MaxDelta,         \* MAX_DELTA_PER_TX, 500
    DeadAfter,        \* full half-lives after which nothing is left, 13 in the code
    InitialScores,    \* values given to registerSDC
    Deltas,           \* values given to recordTransaction
    TierThresholds,   \* <<quarantine, provisional, trusted>> given to setTierThresholds
    InitialTiers,     \* those of the constructor
    HalfLives,        \* values given to setDecayHalfLife
    DefaultHalfLife,  \* DEFAULT_HALF_LIFE, 30 days
    FrsTimelock       \* ORACLE_TIMELOCK, 48 hours

ASSUME ReputationAssumption ==
    /\ MaxScore \in Nat /\ MaxDelta \in Nat
    /\ DeadAfter \in 1..13
    /\ InitialScores \subseteq Nat /\ Deltas \subseteq Int
    /\ TierThresholds \subseteq Nat \X Nat \X Nat
    /\ InitialTiers \in Nat \X Nat \X Nat
    /\ InitialTiers[1] < InitialTiers[2] /\ InitialTiers[2] < InitialTiers[3]
    /\ InitialTiers[3] <= MaxScore
    /\ HalfLives \subseteq Nat /\ DefaultHalfLife \in Nat \ {0}
    /\ FrsTimelock \in Nat \ {0}

VARIABLES
    profiles,         \* rawScore, lastUpdated, registered, forceQuarantined
    frsOracle,
    frsPending,       \* pendingOracle
    frsActivation,    \* pendingOracleActivation
    tiers,            \* the three thresholds
    decayHalfLife

reputationVars == << profiles, frsOracle, frsPending, frsActivation, tiers, decayHalfLife >>
frsVars == << now, identityVars, reputationVars >>

Unregistered == [rawScore |-> 0, lastUpdated |-> 0, registered |-> FALSE, forceQuarantined |-> FALSE]

ReputationInit ==
    /\ profiles = [d \in Sdcs |-> Unregistered]
    /\ frsOracle = StewardSafe
    /\ frsPending = ZeroAddress
    /\ frsActivation = 0
    /\ tiers = InitialTiers
    /\ decayHalfLife = DefaultHalfLife

onlyFrsOracle(sender) == sender = frsOracle

computeDecayedScore(rawScore, elapsed, halfLife) ==
    decayedScore(rawScore, elapsed, halfLife, DeadAfter)

scoreTier(score, quarantined) ==
    IF quarantined \/ score < tiers[1] THEN 0
    ELSE IF score < tiers[2] THEN 1 ELSE IF score < tiers[3] THEN 2 ELSE 3

getCurrentScore(d) ==
    computeDecayedScore(profiles[d].rawScore, now - profiles[d].lastUpdated, decayHalfLife)

getCurrentTier(d) == scoreTier(getCurrentScore(d), profiles[d].forceQuarantined)

registerSDC(sender, d, initialScore) ==
    /\ onlyFrsOracle(sender)
    /\ ~profiles[d].registered
    /\ initialScore <= MaxScore
    /\ profiles' = [profiles EXCEPT ![d] =
                      [rawScore |-> initialScore, lastUpdated |-> now,
                       registered |-> TRUE, forceQuarantined |-> FALSE]]
    /\ UNCHANGED << now, identityVars, frsOracle, frsPending, frsActivation, tiers, decayHalfLife >>

clamped(score) == IF score < 0 THEN 0 ELSE IF score > MaxScore THEN MaxScore ELSE score

\* What is left by now is written back with the change: decay starts anew from here.
recordTransaction(sender, d, scoreDelta) ==
    /\ onlyFrsOracle(sender)
    /\ profiles[d].registered
    /\ scoreDelta <= MaxDelta /\ -scoreDelta <= MaxDelta
    /\ profiles' = [profiles EXCEPT ![d].rawScore = clamped(getCurrentScore(d) + scoreDelta),
                                    ![d].lastUpdated = now]
    /\ UNCHANGED << now, identityVars, frsOracle, frsPending, frsActivation, tiers, decayHalfLife >>

\* Any member, alone.
forceQuarantine(sender, d) ==
    /\ balances[sender] # 0
    /\ profiles[d].registered
    /\ profiles' = [profiles EXCEPT ![d].forceQuarantined = TRUE]
    /\ UNCHANGED << now, identityVars, frsOracle, frsPending, frsActivation, tiers, decayHalfLife >>

liftQuarantine(sender, d) ==
    /\ onlyFrsOracle(sender)
    /\ profiles[d].registered
    /\ profiles' = [profiles EXCEPT ![d].forceQuarantined = FALSE]
    /\ UNCHANGED << now, identityVars, frsOracle, frsPending, frsActivation, tiers, decayHalfLife >>

proposeFrsOracle(sender, newOracle) ==
    /\ onlyFrsOracle(sender)
    /\ newOracle # ZeroAddress
    /\ frsPending' = newOracle
    /\ frsActivation' = now + FrsTimelock
    /\ UNCHANGED << now, identityVars, profiles, frsOracle, tiers, decayHalfLife >>

acceptFrsOracle(sender) ==
    /\ sender = frsPending
    /\ now >= frsActivation
    /\ frsOracle' = frsPending
    /\ frsPending' = ZeroAddress
    /\ frsActivation' = 0
    /\ UNCHANGED << now, identityVars, profiles, tiers, decayHalfLife >>

setTierThresholds(sender, t) ==
    /\ onlyFrsOracle(sender)
    /\ t[1] < t[2] /\ t[2] < t[3] /\ t[3] <= MaxScore
    /\ tiers' = t
    /\ UNCHANGED << now, identityVars, profiles, frsOracle, frsPending, frsActivation, decayHalfLife >>

setDecayHalfLife(sender, newHalfLife) ==
    /\ onlyFrsOracle(sender)
    /\ newHalfLife # 0
    /\ decayHalfLife' = newHalfLife
    /\ UNCHANGED << now, identityVars, profiles, frsOracle, frsPending, frsActivation, tiers >>

ReputationNext(sender) ==
    \/ \E d \in Sdcs : \/ \E score \in InitialScores : registerSDC(sender, d, score)
                       \/ \E delta \in Deltas : recordTransaction(sender, d, delta)
                       \/ sender \in Coops /\ forceQuarantine(sender, d)
                       \/ liftQuarantine(sender, d)
    \/ \E s \in Safes : proposeFrsOracle(sender, s)
    \/ acceptFrsOracle(sender)
    \/ \E t \in TierThresholds : setTierThresholds(sender, t)
    \/ \E h \in HalfLives : setDecayHalfLife(sender, h)

FrsInit == ChainInit /\ IdentityInit /\ ReputationInit

FrsNext ==
    \/ Tick /\ UNCHANGED << identityVars, reputationVars >>
    \/ /\ \E sender \in Accounts, a \in Coops : attest(sender, a) \/ revoke(sender, a)
       /\ UNCHANGED << now, reputationVars >>
    \/ \E sender \in Accounts : ReputationNext(sender)

FrsSpec == FrsInit /\ [][FrsNext]_frsVars

-----------------------------------------------------------------------------
(***************************************************************************)
(* Nobody becomes more trusted by waiting, across the seams of the         *)
(* half-lives and the rounding in between: a registered co-op's score      *)
(* rises only by a transaction or a longer half-life, its tier only with   *)
(* its score, by lower thresholds or when a quarantine ends, and never     *)
(* while a quarantine lasts.                                               *)
(***************************************************************************)
TrustIsEarned ==
    [][\A d \in Sdcs : profiles[d].registered =>
         /\ getCurrentScore(d)' > getCurrentScore(d) =>
              \/ now' = now /\ profiles'[d].lastUpdated = now
              \/ decayHalfLife' # decayHalfLife
         /\ getCurrentTier(d)' > getCurrentTier(d) =>
              /\ ~profiles'[d].forceQuarantined
              /\ \/ getCurrentScore(d)' > getCurrentScore(d)
                 \/ tiers' # tiers
                 \/ profiles[d].forceQuarantined]_frsVars
=============================================================================
