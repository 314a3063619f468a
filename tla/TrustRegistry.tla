---------------------------- MODULE TrustRegistry ----------------------------
(***************************************************************************)
(* contracts/src/governance/TrustRegistry.sol: the keys of the issuers of  *)
(* credentials that members trust.  Any member of CoopIdentity registers a *)
(* key, and any member revokes one, whoever registered it.  Names, DIDs    *)
(* and times are left out.                                                 *)
(***************************************************************************)
EXTENDS CoopIdentity, Sequences, FiniteSets

CONSTANT Fingerprints     \* hashes of public keys

ASSUME FingerprintAssumption == IsFiniteSet(Fingerprints)

VARIABLES
    issuers,              \* a key's record: None before, then "active" or "revoked"
    allFingerprints,      \* the keys ever registered, in order
    activeCount

registryVars == << issuers, allFingerprints, activeCount >>
trustVars == << now, identityVars, registryVars >>

Unknown == "unknown"

RegistryInit ==
    /\ issuers = [k \in Fingerprints |-> Unknown]
    /\ allFingerprints = << >>
    /\ activeCount = 0

onlyTrustingMember(sender) == sender \in Coops /\ balances[sender] # 0

\* Variant of isNew that takes every key without trust for a new one.
isUntrusted(k) == issuers[k] # "active"

isNew(k) == issuers[k] = Unknown

\* A revoked key may be trusted anew; it keeps its place in the list.
registerIssuer(sender, k) ==
    /\ onlyTrustingMember(sender)
    /\ issuers[k] # "active"
    /\ issuers' = [issuers EXCEPT ![k] = "active"]
    /\ allFingerprints' = IF isNew(k) THEN Append(allFingerprints, k) ELSE allFingerprints
    /\ activeCount' = activeCount + 1
    /\ UNCHANGED << now, identityVars >>

revokeIssuer(sender, k) ==
    /\ onlyTrustingMember(sender)
    /\ issuers[k] = "active"
    /\ issuers' = [issuers EXCEPT ![k] = "revoked"]
    /\ activeCount' = activeCount - 1
    /\ UNCHANGED << now, identityVars, allFingerprints >>

\* What getActiveIssuers writes into an array of activeCount places.
Listed == { i \in DOMAIN allFingerprints : issuers[allFingerprints[i]] = "active" }

RegistryNext(sender) ==
    \E k \in Fingerprints : registerIssuer(sender, k) \/ revokeIssuer(sender, k)

TrustInit == ChainInit /\ IdentityInit /\ RegistryInit

TrustNext ==
    \/ Tick /\ UNCHANGED << identityVars, registryVars >>
    \/ /\ \E sender \in Accounts, a \in Coops : attest(sender, a) \/ revoke(sender, a)
       /\ UNCHANGED << now, registryVars >>
    \/ \E sender \in Accounts : RegistryNext(sender)

TrustSpec == TrustInit /\ [][TrustNext]_trustVars

-----------------------------------------------------------------------------
(***************************************************************************)
(* getActiveIssuers fits its array exactly: the list holds as many active  *)
(* keys as are counted, whatever was registered, revoked and trusted anew, *)
(* by members that came and went.  With fewer places it reverts for ever,  *)
(* with more it answers with empty keys.                                   *)
(***************************************************************************)
ActiveIssuersFit == activeCount = Cardinality(Listed)
=============================================================================
