--------------------------- MODULE IdentityProofs ---------------------------
(***************************************************************************)
(* Lemmas about CoopIdentity that the proofs of every specification built  *)
(* on it use.                                                              *)
(***************************************************************************)
EXTENDS CoopIdentity, TLAPS

\* Restoring, whoever the steward is, caps at FullTrust.
LEMMA RestoreTypeStep ==
    ASSUME IdentityTypeOK, NEW sender, NEW a \in Coops, NEW p \in Points,
           restoreTrust(sender, a, p)
    PROVE  IdentityTypeOK'
<1> USE IdentityAssumption
<1> DEFINE t == memberToken[a]
           score == IF memberRecords[t].trustScore + p > FullTrust
                    THEN FullTrust ELSE memberRecords[t].trustScore + p
<1>1. t \in TokenId
  BY DEF restoreTrust, isMember, IdentityTypeOK, TokenId
<1>2. memberRecords[t] \in MemberRecord /\ p \in Nat
  BY <1>1 DEF IdentityTypeOK
<1>3. score \in 0..FullTrust
  BY <1>2 DEF MemberRecord
<1>4. memberRecords' = [memberRecords EXCEPT ![t].trustScore = score]
  BY DEF restoreTrust
<1> HIDE DEF t, score
<1>5. memberRecords' \in [TokenId -> MemberRecord]
  BY <1>1, <1>3, <1>4 DEF IdentityTypeOK, MemberRecord
<1>6. QED
  BY <1>5 DEF restoreTrust, IdentityTypeOK

\* Every transaction sent to CoopIdentity keeps its state well typed.
LEMMA IdentityTypeStep ==
    ASSUME IdentityTypeOK, IdentityNext
    PROVE  IdentityTypeOK'
<1> USE IdentityAssumption
<1>1. PICK sender \in Accounts :
        \/ \E a \in Coops : attest(sender, a)
        \/ \E a \in Coops : revoke(sender, a)
        \/ \E a \in Coops, p \in Points : restoreTrust(sender, a, p)
        \/ setIdentityRegistry(sender, RegistryContract)
        \/ \E c \in Constitutions : setConstitution(sender, c)
        \/ \E s \in Safes : transferSteward(sender, s)
  BY DEF IdentityNext
<1>2. ASSUME NEW a \in Coops, attest(sender, a)
      PROVE  IdentityTypeOK'
  <2>1. [active |-> TRUE, trustScore |-> FullTrust] \in MemberRecord
    BY DEF MemberRecord
  <2>2. nextTokenId \in TokenId
    BY <1>2 DEF attest
  <2>3. memberRecords' \in [TokenId -> MemberRecord]
    BY <1>2, <2>1, <2>2 DEF attest, IdentityTypeOK
  <2>4. nextTokenId' \in 1..(MaxTokens + 1) /\ nextTokenId \in 0..MaxTokens
    BY <1>2, <2>2 DEF attest, IdentityTypeOK, TokenId
  <2>5. memberToken' \in [Coops -> 0..MaxTokens] /\ balances' \in [Coops -> 0..1]
    BY <1>2, <2>4 DEF attest, IdentityTypeOK
  <2>6. owners' \in [TokenId -> Coops \cup {ZeroAddress}]
    BY <1>2, <2>2 DEF attest, IdentityTypeOK
  <2>7. QED
    BY <1>2, <2>3, <2>4, <2>5, <2>6 DEF attest, IdentityTypeOK
<1>3. ASSUME NEW a \in Coops, revoke(sender, a)
      PROVE  IdentityTypeOK'
  <2>1. memberToken[a] \in TokenId
    BY <1>3 DEF revoke, isMember, IdentityTypeOK, TokenId
  <2>2. memberRecords' \in [TokenId -> MemberRecord]
    BY <1>3, <2>1 DEF revoke, IdentityTypeOK, MemberRecord
  <2>3. owners' \in [TokenId -> Coops \cup {ZeroAddress}]
    BY <1>3, <2>1 DEF revoke, IdentityTypeOK
  <2>4. memberToken' \in [Coops -> 0..MaxTokens] /\ balances' \in [Coops -> 0..1]
    BY <1>3 DEF revoke, IdentityTypeOK
  <2>5. QED
    BY <1>3, <2>2, <2>3, <2>4 DEF revoke, IdentityTypeOK
<1>4. ASSUME NEW a \in Coops, NEW p \in Points, restoreTrust(sender, a, p)
      PROVE  IdentityTypeOK'
  BY <1>4, RestoreTypeStep
<1>5. CASE setIdentityRegistry(sender, RegistryContract)
  BY <1>5 DEF setIdentityRegistry, IdentityTypeOK
<1>6. ASSUME NEW c \in Constitutions, setConstitution(sender, c)
      PROVE  IdentityTypeOK'
  BY <1>6 DEF setConstitution, IdentityTypeOK
<1>7. ASSUME NEW s \in Safes, transferSteward(sender, s)
      PROVE  IdentityTypeOK'
  BY <1>7 DEF transferSteward, IdentityTypeOK
<1>8. QED
  BY <1>1, <1>2, <1>3, <1>4, <1>5, <1>6, <1>7
=============================================================================
