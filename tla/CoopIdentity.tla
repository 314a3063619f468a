---------------------------- MODULE CoopIdentity ----------------------------
(***************************************************************************)
(* contracts/src/CoopIdentity.sol: the soulbound membership token (SBT).   *)
(* One token per address, minted and burned by the steward; the token      *)
(* carries the trust score that the arbitration court slashes.             *)
(*                                                                         *)
(* DIDs, roles, URIs, joinedAt and the ERC-165 views are left out: nothing *)
(* branches on them. uint16 arithmetic cannot wrap here: scores stay at or *)
(* below FullTrust and the compiler's checked arithmetic reverts.          *)
(***************************************************************************)
EXTENDS Chain

CONSTANTS
    Vouched,         \* addresses the BrightID verifier vouches for (external);
                     \* all of Coops when no verifier is configured
    FullTrust,       \* the score of a fresh member: 1000 in the code
    Points,          \* penalties and restorations offered as inputs
    Constitutions,   \* Constitution contracts that may be wired
    MaxTokens        \* bound: tokens ever minted

ASSUME IdentityAssumption ==
    /\ FullTrust \in Nat
    /\ Points \subseteq Nat
    /\ MaxTokens \in Nat
    /\ Vouched \subseteq Coops
    /\ ZeroAddress \notin Constitutions

TokenId == 1..MaxTokens

VARIABLES
    memberToken,      \* address -> its token, 0 when not a member
    owners,           \* _owners: token -> address, ZeroAddress when burned
    balances,         \* _balances: what the other contracts' member checks read
    memberRecords,    \* token -> [active, trustScore]
    nextTokenId,      \* _nextTokenId
    steward,
    identityRegistry, \* arbitrationRegistry, the one caller of slashTrust
    constitution

identityVars == << memberToken, owners, balances, memberRecords, nextTokenId,
                   steward, identityRegistry, constitution >>

NoRecord == [active |-> FALSE, trustScore |-> 0]

IdentityInit ==
    /\ memberToken = [a \in Coops |-> 0]
    /\ owners = [t \in TokenId |-> ZeroAddress]
    /\ balances = [a \in Coops |-> 0]
    /\ memberRecords = [t \in TokenId |-> NoRecord]
    /\ nextTokenId = 1
    /\ steward = StewardSafe
    /\ identityRegistry = ZeroAddress
    /\ constitution = ZeroAddress

onlySteward(sender) == sender = steward

isMember(a) == memberToken[a] # 0

attest(sender, to) ==
    /\ onlySteward(sender)
    /\ ~isMember(to)
    /\ to \in Vouched
    /\ nextTokenId \in TokenId                        \* bound
    /\ nextTokenId' = nextTokenId + 1
    /\ owners' = [owners EXCEPT ![nextTokenId] = to]
    /\ balances' = [balances EXCEPT ![to] = 1]
    /\ memberToken' = [memberToken EXCEPT ![to] = nextTokenId]
    /\ memberRecords' = [memberRecords EXCEPT ![nextTokenId] =
                            [active |-> TRUE, trustScore |-> FullTrust]]
    /\ UNCHANGED << steward, identityRegistry, constitution >>

\* Variant of revoke that leaves the balance behind.
revokeKeepingBalance(sender, from) ==
    /\ onlySteward(sender)
    /\ isMember(from)
    /\ memberRecords' = [memberRecords EXCEPT ![memberToken[from]].active = FALSE]
    /\ owners' = [owners EXCEPT ![memberToken[from]] = ZeroAddress]
    /\ memberToken' = [memberToken EXCEPT ![from] = 0]
    /\ UNCHANGED << balances, nextTokenId, steward, identityRegistry, constitution >>

\* Variant of revoke that clears the whole record, the score with it.
revokeClearingRecord(sender, from) ==
    /\ onlySteward(sender)
    /\ isMember(from)
    /\ memberRecords' = [memberRecords EXCEPT ![memberToken[from]] = NoRecord]
    /\ owners' = [owners EXCEPT ![memberToken[from]] = ZeroAddress]
    /\ balances' = [balances EXCEPT ![from] = 0]
    /\ memberToken' = [memberToken EXCEPT ![from] = 0]
    /\ UNCHANGED << nextTokenId, steward, identityRegistry, constitution >>

revoke(sender, from) ==
    /\ onlySteward(sender)
    /\ isMember(from)
    /\ memberRecords' = [memberRecords EXCEPT ![memberToken[from]].active = FALSE]
    /\ owners' = [owners EXCEPT ![memberToken[from]] = ZeroAddress]
    /\ balances' = [balances EXCEPT ![from] = 0]
    /\ memberToken' = [memberToken EXCEPT ![from] = 0]
    /\ UNCHANGED << nextTokenId, steward, identityRegistry, constitution >>

\* Variant of slashAllowed that lets a score wrap below zero.
slashUnchecked(sender, recs, member, penalty) ==
    /\ sender = identityRegistry
    /\ isMember(member)

\* slashTrust as the nested call it always is: what it does to a set of
\* records, and when it goes through.
slashAllowed(sender, recs, member, penalty) ==
    /\ sender = identityRegistry
    /\ isMember(member)
    /\ penalty <= recs[memberToken[member]].trustScore

slashTrust(recs, member, penalty) ==
    [recs EXCEPT ![memberToken[member]].trustScore = @ - penalty]

restoreTrust(sender, member, restoration) ==
    /\ onlySteward(sender)
    /\ isMember(member)
    /\ memberRecords' = [memberRecords EXCEPT ![memberToken[member]].trustScore =
                            IF @ + restoration > FullTrust THEN FullTrust
                                                           ELSE @ + restoration]
    /\ UNCHANGED << memberToken, owners, balances, nextTokenId,
                    steward, identityRegistry, constitution >>

setIdentityRegistry(sender, registry) ==
    /\ onlySteward(sender)
    /\ registry # ZeroAddress
    /\ identityRegistry' = registry
    /\ UNCHANGED << memberToken, owners, balances, memberRecords, nextTokenId,
                    steward, constitution >>

setConstitution(sender, c) ==
    /\ onlySteward(sender)
    /\ c # ZeroAddress
    /\ constitution = ZeroAddress
    /\ constitution' = c
    /\ UNCHANGED << memberToken, owners, balances, memberRecords, nextTokenId,
                    steward, identityRegistry >>

transferSteward(sender, newSteward) ==
    /\ onlySteward(sender)
    /\ newSteward # ZeroAddress
    /\ steward' = newSteward
    /\ UNCHANGED << memberToken, owners, balances, memberRecords, nextTokenId,
                    identityRegistry, constitution >>

\* The transactions sent straight to CoopIdentity; slashTrust and the court's
\* restoreTrust reach it from ArbitrationRegistry.
IdentityNext ==
    \E sender \in Accounts :
        \/ \E a \in Coops : attest(sender, a)
        \/ \E a \in Coops : revoke(sender, a)
        \/ \E a \in Coops, p \in Points : restoreTrust(sender, a, p)
        \/ setIdentityRegistry(sender, RegistryContract)
        \/ \E c \in Constitutions : setConstitution(sender, c)
        \/ \E s \in Safes : transferSteward(sender, s)

-----------------------------------------------------------------------------
MemberRecord == [active : BOOLEAN, trustScore : 0..FullTrust]

IdentityTypeOK ==
    /\ memberToken \in [Coops -> 0..MaxTokens]
    /\ owners \in [TokenId -> Coops \cup {ZeroAddress}]
    /\ balances \in [Coops -> 0..1]
    /\ memberRecords \in [TokenId -> MemberRecord]
    /\ nextTokenId \in 1..(MaxTokens + 1)
    /\ steward \in Safes
    /\ identityRegistry \in {ZeroAddress, RegistryContract}
    /\ constitution \in Constitutions \cup {ZeroAddress}

(***************************************************************************)
(* One human, one token, one vote: the four maps that record a membership  *)
(* agree after any interleaving of attest, revoke and re-attest.  The      *)
(* contracts that gate on membership read different ones (MACIVoting and   *)
(* StewardshipLedger read balanceOf, InternalPayroll and the court read    *)
(* memberToken), so a disagreement would make one person a member to some  *)
(* of them only.                                                           *)
(***************************************************************************)
MembershipAgrees ==
    /\ \A a \in Coops : balances[a] = IF isMember(a) THEN 1 ELSE 0
    /\ \A a \in Coops : isMember(a) => owners[memberToken[a]] = a
    /\ \A t \in TokenId : owners[t] # ZeroAddress => memberToken[owners[t]] = t
    /\ \A t \in TokenId : memberRecords[t].active <=> owners[t] # ZeroAddress
    /\ \A t \in TokenId : t >= nextTokenId => owners[t] = ZeroAddress
=============================================================================
