------------------------ MODULE ArbitrationRegistry ------------------------
(***************************************************************************)
(* contracts/src/ArbitrationRegistry.sol composed with the two contracts   *)
(* it calls: IskanderEscrow, which pays out its verdicts, and CoopIdentity,*)
(* whose trust scores they slash.  recordVerdict spans all three contracts *)
(* in one transaction, so a refusal anywhere undoes it everywhere.         *)
(*                                                                         *)
(* Case hashes and CIDs are left out; recordedAt is kept as `opened', the  *)
(* test the code makes of it.                                              *)
(***************************************************************************)
EXTENDS CoopIdentity, IskanderEscrow

CONSTANTS
    Outcomes,        \* VerdictOutcome: recorded with a verdict, never branched on
    MaxCases         \* bound: cases ever opened

ASSUME CourtAssumption ==
    /\ MaxCases \in Nat
    /\ "Dismissed" \in Outcomes                 \* the default of an open case

CaseId == 1..MaxCases

VARIABLES
    cases,           \* case id -> ArbitrationCase
    escrowToCase,    \* escrow id -> case id, 0 when no case was opened
    nextCaseId       \* _nextCaseId

courtVars == << cases, escrowToCase, nextCaseId >>
vars == << now, identityVars, escrowVars, courtVars >>

operator == StewardSafe              \* set by the constructor, never changed

NoCase == [escrowId |-> 0, outcome |-> "Dismissed", buyerAmount |-> 0,
           sellerAmount |-> 0, executed |-> FALSE, opened |-> FALSE]

CourtInit ==
    /\ cases = [c \in CaseId |-> NoCase]
    /\ escrowToCase = [id \in EscrowId |-> 0]
    /\ nextCaseId = 1

onlyOperator(sender) == sender = operator

\* Variant of openCase that opens a second case on the same escrow.
openCaseAgain(sender, id) ==
    /\ onlyOperator(sender)
    /\ nextCaseId \in CaseId
    /\ nextCaseId' = nextCaseId + 1
    /\ cases' = [cases EXCEPT ![nextCaseId] = [NoCase EXCEPT !.escrowId = id,
                                                             !.opened = TRUE]]
    /\ escrowToCase' = [escrowToCase EXCEPT ![id] = nextCaseId]
    /\ UNCHANGED << now, identityVars, escrowVars >>

openCase(sender, id) ==
    /\ onlyOperator(sender)
    /\ escrowToCase[id] = 0
    /\ nextCaseId \in CaseId                          \* bound
    /\ nextCaseId' = nextCaseId + 1
    /\ cases' = [cases EXCEPT ![nextCaseId] = [NoCase EXCEPT !.escrowId = id,
                                                             !.opened = TRUE]]
    /\ escrowToCase' = [escrowToCase EXCEPT ![id] = nextCaseId]
    /\ UNCHANGED << now, identityVars, escrowVars >>

\* _slashTrust: a party that holds no SBT is passed over, any other is slashed
\* or reverts the whole verdict.
slashSkipped(party, penalty) == penalty = 0 \/ ~isMember(party)

partySlashAllowed(recs, party, penalty) ==
    slashSkipped(party, penalty) \/ slashAllowed(RegistryContract, recs, party, penalty)

partySlash(recs, party, penalty) ==
    IF slashSkipped(party, penalty) THEN recs ELSE slashTrust(recs, party, penalty)

\* Variant of recordVerdict that pays the buyer's share to the seller and back.
recordVerdictSwapped(sender, c, outcome, buyerAmount, sellerAmount, buyerSlash, sellerSlash) ==
    LET id == cases[c].escrowId
        e == escrows[id]
        afterBuyer == partySlash(memberRecords, e.buyerCoop, buyerSlash)
    IN
    /\ onlyOperator(sender)
    /\ cases[c].opened
    /\ ~cases[c].executed
    /\ cases' = [cases EXCEPT ![c].outcome = outcome,
                              ![c].buyerAmount = buyerAmount,
                              ![c].sellerAmount = sellerAmount,
                              ![c].executed = TRUE]
    /\ executeVerdict(RegistryContract, id, sellerAmount, buyerAmount)
    /\ partySlashAllowed(memberRecords, e.buyerCoop, buyerSlash)
    /\ partySlashAllowed(afterBuyer, e.sellerCoop, sellerSlash)
    /\ memberRecords' = partySlash(afterBuyer, e.sellerCoop, sellerSlash)
    /\ UNCHANGED << now, escrowToCase, nextCaseId, memberToken, owners, balances,
                    nextTokenId, steward, identityRegistry, constitution >>

recordVerdict(sender, c, outcome, buyerAmount, sellerAmount, buyerSlash, sellerSlash) ==
    LET id == cases[c].escrowId
        e == escrows[id]
        afterBuyer == partySlash(memberRecords, e.buyerCoop, buyerSlash)
    IN
    /\ onlyOperator(sender)
    /\ cases[c].opened
    /\ ~cases[c].executed
    /\ cases' = [cases EXCEPT ![c].outcome = outcome,
                              ![c].buyerAmount = buyerAmount,
                              ![c].sellerAmount = sellerAmount,
                              ![c].executed = TRUE]
    /\ executeVerdict(RegistryContract, id, buyerAmount, sellerAmount)
    /\ partySlashAllowed(memberRecords, e.buyerCoop, buyerSlash)
    /\ partySlashAllowed(afterBuyer, e.sellerCoop, sellerSlash)
    /\ memberRecords' = partySlash(afterBuyer, e.sellerCoop, sellerSlash)
    /\ UNCHANGED << now, escrowToCase, nextCaseId, memberToken, owners, balances,
                    nextTokenId, steward, identityRegistry, constitution >>

\* restoreTrust: CoopIdentity sees this contract, not the operator, as sender.
registryRestoreTrust(sender, party, restoration) ==
    /\ onlyOperator(sender)
    /\ restoreTrust(RegistryContract, party, restoration)
    /\ UNCHANGED << now, escrowVars, courtVars >>

CourtNext ==
    \E sender \in Accounts :
        \/ \E id \in EscrowId : openCase(sender, id)
        \/ \E c \in CaseId, outcome \in Outcomes, pb, ps \in Points \cup {0} :
             \E b, s \in 0..Wealth :
               recordVerdict(sender, c, outcome, b, s, pb, ps)
        \/ \E a \in Coops, p \in Points : registryRestoreTrust(sender, a, p)

Init == ChainInit /\ IdentityInit /\ EscrowInit /\ CourtInit

Next ==
    \/ Tick /\ UNCHANGED << identityVars, escrowVars, courtVars >>
    \/ IdentityNext /\ UNCHANGED << now, escrowVars, courtVars >>
    \/ EscrowNext /\ UNCHANGED << now, identityVars, courtVars >>
    \/ CourtNext

Spec == Init /\ [][Next]_vars

-----------------------------------------------------------------------------
ArbitrationCase == [escrowId : EscrowId, outcome : Outcomes,
                    buyerAmount : Nat, sellerAmount : Nat,
                    executed : BOOLEAN, opened : {TRUE}]

TypeOK ==
    /\ now \in 1..MaxTime
    /\ IdentityTypeOK
    /\ EscrowTypeOK
    /\ cases \in [CaseId -> ArbitrationCase \cup {NoCase}]
    /\ escrowToCase \in [EscrowId -> 0..MaxCases]
    /\ nextCaseId \in 1..(MaxCases + 1)

hasCase(id) == escrowToCase[id] # 0
caseOf(id) == cases[escrowToCase[id]]

byCourt(id) == ruling[id].by = RegistryContract

(***************************************************************************)
(* The court's books and the escrow contract's books agree.  An escrow has *)
(* at most one case; the case is executed exactly when the court's ruling  *)
(* paid the escrow, and records the split that was paid.  So the court     *)
(* never records a verdict that was not paid and never pays one it has not *)
(* recorded, though two contracts keep the two.  An escrow ruled by        *)
(* another account, appointed in the court's place, pays the whole of what *)
(* it held too, but leaves no executed case.                               *)
(***************************************************************************)
VerdictsMatchEscrows ==
    /\ \A c \in CaseId : cases[c].opened <=> c < nextCaseId
    /\ \A c \in CaseId : cases[c].opened => escrowToCase[cases[c].escrowId] = c
    /\ \A id \in EscrowId :
          /\ hasCase(id) => caseOf(id).escrowId = id /\ caseOf(id).opened
          /\ byCourt(id) <=> hasCase(id) /\ caseOf(id).executed
          /\ byCourt(id) => /\ caseOf(id).buyerAmount = ruling[id].toBuyer
                            /\ caseOf(id).sellerAmount = ruling[id].toSeller
          /\ escrows[id].status = "Arbitrated" <=> ruling[id] # NoRuling
          /\ ruling[id] # NoRuling =>
                ruling[id].toBuyer + ruling[id].toSeller = escrows[id].amount

(***************************************************************************)
(* A dispute has only one way out, the verdict, and it stays open: once    *)
(* the registry is wired, a disputed escrow either has no case yet or its  *)
(* case can still be decided, for instance wholly for the seller, whatever *)
(* happened meanwhile to the parties' memberships, scores and other trades.*)
(***************************************************************************)
DisputeNeverStranded ==
    \A id \in EscrowId :
        escrows[id].status = "Disputed" /\ escrowRegistry = RegistryContract =>
            \/ ~hasCase(id)
            \/ ENABLED recordVerdict(operator, escrowToCase[id], "Dismissed",
                                     0, escrows[id].amount, 0, 0)

(***************************************************************************)
(* Reputation is lost only by a verdict: a token's score falls only in the *)
(* very transaction that executes, for the first time, a case whose escrow *)
(* the token's present holder is a party of.                               *)
(***************************************************************************)
verdictAgainst(a) ==
    \E c \in CaseId : /\ ~cases[c].executed /\ cases'[c].executed
                      /\ LET e == escrows[cases[c].escrowId]
                         IN  a \in {e.buyerCoop, e.sellerCoop}

TrustFallsOnlyByVerdict ==
    [][\A t \in TokenId :
          memberRecords'[t].trustScore < memberRecords[t].trustScore =>
              verdictAgainst(owners[t])]_vars

(***************************************************************************)
(* The doc of restoreTrust (ArbitrationRegistry.sol:237) says the court    *)
(* can give a party's score back after rehabilitation: once the registry   *)
(* is wired, a member whose score was cut can be restored through it.      *)
(***************************************************************************)
RehabilitationAvailable ==
    \A a \in Coops :
        /\ identityRegistry = RegistryContract
        /\ isMember(a)
        /\ memberRecords[memberToken[a]].trustScore < FullTrust
        => \E p \in Points : ENABLED registryRestoreTrust(operator, a, p)

\* How the contracts' state reads as deals: the payout of a verdict of the
\* court is read from its case, never from the escrow.
dealState(id) ==
    IF id >= nextEscrowId THEN "none"
    ELSE IF escrows[id].status = "Active" THEN "open"
    ELSE IF escrows[id].status = "Disputed" THEN "contested"
    ELSE "settled"

paidToBuyer(id) ==
    IF escrows[id].status = "Expired" THEN escrows[id].amount
    ELSE IF byCourt(id) THEN caseOf(id).buyerAmount
    ELSE ruling[id].toBuyer

paidToSeller(id) ==
    IF escrows[id].status = "Released" THEN escrows[id].amount
    ELSE IF byCourt(id) THEN caseOf(id).sellerAmount
    ELSE ruling[id].toSeller

dealOf(id) == [state |-> dealState(id), buyer |-> escrows[id].buyerCoop,
               seller |-> escrows[id].sellerCoop, money |-> escrows[id].token,
               amount |-> escrows[id].amount,
               toBuyer |-> paidToBuyer(id), toSeller |-> paidToSeller(id),
               ruledBy |-> ruling[id].by]

deals == [id \in EscrowId |-> dealOf(id)]

Promise == INSTANCE EscrowPromise WITH
    Deal <- EscrowId, Party <- Coops, Money <- Token, Vault <- EscrowContract,
    Arbiters <- Appointable, Nobody <- ZeroAddress,
    deal <- deals, wallet <- ledger, arbiter <- escrowRegistry

(***************************************************************************)
(* The three contracts together keep the promise of EscrowPromise.         *)
(***************************************************************************)
PromiseKept == Promise!Spec
=============================================================================
