----------------------------- MODULE CourtProofs -----------------------------
(***************************************************************************)
(* Theorems about the court of ArbitrationRegistry, for every set of       *)
(* cooperatives, safes, tokens, amounts and points and for every bound.    *)
(***************************************************************************)
EXTENDS ArbitrationRegistry, IdentityProofs, DataLemmas, TLAPS

LedgerType == [Token -> [Holder -> Nat]]
RecordsType == [TokenId -> MemberRecord]

(***************************************************************************)
(* A covered transfer keeps every balance a natural number, leaves the     *)
(* payer what it did not send, and can only raise the payee's balance.     *)
(***************************************************************************)
LEMMA TransferType ==
    ASSUME NEW l \in LedgerType, NEW k \in Token, NEW from \in Holder,
           NEW to \in Holder, NEW n \in Nat, l[k][from] >= n
    PROVE  /\ transfer(l, k, from, to, n) \in LedgerType
           /\ from # to => transfer(l, k, from, to, n)[k][from] = l[k][from] - n
<1> DEFINE row == moved(l[k], from, to, n)
<1>1. l[k] \in [Holder -> Nat]
  BY DEF LedgerType
<1>2. l[k][from] - n \in Nat
  BY <1>1
<1>3. row \in [Holder -> Nat] /\ (from # to => row[from] = l[k][from] - n)
  BY <1>1, <1>2 DEF moved
<1>4. QED
  BY <1>3 DEF transfer, LedgerType

(***************************************************************************)
(* _slashTrust, when it goes through, keeps every score in 0..FullTrust.   *)
(***************************************************************************)
LEMMA SlashType ==
    ASSUME NEW recs \in RecordsType, NEW party \in Coops, NEW penalty \in Nat,
           memberToken \in [Coops -> 0..MaxTokens],
           partySlashAllowed(recs, party, penalty)
    PROVE  partySlash(recs, party, penalty) \in RecordsType
<1>1. CASE slashSkipped(party, penalty)
  BY <1>1 DEF partySlash
<1>2. CASE ~slashSkipped(party, penalty)
  <2> DEFINE t == memberToken[party]
  <2>1. t \in TokenId
    BY <1>2, IdentityAssumption DEF slashSkipped, isMember, TokenId
  <2>2. penalty <= recs[t].trustScore
    BY <1>2 DEF partySlashAllowed, slashAllowed
  <2>3. recs[t] \in MemberRecord
    BY <2>1 DEF RecordsType
  <2>4. recs[t].trustScore - penalty \in 0..FullTrust
    BY <2>2, <2>3, IdentityAssumption DEF MemberRecord
  <2>5. [recs[t] EXCEPT !.trustScore = recs[t].trustScore - penalty] \in MemberRecord
    BY <2>3, <2>4 DEF MemberRecord
  <2>6. partySlash(recs, party, penalty) =
          [recs EXCEPT ![t] = [recs[t] EXCEPT !.trustScore = recs[t].trustScore - penalty]]
    BY <1>2, <2>1, <2>3 DEF partySlash, slashTrust, RecordsType
  <2>7. QED
    BY <2>1, <2>5, <2>6 DEF RecordsType
<1>3. QED
  BY <1>1, <1>2

-----------------------------------------------------------------------------
(***************************************************************************)
(* Type correctness: one lemma for the transactions of each contract.      *)
(***************************************************************************)
(***************************************************************************)
(* A settlement keeps the escrow a trade and changes only its status.      *)
(***************************************************************************)
LEMMA SettledTrade ==
    ASSUME EscrowTypeOK, NEW id \in EscrowId, id < nextEscrowId,
           NEW new \in Status, setStatus(id, new), UNCHANGED nextEscrowId
    PROVE  /\ escrows' \in [EscrowId -> Trade \cup {NoEscrow}]
           /\ \A i \in EscrowId : escrows'[i] \in Trade <=> i < nextEscrowId'
           /\ escrows'[id] = [escrows[id] EXCEPT !.status = new]
<1>1. escrows[id] \in Trade
  BY DEF EscrowTypeOK
<1>2. [escrows[id] EXCEPT !.status = new] \in Trade
  BY <1>1 DEF Trade
<1>3. escrows' = [escrows EXCEPT ![id] = [escrows[id] EXCEPT !.status = new]]
  BY <1>1 DEF setStatus, EscrowTypeOK
<1>4. QED
  BY <1>2, <1>3 DEF EscrowTypeOK

\* Only an escrow that was created has a party.
LEMMA PartyOfTrade ==
    ASSUME EscrowTypeOK, NEW id \in EscrowId, NEW sender \in Coops, onlyParty(sender, id)
    PROVE  id < nextEscrowId
<1>1. escrows[id] # NoEscrow
  BY AddressesDiffer DEF onlyParty, NoEscrow
<1>2. QED
  BY <1>1 DEF EscrowTypeOK

\* A ruling that goes through is about a created escrow and keeps the types.
LEMMA RulingTypeStep ==
    ASSUME EscrowTypeOK, NEW sender \in Accounts \cup {RegistryContract}, NEW id \in EscrowId,
           NEW b \in Nat, NEW s \in Nat, executeVerdict(sender, id, b, s)
    PROVE  /\ escrows[id] \in Trade /\ id < nextEscrowId
           /\ EscrowTypeOK'
<1> DEFINE e == escrows[id]
           toBuyer == transfer(ledger, e.token, EscrowContract, e.buyerCoop, b)
<1>1. e # NoEscrow
  BY DEF executeVerdict, inStatus, NoEscrow
<1>2. e \in Trade /\ id < nextEscrowId
  BY <1>1 DEF EscrowTypeOK
<1>3. /\ b + s = e.amount
      /\ ledger[e.token][EscrowContract] >= e.amount
      /\ ledger' = transfer(toBuyer, e.token, EscrowContract, e.sellerCoop, s)
  BY DEF executeVerdict, vaultCovers
<1>4. /\ e.token \in Token /\ e.buyerCoop \in Holder /\ e.sellerCoop \in Holder
      /\ EscrowContract \in Holder /\ EscrowContract # e.buyerCoop
      /\ e.amount \in Nat /\ ledger \in LedgerType
  BY <1>2, AddressesDiffer DEF Trade, Holder, EscrowTypeOK, LedgerType
<1>5. ledger[e.token][EscrowContract] \in Nat
  BY <1>4 DEF LedgerType
<1>6. ledger[e.token][EscrowContract] >= b
  BY <1>3, <1>4, <1>5
<1>7. /\ toBuyer \in LedgerType
      /\ toBuyer[e.token][EscrowContract] = ledger[e.token][EscrowContract] - b
  BY <1>4, <1>6, TransferType
<1>8. toBuyer[e.token][EscrowContract] >= s
  BY <1>3, <1>4, <1>5, <1>7
<1>9. ledger' \in LedgerType
  BY <1>3, <1>4, <1>7, <1>8, TransferType
<1>10. setStatus(id, "Arbitrated") /\ UNCHANGED << nextEscrowId, escrowRegistry >>
  BY DEF executeVerdict
<1>11. ruling' \in [EscrowId -> Ruling \cup {NoRuling}]
  BY DEF executeVerdict, EscrowTypeOK, Ruling
<1>12. QED
  BY <1>2, <1>9, <1>10, <1>11, SettledTrade DEF EscrowTypeOK, LedgerType, Status

\* Trades and transfers keep the escrow contract well typed.
LEMMA EscrowTypeStep ==
    ASSUME EscrowTypeOK, EscrowNext, now \in 1..MaxTime
    PROVE  EscrowTypeOK'
<1> USE EscrowAssumption
<1>1. ASSUME NEW registry \in Appointable, setEscrowRegistry(registry)
      PROVE  EscrowTypeOK'
  BY <1>1 DEF setEscrowRegistry, EscrowTypeOK
<1>2. ASSUME NEW sender \in Coops, NEW seller \in Coops, NEW k \in Token,
             NEW n \in Amounts, NEW x \in 0..MaxTime,
             createEscrow(sender, seller, k, n, x)
      PROVE  EscrowTypeOK'
  <2> DEFINE e == [buyerCoop |-> sender, sellerCoop |-> seller, token |-> k,
                   amount |-> n, status |-> "Active", expiresAt |-> x]
  <2>1. e \in Trade /\ n \in Nat
    BY <1>2 DEF createEscrow, Trade, Status
  <2>2. nextEscrowId \in EscrowId /\ nextEscrowId' \in 1..(MaxEscrows + 1)
    BY <1>2 DEF createEscrow, EscrowId
  <2>3. escrows' = [escrows EXCEPT ![nextEscrowId] = e]
    BY <1>2 DEF createEscrow
  <2>4. nextEscrowId' = nextEscrowId + 1
    BY <1>2 DEF createEscrow
  <2>5. ledger' \in LedgerType
    BY <1>2, <2>1, TransferType DEF createEscrow, EscrowTypeOK, LedgerType, Holder
  <2> HIDE DEF e
  <2>6. \A i \in EscrowId : escrows'[i] \in Trade <=> i < nextEscrowId'
    BY <2>1, <2>2, <2>3, <2>4 DEF EscrowTypeOK, EscrowId
  <2>7. QED
    BY <1>2, <2>1, <2>2, <2>3, <2>5, <2>6 DEF createEscrow, EscrowTypeOK, LedgerType
<1>3. ASSUME NEW sender \in Coops, NEW id \in EscrowId, confirmDelivery(sender, id)
      PROVE  EscrowTypeOK'
  <2>1. id < nextEscrowId
    BY <1>3, PartyOfTrade DEF confirmDelivery, onlyParty
  <2>2. escrows[id] \in Trade
    BY <2>1 DEF EscrowTypeOK
  <2>3. ledger' \in LedgerType
    BY <1>3, <2>2, TransferType
    DEF confirmDelivery, vaultCovers, EscrowTypeOK, LedgerType, Holder, Trade
  <2>4. QED
    BY <1>3, <2>1, <2>3, SettledTrade
    DEF confirmDelivery, EscrowTypeOK, LedgerType, Status
<1>4. ASSUME NEW sender \in Coops, NEW id \in EscrowId, dispute(sender, id)
      PROVE  EscrowTypeOK'
  BY <1>4, PartyOfTrade, SettledTrade DEF dispute, EscrowTypeOK, Status
<1>5. ASSUME NEW sender \in Coops, NEW id \in EscrowId, claimExpiry(sender, id)
      PROVE  EscrowTypeOK'
  <2>1. id < nextEscrowId
    BY <1>5, PartyOfTrade DEF claimExpiry
  <2>2. escrows[id] \in Trade
    BY <2>1 DEF EscrowTypeOK
  <2>3. ledger' \in LedgerType
    BY <1>5, <2>2, TransferType
    DEF claimExpiry, vaultCovers, EscrowTypeOK, LedgerType, Holder, Trade
  <2>4. QED
    BY <1>5, <2>1, <2>3, SettledTrade
    DEF claimExpiry, EscrowTypeOK, LedgerType, Status
<1>6. ASSUME NEW sender \in Accounts, NEW id \in EscrowId, NEW b \in 0..Wealth, NEW s \in 0..Wealth,
             executeVerdict(sender, id, b, s)
      PROVE  EscrowTypeOK'
  BY <1>6, RulingTypeStep
<1>7. QED
  BY <1>1, <1>2, <1>3, <1>4, <1>5, <1>6 DEF EscrowNext

\* A verdict that goes through is about an opened case of a created escrow.
LEMMA VerdictOnTrade ==
    ASSUME TypeOK, NEW sender, NEW c \in CaseId, NEW outcome, NEW b, NEW s, NEW pb, NEW ps,
           recordVerdict(sender, c, outcome, b, s, pb, ps)
    PROVE  LET id == cases[c].escrowId IN
           /\ cases[c] \in ArbitrationCase /\ id \in EscrowId
           /\ escrows[id] \in Trade /\ id < nextEscrowId
<1> DEFINE id == cases[c].escrowId
<1>1. cases[c].opened
  BY DEF recordVerdict
<1>2. cases[c] # NoCase
  BY <1>1 DEF NoCase
<1>3. cases[c] \in ArbitrationCase
  BY <1>2 DEF TypeOK
<1>4. id \in EscrowId
  BY <1>3 DEF ArbitrationCase
<1>a. escrows[id].status = "Disputed"
  BY DEF recordVerdict, executeVerdict, inStatus
<1>5. escrows[id] # NoEscrow
  BY <1>a DEF NoEscrow
<1>6. escrows[id] \in Trade /\ id < nextEscrowId
  BY <1>4, <1>5 DEF TypeOK, EscrowTypeOK
<1>7. QED
  BY <1>3, <1>4, <1>6

\* A verdict, with its payout and its slashes, keeps the types.
LEMMA VerdictTypeStep ==
    ASSUME TypeOK, NEW sender \in Accounts, NEW c \in CaseId, NEW outcome \in Outcomes,
           NEW b \in Nat, NEW s \in Nat, NEW pb \in Nat, NEW ps \in Nat,
           recordVerdict(sender, c, outcome, b, s, pb, ps)
    PROVE  TypeOK'
<1> DEFINE id == cases[c].escrowId
           e == escrows[id]
           afterBuyer == partySlash(memberRecords, e.buyerCoop, pb)
<1>1. cases[c] \in ArbitrationCase /\ id \in EscrowId
  BY VerdictOnTrade
<1>3. e \in Trade /\ id < nextEscrowId
  BY VerdictOnTrade
<1>4. IdentityTypeOK'
  <2>1. afterBuyer \in RecordsType
    BY <1>3, SlashType DEF recordVerdict, TypeOK, IdentityTypeOK, RecordsType, Trade
  <2>2. memberRecords' \in RecordsType
    BY <1>3, <2>1, SlashType DEF recordVerdict, TypeOK, IdentityTypeOK, Trade
  <2>3. QED
    BY <2>2 DEF recordVerdict, TypeOK, IdentityTypeOK, RecordsType
<1>5. EscrowTypeOK'
  <2>1. executeVerdict(RegistryContract, id, b, s)
    BY DEF recordVerdict
  <2>2. QED
    BY <1>1, <2>1, RulingTypeStep DEF TypeOK
<1>6. cases' \in [CaseId -> ArbitrationCase \cup {NoCase}]
  BY <1>1 DEF recordVerdict, TypeOK, ArbitrationCase
<1>7. QED
  BY <1>4, <1>5, <1>6 DEF recordVerdict, TypeOK

(***************************************************************************)
(* Every reachable state of the court is well typed; in particular no      *)
(* balance goes below zero and no trust score leaves 0..FullTrust.         *)
(***************************************************************************)
THEOREM TypeCorrect == Spec => []TypeOK
<1>1. Init => TypeOK
  <2> SUFFICES ASSUME Init PROVE TypeOK
    OBVIOUS
  <2>1. IdentityTypeOK
    BY AddressesDiffer, IdentityAssumption
    DEF Init, IdentityInit, IdentityTypeOK, NoRecord, MemberRecord, TokenId
  <2>2. EscrowTypeOK
    BY AddressesDiffer, EscrowAssumption
    DEF Init, EscrowInit, EscrowTypeOK, NoEscrow, Trade, Holder, EscrowId, Ruling
  <2>3. QED
    BY <2>1, <2>2, CourtAssumption, TimeAssumption DEF Init, ChainInit, CourtInit, TypeOK
<1>2. TypeOK /\ [Next]_vars => TypeOK'
  <2> SUFFICES ASSUME TypeOK, [Next]_vars PROVE TypeOK'
    OBVIOUS
  <2>1. CASE Tick /\ UNCHANGED << identityVars, escrowVars, courtVars >>
    BY <2>1, TimeAssumption DEF Tick, identityVars, escrowVars, courtVars,
       TypeOK, IdentityTypeOK, EscrowTypeOK
  <2>2. CASE IdentityNext /\ UNCHANGED << now, escrowVars, courtVars >>
    BY <2>2, IdentityTypeStep DEF escrowVars, courtVars, TypeOK, EscrowTypeOK
  <2>3. CASE EscrowNext /\ UNCHANGED << now, identityVars, courtVars >>
    BY <2>3, EscrowTypeStep DEF identityVars, courtVars, TypeOK, IdentityTypeOK
  <2>4. ASSUME NEW sender \in Accounts, NEW id \in EscrowId, openCase(sender, id)
        PROVE  TypeOK'
    <3>1. [NoCase EXCEPT !.escrowId = id, !.opened = TRUE] \in ArbitrationCase
      BY CourtAssumption DEF NoCase, ArbitrationCase
    <3>2. QED
      BY <2>4, <3>1, CourtAssumption DEF openCase, escrowVars, identityVars, CaseId,
         TypeOK, IdentityTypeOK, EscrowTypeOK
  <2>5. ASSUME NEW sender \in Accounts, NEW c \in CaseId, NEW outcome \in Outcomes,
               NEW pb \in Points \cup {0}, NEW ps \in Points \cup {0},
               NEW b \in 0..Wealth, NEW s \in 0..Wealth,
               recordVerdict(sender, c, outcome, b, s, pb, ps)
        PROVE  TypeOK'
    BY <2>5, VerdictTypeStep, IdentityAssumption, EscrowAssumption
  <2>6. ASSUME NEW sender \in Accounts, NEW a \in Coops, NEW p \in Points,
               registryRestoreTrust(sender, a, p)
        PROVE  TypeOK'
    BY <2>6, RestoreTypeStep DEF registryRestoreTrust, escrowVars, courtVars,
       TypeOK, EscrowTypeOK
  <2>7. CASE UNCHANGED vars
    BY <2>7 DEF vars, identityVars, escrowVars, courtVars, TypeOK, IdentityTypeOK,
       EscrowTypeOK
  <2>8. QED
    BY <2>1, <2>2, <2>3, <2>4, <2>5, <2>6, <2>7 DEF Next, CourtNext
<1>3. QED
  BY <1>1, <1>2, PTL DEF Spec

-----------------------------------------------------------------------------
(***************************************************************************)
(* Membership.  The argument needs types and one fact about slashing: it   *)
(* touches no token's `active' flag.                                       *)
(***************************************************************************)
LEMMA SlashKeepsActive ==
    ASSUME NEW recs \in RecordsType, NEW party \in Coops, NEW penalty \in Nat,
           memberToken \in [Coops -> 0..MaxTokens], NEW t \in TokenId
    PROVE  partySlash(recs, party, penalty)[t].active = recs[t].active
<1>1. CASE slashSkipped(party, penalty)
  BY <1>1 DEF partySlash
<1>2. CASE ~slashSkipped(party, penalty)
  <2> DEFINE m == memberToken[party]
             score == recs[m].trustScore - penalty
  <2>1. m \in TokenId
    BY <1>2, IdentityAssumption DEF slashSkipped, isMember, TokenId
  <2>2. partySlash(recs, party, penalty) = [recs EXCEPT ![m].trustScore = score]
    BY <1>2 DEF partySlash, slashTrust
  <2> HIDE DEF m, score
  <2>3. recs[m] \in MemberRecord /\ recs[t] \in MemberRecord
    BY <2>1 DEF RecordsType
  <2>4. QED
    BY <2>1, <2>2, <2>3 DEF RecordsType, MemberRecord
<1>3. QED
  BY <1>1, <1>2

\* Attest, revoke and every other transaction keep the four maps in agreement.
LEMMA MembershipStep ==
    ASSUME TypeOK, MembershipAgrees, [Next]_vars
    PROVE  MembershipAgrees'
<1> USE IdentityAssumption
<1>1. ASSUME UNCHANGED << memberToken, owners, balances, nextTokenId >>,
             \A t \in TokenId : memberRecords'[t].active = memberRecords[t].active
      PROVE  MembershipAgrees'
  BY <1>1 DEF MembershipAgrees, isMember
<1>2. ASSUME NEW sender \in Accounts, NEW a \in Coops, attest(sender, a)
      PROVE  MembershipAgrees'
  <2>1. nextTokenId \in TokenId /\ memberToken[a] = 0 /\ nextTokenId # 0
    BY <1>2 DEF attest, isMember, TokenId
  <2>2. /\ memberToken' = [memberToken EXCEPT ![a] = nextTokenId]
        /\ owners' = [owners EXCEPT ![nextTokenId] = a]
        /\ balances' = [balances EXCEPT ![a] = 1]
        /\ nextTokenId' = nextTokenId + 1
    BY <1>2 DEF attest
  <2>3. \A t \in TokenId : memberRecords'[t].active =
                             IF t = nextTokenId THEN TRUE ELSE memberRecords[t].active
    BY <1>2, <2>1 DEF attest, TypeOK, IdentityTypeOK
  <2>4. a # ZeroAddress /\ owners[nextTokenId] = ZeroAddress
    BY <2>1, AddressesDiffer DEF MembershipAgrees, TypeOK, IdentityTypeOK, TokenId
  <2>5. \A b \in Coops : memberToken[b] # nextTokenId
    BY <2>1, <2>4, AddressesDiffer DEF MembershipAgrees, isMember
  <2> DEFINE bal == \A b \in Coops : balances'[b] = IF memberToken'[b] # 0 THEN 1 ELSE 0
             own == \A b \in Coops : memberToken'[b] # 0 => owners'[memberToken'[b]] = b
             tok == \A t \in TokenId : owners'[t] # ZeroAddress => memberToken'[owners'[t]] = t
             act == \A t \in TokenId : memberRecords'[t].active <=> owners'[t] # ZeroAddress
             new == \A t \in TokenId : t >= nextTokenId' => owners'[t] = ZeroAddress
  <2>6. bal
    BY <2>1, <2>2 DEF MembershipAgrees, isMember, TypeOK, IdentityTypeOK, TokenId
  <2>7. own
    BY <2>1, <2>2, <2>4, <2>5 DEF MembershipAgrees, isMember, TypeOK, IdentityTypeOK, TokenId
  <2>8. tok
    BY <2>1, <2>2, <2>4, <2>5 DEF MembershipAgrees, isMember, TypeOK, IdentityTypeOK, TokenId
  <2>9. act
    BY <2>1, <2>2, <2>3, <2>4 DEF MembershipAgrees, isMember, TypeOK, IdentityTypeOK, TokenId
  <2>10. new
    BY <2>1, <2>2 DEF MembershipAgrees, isMember, TypeOK, IdentityTypeOK, TokenId
  <2>11. QED
    BY <2>6, <2>7, <2>8, <2>9, <2>10 DEF MembershipAgrees, isMember
<1>3. ASSUME NEW sender \in Accounts, NEW a \in Coops, revoke(sender, a)
      PROVE  MembershipAgrees'
  <2> DEFINE m == memberToken[a]
  <2>1. m \in TokenId /\ owners[m] = a /\ m # 0
    BY <1>3 DEF revoke, isMember, MembershipAgrees, TypeOK, IdentityTypeOK, TokenId
  <2>2. /\ memberToken' = [memberToken EXCEPT ![a] = 0]
        /\ owners' = [owners EXCEPT ![m] = ZeroAddress]
        /\ balances' = [balances EXCEPT ![a] = 0]
        /\ nextTokenId' = nextTokenId
    BY <1>3 DEF revoke
  <2>3. \A t \in TokenId : memberRecords'[t].active =
                             IF t = m THEN FALSE ELSE memberRecords[t].active
    BY <1>3, <2>1 DEF revoke, TypeOK, IdentityTypeOK, MemberRecord
  <2>4. \A b \in Coops : memberToken[b] = m => b = a
    BY <2>1 DEF MembershipAgrees, isMember
  <2>5. \A t \in TokenId : owners[t] = a => t = m
    BY <2>1, AddressesDiffer DEF MembershipAgrees
  <2> HIDE DEF m
  <2> DEFINE bal == \A b \in Coops : balances'[b] = IF memberToken'[b] # 0 THEN 1 ELSE 0
             own == \A b \in Coops : memberToken'[b] # 0 => owners'[memberToken'[b]] = b
             tok == \A t \in TokenId : owners'[t] # ZeroAddress => memberToken'[owners'[t]] = t
             act == \A t \in TokenId : memberRecords'[t].active <=> owners'[t] # ZeroAddress
             new == \A t \in TokenId : t >= nextTokenId' => owners'[t] = ZeroAddress
  <2>6. bal
    BY <2>1, <2>2 DEF MembershipAgrees, isMember, TypeOK, IdentityTypeOK, TokenId
  <2>7. own
    BY <2>1, <2>2, <2>4, <2>5 DEF MembershipAgrees, isMember, TypeOK, IdentityTypeOK, TokenId
  <2>8. tok
    BY <2>1, <2>2, <2>4, <2>5 DEF MembershipAgrees, isMember, TypeOK, IdentityTypeOK, TokenId
  <2>9. act
    BY <2>1, <2>2, <2>3, <2>4 DEF MembershipAgrees, isMember, TypeOK, IdentityTypeOK, TokenId
  <2>10. new
    BY <2>1, <2>2 DEF MembershipAgrees, isMember, TypeOK, IdentityTypeOK, TokenId
  <2>11. QED
    BY <2>6, <2>7, <2>8, <2>9, <2>10 DEF MembershipAgrees, isMember
<1>4. ASSUME NEW sender, NEW a \in Coops, NEW p \in Points, restoreTrust(sender, a, p)
      PROVE  MembershipAgrees'
  <2>1. memberToken[a] \in TokenId
    BY <1>4 DEF restoreTrust, isMember, TypeOK, IdentityTypeOK, TokenId
  <2>2. PICK score : memberRecords' = [memberRecords EXCEPT ![memberToken[a]].trustScore = score]
    BY <1>4 DEF restoreTrust
  <2>3. \A t \in TokenId : memberRecords'[t].active = memberRecords[t].active
    BY <2>1, <2>2 DEF TypeOK, IdentityTypeOK, MemberRecord
  <2>4. QED
    BY <1>1, <1>4, <2>3 DEF restoreTrust
<1>5. ASSUME NEW sender \in Accounts, NEW c \in CaseId, NEW outcome \in Outcomes,
             NEW pb \in Points \cup {0}, NEW ps \in Points \cup {0},
             NEW b \in 0..Wealth, NEW s \in 0..Wealth,
             recordVerdict(sender, c, outcome, b, s, pb, ps)
      PROVE  MembershipAgrees'
  <2> DEFINE e == escrows[cases[c].escrowId]
             afterBuyer == partySlash(memberRecords, e.buyerCoop, pb)
  <2>1. e \in Trade
    BY <1>5, VerdictOnTrade
  <2>2. afterBuyer \in RecordsType
    BY <1>5, <2>1, SlashType DEF recordVerdict, TypeOK, IdentityTypeOK, RecordsType, Trade
  <2>3. \A t \in TokenId : afterBuyer[t].active = memberRecords[t].active
    BY <2>1, SlashKeepsActive DEF TypeOK, IdentityTypeOK, RecordsType, Trade
  <2>4. memberRecords' = partySlash(afterBuyer, e.sellerCoop, ps)
    BY <1>5 DEF recordVerdict
  <2> HIDE DEF afterBuyer
  <2>5. \A t \in TokenId : memberRecords'[t].active = memberRecords[t].active
    BY <2>1, <2>2, <2>3, <2>4, SlashKeepsActive DEF TypeOK, IdentityTypeOK, Trade
  <2>6. QED
    BY <1>1, <1>5, <2>5 DEF recordVerdict
<1>6. CASE UNCHANGED identityVars
  BY <1>1, <1>6 DEF identityVars
<1>7. ASSUME NEW sender \in Accounts, setIdentityRegistry(sender, RegistryContract)
      PROVE  MembershipAgrees'
  BY <1>1, <1>7 DEF setIdentityRegistry
<1>8. ASSUME NEW sender \in Accounts, NEW k \in Constitutions, setConstitution(sender, k)
      PROVE  MembershipAgrees'
  BY <1>1, <1>8 DEF setConstitution
<1>9. ASSUME NEW sender \in Accounts, NEW new \in Safes, transferSteward(sender, new)
      PROVE  MembershipAgrees'
  BY <1>1, <1>9 DEF transferSteward
<1>10. QED
  BY <1>2, <1>3, <1>4, <1>5, <1>6, <1>7, <1>8, <1>9
  DEF Next, IdentityNext, CourtNext, openCase, registryRestoreTrust, vars

(***************************************************************************)
(* The four maps that record a membership agree in every reachable state.  *)
(***************************************************************************)
THEOREM Membership == Spec => []MembershipAgrees
<1>1. Init => MembershipAgrees
  BY DEF Init, IdentityInit, MembershipAgrees, isMember, NoRecord
<1>2. QED
  BY <1>1, MembershipStep, TypeCorrect, PTL DEF Spec

-----------------------------------------------------------------------------
(***************************************************************************)
(* The court's books against the escrow contract's.  Transactions sent     *)
(* straight to the escrow contract write no ruling of the court, even when *)
(* an account that was appointed rules: its sender is not the court.       *)
(***************************************************************************)
RulingBooked(id) ==
    /\ escrows[id].status = "Arbitrated" <=> ruling[id] # NoRuling
    /\ ruling[id] # NoRuling =>
          ruling[id].toBuyer + ruling[id].toSeller = escrows[id].amount

\* A ruling is written on the escrow it pays, and on no other.
LEMMA RulingWritten ==
    ASSUME TypeOK, NEW sender, NEW id \in EscrowId, NEW b, NEW s,
           executeVerdict(sender, id, b, s), escrows[id] \in Trade, sender # ZeroAddress,
           \A i \in EscrowId : RulingBooked(i)
    PROVE  /\ \A i \in EscrowId : i # id => ruling'[i] = ruling[i] /\ escrows'[i] = escrows[i]
           /\ ruling[id] = NoRuling
           /\ ruling'[id].by = sender
           /\ \A i \in EscrowId : RulingBooked(i)'
<1>1. /\ escrows[id].status = "Disputed" /\ b + s = escrows[id].amount
      /\ escrows' = [escrows EXCEPT ![id].status = "Arbitrated"]
      /\ ruling' = [ruling EXCEPT ![id] = [by |-> sender, toBuyer |-> b, toSeller |-> s]]
  BY DEF executeVerdict, inStatus, setStatus
<1>2. /\ \A i \in EscrowId : i # id => ruling'[i] = ruling[i] /\ escrows'[i] = escrows[i]
      /\ ruling'[id] = [by |-> sender, toBuyer |-> b, toSeller |-> s]
  BY <1>1 DEF TypeOK, EscrowTypeOK
<1>3. escrows'[id].status = "Arbitrated" /\ escrows'[id].amount = escrows[id].amount
  BY <1>1 DEF TypeOK, EscrowTypeOK, Trade
<1>4. ruling[id] = NoRuling
  BY <1>1 DEF RulingBooked
<1>5. ruling'[id] # NoRuling
  BY <1>2 DEF NoRuling
<1>6. RulingBooked(id)'
  BY <1>1, <1>2, <1>3, <1>5 DEF RulingBooked
<1>7. QED
  BY <1>2, <1>4, <1>6 DEF RulingBooked

LEMMA EscrowsKeepVerdicts ==
    ASSUME TypeOK, \A i \in EscrowId : RulingBooked(i), EscrowNext
    PROVE  \A id \in EscrowId :
              /\ byCourt(id)' <=> byCourt(id)
              /\ byCourt(id) => ruling'[id] = ruling[id]
              /\ RulingBooked(id)'
<1> DEFINE Goal(id) ==
        /\ byCourt(id)' <=> byCourt(id)
        /\ byCourt(id) => ruling'[id] = ruling[id]
        /\ RulingBooked(id)'
<1> SUFFICES ASSUME NEW id \in EscrowId PROVE Goal(id)
  OBVIOUS
<1>1. ASSUME NEW registry \in Appointable, setEscrowRegistry(registry)
      PROVE  Goal(id)
  BY <1>1 DEF setEscrowRegistry, byCourt, RulingBooked
<1>2. ASSUME NEW sender \in Coops, NEW seller \in Coops, NEW k \in Token,
             NEW n \in Amounts, NEW x \in 0..MaxTime,
             createEscrow(sender, seller, k, n, x)
      PROVE  Goal(id)
  <2> DEFINE e == [buyerCoop |-> sender, sellerCoop |-> seller, token |-> k,
                   amount |-> n, status |-> "Active", expiresAt |-> x]
  <2>1. escrows[nextEscrowId] = NoEscrow
    <3>1. nextEscrowId \in EscrowId /\ ~(nextEscrowId < nextEscrowId)
      BY <1>2, EscrowAssumption DEF createEscrow, EscrowId
    <3>2. QED
      BY <3>1 DEF TypeOK, EscrowTypeOK
  <2>2. escrows[nextEscrowId].status = "Active"
    BY <2>1 DEF NoEscrow
  <2>3. ruling' = ruling /\ escrows' = [escrows EXCEPT ![nextEscrowId] = e]
    BY <1>2 DEF createEscrow
  <2>4. e.status = "Active"
    OBVIOUS
  <2> HIDE DEF e
  <2>5. id # nextEscrowId => escrows'[id] = escrows[id]
    BY <2>3 DEF TypeOK, EscrowTypeOK
  <2>6. id = nextEscrowId => escrows'[id].status = "Active" /\ ruling[id] = NoRuling
    BY <2>2, <2>3, <2>4 DEF TypeOK, EscrowTypeOK, RulingBooked
  <2>7. QED
    BY <2>3, <2>5, <2>6 DEF byCourt, RulingBooked
<1>3. ASSUME NEW i \in EscrowId, NEW new \in Status \ {"Arbitrated"}, UNCHANGED ruling,
             i < nextEscrowId, inStatus(i, "Active"), setStatus(i, new), UNCHANGED nextEscrowId
      PROVE  Goal(id)
  <2>1. escrows[i] \in Trade
    BY <1>3 DEF TypeOK, EscrowTypeOK
  <2>2. escrows' = [escrows EXCEPT ![i].status = new]
    BY <1>3 DEF setStatus
  <2>3. /\ i # id => escrows'[id] = escrows[id]
        /\ escrows'[i].status = new /\ escrows'[i].amount = escrows[i].amount
    BY <2>1, <2>2 DEF Trade, TypeOK, EscrowTypeOK
  <2>4. QED
    BY <1>3, <2>3 DEF inStatus, byCourt, RulingBooked
<1>4. ASSUME NEW sender \in Coops, NEW i \in EscrowId, confirmDelivery(sender, i)
      PROVE  Goal(id)
  BY <1>3, <1>4, PartyOfTrade DEF confirmDelivery, onlyParty, TypeOK, Status
<1>5. ASSUME NEW sender \in Coops, NEW i \in EscrowId, dispute(sender, i)
      PROVE  Goal(id)
  BY <1>3, <1>5, PartyOfTrade DEF dispute, TypeOK, Status
<1>6. ASSUME NEW sender \in Coops, NEW i \in EscrowId, claimExpiry(sender, i)
      PROVE  Goal(id)
  BY <1>3, <1>6, PartyOfTrade DEF claimExpiry, TypeOK, Status
<1>7. ASSUME NEW sender \in Accounts, NEW i \in EscrowId, NEW b \in 0..Wealth, NEW s \in 0..Wealth,
             executeVerdict(sender, i, b, s)
      PROVE  Goal(id)
  <2>1. b \in Nat /\ s \in Nat /\ sender # RegistryContract /\ sender # ZeroAddress
    BY EscrowAssumption, AddressesDiffer DEF Accounts
  <2>2. escrows[i] \in Trade
    BY <1>7, <2>1, RulingTypeStep DEF TypeOK
  <2>3. /\ \A j \in EscrowId : j # i => ruling'[j] = ruling[j]
        /\ ruling[i] = NoRuling /\ ruling'[i].by = sender
        /\ \A j \in EscrowId : RulingBooked(j)'
    BY <1>7, <2>1, <2>2, RulingWritten
  <2>4. NoRuling.by # RegistryContract
    BY AddressesDiffer DEF NoRuling
  <2>5. QED
    BY <2>1, <2>3, <2>4 DEF byCourt
<1>8. QED
  BY <1>1, <1>2, <1>4, <1>5, <1>6, <1>7 DEF EscrowNext

\* Every transaction keeps the court's books and the escrow's in agreement.
LEMMA VerdictsStep ==
    ASSUME TypeOK, VerdictsMatchEscrows, [Next]_vars
    PROVE  VerdictsMatchEscrows'
<1> USE CourtAssumption
<1>0. \A i \in EscrowId : RulingBooked(i)
  BY DEF VerdictsMatchEscrows, RulingBooked
<1>1. CASE UNCHANGED courtVars /\ UNCHANGED << escrows, ruling >>
  BY <1>1 DEF courtVars, VerdictsMatchEscrows, hasCase, caseOf, byCourt
<1>2. CASE EscrowNext /\ UNCHANGED courtVars
  <2>1. \A i \in EscrowId : /\ byCourt(i)' <=> byCourt(i)
                            /\ byCourt(i) => ruling'[i] = ruling[i]
                            /\ RulingBooked(i)'
    BY <1>0, <1>2, EscrowsKeepVerdicts
  <2>2. QED
    BY <1>2, <2>1 DEF courtVars, VerdictsMatchEscrows, hasCase, caseOf, RulingBooked
<1>3. ASSUME NEW sender \in Accounts, NEW id \in EscrowId, openCase(sender, id)
      PROVE  VerdictsMatchEscrows'
  <2> DEFINE opening == [NoCase EXCEPT !.escrowId = id, !.opened = TRUE]
  <2>1. opening.opened /\ ~opening.executed /\ opening.escrowId = id
    BY DEF NoCase
  <2>2. /\ nextCaseId \in CaseId /\ nextCaseId' = nextCaseId + 1 /\ escrowToCase[id] = 0
        /\ cases' = [cases EXCEPT ![nextCaseId] = opening]
        /\ escrowToCase' = [escrowToCase EXCEPT ![id] = nextCaseId]
        /\ escrows' = escrows /\ ruling' = ruling
    BY <1>3 DEF openCase, escrowVars
  <2> HIDE DEF opening
  <2>3. nextCaseId # 0 /\ nextCaseId \in Nat /\ ~cases[nextCaseId].opened
    BY <2>2 DEF CaseId, VerdictsMatchEscrows
  <2>4. \A c \in CaseId : cases'[c] = IF c = nextCaseId THEN opening ELSE cases[c]
    BY <2>2 DEF TypeOK
  <2>5. \A i \in EscrowId : escrowToCase'[i] = IF i = id THEN nextCaseId ELSE escrowToCase[i]
    BY <2>2 DEF TypeOK
  <2>6. \A i \in EscrowId : escrowToCase[i] # 0 => /\ escrowToCase[i] \in CaseId
                                                  /\ escrowToCase[i] # nextCaseId
    BY <2>3 DEF TypeOK, CaseId, VerdictsMatchEscrows, hasCase, caseOf
  <2>7. \A c \in CaseId : cases'[c].opened <=> c < nextCaseId'
    BY <2>1, <2>2, <2>4 DEF VerdictsMatchEscrows, CaseId
  <2>8. \A c \in CaseId : cases'[c].opened => escrowToCase'[cases'[c].escrowId] = c
    <3> SUFFICES ASSUME NEW c \in CaseId, cases'[c].opened
                 PROVE  escrowToCase'[cases'[c].escrowId] = c
      OBVIOUS
    <3>1. CASE c = nextCaseId
      BY <3>1, <2>1, <2>4, <2>5
    <3>2. CASE c # nextCaseId
      <4>1. cases'[c] = cases[c] /\ cases[c].opened
        BY <3>2, <2>4
      <4>2. cases[c] \in ArbitrationCase
        BY <4>1 DEF TypeOK, NoCase
      <4>3. cases[c].escrowId \in EscrowId
        BY <4>2 DEF ArbitrationCase
      <4>4. escrowToCase[cases[c].escrowId] = c /\ c # 0
        BY <4>1 DEF VerdictsMatchEscrows, CaseId
      <4>5. QED
        BY <4>1, <4>3, <4>4, <2>2, <2>5
    <3>3. QED
      BY <3>1, <3>2
  <2>9. QED
    BY <2>1, <2>2, <2>3, <2>4, <2>5, <2>6, <2>7, <2>8
    DEF VerdictsMatchEscrows, hasCase, caseOf, byCourt
<1>4. ASSUME NEW sender \in Accounts, NEW c \in CaseId, NEW outcome \in Outcomes,
             NEW pb \in Points \cup {0}, NEW ps \in Points \cup {0},
             NEW b \in 0..Wealth, NEW s \in 0..Wealth,
             recordVerdict(sender, c, outcome, b, s, pb, ps)
      PROVE  VerdictsMatchEscrows'
  <2> DEFINE decided == cases'[c]
  <2>1. PICK id \in EscrowId : /\ id = cases[c].escrowId
                               /\ cases[c] \in ArbitrationCase
                               /\ escrows[id] \in Trade
    BY <1>4, VerdictOnTrade
  <2>2. /\ cases[c].opened
        /\ escrowToCase' = escrowToCase /\ nextCaseId' = nextCaseId
        /\ executeVerdict(RegistryContract, id, b, s)
    BY <1>4, <2>1 DEF recordVerdict
  <2>3. /\ \A d \in CaseId : d # c => cases'[d] = cases[d]
        /\ decided.escrowId = id /\ decided.opened /\ decided.executed
        /\ decided.buyerAmount = b /\ decided.sellerAmount = s
    BY <1>4, <2>1, <2>2 DEF recordVerdict, TypeOK, ArbitrationCase
  <2>4. /\ \A i \in EscrowId : i # id => ruling'[i] = ruling[i]
        /\ ruling'[id].by = RegistryContract
        /\ \A i \in EscrowId : RulingBooked(i)'
    <3>1. RegistryContract # ZeroAddress
      BY AddressesDiffer
    <3>2. QED
      BY <1>0, <2>1, <2>2, <3>1, RulingWritten
  <2>a. ruling'[id].toBuyer = b /\ ruling'[id].toSeller = s
    BY <2>2 DEF executeVerdict, TypeOK, EscrowTypeOK
  <2>5. escrowToCase[id] = c /\ c # 0
    BY <2>1, <2>2 DEF VerdictsMatchEscrows, CaseId
  <2>6. \A i \in EscrowId : i # id /\ escrowToCase[i] # 0 =>
                              /\ escrowToCase[i] \in CaseId
                              /\ escrowToCase[i] # c
    BY <2>5 DEF TypeOK, CaseId, VerdictsMatchEscrows, hasCase, caseOf
  <2> HIDE DEF decided
  <2>7. \A d \in CaseId : cases'[d].opened <=> d < nextCaseId'
    BY <2>2, <2>3 DEF VerdictsMatchEscrows, decided
  <2>8. \A d \in CaseId : cases'[d].opened => escrowToCase'[cases'[d].escrowId] = d
    BY <2>2, <2>3, <2>5 DEF VerdictsMatchEscrows, decided
  <2>9. \A i \in EscrowId : escrowToCase'[i] # 0 =>
            cases'[escrowToCase'[i]].escrowId = i /\ cases'[escrowToCase'[i]].opened
    BY <2>2, <2>3, <2>5, <2>6 DEF VerdictsMatchEscrows, hasCase, caseOf, decided
  <2>10. \A i \in EscrowId : ruling'[i].by = RegistryContract <=>
             escrowToCase'[i] # 0 /\ cases'[escrowToCase'[i]].executed
    BY <2>2, <2>3, <2>4, <2>5, <2>6 DEF VerdictsMatchEscrows, hasCase, caseOf, byCourt, decided
  <2>11. \A i \in EscrowId : ruling'[i].by = RegistryContract =>
             /\ cases'[escrowToCase'[i]].buyerAmount = ruling'[i].toBuyer
             /\ cases'[escrowToCase'[i]].sellerAmount = ruling'[i].toSeller
    BY <2>2, <2>3, <2>4, <2>a, <2>5, <2>6 DEF VerdictsMatchEscrows, hasCase, caseOf, byCourt, decided
  <2>12. QED
    BY <2>4, <2>7, <2>8, <2>9, <2>10, <2>11
    DEF VerdictsMatchEscrows, hasCase, caseOf, byCourt, RulingBooked
<1>5. QED
  BY <1>1, <1>2, <1>3, <1>4
  DEF Next, CourtNext, registryRestoreTrust, vars, escrowVars

(***************************************************************************)
(* The court's rulings and the cases they are recorded in agree, once per  *)
(* escrow, each with a split of the whole amount, whoever else may have    *)
(* been appointed in between and ruled on other escrows.                   *)
(***************************************************************************)
THEOREM VerdictsAgree == Spec => []VerdictsMatchEscrows
<1>1. Init => VerdictsMatchEscrows
  BY CourtAssumption, AddressesDiffer DEF Init, CourtInit, EscrowInit, NoCase, NoEscrow, CaseId,
     NoRuling, VerdictsMatchEscrows, hasCase, caseOf, byCourt
<1>2. QED
  BY <1>1, VerdictsStep, TypeCorrect, PTL DEF Spec

-----------------------------------------------------------------------------
(***************************************************************************)
(* The vault.  Creating an escrow adds one term to the sum of its token,   *)
(* a settlement takes one out, and the transfer in the same transaction    *)
(* moves the contract's balance by that term.                              *)
(***************************************************************************)
Owed == [id \in EscrowId |-> escrows[id].amount]

LEMMA LockedFinite ==
    ASSUME NEW k
    PROVE  IsFiniteSet(locked(k))
<1>1. IsFiniteSet(EscrowId)
  BY FS_Interval, EscrowAssumption DEF EscrowId
<1>2. QED
  BY <1>1, FS_Subset DEF locked

LEMMA OwedIsInt ==
    ASSUME EscrowTypeOK
    PROVE  \A id \in EscrowId : Owed[id] \in Int
BY DEF EscrowTypeOK, Owed, Trade, NoEscrow

\* What a transaction has to show: for each token, which terms changed.
LEMMA VaultSettles ==
    ASSUME EscrowTypeOK, VaultBacked, NEW id \in EscrowId, id < nextEscrowId, holdsFunds(id),
           NEW new \in {"Released", "Expired", "Arbitrated"}, setStatus(id, new),
           UNCHANGED nextEscrowId,
           \A k \in Token : ledger'[k][EscrowContract] =
               IF k = escrows[id].token THEN ledger[k][EscrowContract] - escrows[id].amount
               ELSE ledger[k][EscrowContract]
    PROVE  VaultBacked'
<1>1. escrows[id] \in Trade
  BY DEF EscrowTypeOK
<1>2. \A i \in EscrowId : /\ escrows'[i].amount = escrows[i].amount /\ escrows'[i].token = escrows[i].token
                          /\ i # id => escrows'[i] = escrows[i]
                          /\ i = id => escrows'[i].status = new
  BY <1>1 DEF setStatus, EscrowTypeOK, Trade
<1>3. \A k : locked(k)' = locked(k) \ {id}
  BY <1>2 DEF locked, holdsFunds
<1>4. Owed' = Owed
  BY <1>2 DEF Owed
<1>5. SUFFICES ASSUME NEW k \in Token
               PROVE  ledger'[k][EscrowContract] = SumFunctionOnSet(Owed, locked(k) \ {id})
  BY <1>3, <1>4 DEF VaultBacked, Owed
<1>6. ledger[k][EscrowContract] = SumFunctionOnSet(Owed, locked(k)) /\ ledger[k][EscrowContract] \in Int
  BY AddressesDiffer DEF VaultBacked, Owed, EscrowTypeOK, Holder
<1>7. CASE k = escrows[id].token
  <2>1. id \in locked(k)
    BY <1>7 DEF locked
  <2>2. SumFunctionOnSet(Owed, locked(k)) = Owed[id] + SumFunctionOnSet(Owed, locked(k) \ {id})
    <3>1. \A i \in locked(k) : Owed[i] \in Int
      BY OwedIsInt DEF locked
    <3>2. QED
      BY <2>1, <3>1, LockedFinite, SumTake
  <2>3. Owed[id] = escrows[id].amount /\ Owed[id] \in Int
    BY OwedIsInt DEF Owed
  <2>4. SumFunctionOnSet(Owed, locked(k) \ {id}) \in Nat
    <3>1. IsFiniteSet(locked(k) \ {id})
      BY LockedFinite, FS_Subset
    <3>2. \A i \in locked(k) \ {id} : Owed[i] \in Nat
      BY DEF EscrowTypeOK, Owed, Trade, NoEscrow, locked
    <3>3. QED
      BY <3>1, <3>2, SumNat
  <2>5. QED
    BY <1>6, <1>7, <2>2, <2>3, <2>4
<1>8. CASE k # escrows[id].token
  <2>1. locked(k) \ {id} = locked(k)
    BY <1>8 DEF locked
  <2>2. QED
    BY <1>6, <1>8, <2>1
<1>9. QED
  BY <1>7, <1>8

\* Whatever leaves escrows and vault alone keeps the vault backed.
LEMMA VaultStill ==
    ASSUME VaultBacked, UNCHANGED <<escrows, nextEscrowId, ledger>>
    PROVE  VaultBacked'
BY DEF VaultBacked, locked, holdsFunds

\* Funds on their way out of the contract, to a holder other than itself.
LEMMA VaultPays ==
    ASSUME NEW l \in LedgerType, NEW k \in Token, NEW to \in Coops, NEW n \in Nat,
           l[k][EscrowContract] >= n
    PROVE  /\ transfer(l, k, EscrowContract, to, n) \in LedgerType
           /\ \A j \in Token : transfer(l, k, EscrowContract, to, n)[j][EscrowContract] =
                  IF j = k THEN l[j][EscrowContract] - n ELSE l[j][EscrowContract]
<1>1. EscrowContract \in Holder /\ to \in Holder /\ EscrowContract # to
  BY AddressesDiffer DEF Holder
<1>2. /\ transfer(l, k, EscrowContract, to, n) \in LedgerType
      /\ transfer(l, k, EscrowContract, to, n)[k][EscrowContract] = l[k][EscrowContract] - n
  BY <1>1, TransferType
<1>3. \A j \in Token : j # k => transfer(l, k, EscrowContract, to, n)[j] = l[j]
  BY DEF transfer, LedgerType
<1>4. QED
  BY <1>2, <1>3

\* A new escrow takes in exactly what it will owe.
LEMMA VaultOpens ==
    ASSUME EscrowTypeOK, VaultBacked, NEW sender \in Coops, NEW seller \in Coops, NEW k \in Token,
           NEW n \in Amounts, NEW x \in 0..MaxTime, createEscrow(sender, seller, k, n, x)
    PROVE  VaultBacked'
<1> DEFINE id == nextEscrowId
           e == [buyerCoop |-> sender, sellerCoop |-> seller, token |-> k,
                 amount |-> n, status |-> "Active", expiresAt |-> x]
<1>1. /\ id \in EscrowId /\ nextEscrowId' = id + 1 /\ id \in Nat /\ n \in Nat
      /\ escrows' = [escrows EXCEPT ![id] = e]
      /\ ledger' = transfer(ledger, k, sender, EscrowContract, n)
  BY EscrowAssumption DEF createEscrow, EscrowId
<1>2. /\ e.token = k /\ e.amount = n /\ e.status = "Active"
  OBVIOUS
<1> HIDE DEF e
<1>3. \A i \in EscrowId : escrows'[i] = IF i = id THEN e ELSE escrows[i]
  BY <1>1 DEF EscrowTypeOK
<1>4. \A i \in EscrowId : /\ i < id + 1 <=> i < id \/ i = id
                          /\ ~(id < id)
  BY <1>1 DEF EscrowId
<1>5. \A j : locked(j)' = (IF j = k THEN locked(j) \cup {id} ELSE locked(j)) /\ id \notin locked(j)
  BY <1>1, <1>2, <1>3, <1>4 DEF locked, holdsFunds
<1>6. \A i \in EscrowId : Owed'[i] = IF i = id THEN n ELSE Owed[i]
  BY <1>2, <1>3 DEF Owed
<1>7. \A j \in Token : ledger'[j][EscrowContract] =
          IF j = k THEN ledger[j][EscrowContract] + n ELSE ledger[j][EscrowContract]
  <2>1. /\ ledger[k] \in [Holder -> Nat] /\ sender \in Holder /\ EscrowContract \in Holder
        /\ sender # EscrowContract
    BY AddressesDiffer DEF EscrowTypeOK, Holder
  <2>2. moved(ledger[k], sender, EscrowContract, n)[EscrowContract] = ledger[k][EscrowContract] + n
    BY <1>1, <2>1 DEF moved
  <2>3. QED
    BY <1>1, <2>2 DEF transfer, EscrowTypeOK
<1>8. SUFFICES ASSUME NEW j \in Token
               PROVE  ledger'[j][EscrowContract] = SumFunctionOnSet(Owed', locked(j)')
  BY DEF VaultBacked, Owed
<1>9. \A i \in locked(j) : i \in EscrowId /\ i # id /\ Owed[i] \in Int /\ Owed'[i] = Owed[i]
  BY <1>5, <1>6, OwedIsInt DEF locked
<1>10. ledger[j][EscrowContract] = SumFunctionOnSet(Owed, locked(j))
  BY DEF VaultBacked, Owed
<1>11. CASE j = k
  <2>1. Owed'[id] = n /\ n \in Int
    BY <1>1, <1>6
  <2>2. SumFunctionOnSet(Owed', locked(j) \cup {id}) = SumFunctionOnSet(Owed, locked(j)) + Owed'[id]
    BY <1>5, <1>9, <2>1, LockedFinite, SumNew
  <2>3. QED
    BY <1>5, <1>7, <1>10, <1>11, <2>1, <2>2
<1>12. CASE j # k
  <2>1. SumFunctionOnSet(Owed, locked(j)) = SumFunctionOnSet(Owed', locked(j))
    BY <1>9, LockedFinite, SumSame
  <2>2. QED
    BY <1>5, <1>7, <1>10, <1>12, <2>1
<1>13. QED
  BY <1>11, <1>12

\* A ruling pays its two shares, which are the escrow's amount together.
LEMMA VaultRuling ==
    ASSUME EscrowTypeOK, VaultBacked, NEW sender \in Accounts \cup {RegistryContract},
           NEW id \in EscrowId, NEW b \in Nat, NEW s \in Nat, executeVerdict(sender, id, b, s)
    PROVE  VaultBacked'
<1> DEFINE e == escrows[id]
           toBuyer == transfer(ledger, e.token, EscrowContract, e.buyerCoop, b)
<1>1. e \in Trade /\ id < nextEscrowId
  BY RulingTypeStep
<1>2. /\ b + s = e.amount /\ inStatus(id, "Disputed") /\ setStatus(id, "Arbitrated")
      /\ ledger[e.token][EscrowContract] >= e.amount /\ UNCHANGED nextEscrowId
      /\ ledger' = transfer(toBuyer, e.token, EscrowContract, e.sellerCoop, s)
  BY DEF executeVerdict, vaultCovers
<1>3. /\ e.token \in Token /\ e.buyerCoop \in Coops /\ e.sellerCoop \in Coops /\ e.amount \in Nat
      /\ ledger \in LedgerType /\ ledger[e.token][EscrowContract] \in Nat
  <2>1. e.token \in Token /\ e.buyerCoop \in Coops /\ e.sellerCoop \in Coops /\ e.amount \in Nat
    BY <1>1 DEF Trade
  <2>2. ledger \in LedgerType
    BY DEF EscrowTypeOK, LedgerType
  <2>3. QED
    BY <2>1, <2>2 DEF LedgerType, Holder
<1>4. ledger[e.token][EscrowContract] >= b
  BY <1>2, <1>3
<1>5. /\ toBuyer \in LedgerType
      /\ \A k \in Token : toBuyer[k][EscrowContract] =
             IF k = e.token THEN ledger[k][EscrowContract] - b ELSE ledger[k][EscrowContract]
  BY <1>3, <1>4, VaultPays
<1>6. toBuyer[e.token][EscrowContract] >= s
  <2>1. toBuyer[e.token][EscrowContract] = ledger[e.token][EscrowContract] - b
    BY <1>3, <1>5
  <2>2. QED
    BY <1>2, <1>3, <2>1
<1> HIDE DEF toBuyer
<1>7. \A k \in Token : ledger'[k][EscrowContract] =
          IF k = e.token THEN toBuyer[k][EscrowContract] - s ELSE toBuyer[k][EscrowContract]
  BY <1>2, <1>3, <1>5, <1>6, VaultPays
<1>8. \A k \in Token : ledger'[k][EscrowContract] =
          IF k = e.token THEN ledger[k][EscrowContract] - e.amount ELSE ledger[k][EscrowContract]
  BY <1>2, <1>3, <1>5, <1>7
<1>9. holdsFunds(id)
  BY <1>1, <1>2 DEF holdsFunds, inStatus
<1>10. QED
  BY <1>1, <1>2, <1>8, <1>9, VaultSettles

LEMMA VaultEscrows ==
    ASSUME EscrowTypeOK, VaultBacked, EscrowNext
    PROVE  VaultBacked'
<1>1. ASSUME NEW registry \in Appointable, setEscrowRegistry(registry)
      PROVE  VaultBacked'
  BY <1>1, VaultStill DEF setEscrowRegistry
<1>2. ASSUME NEW sender \in Coops, NEW seller \in Coops, NEW k \in Token,
             NEW n \in Amounts, NEW x \in 0..MaxTime,
             createEscrow(sender, seller, k, n, x)
      PROVE  VaultBacked'
  BY <1>2, VaultOpens
<1>3. ASSUME NEW sender \in Coops, NEW id \in EscrowId, confirmDelivery(sender, id)
      PROVE  VaultBacked'
  <2>1. id < nextEscrowId /\ holdsFunds(id)
    BY <1>3, PartyOfTrade DEF confirmDelivery, onlyParty, holdsFunds, inStatus
  <2>2. escrows[id] \in Trade
    BY <2>1 DEF EscrowTypeOK
  <2>3. /\ escrows[id].sellerCoop \in Coops /\ escrows[id].token \in Token /\ escrows[id].amount \in Nat
        /\ ledger \in LedgerType /\ ledger[escrows[id].token][EscrowContract] >= escrows[id].amount
    BY <1>3, <2>2 DEF confirmDelivery, vaultCovers, Trade, EscrowTypeOK, LedgerType
  <2>4. \A k \in Token : ledger'[k][EscrowContract] =
            IF k = escrows[id].token THEN ledger[k][EscrowContract] - escrows[id].amount
            ELSE ledger[k][EscrowContract]
    BY <1>3, <2>3, VaultPays DEF confirmDelivery
  <2>5. setStatus(id, "Released") /\ UNCHANGED nextEscrowId
    BY <1>3 DEF confirmDelivery
  <2>6. QED
    BY <2>1, <2>4, <2>5, VaultSettles
<1>4. ASSUME NEW sender \in Coops, NEW id \in EscrowId, dispute(sender, id)
      PROVE  VaultBacked'
  <2>1. id < nextEscrowId
    BY <1>4, PartyOfTrade DEF dispute
  <2>2. escrows[id] \in Trade /\ escrows[id].status = "Active"
    BY <1>4, <2>1 DEF EscrowTypeOK, dispute, inStatus
  <2>3. \A i \in EscrowId : /\ escrows'[i].amount = escrows[i].amount /\ escrows'[i].token = escrows[i].token
                            /\ escrows'[i].status = IF i = id THEN "Disputed" ELSE escrows[i].status
    BY <1>4, <2>2 DEF dispute, setStatus, EscrowTypeOK, Trade
  <2>4. \A k : locked(k)' = locked(k)
    BY <1>4, <2>2, <2>3 DEF locked, holdsFunds, dispute
  <2>5. [i \in EscrowId |-> escrows'[i].amount] = [i \in EscrowId |-> escrows[i].amount]
    BY <2>3
  <2>6. QED
    BY <1>4, <2>4, <2>5 DEF VaultBacked, dispute
<1>5. ASSUME NEW sender \in Coops, NEW id \in EscrowId, claimExpiry(sender, id)
      PROVE  VaultBacked'
  <2>1. id < nextEscrowId /\ holdsFunds(id)
    BY <1>5, PartyOfTrade DEF claimExpiry, holdsFunds, inStatus
  <2>2. escrows[id] \in Trade
    BY <2>1 DEF EscrowTypeOK
  <2>3. /\ escrows[id].buyerCoop \in Coops /\ escrows[id].token \in Token /\ escrows[id].amount \in Nat
        /\ ledger \in LedgerType /\ ledger[escrows[id].token][EscrowContract] >= escrows[id].amount
    BY <1>5, <2>2 DEF claimExpiry, vaultCovers, Trade, EscrowTypeOK, LedgerType
  <2>4. \A k \in Token : ledger'[k][EscrowContract] =
            IF k = escrows[id].token THEN ledger[k][EscrowContract] - escrows[id].amount
            ELSE ledger[k][EscrowContract]
    BY <1>5, <2>3, VaultPays DEF claimExpiry
  <2>5. setStatus(id, "Expired") /\ UNCHANGED nextEscrowId
    BY <1>5 DEF claimExpiry
  <2>6. QED
    BY <2>1, <2>4, <2>5, VaultSettles
<1>6. ASSUME NEW sender \in Accounts, NEW id \in EscrowId, NEW b \in 0..Wealth, NEW s \in 0..Wealth,
             executeVerdict(sender, id, b, s)
      PROVE  VaultBacked'
  BY <1>6, VaultRuling, EscrowAssumption
<1>7. QED
  BY <1>1, <1>2, <1>3, <1>4, <1>5, <1>6 DEF EscrowNext

(***************************************************************************)
(* The vault holds what the unsettled escrows owe, token by token, in      *)
(* every reachable state: one contract balance covers all of them.         *)
(***************************************************************************)
THEOREM VaultIsBacked == Spec => []VaultBacked
<1>1. Init => VaultBacked
  <2> SUFFICES ASSUME Init PROVE VaultBacked
    OBVIOUS
  <2>1. \A k : locked(k) = {}
    BY EscrowAssumption DEF Init, EscrowInit, locked, holdsFunds, EscrowId
  <2>2. \A k \in Token : ledger[k][EscrowContract] = 0
    BY DEF Init, EscrowInit, Holder
  <2>3. QED
    BY <2>1, <2>2, SumEmpty DEF VaultBacked
<1>2. TypeOK /\ VaultBacked /\ [Next]_vars => VaultBacked'
  <2> SUFFICES ASSUME TypeOK, VaultBacked, [Next]_vars PROVE VaultBacked'
    OBVIOUS
  <2>1. CASE UNCHANGED escrowVars
    BY <2>1, VaultStill DEF escrowVars
  <2>2. CASE EscrowNext
    BY <2>2, VaultEscrows DEF TypeOK
  <2>3. ASSUME NEW sender \in Accounts, NEW c \in CaseId, NEW outcome \in Outcomes,
               NEW pb \in Points \cup {0}, NEW ps \in Points \cup {0},
               NEW b \in 0..Wealth, NEW s \in 0..Wealth,
               recordVerdict(sender, c, outcome, b, s, pb, ps)
        PROVE  VaultBacked'
    <3>1. cases[c].escrowId \in EscrowId /\ executeVerdict(RegistryContract, cases[c].escrowId, b, s)
      BY <2>3, VerdictOnTrade DEF recordVerdict
    <3>2. QED
      BY <3>1, VaultRuling, EscrowAssumption DEF TypeOK
  <2>4. QED
    BY <2>1, <2>2, <2>3 DEF Next, CourtNext, openCase, registryRestoreTrust, vars, escrowVars
<1>3. QED
  BY <1>1, <1>2, TypeCorrect, PTL DEF Spec

-----------------------------------------------------------------------------
(***************************************************************************)
(* What recordVerdict asks, across the three contracts, of a verdict that  *)
(* pays all of an escrow to the seller and slashes nobody.                 *)
(***************************************************************************)
dismissalAllowed(id) ==
    LET c == escrowToCase[id]
        e == escrows[id]
    IN  /\ c \in CaseId /\ cases[c].escrowId = id
        /\ cases[c].opened /\ ~cases[c].executed
        /\ RegistryContract = escrowRegistry /\ inStatus(id, "Disputed")
        /\ 0 + e.amount = e.amount /\ vaultCovers(e.token, e.amount)
        /\ \A recs : /\ partySlashAllowed(recs, e.buyerCoop, 0) /\ partySlash(recs, e.buyerCoop, 0) = recs
                      /\ partySlashAllowed(recs, e.sellerCoop, 0)

\* The vault covers any one of the escrows it holds funds for.
LEMMA VaultCoversOne ==
    ASSUME EscrowTypeOK, VaultBacked, NEW id \in EscrowId, id < nextEscrowId, holdsFunds(id)
    PROVE  vaultCovers(escrows[id].token, escrows[id].amount)
<1> DEFINE k == escrows[id].token
<1>1. k \in Token /\ id \in locked(k)
  BY DEF EscrowTypeOK, Trade, locked
<1> HIDE DEF k
<1>2. \A i \in EscrowId : Owed[i] \in Nat
  BY DEF EscrowTypeOK, Owed, Trade, NoEscrow
<1>3. locked(k) \subseteq EscrowId /\ IsFiniteSet(locked(k) \ {id}) /\ IsFiniteSet(locked(k))
  BY LockedFinite, FS_Subset DEF locked
<1>4. SumFunctionOnSet(Owed, locked(k)) = Owed[id] + SumFunctionOnSet(Owed, locked(k) \ {id})
  <2>1. \A i \in locked(k) : Owed[i] \in Int
    BY <1>2, <1>3
  <2>2. QED
    BY <1>1, <1>3, <2>1, SumTake
<1>5. SumFunctionOnSet(Owed, locked(k) \ {id}) \in Nat
  <2>1. \A i \in locked(k) \ {id} : Owed[i] \in Nat
    BY <1>2, <1>3
  <2>2. QED
    BY <1>3, <2>1, SumNat
<1>6. ledger[k][EscrowContract] = SumFunctionOnSet(Owed, locked(k))
  BY <1>1 DEF VaultBacked, Owed
<1>7. Owed[id] = escrows[id].amount /\ Owed[id] \in Nat
  BY <1>2 DEF Owed
<1>8. QED
  BY <1>4, <1>5, <1>6, <1>7 DEF vaultCovers, k

(***************************************************************************)
(* No dispute is stranded, as far as the guards decide it: once the        *)
(* registry is wired, every refusal that recordVerdict could meet in the   *)
(* court, in the vault or at the members' register is excluded for every   *)
(* disputed escrow that has a case.                                        *)
(***************************************************************************)
THEOREM DisputesCanBeRuled ==
    Spec => [](\A id \in EscrowId :
                 /\ escrows[id].status = "Disputed" /\ escrowRegistry = RegistryContract
                 /\ hasCase(id)
                 => dismissalAllowed(id))
<1>1. ASSUME TypeOK, VerdictsMatchEscrows, VaultBacked, NEW id \in EscrowId,
             escrows[id].status = "Disputed", escrowRegistry = RegistryContract, hasCase(id)
      PROVE  dismissalAllowed(id)
  <2> DEFINE c == escrowToCase[id]
             e == escrows[id]
  <2>1. c \in CaseId
    BY <1>1, CourtAssumption DEF TypeOK, hasCase, CaseId
  <2>2. cases[c].escrowId = id /\ cases[c].opened /\ ~cases[c].executed
    BY <1>1, AddressesDiffer DEF VerdictsMatchEscrows, hasCase, caseOf, byCourt, NoRuling
  <2>3. e # NoEscrow
    BY <1>1 DEF NoEscrow
  <2>4. e \in Trade /\ id < nextEscrowId /\ e.amount \in Nat
    BY <1>1, <2>3 DEF TypeOK, EscrowTypeOK, Trade
  <2>5. vaultCovers(e.token, e.amount)
    BY <1>1, <2>4, VaultCoversOne DEF holdsFunds, TypeOK
  <2>6. \A recs, party : partySlashAllowed(recs, party, 0) /\ partySlash(recs, party, 0) = recs
    BY DEF partySlashAllowed, partySlash, slashSkipped
  <2>7. QED
    BY <1>1, <2>1, <2>2, <2>4, <2>5, <2>6 DEF dismissalAllowed, inStatus
<1>2. TypeOK /\ VerdictsMatchEscrows /\ VaultBacked =>
        \A id \in EscrowId : /\ escrows[id].status = "Disputed" /\ escrowRegistry = RegistryContract
                             /\ hasCase(id)
                             => dismissalAllowed(id)
  BY <1>1
<1>3. QED
  BY <1>2, TypeCorrect, VerdictsAgree, VaultIsBacked, PTL

-----------------------------------------------------------------------------
(***************************************************************************)
(* Reputation.  A slash touches the record of the party's present token    *)
(* and no other, and by MembershipAgrees that token's owner is the party.  *)
(***************************************************************************)
LEMMA SlashTouchesHolder ==
    ASSUME NEW recs \in RecordsType, NEW party \in Coops, NEW penalty \in Nat,
           TypeOK, MembershipAgrees, NEW t \in TokenId, owners[t] # party
    PROVE  partySlash(recs, party, penalty)[t] = recs[t]
<1>1. CASE slashSkipped(party, penalty)
  BY <1>1 DEF partySlash
<1>2. CASE ~slashSkipped(party, penalty)
  <2>1. t # memberToken[party]
    BY <1>2 DEF slashSkipped, MembershipAgrees
  <2>2. PICK score : partySlash(recs, party, penalty) =
                       [recs EXCEPT ![memberToken[party]].trustScore = score]
    BY <1>2 DEF partySlash, slashTrust
  <2>3. QED
    BY <2>1, <2>2 DEF RecordsType
<1>3. QED
  BY <1>1, <1>2

\* A score that falls is a party's, in the first execution of its case.
LEMMA TrustStep ==
    ASSUME TypeOK, MembershipAgrees, [Next]_vars, NEW t \in TokenId,
           memberRecords'[t].trustScore < memberRecords[t].trustScore
    PROVE  verdictAgainst(owners[t])
<1> USE IdentityAssumption
<1> DEFINE Falls == memberRecords'[t].trustScore < memberRecords[t].trustScore
<1>0. memberRecords[t] \in MemberRecord /\ memberRecords[t].trustScore \in 0..FullTrust
  BY DEF TypeOK, IdentityTypeOK, MemberRecord
<1>1. CASE UNCHANGED memberRecords
  BY <1>0, <1>1
<1>2. ASSUME NEW sender \in Accounts, NEW a \in Coops, attest(sender, a)
      PROVE  ~Falls
  BY <1>0, <1>2 DEF attest, TypeOK, IdentityTypeOK
<1>3. ASSUME NEW sender \in Accounts, NEW a \in Coops, revoke(sender, a)
      PROVE  ~Falls
  <2>1. memberToken[a] \in TokenId
    BY <1>3 DEF revoke, isMember, TypeOK, IdentityTypeOK, TokenId
  <2>2. memberRecords' = [memberRecords EXCEPT ![memberToken[a]].active = FALSE]
    BY <1>3 DEF revoke
  <2>3. memberRecords'[t].trustScore = memberRecords[t].trustScore
    BY <1>0, <2>1, <2>2 DEF TypeOK, IdentityTypeOK, MemberRecord
  <2>4. QED
    BY <1>0, <2>3
<1>4. ASSUME NEW sender, NEW a \in Coops, NEW p \in Points, restoreTrust(sender, a, p)
      PROVE  ~Falls
  <2> DEFINE m == memberToken[a]
             score == IF memberRecords[m].trustScore + p > FullTrust
                      THEN FullTrust ELSE memberRecords[m].trustScore + p
  <2>1. m \in TokenId
    BY <1>4 DEF restoreTrust, isMember, TypeOK, IdentityTypeOK, TokenId
  <2>2. memberRecords[m].trustScore \in 0..FullTrust /\ p \in Nat
    BY <2>1 DEF TypeOK, IdentityTypeOK, MemberRecord
  <2>3. score >= memberRecords[m].trustScore /\ score \in Nat
    BY <2>2
  <2>4. memberRecords' = [memberRecords EXCEPT ![m].trustScore = score]
    BY <1>4 DEF restoreTrust
  <2> HIDE DEF score, m
  <2>5. CASE t = m
    <3>1. memberRecords'[t].trustScore = score
      BY <1>0, <2>1, <2>4, <2>5 DEF TypeOK, IdentityTypeOK, MemberRecord
    <3>2. QED
      BY <1>0, <2>3, <2>5, <3>1
  <2>6. CASE t # m
    <3>1. memberRecords'[t] = memberRecords[t]
      BY <2>4, <2>6 DEF TypeOK, IdentityTypeOK
    <3>2. QED
      BY <1>0, <3>1
  <2>7. QED
    BY <2>5, <2>6
<1>5. ASSUME NEW sender \in Accounts, NEW c \in CaseId, NEW outcome \in Outcomes,
             NEW pb \in Points \cup {0}, NEW ps \in Points \cup {0},
             NEW b \in 0..Wealth, NEW s \in 0..Wealth,
             recordVerdict(sender, c, outcome, b, s, pb, ps)
      PROVE  verdictAgainst(owners[t])
  <2> DEFINE e == escrows[cases[c].escrowId]
             afterBuyer == partySlash(memberRecords, e.buyerCoop, pb)
  <2>1. e \in Trade /\ cases[c] \in ArbitrationCase
    BY <1>5, VerdictOnTrade
  <2>2. afterBuyer \in RecordsType
    BY <1>5, <2>1, SlashType DEF recordVerdict, TypeOK, IdentityTypeOK, RecordsType, Trade
  <2>3. memberRecords' = partySlash(afterBuyer, e.sellerCoop, ps)
    BY <1>5 DEF recordVerdict
  <2>4. ~cases[c].executed /\ cases'[c].executed
    BY <1>5, <2>1 DEF recordVerdict, TypeOK, ArbitrationCase
  <2>5. owners[t] # e.buyerCoop => afterBuyer[t] = memberRecords[t]
    BY <2>1, SlashTouchesHolder DEF TypeOK, IdentityTypeOK, RecordsType, Trade
  <2> HIDE DEF afterBuyer
  <2>6. owners[t] # e.sellerCoop => memberRecords'[t] = afterBuyer[t]
    <3>1. e.sellerCoop \in Coops
      BY <2>1 DEF Trade
    <3>2. ps \in Nat
      OBVIOUS
    <3> HIDE DEF e
    <3>3. QED
      BY <2>2, <2>3, <3>1, <3>2, SlashTouchesHolder
  <2>7. owners[t] \in {e.buyerCoop, e.sellerCoop}
    BY <1>0, <2>5, <2>6
  <2>8. QED
    BY <2>4, <2>7 DEF verdictAgainst
<1>6. QED
  BY <1>1, <1>2, <1>3, <1>4, <1>5
  DEF Next, IdentityNext, CourtNext, openCase, registryRestoreTrust, vars, identityVars,
      setIdentityRegistry, setConstitution, transferSteward

(***************************************************************************)
(* A score falls only in the transaction that first executes a case the    *)
(* token's holder is a party of.                                           *)
(***************************************************************************)
THEOREM TrustGuarded == Spec => TrustFallsOnlyByVerdict
<1>1. TypeOK /\ MembershipAgrees /\ [Next]_vars =>
        [\A t \in TokenId :
            memberRecords'[t].trustScore < memberRecords[t].trustScore =>
                verdictAgainst(owners[t])]_vars
  BY TrustStep
<1>2. QED
  BY <1>1, TypeCorrect, Membership, PTL DEF Spec, TrustFallsOnlyByVerdict

-----------------------------------------------------------------------------
(***************************************************************************)
(* Rehabilitation.  restoreTrust of the registry reaches CoopIdentity with *)
(* the registry's own address, so it goes through only when the steward of *)
(* CoopIdentity is the registry.  But the registry's one call to it as     *)
(* steward is restoreTrust: memberships, wiring, constitution and          *)
(* stewardship itself then stay as they are, for ever.                     *)
(***************************************************************************)
stewardedByRegistry == steward = RegistryContract

registryRestores ==
    \E sender \in Accounts, a \in Coops, p \in Points : registryRestoreTrust(sender, a, p)

membershipsFrozen ==
    UNCHANGED <<memberToken, owners, balances, nextTokenId, steward, identityRegistry, constitution>>

RehabilitationCostsControl ==
    [][/\ registryRestores => stewardedByRegistry
       /\ stewardedByRegistry => membershipsFrozen]_vars

\* No account passes for the registry, which sends no transaction of its own.
LEMMA NoAccountIsRegistry ==
    ASSUME NEW sender \in Accounts, stewardedByRegistry
    PROVE  ~onlySteward(sender)
BY DEF Accounts, stewardedByRegistry, onlySteward

\* Under the registry's stewardship only scores are written.
LEMMA FrozenStep ==
    ASSUME [Next]_vars, stewardedByRegistry
    PROVE  membershipsFrozen
<1>1. ASSUME NEW sender \in Accounts, onlySteward(sender)
      PROVE  FALSE
  BY <1>1, NoAccountIsRegistry
<1>2. ~IdentityNext
  BY <1>1 DEF IdentityNext, attest, revoke, restoreTrust, setIdentityRegistry, setConstitution,
              transferSteward
<1>3. CASE UNCHANGED identityVars
  BY <1>3 DEF identityVars, membershipsFrozen
<1>4. ASSUME NEW sender \in Accounts, NEW c \in CaseId, NEW outcome \in Outcomes,
             NEW pb \in Points \cup {0}, NEW ps \in Points \cup {0},
             NEW b \in 0..Wealth, NEW s \in 0..Wealth,
             recordVerdict(sender, c, outcome, b, s, pb, ps)
      PROVE  membershipsFrozen
  BY <1>4 DEF recordVerdict, membershipsFrozen
<1>5. ASSUME NEW sender \in Accounts, NEW a \in Coops, NEW p \in Points,
             registryRestoreTrust(sender, a, p)
      PROVE  membershipsFrozen
  BY <1>5 DEF registryRestoreTrust, restoreTrust, membershipsFrozen
<1>6. QED
  BY <1>2, <1>3, <1>4, <1>5 DEF Next, CourtNext, openCase, vars

(***************************************************************************)
(* The two rights exclude each other: as long as the court can give scores *)
(* back, nobody can admit, expel or name a steward, and once it can it     *)
(* always can.                                                             *)
(***************************************************************************)
THEOREM RehabilitationFreezes == Spec => RehabilitationCostsControl
<1>1. registryRestores => stewardedByRegistry
  BY DEF registryRestores, registryRestoreTrust, restoreTrust, onlySteward, stewardedByRegistry
<1>2. [Next]_vars =>
        [/\ registryRestores => stewardedByRegistry
         /\ stewardedByRegistry => membershipsFrozen]_vars
  BY <1>1, FrozenStep
<1>3. QED
  BY <1>2, PTL DEF Spec, RehabilitationCostsControl

-----------------------------------------------------------------------------
(***************************************************************************)
(* Refinement.  Each transaction reads, through `deals', as one step of    *)
(* EscrowPromise or as none.                                               *)
(***************************************************************************)
\* Sending nothing changes nothing.
LEMMA ZeroMove ==
    ASSUME NEW l \in LedgerType, NEW k \in Token, NEW from \in Holder, NEW to \in Holder
    PROVE  Promise!Moved(l, k, from, to, 0) = l
<1>1. l[k] \in [Holder -> Nat]
  BY DEF LedgerType
<1>2. [l[k] EXCEPT ![from] = l[k][from] - 0] = l[k]
  BY <1>1
<1>3. [l[k] EXCEPT ![to] = l[k][to] + 0] = l[k]
  BY <1>1
<1>4. QED
  BY <1>1, <1>2, <1>3 DEF LedgerType, Promise!Moved

\* A transfer of the token is a move of the abstract specification.
LEMMA MovedIsTransfer ==
    ASSUME NEW l, NEW k, NEW from, NEW to, NEW n
    PROVE  Promise!Moved(l, k, from, to, n) = transfer(l, k, from, to, n)
BY DEF Promise!Moved, transfer, moved

\* A deal whose escrow and verdict stand still stands still.
LEMMA DealStands ==
    ASSUME NEW id \in EscrowId, escrows'[id] = escrows[id],
           id < nextEscrowId' <=> id < nextEscrowId,
           nextEscrowId \in Nat, nextEscrowId' \in Nat,
           ruling'[id] = ruling[id], byCourt(id) => caseOf(id)' = caseOf(id)
    PROVE  dealOf(id)' = dealOf(id)
<1>1. id \in Nat
  BY EscrowAssumption DEF EscrowId
<1>2. dealState(id)' = dealState(id)
  BY <1>1 DEF dealState
<1>3. paidToBuyer(id)' = paidToBuyer(id) /\ paidToSeller(id)' = paidToSeller(id)
  BY DEF paidToBuyer, paidToSeller, byCourt
<1>4. QED
  BY <1>2, <1>3 DEF dealOf

\* A transaction on one escrow changes one deal.
LEMMA OneDealMoves ==
    ASSUME NEW id \in EscrowId, \A i \in EscrowId : i # id => dealOf(i)' = dealOf(i)
    PROVE  deals' = [deals EXCEPT ![id] = dealOf(id)']
BY DEF deals

\* createEscrow locks a deal.
LEMMA PromiseLock ==
    ASSUME TypeOK, \A i \in EscrowId : RulingBooked(i), NEW sender \in Coops, NEW seller \in Coops, NEW k \in Token,
           NEW n \in Amounts, NEW x \in 0..MaxTime,
           createEscrow(sender, seller, k, n, x), UNCHANGED courtVars
    PROVE  Promise!Next
<1>0. PICK id \in EscrowId : id = nextEscrowId
  BY DEF createEscrow
<1> DEFINE e == [buyerCoop |-> sender, sellerCoop |-> seller, token |-> k,
                 amount |-> n, status |-> "Active", expiresAt |-> x]
           d == [state |-> "open", buyer |-> sender, seller |-> seller, money |-> k,
                 amount |-> n, toBuyer |-> 0, toSeller |-> 0, ruledBy |-> ZeroAddress]
<1>1. /\ id = nextEscrowId /\ nextEscrowId \in Nat /\ nextEscrowId' = id + 1
      /\ escrows' = [escrows EXCEPT ![id] = e]
      /\ ledger' = transfer(ledger, k, sender, EscrowContract, n)
      /\ n \in Nat \ {0} /\ ledger[k][sender] >= n /\ ledger[k][sender] \in Nat
  BY <1>0, EscrowAssumption DEF createEscrow, EscrowId, TypeOK, EscrowTypeOK, Holder
<1>2. escrows'[id] = e
  BY <1>1 DEF TypeOK, EscrowTypeOK
<1>a. ruling' = ruling /\ ruling[id] = NoRuling /\ ~byCourt(id)
  <2>1. ~(id < nextEscrowId)
    BY <1>1
  <2>2. escrows[id] = NoEscrow
    BY <2>1 DEF TypeOK, EscrowTypeOK
  <2>3. escrows[id].status = "Active"
    BY <2>2 DEF NoEscrow
  <2>4. ruling[id] = NoRuling
    BY <2>3 DEF RulingBooked
  <2>5. QED
    BY <2>4, AddressesDiffer DEF createEscrow, byCourt, NoRuling
<1>3. dealOf(id)' = d
  <2>1. id \in Nat /\ ~(id >= nextEscrowId')
    BY <1>1
  <2>2. escrows'[id].status = "Active" /\ escrows'[id].buyerCoop = sender
    BY <1>2
  <2>3. dealState(id)' = "open" /\ paidToBuyer(id)' = 0 /\ paidToSeller(id)' = 0
    BY <1>a, <2>1, <2>2 DEF dealState, paidToBuyer, paidToSeller, byCourt, NoRuling
  <2>4. QED
    BY <1>2, <1>a, <2>3 DEF dealOf, NoRuling
<1>4. \A i \in EscrowId : i # id => dealOf(i)' = dealOf(i)
  <2> SUFFICES ASSUME NEW i \in EscrowId, i # id PROVE dealOf(i)' = dealOf(i)
    OBVIOUS
  <2>1. escrows'[i] = escrows[i]
    BY <1>1 DEF TypeOK, EscrowTypeOK
  <2>2. i < nextEscrowId' <=> i < nextEscrowId
    BY <1>1 DEF EscrowId
  <2>3. caseOf(i)' = caseOf(i)
    BY DEF courtVars, caseOf
  <2>4. QED
    BY <1>1, <1>a, <2>1, <2>2, <2>3, DealStands
<1>5. deals' = [deals EXCEPT ![id] = d]
  <2>1. deals' = [deals EXCEPT ![id] = dealOf(id)']
    BY <1>1, <1>4, OneDealMoves
  <2> HIDE DEF d
  <2>2. QED
    BY <1>3, <2>1
<1>6. deals[id].state = "none"
  BY <1>1 DEF deals, dealOf, dealState
<1>7. Promise!Lock(id, sender, seller, k, n)
  BY <1>1, <1>5, <1>6, MovedIsTransfer DEF Promise!Lock, createEscrow
<1>8. n \in 1..ledger[k][sender]
  BY <1>1
<1>9. QED
  BY <1>1, <1>7, <1>8 DEF Promise!Next

\* The part every settlement and dispute share: one created escrow changes
\* status, everything else stands.
LEMMA PromiseStatus ==
    ASSUME TypeOK, NEW id \in EscrowId, id < nextEscrowId, NEW new \in Status,
           setStatus(id, new), UNCHANGED nextEscrowId,
           \A i \in EscrowId : i # id => /\ ruling'[i] = ruling[i]
                                         /\ byCourt(i) => caseOf(i)' = caseOf(i)
    PROVE  /\ deals' = [deals EXCEPT ![id] = dealOf(id)']
           /\ escrows'[id] = [escrows[id] EXCEPT !.status = new]
           /\ escrows'[id].status = new
           /\ escrows[id] \in Trade
           /\ id \in Nat /\ ~(id >= nextEscrowId) /\ nextEscrowId' = nextEscrowId
<1>1. escrows'[id] = [escrows[id] EXCEPT !.status = new] /\ escrows[id] \in Trade
  BY SettledTrade DEF TypeOK, EscrowTypeOK
<1>2. \A i \in EscrowId : i # id => escrows'[i] = escrows[i]
  BY DEF setStatus, TypeOK, EscrowTypeOK
<1>3. nextEscrowId \in Nat /\ id \in Nat
  BY EscrowAssumption DEF TypeOK, EscrowTypeOK, EscrowId
<1>4. \A i \in EscrowId : i # id => dealOf(i)' = dealOf(i)
  BY <1>2, <1>3, DealStands
<1>5. deals' = [deals EXCEPT ![id] = dealOf(id)']
  BY <1>4, OneDealMoves
<1>6. escrows'[id].status = new
  BY <1>1 DEF Trade
<1>7. QED
  BY <1>1, <1>3, <1>5, <1>6

\* What the deal of a created, unsettled escrow looks like.
LEMMA DealNow ==
    ASSUME TypeOK, \A i \in EscrowId : RulingBooked(i), NEW id \in EscrowId, id < nextEscrowId
    PROVE  /\ deals[id] = dealOf(id)
           /\ escrows[id].status = "Active" => deals[id].state = "open"
           /\ escrows[id].status = "Disputed" => deals[id].state = "contested"
           /\ deals[id].buyer = escrows[id].buyerCoop
           /\ deals[id].seller = escrows[id].sellerCoop
           /\ deals[id].money = escrows[id].token
           /\ deals[id].amount = escrows[id].amount
           /\ escrows[id].status \in {"Active", "Disputed"} =>
                 /\ deals[id].toBuyer = 0 /\ deals[id].toSeller = 0
                 /\ deals[id].ruledBy = ZeroAddress
<1>1. id \in Nat /\ nextEscrowId \in Nat /\ ~(id >= nextEscrowId)
  BY EscrowAssumption DEF TypeOK, EscrowTypeOK, EscrowId
<1>2. deals[id] = dealOf(id)
  BY DEF deals
<1>3. escrows[id].status \in {"Active", "Disputed"} => ruling[id] = NoRuling /\ ~byCourt(id)
  BY AddressesDiffer DEF RulingBooked, byCourt, NoRuling
<1>4. QED
  BY <1>1, <1>2, <1>3 DEF dealOf, dealState, paidToBuyer, paidToSeller, NoRuling

\* A payout of a created escrow, split as toBuyer and toSeller, is a Pay.
LEMMA PromisePay ==
    ASSUME TypeOK, \A i \in EscrowId : RulingBooked(i), NEW id \in EscrowId, id < nextEscrowId,
           NEW new \in {"Released", "Arbitrated", "Expired"},
           setStatus(id, new), UNCHANGED << nextEscrowId, escrowRegistry >>,
           escrows[id].status \in {"Active", "Disputed"},
           \A i \in EscrowId : i # id => /\ ruling'[i] = ruling[i]
                                         /\ byCourt(i) => caseOf(i)' = caseOf(i),
           NEW toBuyer \in Nat, NEW toSeller \in Nat,
           toBuyer + toSeller = escrows[id].amount,
           NEW by, ruling'[id].by = by,
           paidToBuyer(id)' = toBuyer, paidToSeller(id)' = toSeller,
           ledger' = transfer(transfer(ledger, escrows[id].token, EscrowContract,
                                       escrows[id].buyerCoop, toBuyer),
                              escrows[id].token, EscrowContract,
                              escrows[id].sellerCoop, toSeller)
    PROVE  Promise!Pay(id, toBuyer, toSeller, by)
<1> DEFINE e == escrows[id]
           d == [state |-> "settled", buyer |-> e.buyerCoop, seller |-> e.sellerCoop,
                 money |-> e.token, amount |-> e.amount,
                 toBuyer |-> toBuyer, toSeller |-> toSeller, ruledBy |-> by]
<1>1. /\ deals' = [deals EXCEPT ![id] = dealOf(id)']
      /\ escrows'[id] = [e EXCEPT !.status = new] /\ escrows'[id].status = new
      /\ e \in Trade /\ id \in Nat /\ ~(id >= nextEscrowId) /\ nextEscrowId' = nextEscrowId
  BY PromiseStatus DEF Status
<1>2. dealState(id)' = "settled"
  BY <1>1 DEF dealState
<1>3. /\ escrows'[id].buyerCoop = e.buyerCoop /\ escrows'[id].sellerCoop = e.sellerCoop
      /\ escrows'[id].token = e.token /\ escrows'[id].amount = e.amount
  BY <1>1 DEF Trade
<1>4. dealOf(id)' = d
  BY <1>2, <1>3 DEF dealOf
<1>6. d = Promise!Settled(deals[id], toBuyer, toSeller, by)
  BY DealNow DEF Promise!Settled
<1>7. deals' = [deals EXCEPT ![id] = Promise!Settled(deals[id], toBuyer, toSeller, by)]
  BY <1>1, <1>4, <1>6
<1>8. QED
  BY <1>7, DealNow, MovedIsTransfer DEF Promise!Pay

\* Every transaction is a step of the abstract specification, or a stutter.
LEMMA PromiseSteps ==
    ASSUME TypeOK, TypeOK', VerdictsMatchEscrows, VerdictsMatchEscrows', [Next]_vars
    PROVE  [Promise!Next]_(Promise!vars)
<1>0. \A i \in EscrowId : RulingBooked(i)
  BY DEF VerdictsMatchEscrows, RulingBooked
<1>1. ASSUME UNCHANGED << escrows, nextEscrowId, ledger, ruling >>,
             \A i \in EscrowId : byCourt(i) => caseOf(i)' = caseOf(i)
      PROVE  UNCHANGED << deals, ledger >>
  <2>1. nextEscrowId \in Nat
    BY DEF TypeOK, EscrowTypeOK
  <2>2. \A i \in EscrowId : dealOf(i)' = dealOf(i)
    BY <1>1, <2>1, DealStands
  <2>3. QED
    BY <1>1, <2>2 DEF deals
<1>2. ASSUME UNCHANGED << escrowVars, courtVars >>
      PROVE  UNCHANGED Promise!vars
  BY <1>1, <1>2 DEF escrowVars, courtVars, caseOf, Promise!vars
<1>3. ASSUME NEW registry \in Appointable, setEscrowRegistry(registry), UNCHANGED courtVars
      PROVE  Promise!Next
  <2>1. UNCHANGED << deals, ledger >> /\ escrowRegistry' = registry
    BY <1>1, <1>3 DEF setEscrowRegistry, courtVars, caseOf
  <2>2. Promise!Appoint(registry)
    BY <2>1 DEF Promise!Appoint
  <2>3. QED
    BY <2>2 DEF Promise!Next
<1>4. ASSUME NEW sender \in Accounts, NEW id \in EscrowId, openCase(sender, id)
      PROVE  UNCHANGED Promise!vars
  <2>1. /\ escrowToCase[id] = 0 /\ nextCaseId \in CaseId
        /\ \A i \in EscrowId : i # id => escrowToCase'[i] = escrowToCase[i]
        /\ \A c \in CaseId : c # nextCaseId => cases'[c] = cases[c]
        /\ UNCHANGED << escrows, nextEscrowId, ledger, ruling, escrowRegistry >>
    BY <1>4 DEF openCase, escrowVars, TypeOK
  <2>2. ASSUME NEW i \in EscrowId, byCourt(i)
        PROVE  caseOf(i)' = caseOf(i)
    <3>1. escrowToCase[i] # 0 /\ cases[escrowToCase[i]].opened
      BY <2>2 DEF VerdictsMatchEscrows, hasCase, caseOf
    <3>2. i # id /\ escrowToCase[i] \in CaseId
      BY <2>1, <3>1, CourtAssumption DEF TypeOK, CaseId
    <3>3. ~cases[nextCaseId].opened
      BY <2>1, CourtAssumption DEF VerdictsMatchEscrows, TypeOK, CaseId
    <3>4. QED
      BY <2>1, <3>1, <3>2, <3>3 DEF caseOf
  <2>3. QED
    BY <1>1, <2>1, <2>2 DEF Promise!vars
<1>5. ASSUME NEW sender \in Coops, NEW seller \in Coops, NEW k \in Token,
             NEW n \in Amounts, NEW x \in 0..MaxTime,
             createEscrow(sender, seller, k, n, x), UNCHANGED courtVars
      PROVE  Promise!Next
  BY <1>0, <1>5, PromiseLock
<1>6. ASSUME NEW sender \in Coops, NEW id \in EscrowId, confirmDelivery(sender, id),
             UNCHANGED courtVars
      PROVE  Promise!Next
  <2> DEFINE e == escrows[id]
  <2>1. id < nextEscrowId
    BY <1>6, PartyOfTrade DEF confirmDelivery, onlyParty, TypeOK
  <2>2. /\ setStatus(id, "Released") /\ nextEscrowId' = nextEscrowId /\ e.status = "Active"
        /\ ledger' = transfer(ledger, e.token, EscrowContract, e.sellerCoop, e.amount)
    BY <1>6 DEF confirmDelivery, inStatus
  <2>3. e \in Trade /\ e.amount \in Nat
    BY <2>1 DEF TypeOK, EscrowTypeOK, Trade
  <2>4. escrows'[id].status = "Released" /\ escrows'[id].amount = e.amount
    BY <2>2, <2>3 DEF setStatus, TypeOK, EscrowTypeOK, Trade
  <2>a. ruling' = ruling /\ ruling[id] = NoRuling /\ NoRuling.by = ZeroAddress
        /\ ZeroAddress # RegistryContract
    BY <1>0, <1>6, <2>2, AddressesDiffer DEF RulingBooked, confirmDelivery, NoRuling
  <2>5. paidToBuyer(id)' = 0 /\ paidToSeller(id)' = e.amount
    BY <2>4, <2>a DEF paidToBuyer, paidToSeller, byCourt, NoRuling
  <2>6. transfer(ledger, e.token, EscrowContract, e.buyerCoop, 0) = ledger
    BY <2>3, ZeroMove, MovedIsTransfer
    DEF Trade, Holder, TypeOK, EscrowTypeOK, LedgerType
  <2>7. \A i \in EscrowId : caseOf(i)' = caseOf(i)
    BY <1>6 DEF courtVars, caseOf
  <2> HIDE DEF e
  <2>8. Promise!Pay(id, 0, e.amount, ZeroAddress)
    <3>1. UNCHANGED << nextEscrowId, escrowRegistry >> /\ ruling'[id].by = ZeroAddress
      BY <1>6, <2>a DEF confirmDelivery
    <3>2. QED
      BY <1>0, <2>1, <2>2, <2>3, <2>5, <2>6, <2>7, <2>a, <3>1, PromisePay DEF e
  <2>9. Promise!Complete(id)
    BY <1>0, <2>1, <2>2, <2>8, DealNow DEF Promise!Complete, e
  <2>10. QED
    BY <2>9 DEF Promise!Next
<1>7. ASSUME NEW sender \in Coops, NEW id \in EscrowId, claimExpiry(sender, id),
             UNCHANGED courtVars
      PROVE  Promise!Next
  <2> DEFINE e == escrows[id]
             paid == transfer(ledger, e.token, EscrowContract, e.buyerCoop, e.amount)
  <2>1. id < nextEscrowId
    BY <1>7, PartyOfTrade DEF claimExpiry, TypeOK
  <2>2. /\ setStatus(id, "Expired") /\ nextEscrowId' = nextEscrowId /\ e.status = "Active"
        /\ ledger' = paid /\ ledger[e.token][EscrowContract] >= e.amount
    BY <1>7 DEF claimExpiry, inStatus, vaultCovers
  <2>3. e \in Trade /\ e.amount \in Nat
    BY <2>1 DEF TypeOK, EscrowTypeOK, Trade
  <2>4. escrows'[id].status = "Expired" /\ escrows'[id].amount = e.amount
    BY <2>2, <2>3 DEF setStatus, TypeOK, EscrowTypeOK, Trade
  <2>a. ruling' = ruling /\ ruling[id] = NoRuling /\ NoRuling.by = ZeroAddress
        /\ ZeroAddress # RegistryContract
    BY <1>0, <1>7, <2>2, AddressesDiffer DEF RulingBooked, claimExpiry, NoRuling
  <2>5. paidToBuyer(id)' = e.amount /\ paidToSeller(id)' = 0
    BY <2>4, <2>a DEF paidToBuyer, paidToSeller, byCourt, NoRuling
  <2>6. paid \in LedgerType
    BY <2>2, <2>3, TransferType DEF Trade, Holder, TypeOK, EscrowTypeOK, LedgerType
  <2>7. transfer(paid, e.token, EscrowContract, e.sellerCoop, 0) = paid
    <3>1. /\ e.token \in Token /\ EscrowContract \in Holder /\ e.sellerCoop \in Holder
      BY <2>3 DEF Trade, Holder
    <3> HIDE DEF paid, e
    <3>2. QED
      BY <2>6, <3>1, ZeroMove, MovedIsTransfer
  <2>8. \A i \in EscrowId : caseOf(i)' = caseOf(i)
    BY <1>7 DEF courtVars, caseOf
  <2> HIDE DEF e
  <2>9. Promise!Pay(id, e.amount, 0, ZeroAddress)
    <3>1. UNCHANGED << nextEscrowId, escrowRegistry >> /\ ruling'[id].by = ZeroAddress
      BY <1>7, <2>a DEF claimExpiry
    <3>2. QED
      BY <1>0, <2>1, <2>2, <2>3, <2>5, <2>7, <2>8, <2>a, <3>1, PromisePay DEF e
  <2>10. Promise!Complete(id)
    BY <1>0, <2>1, <2>2, <2>9, DealNow DEF Promise!Complete, e
  <2>11. QED
    BY <2>10 DEF Promise!Next
<1>8. ASSUME NEW sender \in Coops, NEW id \in EscrowId, dispute(sender, id),
             UNCHANGED courtVars
      PROVE  Promise!Next
  <2>1. id < nextEscrowId
    BY <1>8, PartyOfTrade DEF dispute, TypeOK
  <2>2. /\ setStatus(id, "Disputed") /\ nextEscrowId' = nextEscrowId
        /\ escrows[id].status = "Active" /\ ledger' = ledger /\ ruling' = ruling
        /\ escrowRegistry' = escrowRegistry
    BY <1>8 DEF dispute, inStatus
  <2>3. \A i \in EscrowId : caseOf(i)' = caseOf(i)
    BY <1>8 DEF courtVars, caseOf
  <2>4. /\ deals' = [deals EXCEPT ![id] = dealOf(id)']
        /\ escrows'[id] = [escrows[id] EXCEPT !.status = "Disputed"]
        /\ escrows'[id].status = "Disputed" /\ escrows[id] \in Trade
        /\ id \in Nat /\ ~(id >= nextEscrowId)
    BY <2>1, <2>2, <2>3, PromiseStatus DEF Status
  <2>a. ruling[id] = NoRuling /\ ~byCourt(id)
    BY <1>0, <2>2, AddressesDiffer DEF RulingBooked, byCourt, NoRuling
  <2>5. dealOf(id)' = [dealOf(id) EXCEPT !.state = "contested"]
    BY <2>2, <2>4, <2>a DEF dealOf, dealState, paidToBuyer, paidToSeller, byCourt, NoRuling, Trade
  <2>6. deals' = [deals EXCEPT ![id].state = "contested"]
    BY <2>4, <2>5 DEF deals
  <2>7. Promise!Contest(id)
    BY <1>0, <2>1, <2>2, <2>6, DealNow DEF Promise!Contest
  <2>8. QED
    BY <2>7 DEF Promise!Next
<1>9. ASSUME NEW sender \in Accounts \cup {RegistryContract}, NEW id \in EscrowId,
             NEW b \in Nat, NEW s \in Nat, executeVerdict(sender, id, b, s),
             paidToBuyer(id)' = b, paidToSeller(id)' = s,
             \A i \in EscrowId : i # id => (byCourt(i) => caseOf(i)' = caseOf(i))
      PROVE  Promise!Next
  <2> DEFINE e == escrows[id]
  <2>1. e \in Trade /\ id < nextEscrowId
    BY <1>9, RulingTypeStep DEF TypeOK
  <2>2. /\ e.status = "Disputed" /\ b + s = e.amount /\ sender = escrowRegistry
        /\ UNCHANGED << nextEscrowId, escrowRegistry >>
        /\ setStatus(id, "Arbitrated")
        /\ ledger' = transfer(transfer(ledger, e.token, EscrowContract, e.buyerCoop, b),
                              e.token, EscrowContract, e.sellerCoop, s)
    BY <1>9 DEF executeVerdict, inStatus
  <2>3. sender # ZeroAddress
    BY AddressesDiffer DEF Accounts
  <2>4. /\ \A i \in EscrowId : i # id => ruling'[i] = ruling[i]
        /\ ruling'[id].by = sender
    BY <1>0, <1>9, <2>1, <2>3, RulingWritten
  <2>5. s = e.amount - b /\ b \in 0..e.amount
    BY <2>1, <2>2 DEF Trade
  <2>6. Promise!Pay(id, b, s, sender)
    BY <1>0, <1>9, <2>1, <2>2, <2>4, PromisePay
  <2>7. Promise!Rule(id, b) /\ b \in 0..deals[id].amount
    BY <1>0, <2>1, <2>2, <2>5, <2>6, DealNow DEF Promise!Rule
  <2>8. QED
    BY <2>7 DEF Promise!Next
<1>10. ASSUME NEW sender \in Accounts, NEW id \in EscrowId, NEW b \in 0..Wealth, NEW s \in 0..Wealth,
              executeVerdict(sender, id, b, s), UNCHANGED courtVars
       PROVE  Promise!Next
  <2>1. b \in Nat /\ s \in Nat /\ sender # RegistryContract /\ sender # ZeroAddress
    BY EscrowAssumption, AddressesDiffer DEF Accounts
  <2>2. escrows[id] \in Trade
    BY <1>10, <2>1, RulingTypeStep DEF TypeOK
  <2>3. ruling'[id].by = sender /\ ruling'[id].toBuyer = b /\ ruling'[id].toSeller = s
    BY <1>10 DEF executeVerdict, TypeOK, EscrowTypeOK
  <2>4. escrows'[id].status = "Arbitrated"
    BY <1>10, <2>2 DEF executeVerdict, setStatus, TypeOK, EscrowTypeOK, Trade
  <2>5. paidToBuyer(id)' = b /\ paidToSeller(id)' = s
    BY <2>1, <2>3, <2>4 DEF paidToBuyer, paidToSeller, byCourt
  <2>6. \A i \in EscrowId : caseOf(i)' = caseOf(i)
    BY <1>10 DEF courtVars, caseOf
  <2>7. QED
    BY <1>9, <1>10, <2>1, <2>5, <2>6
<1>11. ASSUME NEW sender \in Accounts, NEW c \in CaseId, NEW outcome \in Outcomes,
             NEW pb \in Points \cup {0}, NEW ps \in Points \cup {0},
             NEW b \in 0..Wealth, NEW s \in 0..Wealth,
             recordVerdict(sender, c, outcome, b, s, pb, ps)
      PROVE  Promise!Next
  <2>1. PICK id \in EscrowId : /\ id = cases[c].escrowId
                               /\ cases[c] \in ArbitrationCase
                               /\ escrows[id] \in Trade /\ id < nextEscrowId
    BY <1>11, VerdictOnTrade
  <2>2. /\ cases[c].opened /\ ~cases[c].executed
        /\ escrowToCase' = escrowToCase
        /\ executeVerdict(RegistryContract, id, b, s)
    BY <1>11, <2>1 DEF recordVerdict
  <2>3. /\ \A d \in CaseId : d # c => cases'[d] = cases[d]
        /\ cases'[c].buyerAmount = b /\ cases'[c].sellerAmount = s
    BY <1>11, <2>1 DEF recordVerdict, TypeOK, ArbitrationCase
  <2>4. escrowToCase[id] = c
    BY <2>1, <2>2 DEF VerdictsMatchEscrows
  <2>5. ASSUME NEW i \in EscrowId, byCourt(i)
        PROVE  i # id => caseOf(i)' = caseOf(i)
    <3>1. escrowToCase[i] # 0 /\ cases[escrowToCase[i]].executed
      BY <2>5 DEF VerdictsMatchEscrows, hasCase, caseOf
    <3>2. escrowToCase[i] \in CaseId /\ escrowToCase[i] # c
      BY <2>2, <3>1, CourtAssumption DEF TypeOK, CaseId
    <3>3. QED
      BY <2>2, <2>3, <3>2 DEF caseOf
  <2>6. escrows'[id].status = "Arbitrated"
    BY <2>1, <2>2 DEF executeVerdict, setStatus, TypeOK, EscrowTypeOK, Trade
  <2>7. byCourt(id)'
    BY <1>0, <2>1, <2>2, AddressesDiffer, RulingWritten DEF byCourt
  <2>8. paidToBuyer(id)' = b /\ paidToSeller(id)' = s
    BY <2>2, <2>3, <2>4, <2>6, <2>7 DEF paidToBuyer, paidToSeller, caseOf
  <2>9. b \in Nat /\ s \in Nat
    BY EscrowAssumption
  <2>10. QED
    BY <1>9, <2>2, <2>5, <2>8, <2>9
<1>12. QED
  BY <1>2, <1>3, <1>4, <1>5, <1>6, <1>7, <1>8, <1>10, <1>11
  DEF Next, EscrowNext, CourtNext, registryRestoreTrust, vars

(***************************************************************************)
(* The three contracts implement EscrowPromise: a deal locks once, pays    *)
(* the whole of its amount once, and a contested one only by a ruling of   *)
(* whoever is the registry at that moment, however often it was changed.   *)
(***************************************************************************)
THEOREM CourtKeepsPromise == Spec => PromiseKept
<1>1. Init => Promise!Init
  <2> SUFFICES ASSUME Init PROVE Promise!Init
    OBVIOUS
  <2>1. \A id \in EscrowId : escrows[id] = NoEscrow /\ id >= nextEscrowId
    BY EscrowAssumption DEF Init, EscrowInit, EscrowId
  <2>2. \A id \in EscrowId : dealOf(id) = Promise!NoDeal
    <3>1. \A id \in EscrowId : ruling[id] = NoRuling /\ ~byCourt(id)
      BY AddressesDiffer DEF Init, EscrowInit, byCourt, NoRuling
    <3>2. QED
      BY <2>1, <3>1 DEF dealOf, dealState, paidToBuyer, paidToSeller, NoEscrow, NoRuling,
         Promise!NoDeal
  <2>3. \A k \in Token : ledger[k][EscrowContract] = 0
    BY DEF Init, EscrowInit, Holder
  <2>4. QED
    BY <2>2, <2>3 DEF deals, Promise!Init, Init, EscrowInit
<1>2. QED
  BY <1>1, PromiseSteps, TypeCorrect, VerdictsAgree, PTL
  DEF Spec, PromiseKept, Promise!Spec
=============================================================================
