--------------------------- MODULE IskanderEscrow ---------------------------
(***************************************************************************)
(* contracts/src/IskanderEscrow.sol: funds of an inter-cooperative trade   *)
(* locked in one contract until delivery, expiry or a jury verdict.        *)
(*                                                                         *)
(* The ERC-20 tokens are external: `ledger' is their balanceOf, a transfer *)
(* moves it or reverts the transaction.  An approval is not state here: a  *)
(* buyer approves in the batch that creates the escrow, and without it the *)
(* transaction reverts.  CIDs, createdAt and the dispute hash are left out.*)
(***************************************************************************)
EXTENDS Chain, FiniteSetsExt

CONSTANTS
    Token,           \* ERC-20 contracts
    Amounts,         \* amounts offered to createEscrow
    Wealth,          \* every cooperative's balance of every token at the start
    Appointable,     \* addresses offered to setArbitrationRegistry
    MaxEscrows       \* bound: escrows ever created

ASSUME EscrowAssumption ==
    /\ Amounts \subseteq Nat
    /\ Wealth \in Nat
    /\ MaxEscrows \in Nat

EscrowId == 1..MaxEscrows
Status == {"Active", "Released", "Disputed", "Arbitrated", "Expired"}

VARIABLES
    escrows,         \* escrow id -> Escrow
    nextEscrowId,    \* _nextEscrowId
    escrowRegistry,  \* arbitrationRegistry
    ledger,          \* token -> address -> balance (external)
    ruling           \* escrow id -> its VerdictExecuted event and who sent it

escrowVars == << escrows, nextEscrowId, escrowRegistry, ledger, ruling >>

\* An id never written: the zero struct, whose status reads Active.
NoEscrow == [buyerCoop |-> ZeroAddress, sellerCoop |-> ZeroAddress,
             token |-> ZeroAddress, amount |-> 0,
             status |-> "Active", expiresAt |-> 0]

NoRuling == [by |-> ZeroAddress, toBuyer |-> 0, toSeller |-> 0]

Holder == Coops \cup {EscrowContract}

EscrowInit ==
    /\ escrows = [id \in EscrowId |-> NoEscrow]
    /\ nextEscrowId = 1
    /\ escrowRegistry = ZeroAddress
    /\ ledger = [k \in Token |-> [a \in Holder |->
                                    IF a = EscrowContract THEN 0 ELSE Wealth]]
    /\ ruling = [id \in EscrowId |-> NoRuling]

\* ERC-20 balances after moving n of k; a self-transfer moves nothing.
moved(row, from, to, n) ==
    LET paid == [row EXCEPT ![from] = @ - n] IN [paid EXCEPT ![to] = @ + n]

transfer(l, k, from, to, n) == [l EXCEPT ![k] = moved(l[k], from, to, n)]

\* A transfer out of the contract reverts unless its balance covers it.
vaultCovers(k, n) == ledger[k][EscrowContract] >= n

onlyParty(sender, id) ==
    sender \in {escrows[id].buyerCoop, escrows[id].sellerCoop}

inStatus(id, required) == escrows[id].status = required

setStatus(id, new) == escrows' = [escrows EXCEPT ![id].status = new]

\* Sent by anybody, at any time, over whatever was set before.
setEscrowRegistry(registry) ==
    /\ registry # ZeroAddress
    /\ escrowRegistry' = registry
    /\ UNCHANGED << escrows, nextEscrowId, ledger, ruling >>

createEscrow(sender, seller, k, amount, expiresAt) ==
    /\ seller # ZeroAddress /\ k # ZeroAddress
    /\ amount # 0
    /\ expiresAt # 0 => expiresAt > now
    /\ nextEscrowId \in EscrowId                      \* bound
    /\ ledger[k][sender] >= amount                    \* safeTransferFrom
    /\ escrows' = [escrows EXCEPT ![nextEscrowId] =
                      [buyerCoop |-> sender, sellerCoop |-> seller, token |-> k,
                       amount |-> amount, status |-> "Active",
                       expiresAt |-> expiresAt]]
    /\ nextEscrowId' = nextEscrowId + 1
    /\ ledger' = transfer(ledger, k, sender, EscrowContract, amount)
    /\ UNCHANGED << escrowRegistry, ruling >>

\* Variant of confirmDelivery that does not look at the status.
confirmAnyStatus(sender, id) ==
    LET e == escrows[id] IN
    /\ sender = e.buyerCoop
    /\ vaultCovers(e.token, e.amount)
    /\ setStatus(id, "Released")
    /\ ledger' = transfer(ledger, e.token, EscrowContract, e.sellerCoop, e.amount)
    /\ UNCHANGED << nextEscrowId, escrowRegistry, ruling >>

confirmDelivery(sender, id) ==
    LET e == escrows[id] IN
    /\ inStatus(id, "Active")
    /\ sender = e.buyerCoop
    /\ vaultCovers(e.token, e.amount)
    /\ setStatus(id, "Released")
    /\ ledger' = transfer(ledger, e.token, EscrowContract, e.sellerCoop, e.amount)
    /\ UNCHANGED << nextEscrowId, escrowRegistry, ruling >>

dispute(sender, id) ==
    /\ onlyParty(sender, id)
    /\ inStatus(id, "Active")
    /\ setStatus(id, "Disputed")
    /\ UNCHANGED << nextEscrowId, escrowRegistry, ledger, ruling >>

\* Called by whoever is the registry: the court, in the transaction that records
\* its verdict, or an account that was appointed, in one of its own.
executeVerdict(sender, id, buyerAmount, sellerAmount) ==
    LET e == escrows[id] IN
    /\ sender = escrowRegistry
    /\ inStatus(id, "Disputed")
    /\ buyerAmount + sellerAmount = e.amount
    /\ vaultCovers(e.token, e.amount)
    /\ setStatus(id, "Arbitrated")
    /\ ledger' = transfer(transfer(ledger, e.token, EscrowContract, e.buyerCoop, buyerAmount),
                          e.token, EscrowContract, e.sellerCoop, sellerAmount)
    /\ ruling' = [ruling EXCEPT ![id] = [by |-> sender, toBuyer |-> buyerAmount,
                                        toSeller |-> sellerAmount]]
    /\ UNCHANGED << nextEscrowId, escrowRegistry >>

\* Variant of claimExpiry that does not look at the status.
claimAnyStatus(sender, id) ==
    LET e == escrows[id] IN
    /\ onlyParty(sender, id)
    /\ e.expiresAt # 0 /\ now >= e.expiresAt
    /\ vaultCovers(e.token, e.amount)
    /\ setStatus(id, "Expired")
    /\ ledger' = transfer(ledger, e.token, EscrowContract, e.buyerCoop, e.amount)
    /\ UNCHANGED << nextEscrowId, escrowRegistry, ruling >>

claimExpiry(sender, id) ==
    LET e == escrows[id] IN
    /\ onlyParty(sender, id)
    /\ inStatus(id, "Active")
    /\ e.expiresAt # 0 /\ now >= e.expiresAt
    /\ vaultCovers(e.token, e.amount)
    /\ setStatus(id, "Expired")
    /\ ledger' = transfer(ledger, e.token, EscrowContract, e.buyerCoop, e.amount)
    /\ UNCHANGED << nextEscrowId, escrowRegistry, ruling >>

\* The transactions sent straight to IskanderEscrow.
EscrowNext ==
    \/ \E registry \in Appointable : setEscrowRegistry(registry)
    \/ \E sender \in Coops :
        \/ \E seller \in Coops, k \in Token, n \in Amounts, x \in 0..MaxTime :
               createEscrow(sender, seller, k, n, x)
        \/ \E id \in EscrowId : confirmDelivery(sender, id)
        \/ \E id \in EscrowId : dispute(sender, id)
        \/ \E id \in EscrowId : claimExpiry(sender, id)
    \/ \E sender \in Accounts, id \in EscrowId, b, s \in 0..Wealth :
           executeVerdict(sender, id, b, s)

-----------------------------------------------------------------------------
Trade == [buyerCoop : Coops, sellerCoop : Coops, token : Token,
          amount : Nat \ {0}, status : Status, expiresAt : 0..MaxTime]

Ruling == [by : Accounts \cup {RegistryContract}, toBuyer : Nat, toSeller : Nat]

EscrowTypeOK ==
    /\ escrows \in [EscrowId -> Trade \cup {NoEscrow}]
    /\ \A id \in EscrowId : escrows[id] \in Trade <=> id < nextEscrowId
    /\ nextEscrowId \in 1..(MaxEscrows + 1)
    /\ escrowRegistry \in Appointable \cup {ZeroAddress}
    /\ ledger \in [Token -> [Holder -> Nat]]
    /\ ruling \in [EscrowId -> Ruling \cup {NoRuling}]

\* The escrow still owes its amount to one of the parties.
holdsFunds(id) == id < nextEscrowId /\ escrows[id].status \in {"Active", "Disputed"}

locked(k) == {id \in EscrowId : holdsFunds(id) /\ escrows[id].token = k}

(***************************************************************************)
(* The contract commingles every trade's funds in one balance per token.   *)
(* At any moment that balance is exactly the sum of the unsettled escrows: *)
(* no order of confirmations, expiries, disputes and verdicts pays one     *)
(* trade out of another's money or leaves a remainder nobody can claim.    *)
(***************************************************************************)
VaultBacked ==
    \A k \in Token : ledger[k][EscrowContract] =
        SumFunctionOnSet([id \in EscrowId |-> escrows[id].amount], locked(k))
=============================================================================
