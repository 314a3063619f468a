---------------------------- MODULE EscrowPromise ----------------------------
(***************************************************************************)
(* What inter-cooperative trade promises its parties, whoever arbitrates   *)
(* and however the contracts share the work: a deal's money is locked      *)
(* once, an uncontested deal pays the whole of it to one party, a contested*)
(* deal pays only by a ruling of the arbiter of that moment that splits the*)
(* whole of it, and a settled deal never moves money again.  It promises   *)
(* nothing of who the arbiter is: anybody may appoint one, at any time.    *)
(***************************************************************************)
EXTENDS Integers

CONSTANTS Deal, Party, Money, Vault, Arbiters, Nobody

VARIABLES
    deal,     \* deal id -> [state, buyer, seller, money, amount, toBuyer, toSeller, ruledBy]
    wallet,   \* money -> holder -> balance
    arbiter   \* who rules on contested deals

vars == << deal, wallet, arbiter >>

\* n of m goes from one holder to another.
Moved(w, m, from, to, n) ==
    LET debited == [w[m] EXCEPT ![from] = @ - n]
    IN  [w EXCEPT ![m] = [debited EXCEPT ![to] = @ + n]]

NoDeal == [state |-> "none", buyer |-> Nobody, seller |-> Nobody, money |-> Nobody,
           amount |-> 0, toBuyer |-> 0, toSeller |-> 0, ruledBy |-> Nobody]

Init ==
    /\ arbiter = Nobody
    /\ deal = [d \in Deal |-> NoDeal]
    /\ \A m \in Money : wallet[m][Vault] = 0

Lock(d, b, s, m, n) ==
    /\ deal[d].state = "none"
    /\ n > 0 /\ wallet[m][b] >= n
    /\ deal' = [deal EXCEPT ![d] =
                   [state |-> "open", buyer |-> b, seller |-> s, money |-> m,
                    amount |-> n, toBuyer |-> 0, toSeller |-> 0, ruledBy |-> Nobody]]
    /\ wallet' = Moved(wallet, m, b, Vault, n)
    /\ UNCHANGED arbiter

Contest(d) ==
    /\ deal[d].state = "open"
    /\ deal' = [deal EXCEPT ![d].state = "contested"]
    /\ UNCHANGED << wallet, arbiter >>

\* The deal once it has paid toBuyer and toSeller, by somebody's ruling or Nobody's.
Settled(r, toBuyer, toSeller, by) ==
    [state |-> "settled", buyer |-> r.buyer, seller |-> r.seller, money |-> r.money,
     amount |-> r.amount, toBuyer |-> toBuyer, toSeller |-> toSeller, ruledBy |-> by]

\* Pay the whole amount out, once.
Pay(d, toBuyer, toSeller, by) ==
    /\ toBuyer + toSeller = deal[d].amount
    /\ deal' = [deal EXCEPT ![d] = Settled(deal[d], toBuyer, toSeller, by)]
    /\ wallet' = Moved(Moved(wallet, deal[d].money, Vault, deal[d].buyer, toBuyer),
                       deal[d].money, Vault, deal[d].seller, toSeller)
    /\ UNCHANGED arbiter

Complete(d) ==
    /\ deal[d].state = "open"
    /\ \/ Pay(d, 0, deal[d].amount, Nobody)
       \/ Pay(d, deal[d].amount, 0, Nobody)

Rule(d, toBuyer) ==
    /\ deal[d].state = "contested"
    /\ Pay(d, toBuyer, deal[d].amount - toBuyer, arbiter)

Appoint(a) ==
    /\ arbiter' = a
    /\ UNCHANGED << deal, wallet >>

Next ==
    \/ \E a \in Arbiters : Appoint(a)
    \/ \E d \in Deal :
        \/ \E b, s \in Party, m \in Money : \E n \in 1..wallet[m][b] : Lock(d, b, s, m, n)
        \/ Contest(d)
        \/ Complete(d)
        \/ \E toBuyer \in 0..deal[d].amount : Rule(d, toBuyer)

Spec == Init /\ [][Next]_vars
=============================================================================
