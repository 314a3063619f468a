----------------------------- MODULE CoopFinance -----------------------------
(***************************************************************************)
(* legacy/backend: the agents that draft payments.  The governance,        *)
(* treasury, fiat and procurement routers with their graphs, and the       *)
(* credit accounts.                                                        *)
(***************************************************************************)
EXTENDS Energy

CONSTANTS Payee,       \* addresses a draft can pay
          Member,      \* members' identifiers (DIDs)
          Amounts,     \* amounts of a request
          Threshold,   \* cfiat_mint_approval_threshold
          MaxLedger    \* bound on the credit transactions

VARIABLES balance,     \* _accounts: balance of a member
          ledger       \* _transactions: from, to and amount

financeVars == <<balance, ledger>>

ASSUME FinanceAssumption == Amounts \subseteq Nat \ {0} /\ Threshold \in Nat /\ None \notin Member

-----------------------------------------------------------------------------
(* Governance: draft_safe_tx -> [human_review] -> execute_or_reject.       *)

\* The recipient asked for, or what the model reads from the description.
draft_safe_tx(s) ==
    {[s EXCEPT !.draft = to, !.vote = "awaiting"] :
        to \in IF s.to = None THEN Payee \cup {None} ELSE {s.to}}

\* The draft itself stays whatever the vote.
execute_or_reject(s) == {[s EXCEPT !.log = Append(@, s.vote)]}

submit_proposal(t) ==
    /\ Fresh(t, "governance")
    /\ \E to \in Payee \cup {None} :
         \E s \in draft_safe_tx([to |-> to, draft |-> None, vote |-> "awaiting", log |-> <<>>]) :
           Create(t, "governance", "human_review", s, TRUE)
    /\ UNCHANGED financeVars

\* Variant of Undecided that only looks where the graph stands.
undecidedUnlessApproved(t) == State(t).vote # "approved"

\* The handlers' test of hitl_approved: 409 once it is there.
Undecided(t) == State(t).vote = "awaiting"

cast_vote(t) ==
    /\ Told(t, "governance") /\ Undecided(t)
    /\ \E approved \in BOOLEAN, reason \in BOOLEAN :
         /\ ~approved => reason
         /\ \E s \in execute_or_reject([State(t) EXCEPT !.vote = Verdict(approved)]) :
              Resume(t, END, s)
    /\ UNCHANGED financeVars

-----------------------------------------------------------------------------
(* Treasury: validate_payment -> check_mondragon_ratio -> draft_payment_tx *)
(* -> [human_approve].                                                     *)

PaymentTypes == {"internal_payroll", "internal_reimbursement", "external_vendor", "treasury_transfer"}

\* A paused agent notes an error; the edges lead on all the same.
validate_payment(s) ==
    {IF agents_are_paused THEN [s EXCEPT !.error = "paused"]
     ELSE [s EXCEPT !.human = s.human \/ s.type \in {"external_vendor", "treasury_transfer"},
                    !.error = None]}

\* amount / lowest > cap, payroll alone; a lowest pay of 0 counts as 1.
check_mondragon_ratio(s) ==
    {IF s.type # "internal_payroll" THEN [s EXCEPT !.check = "skipped"]
     ELSE IF s.amount > s.cap * (IF s.lowest = 0 THEN 1 ELSE s.lowest)
          THEN [s EXCEPT !.check = "violation", !.error = "ratio"]
          ELSE [s EXCEPT !.check = "passed"]}

draft_payment_tx(s) ==
    {IF s.check = "violation" THEN [s EXCEPT !.draft = None, !.human = TRUE]
     ELSE [s EXCEPT !.draft = s.to, !.vote = "awaiting", !.human = TRUE]}

build_treasury_graph(s) == Then(Then(validate_payment(s), check_mondragon_ratio), draft_payment_tx)

\* A refused payment is answered with its identifier and stays suspended like the others.
submit_payment(t) ==
    /\ Fresh(t, "treasury")
    /\ \E type \in PaymentTypes, to \in Payee, amount \in Amounts, lowest \in 0..2, cap \in 1..2 :
         \E s \in build_treasury_graph(
                    [type |-> type, to |-> to, amount |-> amount, lowest |-> lowest, cap |-> cap,
                     check |-> None, draft |-> None, vote |-> "awaiting", human |-> FALSE, error |-> None]) :
           Create(t, "treasury", "human_approve", s, TRUE)
    /\ UNCHANGED financeVars

approve_payment(t) ==
    /\ Told(t, "treasury") /\ Undecided(t)
    /\ \E approved \in BOOLEAN : Resume(t, END, [State(t) EXCEPT !.vote = Verdict(approved)])
    /\ UNCHANGED financeVars

-----------------------------------------------------------------------------
(* Fiat gateway: check_reserve -> evaluate_solvency -> propose_action ->   *)
(* [hitl_gate] -> execute_on_chain.                                        *)

check_reserve(s) ==
    IF agents_are_paused THEN {[s EXCEPT !.error = "paused"]}
    ELSE {[s EXCEPT !.error = "bank"]} \cup {[s EXCEPT !.reserve = r] : r \in {"short", "covered"}}

\* The supply is the constant 25000 of the code; what is asked for is not added to it.
evaluate_solvency(s) ==
    {IF s.error # None \/ s.reserve = "covered" THEN s ELSE [s EXCEPT !.action = "hold"]}

propose_action(s) ==
    {IF s.error # None THEN s
     ELSE IF s.action = "hold" THEN [s EXCEPT !.amount = 0, !.human = FALSE]
     ELSE [s EXCEPT !.human = (s.action = "mint" /\ s.amount > Threshold)]}

execute_on_chain(s) ==
    {IF s.error # None THEN s
     ELSE IF s.action = "hold" THEN [s EXCEPT !.result = "skipped"]
     ELSE [s EXCEPT !.result = s.action]}

\* Up to the branch.
build_fiat_gateway_graph(s) == Then(Then(check_reserve(s), evaluate_solvency), propose_action)

_route_after_propose(s) == IF s.human THEN "hitl_gate" ELSE "execute_on_chain"

\* Suspended before hitl_gate, or run to the end; nothing resumes the suspended ones.
fiat(t, action) ==
    /\ Fresh(t, "fiat")
    /\ \E amount \in Amounts :
         \E s \in build_fiat_gateway_graph([action |-> action, amount |-> amount, reserve |-> None,
                          human |-> FALSE, result |-> None, error |-> None]) :
           IF _route_after_propose(s) = "hitl_gate" THEN Create(t, "fiat", "hitl_gate", s, TRUE)
           ELSE \E e \in execute_on_chain(s) : Create(t, "fiat", END, e, e.error = None)
    /\ UNCHANGED financeVars

mint(t) == fiat(t, "mint")
burn(t) == fiat(t, "burn")

-----------------------------------------------------------------------------
(* Procurement: one run of four nodes, without a checkpointer.             *)

Tiers == {"cooperative", "social", "conventional"}

\* The prompt's own braces make str.format raise, which the except clause swallows:
\* a request keeps its raw fields, and has no item.
parse_purchase_request(s) ==
    {[s EXCEPT !.error = IF agents_are_paused THEN "paused" ELSE IF s.blank THEN "empty" ELSE None]}

\* The empty item is contained in every capability.
search_cooperative_vendors(s) ==
    {[s EXCEPT !.candidates = IF s.item = "" THEN {"cooperative", "social"} ELSE {"conventional"}]}

rank_and_select_vendor(s) ==
    {[s EXCEPT !.vendor = CHOOSE v \in s.candidates :
        \A w \in s.candidates : v = "cooperative" \/ (w # "cooperative" /\ v = "social") \/ s.candidates = {v}]}

prepare_order(s) == {[s EXCEPT !.order = s.vendor]}

build_procurement_graph(s) ==
    Then(Then(Then(parse_purchase_request(s), search_cooperative_vendors), rank_and_select_vendor), prepare_order)

create_purchase(t) ==
    /\ Fresh(t, "procurement")
    /\ \E blank \in BOOLEAN :
         \E s \in build_procurement_graph([blank |-> blank, item |-> "", candidates |-> {},
                                           vendor |-> None, order |-> None, error |-> None]) :
           Create(t, "procurement", END, s, s.error = None)
    /\ UNCHANGED financeVars

-----------------------------------------------------------------------------
(* Credits.  A member without an account has balance 0.                    *)

Book(from, to, amount) ==
    /\ Len(ledger) < MaxLedger                                         \* bound
    /\ ledger' = Append(ledger, [from |-> from, to |-> to, amount |-> amount])
    /\ Touch("credits")
    /\ UNCHANGED thread

deposit_credits(m) ==
    \E a \in Amounts : /\ balance' = [balance EXCEPT ![m] = @ + a]
                       /\ Book(None, m, a)

\* Variant of transfer_credits that reads both balances before it writes either.
transferStale(m) ==
    \E to \in Member, a \in Amounts :
      /\ balance[m] >= a
      /\ balance' = [balance EXCEPT ![m] = balance[m] - a, ![to] = balance[to] + a]
      /\ Book(m, to, a)

\* The recipient may be the sender: debited first, credited after.
transfer_credits(m) ==
    \E to \in Member, a \in Amounts :
      /\ balance[m] >= a
      /\ LET debited == [balance EXCEPT ![m] = @ - a] IN
           balance' = [debited EXCEPT ![to] = @ + a]
      /\ Book(m, to, a)

convert_to_chain(m) ==
    \E a \in Amounts : /\ balance[m] >= a
                       /\ balance' = [balance EXCEPT ![m] = @ - a]
                       /\ Book(m, None, a)

\* The hash offered as proof is stored, and compared with nothing.
convert_from_chain(m) ==
    \E a \in Amounts : /\ balance' = [balance EXCEPT ![m] = @ + a]
                       /\ Book(None, m, a)

-----------------------------------------------------------------------------
FinanceInit ==
    /\ balance = [m \in Member |-> 0]
    /\ ledger = <<>>

FinanceNext ==
    \/ \E t \in Thread : \/ submit_proposal(t) \/ cast_vote(t)
                         \/ submit_payment(t) \/ approve_payment(t)
                         \/ mint(t) \/ burn(t) \/ create_purchase(t)
    \/ \E m \in Member : \/ deposit_credits(m) \/ transfer_credits(m)
                         \/ convert_to_chain(m) \/ convert_from_chain(m)
=============================================================================
