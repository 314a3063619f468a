------------------------------ MODULE CoopAudit ------------------------------
(***************************************************************************)
(* legacy/backend: the vetting of trading partners against the seven       *)
(* principles, the prediction of their cooperation, the escrow router and  *)
(* the record of a trade's outcome.                                        *)
(***************************************************************************)
EXTENDS Energy, Functions

CONSTANTS Trade,       \* escrow identifiers of routers/escrow.py
          Coop         \* parties of a trade

VARIABLES trade,       \* _escrows
          outcomes     \* what update_reputation_graph wrote (to the log, so far)

auditVars == <<trade, outcomes>>

Least(a, b) == IF a < b THEN a ELSE b

-----------------------------------------------------------------------------
(* The prediction.  Ratios and probabilities in percent.                   *)

Floor == 40
Prior == 70
weights == [pairwise |-> 25, global |-> 20, trust |-> 15, federation |-> 15, ica |-> 15, meatspace |-> 10]

\* The queries are stubs: no trade, score or attestation is found for anybody.
load_interaction_history(s) == [s EXCEPT !.last = None, !.error = IF agents_are_paused THEN "paused" ELSE None]

\* Signals there are; of a first contact, the composite of the vetting alone.
compute_cooperation_signals(s) ==
    [s EXCEPT !.signals = IF s.ica = <<>> THEN <<>> ELSE [ica |-> s.ica[1]]]

\* In sixtieths of a percent, so that a partner without a chain divides evenly the
\* weights that need one among the signals it has.
Weight(signals, meatspace) ==
    LET freed == IF ~meatspace THEN {} ELSE {"trust"} \cup ({"pairwise"} \ DOMAIN signals)
        kept  == DOMAIN weights \ freed
        heard == kept \cap DOMAIN signals
    IN  [n \in heard |-> 60 * weights[n] + (60 * SumFunctionOnSet(weights, freed)) \div Cardinality(heard)]

predict_cooperation_probability(s) ==
    LET w == Weight(s.signals, s.meatspace)
        p == IF DOMAIN w = {} THEN Prior
             ELSE SumFunction([n \in DOMAIN w |-> w[n] * s.signals[n]]) \div SumFunction(w)
    IN  [s EXCEPT !.p = Least(p, 100), !.human = p < Floor]

\* 3 for mutual cooperation, 5 for defecting alone, 1 for both.
compute_payoff_matrix(s) == [s EXCEPT !.dominant = s.p * 3 >= s.p * 5 + (100 - s.p) * 1]

\* Generous tit for tat: a defection is returned or, at times, forgiven.
select_strategy(s) ==
    {[s EXCEPT !.move = m] : m \in IF s.last = "defect" THEN {"cooperate", "defect"} ELSE {"cooperate"}}

predict_cooperation_for_partner(meatspace, ica) ==
    select_strategy(compute_payoff_matrix(predict_cooperation_probability(compute_cooperation_signals(
        load_interaction_history([meatspace |-> meatspace, ica |-> ica, last |-> None, signals |-> <<>>,
            p |-> 0, human |-> FALSE, dominant |-> FALSE, move |-> None, error |-> None])))))

-----------------------------------------------------------------------------
(* Vetting: intake_partner -> gather_on_chain_signals ->                   *)
(* gather_off_chain_signals -> assess_ica_principles ->                    *)
(* compute_value_matrix -> enrich_with_ipd_prediction ->                   *)
(* [human_review_vetting] -> emit_report.                                  *)

Grade(score) == IF score >= 80 THEN "STRONG" ELSE IF score >= 50 THEN "PARTIAL"
                ELSE IF score >= 20 THEN "WEAK" ELSE "FAIL"

\* The principles that the heuristic tells apart; "others" stands for four of them.
Principles == {"P2", "P3", "P6", "others"}
Count == [P2 |-> 1, P3 |-> 1, P6 |-> 1, others |-> 4]

Candidates == [type : {"cooperative", "conventional"}, chain : BOOLEAN, federated : BOOLEAN,
               trust : {<<>>, <<1000>>}]

\* What the request's principle_weights may be: left out, all seven, some, or zeros.
Weights == {<<>>, [p \in Principles |-> 1], [P2 |-> 1], [p \in Principles |-> 0]}

\* A paused agent notes it and reads no candidates; the nodes behind it run all the same.
intake_partner(s) ==
    {IF agents_are_paused THEN [s EXCEPT !.error = "paused"] ELSE [s EXCEPT !.candidates = s.query]}

\* Only an address is looked up, and only while a node answers; its trust score is the
\* one the candidate brought.
gather_on_chain_signals(s) ==
    {[s EXCEPT !.onChain = [c \in s.candidates |-> IF up /\ c.chain THEN <<c.trust>> ELSE <<>>]] : up \in BOOLEAN}

gather_off_chain_signals(s) ==
    {[s EXCEPT !.federated = {c \in s.candidates : c.federated}]}

_heuristic_principle_score(p, c, onChain, federated) ==
    LET coop == c.type = "cooperative"
        sum  == 50 + (IF coop THEN 15 ELSE 0) + (IF federated THEN 10 ELSE 0)
                   + (IF onChain # <<>> THEN 5 ELSE 0)
                   + (IF onChain \notin {<<>>, <<(<<>>)>>} THEN (onChain[1][1] * 20) \div 1000 ELSE 0)
                   + (IF p = "P6" /\ federated THEN 10 ELSE 0) + (IF p = "P2" /\ coop THEN 10 ELSE 0)
                   - (IF p = "P3" /\ c.type = "conventional" THEN 15 ELSE 0)
    IN  Least(100, sum)

\* bound: a model that answers scores one principle apart from the rest.
Scorings(c, s) ==
    {[p \in Principles |-> _heuristic_principle_score(p, c, s.onChain[c], c \in s.federated)]}
    \cup {[p \in Principles |-> IF p = "P2" THEN low ELSE rest] : low \in {0, 45}, rest \in {0, 30, 90}}

assess_ica_principles(s) ==
    {[s EXCEPT !.scores = f, !.human = \E c \in s.candidates, p \in Principles : Grade(f[c][p]) = "FAIL"] :
        f \in {g \in [s.candidates -> UNION {Scorings(c, s) : c \in s.candidates}] :
                 \A c \in s.candidates : g[c] \in Scorings(c, s)}}

\* Left-out weights arrive as None, which has no values().  A principle that the weights
\* do not name counts once in the sum and not at all in the total.
Composite(score, w) ==
    LET total == SumFunction([p \in DOMAIN w |-> w[p] * Count[p]])
        sum   == SumFunction([p \in Principles |-> score[p] * Count[p] * (IF p \in DOMAIN w THEN w[p] ELSE 1)])
    IN  IF total > 0 THEN sum \div total ELSE 0

compute_value_matrix(s) ==
    {[s EXCEPT !.matrix = [c \in s.candidates |-> Composite(s.scores[c], s.weights)]]}

\* Variant of enrich_with_ipd_prediction that forgets the failed principles.
enrichWithPredictionAlone(s) ==
    {[s EXCEPT !.human = \E c \in s.candidates :
        \E r \in predict_cooperation_for_partner(c.type = "conventional", <<s.matrix[c]>>) : r.human]}

enrich_with_ipd_prediction(s) ==
    {[s EXCEPT !.human = s.human \/ \E c \in s.candidates :
        \E r \in predict_cooperation_for_partner(c.type = "conventional", <<s.matrix[c]>>) : r.human]}

emit_report(s) == {[s EXCEPT !.report = s.matrix]}

\* Up to the node that needs the weights.
build_ica_vetter_graph(s) ==
    Then(Then(Then(intake_partner(s), gather_on_chain_signals), gather_off_chain_signals), assess_ica_principles)

\* bound: one candidate, or two without a chain.
Queries == {{c} : c \in Candidates} \cup {{c, d} : c, d \in {e \in Candidates : ~e.chain}}

Unvetted(query, w) ==
    [query |-> query, weights |-> w, candidates |-> {}, onChain |-> <<>>, federated |-> {},
     scores |-> <<>>, matrix |-> <<>>, human |-> FALSE, report |-> None, error |-> None]

\* An exception is answered 500, an error 422; a suspended request is answered with an
\* empty report, and no handler resumes it.
assess_trading_partners(t) ==
    /\ Fresh(t, "vetting")
    /\ \E query \in Queries, w \in Weights :
         \E s \in build_ica_vetter_graph(Unvetted(query, w)) :
           IF w = <<>> THEN Create(t, "vetting", "compute_value_matrix", s, FALSE)
           ELSE \E r \in Then(compute_value_matrix(s), enrich_with_ipd_prediction) :
                  IF r.human THEN Create(t, "vetting", "human_review_vetting", r, r.error = None)
                  ELSE \E e \in emit_report(r) : Create(t, "vetting", END, e, e.error = None)
    /\ UNCHANGED auditVars

-----------------------------------------------------------------------------
(* Escrow and the record of outcomes.                                      *)

_OUTCOME_MAP == [Released |-> <<"cooperate", "cooperate">>, Expired |-> <<"cooperate", "defect">>]
_ARBITRATION_MAP ==
    [buyer_favored  |-> <<"cooperate", "defect">>, seller_favored |-> <<"defect", "cooperate">>,
     split          |-> <<"defect", "defect">>,    dismissed      |-> <<"cooperate", "cooperate">>]

classify_escrow_outcome(status, arbitration) ==
    IF status = "Arbitrated" /\ arbitration \in DOMAIN _ARBITRATION_MAP THEN _ARBITRATION_MAP[arbitration]
    ELSE IF status \in DOMAIN _OUTCOME_MAP THEN _OUTCOME_MAP[status]
    ELSE <<"cooperate", "cooperate">>

\* The write comes first.  The probability that the third node formats is None, so the
\* pipeline raises there and no summary is ever broadcast.
record_outcome_internal(e, status, arbitration) ==
    outcomes' = Append(outcomes, [escrow |-> e, moves |-> classify_escrow_outcome(status, arbitration)])

create_escrow(e) ==
    /\ Touch("escrow")
    /\ trade[e].status = None
    /\ \E buyer, seller \in Coop : trade' = [trade EXCEPT ![e] = [status |-> "Active", buyer |-> buyer, seller |-> seller]]
    /\ UNCHANGED <<thread, outcomes>>

\* The recorder's exception is swallowed.
release_escrow(e, user) ==
    /\ trade[e].buyer = user /\ trade[e].status = "Active"
    /\ trade' = [trade EXCEPT ![e].status = "Released"]
    /\ record_outcome_internal(e, "Released", None)
    /\ UNCHANGED graphVars

\* Whoever is signed in.
dispute_escrow(e) ==
    /\ trade[e].status = "Active"
    /\ trade' = [trade EXCEPT ![e].status = "Disputed"]
    /\ UNCHANGED <<graphVars, outcomes>>

\* POST /record-outcome names any escrow and any outcome; the answer is 500.
record_outcome(e) ==
    /\ Touch("escrow")
    /\ Len(outcomes) < 2                                               \* bound
    /\ \E status \in DOMAIN _OUTCOME_MAP \cup {"Disputed"} : record_outcome_internal(e, status, None)
       \/ \E arb \in DOMAIN _ARBITRATION_MAP : record_outcome_internal(e, "Arbitrated", arb)
    /\ UNCHANGED <<thread, trade>>

AuditInit ==
    /\ trade = [e \in Trade |-> [status |-> None, buyer |-> None, seller |-> None]]
    /\ outcomes = <<>>

AuditNext ==
    \/ \E t \in Thread : assess_trading_partners(t)
    \/ \E e \in Trade : \/ create_escrow(e) \/ dispute_escrow(e) \/ record_outcome(e)
                        \/ \E user \in Coop : release_escrow(e, user)
=============================================================================
