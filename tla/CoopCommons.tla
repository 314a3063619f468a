----------------------------- MODULE CoopCommons -----------------------------
(***************************************************************************)
(* legacy/backend: the knowledge commons (library manager, debate of the   *)
(* curators), the contribution ledger's agent and the stewardship scores.  *)
(*                                                                         *)
(* Two of the graphs have callers besides their router: the tests and any  *)
(* synchronous code invoke them in process.  The difference matters: the   *)
(* curators' nodes drive coroutines with run_until_complete, which raises  *)
(* in a thread whose event loop runs, as that of every router does.        *)
(***************************************************************************)
EXTENDS Energy

CONSTANTS Asset,           \* content identifiers; a pin's ciphertext is fresh, so each is new
          MaxDependents,   \* ikc_max_dependents_per_asset
          MaxGlass         \* ikc_break_glass_max_activations_per_day

VARIABLES asset,           \* the registry: status and dependency manifest
          glass            \* Break-Glass: active, today's activations, cooling down

commonsVars == <<asset, glass>>

Callers == {"router", "in_process"}

-----------------------------------------------------------------------------
(* The library manager.                                                    *)

Statuses == {"Active", "Legacy", "Tombstoned", "DeepFreeze"}

VALID_TRANSITIONS ==
    [Active     |-> {"Legacy", "Tombstoned", "DeepFreeze"},
     Legacy     |-> {"Active", "Tombstoned"},
     Tombstoned |-> {},
     DeepFreeze |-> {"Active"}]

Registered == {c \in Asset : asset[c].status # None}

\* _dependents: the edges of every registration, whatever became of its asset.
Dependents(c) == {d \in Registered : c \in asset[d].deps}

\* A fresh identifier closes no cycle.  A dependency need only exist.
register_asset(c) ==
    /\ Touch("library")
    /\ c \notin Registered
    /\ \E deps \in SUBSET Registered :
         /\ \A d \in deps : Cardinality(Dependents(d)) < MaxDependents
         /\ asset' = [asset EXCEPT ![c] = [status |-> "Active", deps |-> deps]]
    /\ UNCHANGED <<thread, glass>>

\* Variant of StatusCanChange that does not look at the Break-Glass flag.
statusCanChangeUnderGlass(c, to) == c \in Registered /\ to \in VALID_TRANSITIONS[asset[c].status]

\* What update_status requires; otherwise it raises ValueError.
StatusCanChange(c, to) ==
    ~glass.active /\ c \in Registered /\ to \in VALID_TRANSITIONS[asset[c].status]

update_status(c, to) ==
    asset' = IF StatusCanChange(c, to) THEN [asset EXCEPT ![c].status = to] ELSE asset

\* Despite its queue, the search goes no further than the direct dependents.
ActiveDependents(c) == {d \in Dependents(c) : asset[d].status = "Active"}

activate_break_glass ==
    /\ Touch("library")
    /\ glass.today < MaxGlass /\ ~glass.cooling
    /\ glass' = [glass EXCEPT !.active = TRUE, !.today = @ + 1]
    /\ UNCHANGED <<thread, asset>>

deactivate_break_glass ==
    /\ Touch("library")
    /\ glass' = [glass EXCEPT !.active = FALSE, !.cooling = TRUE]
    /\ UNCHANGED <<thread, asset>>

\* ikc_break_glass_cooldown_seconds go by, or the day of the count.
glass_time ==
    /\ \/ glass.cooling /\ glass' = [glass EXCEPT !.cooling = FALSE]
       \/ glass.today > 0 /\ glass' = [glass EXCEPT !.today = 0, !.cooling = FALSE]
    /\ UNCHANGED <<graphVars, asset>>

-----------------------------------------------------------------------------
(* The debate: validate_proposal -> check_downstream_impact ->             *)
(* check_break_glass -> three votes -> evaluate_consensus ->               *)
(* [human_review_curation] -> apply_status_change.                         *)

validate_proposal(s) ==
    {IF s.cid \notin Registered \/ s.to \notin VALID_TRANSITIONS[asset[s.cid].status]
     THEN [s EXCEPT !.error = TRUE]
     ELSE [s EXCEPT !.manifest = asset[s.cid].deps]}

check_downstream_impact(s) ==
    {IF s.error THEN s
     ELSE [s EXCEPT !.deps = ActiveDependents(s.cid),
                    !.consensus = IF s.to \in {"Tombstoned", "Legacy"} /\ ActiveDependents(s.cid) # {}
                                  THEN "rejected_downstream_deps" ELSE @]}

check_break_glass(s) ==
    {IF s.error \/ ~glass.active THEN s ELSE [s EXCEPT !.consensus = "paused"]}

Cast(s, score) == IF s.error THEN s ELSE [s EXCEPT !.votes = Append(@, score >= 50)]

efficiency_curator_vote(s) ==
    LET base == [Tombstoned |-> 75, Legacy |-> 60, DeepFreeze |-> 40, Active |-> 50][s.to] IN
    {Cast(s, base - (IF Cardinality(s.manifest) > 5 THEN 10 ELSE 0))}

ethics_curator_vote(s) ==
    {Cast(s, [Tombstoned |-> IF s.strong THEN 65 ELSE 35, Legacy |-> 60, DeepFreeze |-> 70,
              Active |-> 50][s.to])}

resilience_curator_vote(s) ==
    {Cast(s, [Tombstoned |-> IF s.deps = {} THEN 55 ELSE 30, Legacy |-> 55, DeepFreeze |-> 80,
              Active |-> 50][s.to])}

evaluate_consensus(s) ==
    LET cast == {s.votes[i] : i \in DOMAIN s.votes} IN
    {IF s.error THEN s
     ELSE [s EXCEPT !.consensus = IF cast \subseteq {TRUE} THEN "unanimous_approve"
                                  ELSE IF cast = {FALSE} THEN "unanimous_reject" ELSE "escalated"]}

\* An error of update_status is kept in the state.
apply_status_change(s) ==
    {IF s.error \/ StatusCanChange(s.cid, s.to) THEN s ELSE [s EXCEPT !.error = TRUE]}

CurationProposal(c, to, strong) ==
    [cid |-> c, to |-> to, strong |-> strong, manifest |-> {}, deps |-> {}, votes |-> <<>>,
     consensus |-> "in_progress", error |-> FALSE]

\* The edges behind the two checks: an error, a live dependent or Break-Glass ends the debate.
StillOpen(s) == ~s.error /\ s.consensus = "in_progress"

build_curator_network_graph(s) ==
    LET checked == Then(Then(validate_proposal(s), check_downstream_impact),
                        LAMBDA r : IF StillOpen(r) THEN check_break_glass(r) ELSE {r})
    IN  Then(checked, LAMBDA r :
            IF ~StillOpen(r) THEN {r}
            ELSE Then(Then(Then(efficiency_curator_vote(r), ethics_curator_vote),
                           resilience_curator_vote), evaluate_consensus))

_route_after_consensus(s) ==
    CASE ~s.error /\ s.consensus = "unanimous_approve" -> "apply_status_change"
      [] ~s.error /\ s.consensus = "escalated"         -> "human_review_curation"
      [] OTHER                                         -> END

\* From the router, the first node raises: the answer is 500.
submit_curation_proposal(t) ==
    Fresh(t, "curation") /\ \E c \in Asset, to \in Statuses, strong \in BOOLEAN, caller \in Callers :
      LET s == CurationProposal(c, to, strong) IN
      IF caller = "router"
      THEN Create(t, "curation", "validate_proposal", s, FALSE) /\ UNCHANGED commonsVars
      ELSE \E d \in build_curator_network_graph(s) :
             IF _route_after_consensus(d) = "apply_status_change"
             THEN /\ \E e \in apply_status_change(d) : Create(t, "curation", END, e, TRUE)
                  /\ update_status(c, to)
                  /\ UNCHANGED glass
             ELSE /\ Create(t, "curation", _route_after_consensus(d), d, TRUE)
                  /\ UNCHANGED commonsVars

\* A rejection is answered and stored nowhere.  An approval runs apply_status_change
\* whatever the debate had come to, and from the router raises there.
review_curation(t) ==
    /\ Told(t, "curation")
    /\ \E caller \in Callers :
         IF caller = "router" THEN Resume(t, "apply_status_change", State(t)) /\ UNCHANGED asset
         ELSE /\ \E e \in apply_status_change(State(t)) : Resume(t, END, e)
              /\ IF State(t).error THEN UNCHANGED asset ELSE update_status(State(t).cid, State(t).to)
    /\ UNCHANGED glass

-----------------------------------------------------------------------------
(* Contributions: validate_claim -> validate_member ->                     *)
(* [verify_peer_witness] -> quantify_care_work -> check_circuit_breaker -> *)
(* [human_review] -> write_ledger_entry.                                   *)

\* The body of the router lacks action, stream and witness_did.
Claims == [complete : {FALSE}, stream : {"commons"}, hours : {0}, hostile : {FALSE}, witness : {FALSE}]
     \cup [complete : {TRUE}, stream : {"care", "livelihood"}, hours : {0, 10, 61},
           hostile : BOOLEAN, witness : BOOLEAN]

validate_claim(s) ==
    {IF agents_are_paused \/ ~s.claim.complete THEN [s EXCEPT !.error = TRUE] ELSE s}

\* Whatever the chain answers; unreachable counts as valid.  The edge leads on all the same.
validate_member(s) == {s, [s EXCEPT !.error = TRUE]}

verify_peer_witness(s) == {IF s.claim.witness THEN s ELSE [s EXCEPT !.human = TRUE]}

\* 1.2 and more for care, in tenths.
quantify_care_work(s) ==
    {[s EXCEPT !.score = s.claim.hours * m] : m \in IF s.claim.stream = "care" THEN {12, 18} ELSE {10}}

\* The last word on requires_human_token, the witness's included.
check_circuit_breaker(s) ==
    {[s EXCEPT !.human = \/ s.claim.hours > 60 \/ s.claim.hostile
                         \/ s.claim.stream = "care" /\ s.claim.hours = 0]}

\* The stub's proof of care work is always accepted, and stands for its description.
write_ledger_entry(s) ==
    {[s EXCEPT !.entry = [score |-> s.score, proof |-> s.claim.stream = "care",
                          text |-> IF s.claim.stream = "care" THEN "redacted" ELSE "description"]]}

NoClaim == [claim |-> [complete |-> FALSE, stream |-> "commons", hours |-> 0, hostile |-> FALSE,
                       witness |-> FALSE],
            score |-> 0, human |-> FALSE, entry |-> None, error |-> FALSE]

_route_after_circuit_breaker(s) == IF s.human THEN "human_review" ELSE "write_ledger_entry"

\* Suspended before the witness, error or not; the router answers an error with 422.
log_contribution(t) ==
    /\ Fresh(t, "contribution")
    /\ \E claim \in Claims : \E s \in Then(validate_claim([NoClaim EXCEPT !.claim = claim]), validate_member) :
         Create(t, "contribution", "verify_peer_witness", s, claim.complete)
    /\ UNCHANGED commonsVars

\* invoke(None) in process, once the witness answered or not.
resume_contribution(t) ==
    /\ Told(t, "contribution") /\ thread[t].next # END
    /\ IF thread[t].next = "human_review"
       THEN \E s \in write_ledger_entry(State(t)) : Resume(t, END, s)
       ELSE \E s \in Then(Then(verify_peer_witness(State(t)), quantify_care_work), check_circuit_breaker) :
              IF _route_after_circuit_breaker(s) = "human_review" THEN Resume(t, "human_review", s)
              ELSE \E e \in write_ledger_entry(s) : Resume(t, END, e)
    /\ UNCHANGED commonsVars

\* An approval; a rejection stores nothing.  An identifier nobody had begins a thread.
review_contribution(t) ==
    /\ \/ /\ Told(t, "contribution")
          /\ \E s \in write_ledger_entry([State(t) EXCEPT !.human = FALSE]) : Resume(t, END, s)
       \/ Fresh(t, "contribution") /\ \E s \in write_ledger_entry(NoClaim) : Create(t, "contribution", END, s, TRUE)
    /\ UNCHANGED commonsVars

-----------------------------------------------------------------------------
(* Stewardship scores: aggregate_contributions -> fetch_ethical_audit ->   *)
(* compute_impact_scores -> evaluate_steward_eligibility ->                *)
(* propose_threshold_update -> [human_review_threshold] ->                 *)
(* push_scores_to_chain.  Shares in basis points.                          *)

DefaultThreshold == 2500

\* No store behind it: every target has contributed 0, and the total is never 0.
aggregate_contributions(s) ==
    {IF agents_are_paused THEN [s EXCEPT !.error = TRUE]
     ELSE [s EXCEPT !.value = [n \in s.targets |-> 0], !.total = 1]}

fetch_ethical_audit(s) == {IF s.error THEN s ELSE [s EXCEPT !.ethics = [n \in s.targets |-> 7000]]}

compute_impact_scores(s) ==
    LET share(n) == (s.value[n] * s.ethics[n]) \div s.total IN
    {IF s.error THEN s
     ELSE [s EXCEPT !.scores = [n \in s.targets |-> IF share(n) > 10000 THEN 10000 ELSE share(n)]]}

evaluate_steward_eligibility(s) ==
    {IF s.error THEN s ELSE [s EXCEPT !.eligible = {n \in s.targets : s.scores[n] >= s.threshold}]}

\* Three quarters of the median; a change by more than a twentieth is for a human.
propose_threshold_update(s) ==
    LET median == {m \in {s.scores[n] : n \in s.targets} :
                     /\ 2 * Cardinality({n \in s.targets : s.scores[n] <= m}) >= Cardinality(s.targets)
                     /\ 2 * Cardinality({n \in s.targets : s.scores[n] >= m}) >= Cardinality(s.targets)}
        change(p) == IF p > s.threshold THEN p - s.threshold ELSE s.threshold - p
    IN  IF s.error THEN {s}
        ELSE IF s.targets = {} THEN {[s EXCEPT !.proposed = s.threshold]}
        ELSE {[s EXCEPT !.proposed = p, !.human = 20 * change(p) > s.threshold] :
                p \in {(m * 3) \div 4 : m \in median}}

push_scores_to_chain(s) ==
    {IF s.error THEN s ELSE [s EXCEPT !.threshold = s.proposed, !.pushed = @ + 1]}

\* Up to the branch.
build_stewardship_graph(s) ==
    Then(Then(Then(Then(aggregate_contributions(s), fetch_ethical_audit), compute_impact_scores),
              evaluate_steward_eligibility), propose_threshold_update)

_route_after_threshold(s) == IF s.human THEN "human_review_threshold" ELSE "push_scores_to_chain"

compute_scores(t) ==
    /\ Fresh(t, "scores")
    /\ \E targets \in {{}, {"node"}} :
         \E s \in build_stewardship_graph(
                    [targets |-> targets, value |-> <<>>, total |-> 0, ethics |-> <<>>, scores |-> <<>>,
                     eligible |-> {}, threshold |-> DefaultThreshold, proposed |-> None, human |-> FALSE,
                     pushed |-> 0, error |-> FALSE]) :
           IF _route_after_threshold(s) = "human_review_threshold"
           THEN Create(t, "scores", "human_review_threshold", s, TRUE)
           ELSE \E e \in push_scores_to_chain(s) : Create(t, "scores", END, e, ~e.error)
    /\ UNCHANGED commonsVars

\* An approval, as often as it is sent; a rejection stores nothing.
review_threshold(t) ==
    /\ Told(t, "scores")
    /\ State(t).pushed < 2                                             \* bound
    /\ \E s \in push_scores_to_chain([State(t) EXCEPT !.human = FALSE]) : Resume(t, END, s)
    /\ UNCHANGED commonsVars

-----------------------------------------------------------------------------
CommonsInit ==
    /\ asset = [c \in Asset |-> [status |-> None, deps |-> {}]]
    /\ glass = [active |-> FALSE, today |-> 0, cooling |-> FALSE]

CommonsNext ==
    \/ activate_break_glass \/ deactivate_break_glass \/ glass_time
    \/ \E c \in Asset : register_asset(c)
    \/ \E t \in Thread : \/ submit_curation_proposal(t) \/ review_curation(t)
                         \/ log_contribution(t) \/ resume_contribution(t) \/ review_contribution(t)
                         \/ compute_scores(t) \/ review_threshold(t)
=============================================================================
