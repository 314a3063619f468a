------------------------------ MODULE Diplomacy ------------------------------
(***************************************************************************)
(* legacy/backend, routers/diplomacy.py: the reputation of foreign         *)
(* cooperatives, the sandbox their assets wait in, credentials and the     *)
(* trust in their issuers, and the peer review of research.  An admitted   *)
(* asset is registered with the library manager of CoopCommons.            *)
(***************************************************************************)
EXTENDS CoopCommons, ScoreDecay

CONSTANTS Sdc,             \* foreign cooperatives (DIDs)
          External,        \* quarantine identifiers
          Key,             \* fingerprints of issuers' keys
          Attestation,     \* attestation identifiers
          HalfLife,        \* frs_decay_half_life_seconds
          Ticks            \* bound: the times looked at

VARIABLES profile,         \* _profiles: score, time of the last transaction, forced quarantine
          clock,           \* time.time()
          sandbox,         \* _sandbox: source, status and the cid it was promoted to
          issuer,          \* TrustRegistryClient._registry
          attestation      \* _attestations: the issuer's key and the status

diplomacyVars == <<profile, clock, sandbox, issuer, attestation>>

ASSUME DiplomacyAssumption == HalfLife \in Nat \ {0} /\ Ticks \subseteq Nat

-----------------------------------------------------------------------------
(* FRSClient.                                                              *)

Profiled == {d \in Sdc : profile[d].known}

\* Variant of _compute_decay that interpolates towards nothing instead of the next half.
decayTowardsZero(raw, elapsed) ==
    LET halved == raw \div Power2[elapsed \div HalfLife + 1] IN
    IF elapsed \div HalfLife >= 13 THEN 0 ELSE halved - (halved * (elapsed % HalfLife)) \div HalfLife

\* Halved per half-life, and in a straight line between two halvings.
_compute_decay(raw, elapsed) == decayedScore(raw, elapsed, HalfLife, 13)

QUARANTINE == 0
_score_tier(score, forced) ==
    IF forced \/ score < 1000 THEN QUARANTINE ELSE IF score < 3000 THEN 1 ELSE IF score < 7000 THEN 2 ELSE 3

Score(d) == _compute_decay(profile[d].raw, clock - profile[d].updated)
get_tier(d) == IF d \in Profiled THEN _score_tier(Score(d), profile[d].forced) ELSE QUARANTINE

\* A sample of the changes and of the scores a caller may begin with.
MaxScore == 10000
FirstScores == {1000, 8000}
Deltas == {-500, 500}
clamped(score) == IF score < 0 THEN 0 ELSE IF score > MaxScore THEN MaxScore ELSE score

NewProfile(score) == [known |-> TRUE, raw |-> score, updated |-> clock, forced |-> FALSE]
register_sdc(d) ==
    /\ Touch("frs")
    /\ d \notin Profiled
    /\ \E score \in FirstScores :
         profile' = [profile EXCEPT ![d] = NewProfile(score)]
    /\ UNCHANGED <<clock, sandbox, issuer, attestation>>

\* What has decayed is written back before the change is added, within 0..10000.
record_transaction(d) ==
    /\ Touch("frs")
    /\ d \in Profiled
    /\ \E delta \in Deltas :
         profile' = [profile EXCEPT ![d] = [@ EXCEPT !.raw = clamped(Score(d) + delta), !.updated = clock]]
    /\ UNCHANGED <<clock, sandbox, issuer, attestation>>

force_quarantine(d, forced) ==
    /\ Touch("frs")
    /\ d \in Profiled
    /\ profile' = [profile EXCEPT ![d].forced = forced]
    /\ UNCHANGED <<clock, sandbox, issuer, attestation>>

tick ==
    /\ Touch("frs")
    /\ clock' \in {time \in Ticks : time > clock}
    /\ UNCHANGED <<profile, sandbox, issuer, attestation>>

-----------------------------------------------------------------------------
(* IngestionEmbassy.                                                       *)

Waiting(x) == sandbox[x].status = "PendingReview"

\* The tier is read now and never again.
ingest(x) ==
    /\ Touch("embassy")
    /\ sandbox[x].status = None
    /\ \E d \in Sdc : /\ get_tier(d) # QUARANTINE
                      /\ sandbox' = [sandbox EXCEPT ![x].status = "PendingReview", ![x].source = d]
    /\ UNCHANGED <<profile, clock, issuer, attestation>>

admit(x, c) ==
    /\ Waiting(x) /\ c \notin Registered
    /\ asset' = [asset EXCEPT ![c] = [status |-> "Active", deps |-> {}]]
    /\ sandbox' = [sandbox EXCEPT ![x].status = "Admitted", ![x].promoted = @ \cup {c}]

reject(x) ==
    /\ Waiting(x)
    /\ sandbox' = [sandbox EXCEPT ![x].status = "Rejected"]

-----------------------------------------------------------------------------
(* Credentials.                                                            *)

register_issuer(k) ==
    /\ Touch("credentials")
    /\ issuer[k] # "active" /\ issuer' = [issuer EXCEPT ![k] = "active"]
    /\ UNCHANGED <<profile, clock, sandbox, attestation>>

\* A signature is only stubbed, and the revocation list of the issuer an empty one: what
\* is left is the form, the trusted key and the expiry.
verify_vc(vc) == vc.formed /\ issuer[vc.key] = "active" /\ ~vc.expired

\* sanitize_for_mesh keeps role and institution of the verified, never the credential.
attest_from_vc(a) ==
    /\ Touch("credentials")
    /\ attestation[a].status = None
    /\ \E vc \in [key : Key, formed : BOOLEAN, expired : BOOLEAN] :
         verify_vc(vc) /\ attestation' = [attestation EXCEPT ![a] = [status |-> "Active", key |-> vc.key]]
    /\ UNCHANGED <<profile, clock, sandbox, issuer>>

\* Variant of tombstone_by_issuer_key that stops at the first attestation.
tombstoneOne(k) ==
    IF \A a \in Attestation : attestation[a] # [status |-> "Active", key |-> k] THEN attestation
    ELSE [attestation EXCEPT ![CHOOSE a \in Attestation :
                                 attestation[a] = [status |-> "Active", key |-> k]].status = "Tombstoned"]

tombstone_by_issuer_key(k) ==
    [a \in Attestation |-> IF attestation[a].key = k THEN [attestation[a] EXCEPT !.status = "Tombstoned"]
                           ELSE attestation[a]]

\* The handler revokes the key, then tombstones; nothing is awaited between the two.
revoke_issuer(k) ==
    /\ Touch("credentials")
    /\ issuer[k] = "active" /\ issuer' = [issuer EXCEPT ![k] = "revoked"]
    /\ attestation' = tombstone_by_issuer_key(k)
    /\ UNCHANGED <<profile, clock, sandbox>>

-----------------------------------------------------------------------------
(* Research: validate_submission -> assign_reviewers -> four reviews ->    *)
(* socratic_cross_examination -> evaluate_consensus ->                     *)
(* [human_review_research] -> finalize_admission.                          *)

Scores == <<72, 65, 80, 68>>       \* rigor, novelty, ethics, reproducibility

ReviewVerdict(score) == IF score >= 75 THEN "accept" ELSE IF score >= 60 THEN "minor_revisions"
                        ELSE IF score >= 40 THEN "major_revisions" ELSE "reject"

validate_submission(s) == {[s EXCEPT !.error = s.cid \notin Registered]}

_review_node(s, i) ==
    {IF s.error THEN s ELSE [s EXCEPT !.reviews = Append(@, ReviewVerdict(Scores[i]))]}

\* Each question goes to the reviewer after the one who asks, round the table.
socratic_cross_examination(s) ==
    {IF s.error THEN s
     ELSE [s EXCEPT !.exchanges = [i \in DOMAIN s.reviews |-> (i % Len(s.reviews)) + 1]]}

evaluate_reviews(s) ==
    LET verdicts == {s.reviews[i] : i \in DOMAIN s.reviews} IN
    {IF s.error THEN s
     ELSE [s EXCEPT !.consensus = IF verdicts \subseteq {"accept"} THEN "accept"
                                  ELSE IF "reject" \in verdicts THEN "reject"
                                  ELSE IF "major_revisions" \in verdicts THEN "major_revisions"
                                  ELSE "minor_revisions"]}

build_peer_review_graph(s) ==
    LET round == Then(Then(Then(Then(validate_submission(s),
                     LAMBDA r : _review_node(r, 1)), LAMBDA r : _review_node(r, 2)),
                     LAMBDA r : _review_node(r, 3)), LAMBDA r : _review_node(r, 4))
    IN  Then(Then(round, socratic_cross_examination), evaluate_reviews)

\* A unanimous verdict needs no human.
_route_after_reviews(s) ==
    IF ~s.error /\ s.consensus \in {"minor_revisions", "major_revisions"}
    THEN "human_review_research" ELSE END

\* An unregistered asset is answered 422.
submit_for_review(t) ==
    Fresh(t, "research") /\ \E c \in Asset :
      \E s \in build_peer_review_graph([cid |-> c, reviews |-> <<>>, exchanges |-> <<>>, consensus |-> None,
                                        reviewed |-> FALSE, error |-> FALSE]) :
        Create(t, "research", _route_after_reviews(s), s, ~s.error)

\* A rejection is answered and not stored; finalize_admission changes nothing.
review_research(t) ==
    /\ Told(t, "research")
    /\ Resume(t, END, [State(t) EXCEPT !.consensus = "accept", !.reviewed = TRUE])

-----------------------------------------------------------------------------
DiplomacyInit ==
    /\ profile = [d \in Sdc |-> [known |-> FALSE, raw |-> 0, updated |-> 0, forced |-> FALSE]]
    /\ clock = 0
    /\ sandbox = [x \in External |-> [status |-> None, source |-> None, promoted |-> {}]]
    /\ issuer = [k \in Key |-> None]
    /\ attestation = [a \in Attestation |-> [status |-> None, key |-> None]]

DiplomacyNext ==
    \/ /\ \/ tick
          \/ \E d \in Sdc : \/ register_sdc(d) \/ record_transaction(d)
                            \/ \E forced \in BOOLEAN : force_quarantine(d, forced)
          \/ \E x \in External : ingest(x)
          \/ \E k \in Key : register_issuer(k) \/ revoke_issuer(k)
          \/ \E a \in Attestation : attest_from_vc(a)
       /\ UNCHANGED <<thread, commonsVars>>
    \/ /\ \E x \in External : \/ \E c \in Asset : admit(x, c)
                              \/ reject(x) /\ UNCHANGED asset
       /\ UNCHANGED <<graphVars, glass, profile, clock, issuer, attestation>>
    \/ /\ \E t \in Thread : submit_for_review(t) \/ review_research(t)
       /\ UNCHANGED <<commonsVars, diplomacyVars>>
=============================================================================
