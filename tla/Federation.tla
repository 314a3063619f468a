----------------------------- MODULE Federation -----------------------------
(***************************************************************************)
(* legacy/backend: what crosses the boundary to other cooperatives.        *)
(* routers/federation.py hands an activity to the boundary agent (trust,   *)
(* translation, governance, causal order), and what that lets through to   *)
(* the inbox processor; mesh/delta_sync.py exchanges content;              *)
(* api/hitl_manager.py asks members elsewhere through the outbox; and      *)
(* routers/arbitration.py has a jury of another cooperative decide.        *)
(*                                                                         *)
(* After the signature of a request nothing in its handler suspends: an    *)
(* activity is one step, from its arrival to what it releases.             *)
(***************************************************************************)
EXTENDS Energy, Settlement, FiniteSetsExt, Functions

CONSTANTS Handle,          \* local actors, the recipients
          Contents,        \* activities: part, type, actor, link, proposal, proof, approved,
                           \* score, framework, bare, stream
          Actor,           \* foreign actors and peers
          MaxHeld,         \* boundary_causal_buffer_max_size
          MaxHeldOf,       \* the limit per actor
          JurySize,        \* arbitration_jury_size
          MaxDeliveries,   \* bound: requests to an inbox, a duplicate being one of its own
          MaxNotices,      \* bound: proposals sent to members
          MaxHistory       \* bound: different results of a sync

VARIABLES delivery,        \* what arrived, in order, and for whom
          held,            \* CausalBuffer._buffer, which is in the order of arrival
          counts,          \* CausalBuffer._actor_counts
          seen,            \* CausalBuffer._seen
          refused,         \* deliveries the boundary rejected
          raised,          \* history: deliveries whose own handling raised (500)
          dropped,         \* history: held deliveries that expired in such a handling
          processed,       \* InboxProcessor: for whom a delivery was processed
          penalty,         \* TrustQuarantine: trust_penalty in units of 0.005
          history,         \* DeltaSyncProtocol._history
          outbox,          \* OutboxStore._outbox: proposals, under way or tried
          notices,         \* HITLRoutingManager._notifications
          cases            \* routers/arbitration.py: _cases, by the thread of each

federationVars == <<delivery, held, counts, seen, refused, raised, dropped, processed, penalty,
                    history, outbox, notices, cases>>

ASSUME FederationAssumption == MaxHeld \in Nat /\ MaxHeldOf \in Nat /\ JurySize \in Nat

Untouched == UNCHANGED <<energyVars, settlementVars>>

-----------------------------------------------------------------------------
(* Trust.                                                                  *)

INITIAL_PENALTY == 60
FULL_PENALTY == 200

INTERACTION_RISK_WEIGHTS(type) ==
    CASE type \in {"Follow", "Accept", "Announce", "Undo"} -> 1
      [] type \in {"AuditRequest", "AuditResponse", "ArbitrationRequest", "Verdict", "JuryNomination",
                   "HITLProposalVote", "HITLProposal", "AuditSummary"} -> 4
      [] OTHER -> 2

\* The penalty of an actor after the outcomes of some deliveries of its own.
record_outcome_of(p, quarantined, recovery) ==
    IF quarantined THEN Min({FULL_PENALTY, p + 20}) ELSE Max({0, p - recovery})

-----------------------------------------------------------------------------
(* Translation: a score is brought to hundredths of one.                   *)

_detect_framework(content) ==
    IF content.framework # None THEN content.framework
    ELSE LET score == CHOOSE n \in content.score : TRUE IN
         IF score <= 100 THEN "iskander_v1" ELSE IF score <= 1000 THEN "colony_v1"
         ELSE IF score <= 10000 THEN "kleros_v1" ELSE "unknown"

Divisor(framework) == CASE framework = "colony_v1" -> 10 [] framework = "kleros_v1" -> 100 [] OTHER -> 1

\* An object that is an IRI is asked for the field its activity does not have itself, and
\* raises: `bare' says that it is one, `stream' that the activity has a stream.
Untranslatable(content) == content.bare /\ (~content.stream \/ content.score = {})

\* An unknown framework leaves the score as it is: quarantined means noted.
translate_activity(content) ==
    {IF _detect_framework(content) = "unknown" THEN n
     ELSE Min({100, n \div Divisor(_detect_framework(content))}) : n \in content.score}

_apply_translation(content) == [content EXCEPT !.score = translate_activity(content)]

-----------------------------------------------------------------------------
(* Governance.                                                             *)

requires_verification(type) == type \in {"HITLProposalVote", "Verdict", "JuryNomination", "ArbitrationRequest"}

\* Votes and nominations without a proof are accepted for a human to see.
evaluate(content) == content.type = "Verdict" => content.proof

-----------------------------------------------------------------------------
(* The causal buffer.                                                      *)

CAUSAL_PREDECESSORS == [Verdict |-> <<"ArbitrationRequest", "caseId">>,
                        AuditResponse |-> <<"AuditRequest", "auditRequestId">>]
LinkFields == {"caseId", "auditRequestId"}

Dependant(content) == content.type \in DOMAIN CAUSAL_PREDECESSORS
OwnLink(content) == content.link[CAUSAL_PREDECESSORS[content.type][2]]
Awaited(content) == <<CAUSAL_PREDECESSORS[content.type][1], OwnLink(content)>>

\* The activity carries, in its own link field, what the one that is held waits for.
Answers(content, waiting) ==
    LET needed == CAUSAL_PREDECESSORS[waiting.type] IN
    content.type = needed[1] /\ content.link[needed[2]] = OwnLink(waiting)

\* Both link fields are read of every activity: an IRI is asked for the one that is missing.
Unlinkable(content) == content.bare /\ \E field \in LinkFields : content.link[field] = None

\* Seen by whichever field it stands in; caseId is read first, and noted if the other raises.
SeenBy(content) ==
    {<<content.type, content.link[field]>> :
        field \in {l \in LinkFields : /\ content.link[l] # None
                                     /\ Unlinkable(content) => l = "caseId"}}

\* An expired entry goes first, and then makes room.
_should_buffer(actor, kept, count) == Cardinality(kept) < MaxHeld /\ count[actor] < MaxHeldOf

\* Variant of _flush_expired that forgets to count down.
flushUncounted(left, count) == count

\* What the counts are when some of the held have left.
_flush_expired(left, count) ==
    [a \in Actor |-> Max({0, count[a] - Cardinality({f \in left : delivery[f].content.actor = a})})]

\* Variant of _release_dependants that lets go of the oldest only.
releaseOldest(content, kept) ==
    LET waiting == {f \in kept : Answers(content, delivery[f].content)} IN
    IF waiting = {} THEN {} ELSE {Min(waiting)}

_release_dependants(content, kept) ==
    {f \in kept : Answers(content, delivery[f].content)}

\* What arrived up to n has expired.  `kept' and `count' are what is left of the buffer; an
\* activity that raises leaves it there, and takes the expired with it.
causal_ingest(f, content, n) ==
    LET expired == {g \in held : g <= n}
        kept == held \ expired
        count == _flush_expired(expired, counts)
        seen1 == seen \cup SeenBy(content)
        fails == Unlinkable(content)
        hold == /\ ~fails /\ Dependant(content)
                /\ OwnLink(content) # None /\ Awaited(content) \notin seen1
                /\ _should_buffer(content.actor, kept, count)
        unblocked == IF fails \/ hold THEN {} ELSE _release_dependants(content, kept)
    IN  [seen |-> seen1,
         held |-> IF hold THEN kept \cup {f} ELSE kept \ unblocked,
         counts |-> IF hold THEN [count EXCEPT ![content.actor] = @ + 1] ELSE _flush_expired(unblocked, count),
         ready |-> IF fails THEN {} ELSE expired \cup unblocked \cup (IF hold THEN {} ELSE {f}),
         dropped |-> IF fails THEN expired ELSE {}]

-----------------------------------------------------------------------------
(* The inbox.                                                              *)

Arrived == DOMAIN delivery

\* The first notice of the proposal, whoever voted and whatever it said before.
mark_notification_responded(proposal, approved) ==
    LET matching == {i \in DOMAIN notices : notices[i].proposal = proposal} IN
    notices' = IF matching = {} THEN notices
               ELSE [notices EXCEPT ![Min(matching)].status = Verdict(approved)]

\* The graph that waits for the vote is not resumed.
_handle_hitl_vote(content) ==
    IF content.type = "HITLProposalVote" THEN mark_notification_responded(content.proposal, content.approved)
    ELSE UNCHANGED notices

\* Variant of process that leaves out what was released.
processArrived(f, handle, ready) ==
    processed' = Append(processed, IF f \in ready THEN <<handle>> ELSE <<>>)

\* Each verdict that may proceed is processed, all of them for the handle of this request.
process(f, handle, ready) ==
    LET before == Append(processed, <<>>) IN
    processed' = [g \in DOMAIN before |-> IF g \in ready THEN Append(before[g], handle) ELSE before[g]]

\* The request ends in an error: nobody gains or loses trust by it.
boundary_raises(f) ==
    /\ raised' = raised \cup {f}
    /\ processed' = Append(processed, <<>>)
    /\ UNCHANGED <<refused, penalty, notices>>

\* A verdict without a jury is turned away before the buffer sees it.
governance_rejects(f, content) ==
    /\ refused' = refused \cup {f}
    /\ penalty' = [penalty EXCEPT ![content.actor] = record_outcome_of(@, TRUE, 0)]
    /\ processed' = Append(processed, <<>>)
    /\ UNCHANGED <<raised, notices>>

boundary_accepts(f, content, handle, ready) ==
    LET kindOf(g) == IF g = f THEN content ELSE delivery[g].content
        \* without anything ready the one that is held counts as an interaction,
        \* and counts again when it is released
        outcomes == IF ready = {} THEN {f} ELSE ready
        weight == [g \in outcomes |-> INTERACTION_RISK_WEIGHTS(kindOf(g).type)]
        recovery(a) == SumFunctionOnSet(weight, {g \in outcomes : kindOf(g).actor = a})
    IN  /\ penalty' = [a \in Actor |-> record_outcome_of(penalty[a], FALSE, recovery(a))]
        /\ process(f, handle, ready)
        /\ IF f \in ready THEN _handle_hitl_vote(content) ELSE UNCHANGED notices
        /\ UNCHANGED <<refused, raised>>

boundary_ingest(f, content, handle) ==
    IF Untranslatable(content)
    THEN boundary_raises(f) /\ UNCHANGED <<held, counts, seen, dropped>>
    ELSE IF requires_verification(content.type) /\ ~evaluate(content)
    THEN governance_rejects(f, content) /\ UNCHANGED <<held, counts, seen, dropped>>
    ELSE \E n \in {0} \cup held :
           LET next == causal_ingest(f, content, n) IN
           /\ held' = next.held /\ counts' = next.counts /\ seen' = next.seen
           /\ dropped' = dropped \cup next.dropped
           /\ IF Unlinkable(content) THEN boundary_raises(f)
              ELSE boundary_accepts(f, content, handle, next.ready)

post_inbox ==
    /\ Len(delivery) < MaxDeliveries                                    \* bound
    /\ \E handle \in Handle, content \in Contents :
         /\ Touch(content.part)
         /\ delivery' = Append(delivery, [handle |-> handle, content |-> _apply_translation(content)])
         /\ boundary_ingest(Len(delivery) + 1, _apply_translation(content), handle)
    /\ UNCHANGED <<thread, history, outbox, cases>> /\ Untouched

-----------------------------------------------------------------------------
(* Content exchanged with peers.                                           *)

DENIAL_PENALTY == 100

Noted(peer, direction, synced, denied) ==
    /\ history' = history \cup {[peer |-> peer, direction |-> direction, synced |-> synced, denied |-> denied]}
    /\ Cardinality(history') <= MaxHistory                              \* bound

Denied(a) == penalty[a] > DENIAL_PENALTY

\* A denial is itself a bad mark: a denied peer recovers only by its activities.
ingest_sync(a) == penalty' = [penalty EXCEPT ![a] = record_outcome_of(@, Denied(a), 2)]

receive_from_peer(a, cids) ==
    /\ Touch("sync")
    /\ ingest_sync(a)
    /\ IF Denied(a) THEN Noted(a, "pull", {}, cids) ELSE Noted(a, "pull", cids, {})
    /\ UNCHANGED <<thread, delivery, held, counts, seen, refused, raised, dropped, processed, outbox, notices,
                   cases>>
    /\ Untouched

\* Governance content without an anchor is denied; nobody looks at the peer.
receive_from_peer_with_anchor(a, cids) ==
    /\ Touch("sync")
    /\ \E bare \in SUBSET cids : Noted(a, "pull", cids \ bare, bare)
    /\ UNCHANGED <<thread, delivery, held, counts, seen, refused, raised, dropped, processed, penalty, outbox,
                   notices, cases>>
    /\ Untouched

sync_to_peer(a, cids) ==
    /\ Touch("sync")
    /\ Noted(a, "push", cids, {})
    /\ UNCHANGED <<thread, delivery, held, counts, seen, refused, raised, dropped, processed, penalty, outbox,
                   notices, cases>>
    /\ Untouched

-----------------------------------------------------------------------------
(* Members asked elsewhere.  Publishing awaits the remote inbox, and the   *)
(* notice is written after that, delivered or not.                         *)

HitlUnchanged == UNCHANGED <<thread, delivery, held, counts, seen, refused, raised, dropped, processed, penalty,
                            history, cases>>

AskedOf == {content.proposal : content \in {c \in Contents : c.type = "HITLProposalVote"}}

publish(proposal) ==
    /\ Touch("hitl")
    /\ Len(outbox) + Len(notices) < MaxNotices                          \* bound
    /\ outbox' = Append(outbox, [proposal |-> proposal, state |-> "sending"])
    /\ UNCHANGED notices /\ HitlUnchanged /\ Untouched

_route_activitypub(i) ==
    /\ Touch("hitl")
    /\ outbox[i].state = "sending"
    /\ \E state \in {"delivered", "undelivered"} : outbox' = [outbox EXCEPT ![i].state = state]
    /\ notices' = Append(notices, [proposal |-> outbox[i].proposal, route |-> "activitypub", status |-> "pending"])
    /\ HitlUnchanged /\ Untouched

\* Without an inbox of its own a member is told here.
_route_local_db(proposal) ==
    /\ Touch("hitl")
    /\ Len(outbox) + Len(notices) < MaxNotices                          \* bound
    /\ notices' = Append(notices, [proposal |-> proposal, route |-> "local_db", status |-> "pending"])
    /\ UNCHANGED outbox /\ HitlUnchanged /\ Untouched

route_hitl_proposal(proposal) == publish(proposal) \/ _route_local_db(proposal)

-----------------------------------------------------------------------------
(* Arbitration: receive_dispute -> assess_jurisdiction ->                  *)
(* request_jury_federation -> [human_jury_deliberation] -> record_verdict  *)
(* -> execute_remedy.                                                      *)

receive_dispute(s) == {[s EXCEPT !.error = IF agents_are_paused \/ ~s.filled THEN "dispute" ELSE None]}

assess_jurisdiction(s) == {[s EXCEPT !.jurisdiction = IF s.domestic THEN "intra_coop" ELSE "inter_coop"]}

\* The hash of the case orders the six nominated; the first are the jury.
select_jury(nominated) == Min({nominated, JurySize})

request_jury_federation(s) == {[s EXCEPT !.jury = select_jury(6), !.human = TRUE]}

_route_after_jurisdiction(s) ==
    IF s.error # None THEN {<<END, s>>}
    ELSE {<<"human_jury_deliberation", u>> :
            u \in IF s.jurisdiction = "intra_coop" THEN {s} ELSE request_jury_federation(s)}

build_arbitrator_graph(s) ==
    UNION {_route_after_jurisdiction(u) : u \in Then(receive_dispute(s), assess_jurisdiction)}

CasesUnchanged == UNCHANGED <<delivery, held, counts, seen, refused, raised, dropped, processed, penalty,
                              history, outbox, notices>>

file_dispute(t) ==
    /\ Fresh(t, "case")
    /\ \E filled, domestic \in BOOLEAN :
       \E end \in build_arbitrator_graph([filled |-> filled, domestic |-> domestic, jurisdiction |-> None,
                    jury |-> 0, verdict |-> None, remedy |-> FALSE, human |-> FALSE, error |-> None]) :
         /\ Create(t, "case", end[1], end[2], end[2].error = None)
         /\ cases' = IF end[2].error # None THEN cases                     \* 422
                     ELSE [cases EXCEPT ![t].status = IF domestic THEN "deliberation" ELSE "jury_selection"]
    /\ CasesUnchanged /\ Untouched

submit_evidence(t, c) ==
    /\ Told(t, "case")
    /\ cases[t].status \in {"jury_selection", "deliberation"}
    /\ cases' = [cases EXCEPT ![t].evidence = @ \cup {c}]
    /\ UNCHANGED graphVars /\ CasesUnchanged /\ Untouched

\* Variant of MayRule that lets a verdict whose remedy was not executed be replaced.
mayRuleAgain(t) == cases[t].status # "remedy_executed"

MayRule(t) == cases[t].verdict = None                                     \* otherwise 409

\* An invoke with a state: the graph runs again from its entry, up to the jury's
\* breakpoint or, when the agents are paused, to its end.  No remedy is executed.
record_verdict(t) ==
    /\ Told(t, "case") /\ MayRule(t)
    /\ \E outcome \in {"upheld", "dismissed"} :
       \E end \in build_arbitrator_graph([State(t) EXCEPT !.verdict = outcome, !.human = FALSE]) :
         /\ Resume(t, end[1], end[2])
         /\ cases' = [cases EXCEPT ![t].verdict = outcome,
                        ![t].status = IF end[2].remedy THEN "remedy_executed" ELSE "verdict_rendered"]
    /\ CasesUnchanged /\ Untouched

-----------------------------------------------------------------------------
FederationInit ==
    /\ delivery = <<>>
    /\ held = {} /\ counts = [a \in Actor |-> 0] /\ seen = {}
    /\ refused = {} /\ raised = {} /\ dropped = {} /\ processed = <<>>
    /\ penalty = [a \in Actor |-> INITIAL_PENALTY]
    /\ history = {} /\ outbox = <<>> /\ notices = <<>>
    /\ cases = [t \in Thread |-> [status |-> None, evidence |-> {}, verdict |-> None]]

FederationNext ==
    \/ post_inbox
    \/ \E a \in Actor, cids \in SUBSET Cid : \/ receive_from_peer(a, cids) \/ sync_to_peer(a, cids)
                                             \/ receive_from_peer_with_anchor(a, cids)
    \/ \E proposal \in AskedOf : route_hitl_proposal(proposal)
    \/ \E i \in DOMAIN outbox : _route_activitypub(i)
    \/ \E t \in Thread : \/ file_dispute(t) \/ record_verdict(t)
                          \/ \E c \in Cid : submit_evidence(t, c)
=============================================================================
