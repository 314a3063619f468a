----------------------------- MODULE CoopAgents -----------------------------
(***************************************************************************)
(* The legacy backend's agents and routers in one process: they share the  *)
(* daemon's pause flag and the thread identifiers, diplomacy registers     *)
(* what it admits with the library manager, and the boot writes the        *)
(* manifest that settlement obeys.  Otherwise each keeps its own state.    *)
(***************************************************************************)
EXTENDS CoopFinance, CoopAudit, Diplomacy, Apps, Deliberation, Genesis, Federation, Functions

vars == <<graphVars, energyVars, financeVars, auditVars, commonsVars, diplomacyVars, appsVars,
          deliberationVars, settlementVars, genesisVars, federationVars>>

Init ==
    /\ GraphInit /\ EnergyInit /\ FinanceInit /\ AuditInit /\ CommonsInit /\ DiplomacyInit /\ AppsInit
    /\ DeliberationInit /\ SettlementInit /\ GenesisInit /\ FederationInit

Next ==
    \/ /\ EnergyNext
       /\ UNCHANGED <<financeVars, auditVars, commonsVars, diplomacyVars, appsVars,
                    deliberationVars, settlementVars, genesisVars, federationVars>>
    \/ /\ FinanceNext
       /\ UNCHANGED <<energyVars, auditVars, commonsVars, diplomacyVars, appsVars,
                    deliberationVars, settlementVars, genesisVars, federationVars>>
    \/ /\ AuditNext
       /\ UNCHANGED <<energyVars, financeVars, commonsVars, diplomacyVars, appsVars,
                    deliberationVars, settlementVars, genesisVars, federationVars>>
    \/ /\ CommonsNext
       /\ UNCHANGED <<energyVars, financeVars, auditVars, diplomacyVars, appsVars,
                    deliberationVars, settlementVars, genesisVars, federationVars>>
    \/ /\ DiplomacyNext
       /\ UNCHANGED <<energyVars, financeVars, auditVars, appsVars, deliberationVars,
                    settlementVars, genesisVars, federationVars>>
    \/ /\ AppsNext
       /\ UNCHANGED <<energyVars, financeVars, auditVars, commonsVars, diplomacyVars,
                    deliberationVars, settlementVars, genesisVars, federationVars>>
    \/ /\ DeliberationNext
       /\ UNCHANGED <<energyVars, financeVars, auditVars, commonsVars, diplomacyVars, appsVars,
                    settlementVars, genesisVars, federationVars>>
    \/ /\ SettlementNext
       /\ UNCHANGED <<energyVars, financeVars, auditVars, commonsVars, diplomacyVars, appsVars,
                    deliberationVars, genesisVars, federationVars>>
    \/ /\ GenesisNext
       /\ UNCHANGED <<energyVars, financeVars, auditVars, commonsVars, diplomacyVars, appsVars,
                    deliberationVars, federationVars>>
    \/ /\ FederationNext
       /\ UNCHANGED <<financeVars, auditVars, commonsVars, diplomacyVars, appsVars,
                    deliberationVars, genesisVars>>

Spec == Init /\ [][Next]_vars

-----------------------------------------------------------------------------
(* Types.                                                                  *)

\* Every part keeps its state within the shapes the handlers read.
TypeOK ==
    /\ \A t \in Thread : Kind(t) # "unborn" => {"next", "state", "told"} \subseteq DOMAIN thread[t]
    /\ paused \in BOOLEAN /\ battery \in Reading
    /\ balance \in [Member -> Nat]
    /\ \A c \in Asset : asset[c].status \in Statuses \cup {None} /\ asset[c].deps \subseteq Asset
    /\ \A e \in Trade : trade[e].status \in {None, "Active", "Released", "Disputed"}
    /\ \A d \in Sdc : profile[d].raw \in 0..MaxScore /\ profile[d].updated <= clock
    /\ \A t \in Thread : deployment[t] \in {None, "proposed", "rejected", "failed"}
    /\ active \subseteq Agent
    /\ stance \in [Proposal -> [Voter -> StanceOption \cup {None}]]
    /\ Len(queue) <= MaxDepth
    /\ penalty \in [Actor -> 0..FULL_PENALTY] /\ held \subseteq Arrived /\ Cardinality(held) <= MaxHeld
    /\ manifest.loaded \/ manifest.policies = {}

-----------------------------------------------------------------------------
(* Money.                                                                  *)

\* The transactions out of and into an account, and what some of them add up to.
Sent(m) == {i \in DOMAIN ledger : ledger[i].from = m}
Received(m) == {i \in DOMAIN ledger : ledger[i].to = m}
Total(some) == SumFunctionOnSet([i \in DOMAIN ledger |-> ledger[i].amount], some)

\* A member's balance is what its entries in the transaction log add up to, whatever was
\* deposited, sent (also to oneself) or converted: credits.py keeps the two separately.
BalancesMatchLedger == \A m \in Member : balance[m] + Total(Sent(m)) = Total(Received(m))

\* A decision is taken once: a governance proposal, a payment or a deployment that was
\* approved, rejected or failed keeps that verdict, although its thread can still be
\* named in a request; so does a case with a verdict, and a batch of payments that was
\* settled, cancelled or given up as stale (routers/governance.py, treasury.py,
\* appstore.py, arbitration.py, finance/tx_orchestrator.py).
DecisionIsFinal ==
    [][\A t \in Thread :
         /\ Kind(t) \in {"governance", "treasury"} /\ State(t).vote # "awaiting"
              => thread'[t].state.vote = State(t).vote
         /\ deployment[t] \in {"rejected", "failed"} => deployment'[t] = deployment[t]
         /\ cases[t].verdict # None => cases'[t].verdict = cases[t].verdict
         /\ \A i \in DOMAIN txs : txs[i].status # "Drafted" => txs'[i] = txs[i]]_vars

-----------------------------------------------------------------------------
(* The commons, the audits and diplomacy.                                  *)

\* While Break-Glass is active no status of the commons changes, whichever debate or
\* review began before it, and a tombstone is for ever (library_manager.py, curator_network.py).
CommonsFrozen ==
    [][\A c \in Registered :
         /\ glass.active => asset'[c].status = asset[c].status
         /\ asset[c].status = "Tombstoned" => asset'[c].status = "Tombstoned"]_vars

\* A report that went out without a human holds no candidate whose value is below the
\* floor of the prediction, and none that failed a principle, although the two tests sit
\* in different nodes and share one flag (ica_vetter.py).
VettingFlagsFailures ==
    \A t \in Of("vetting") :
      LET s == State(t) IN
      thread[t].next = END => \A c \in s.candidates :
        s.matrix[c] >= Floor /\ \A p \in Principles : Grade(s.scores[c][p]) # "FAIL"

\* Time alone never makes a foreign cooperative more trusted than its last transaction
\* left it, and decays it to nothing in thirteen half-lives (frs_client.py).
DecayNeverRaises ==
    [][\A d \in Sdc :
         profile'[d] = profile[d] /\ d \in Profiled =>
           /\ Score(d)' <= Score(d)
           /\ get_tier(d)' <= get_tier(d)]_vars

\* Nothing attested stays active once the key that signed it is revoked, however many
\* attestations it had signed and whether or not it is trusted anew (vc_verifier.py,
\* identity_attestation_agent.py).
RevokedKeyHasNoAttestation ==
    \A a \in Attestation :
      attestation[a].status = "Active" => issuer[attestation[a].key] = "active"

-----------------------------------------------------------------------------
(* The manifest, what is settled under it, and the anchors.                *)

\* The manifest in force is that of the file, whose rules nobody compares with those of a
\* jurisdiction, or the outcome of a boot that a human reviewed to its end, by a full body
\* of founders or by a sole owner; and then it holds the rules of its jurisdiction whatever
\* the bylaws added (policy_engine.py, agents/genesis/initializer_agent.py).
RegulatoryFloor ==
    manifest.loaded =>
      \/ manifest.policies = DefaultManifest
      \/ \E t \in Of("genesis") :
           LET s == State(t) IN
           /\ s.complete /\ s.manifest = manifest.policies
           /\ Templates[IF s.profile \in DOMAIN Templates THEN s.profile ELSE "UNIVERSAL"] \subseteq s.manifest
           /\ s.mode = "solo_node" \/ Cardinality(s.founders) >= MinFounders

\* What a rule asks of a payment: a sum that is not stated, or is zero, meets any limit.
Meets(p, rule) ==
    /\ rule.constraint = "Deny" => p.type \notin rule.types
    /\ rule.constraint = "RequireApproval" /\ p.type \in rule.types => p.hitl_approved
    /\ rule.constraint = "MaxValue" => ~(Given(rule, p) > rule.value)
    /\ rule.constraint = "MinValue" => Given(rule, p) = 0 \/ ~(Given(rule, p) < rule.value)

\* A human has approved what is paid to somebody outside, unless the sum that is paid is
\* stated as `value' alone or beside a negative amount: for the engine no money moves then.
ApprovedOutside(p) ==
    p.is_external /\ p.type \in {"payment", "transfer", "mint"} /\ Paid(p) > 0 =>
      \/ p.hitl_approved
      \/ Get(p, "amount") = 0 /\ "value_wei" \notin DOMAIN p
      \/ Get(p, "amount") < 0

\* No batch, whatever else is in it, holds a payment that a rule of the manifest it was
\* drafted under refuses, or that pays somebody outside without a human, but for the two
\* ways of stating the sum (tx_orchestrator.py, policy_engine.py).
BatchWasCompliant ==
    \A i \in DOMAIN txs : \A p \in txs[i].batch :
      /\ \A rule \in txs[i].policies :
           rule.applies_to = {} \/ p.agent_id \in rule.applies_to => Meets(p, rule)
      /\ ApprovedOutside(p)

\* The content of every anchored event goes on chain exactly once, in the batch that its
\* submission was answered with, although the submission itself may flush that batch
\* (causal_event.py, anchor_batcher.py).
AnchoredInItsBatch ==
    \A r \in records : \A b \in r.batch :
      /\ \A i \in DOMAIN batches : r.cid \in batches[i] <=> i = b + 1
      /\ r.cid \in unanchored <=> b = Len(batches)

-----------------------------------------------------------------------------
(* The boundary.                                                           *)

\* What becomes of everything that arrives: it was refused, is held, was processed once, or
\* is one whose own handling raised, which only an object that is an IRI makes it do; what
\* expires is processed like the rest, unless the request that lets it go raises, after it
\* (boundary_agent.py, causal_buffer.py, routers/federation.py).
NothingVanishes ==
    /\ \A f \in Arrived :
         Len(processed[f]) = IF f \in refused \cup held \cup raised \cup dropped THEN 0 ELSE 1
    /\ \A f \in raised : delivery[f].content.bare
    /\ \A f \in dropped : f \notin held /\ \E g \in raised : f < g

\* Nothing is held once an activity that carries what it waits for, in the field it waits
\* for it in, has been let through (causal_buffer.py:8, "When a predecessor arrives, all
\* buffered dependants are released together").
HeldAwaitsPredecessor ==
    \A f \in held, g \in Arrived :
      Answers(delivery[g].content, delivery[f].content) => g \in raised

\* The counts that ration the buffer are those of what is in it, after whatever expiries
\* and releases: an actor whose count drifted up could never be held again (causal_buffer.py).
CountsMatchBuffer ==
    \A a \in Actor : counts[a] = Cardinality({f \in held : delivery[f].content.actor = a})

\* An activity is processed for the local actor it was sent to, when it arrives or when it
\* is released ("Returns a list of ``(activity, local_handle)`` tuples that are ready to
\* proceed", causal_buffer.py:88).
ProcessedForItsRecipient == \A f \in Arrived : Range(processed[f]) \subseteq {delivery[f].handle}

-----------------------------------------------------------------------------
(* Deliberation.                                                           *)

\* A proposal that is closed, and that no request is under way for, has its outcome on
\* record, or its draft is waiting, running, done or failed, unless what should have
\* brought it there was refused by a full queue, failed at a statement, or was lost with
\* the process: no interleaving of the requests leaves a proposal without
\* (routers/deliberation.py, llm_queue_manager.py).
ClosedIsDrafted ==
    \A p \in Proposal :
      proposal[p].status = "closed" /\ outcome[p] = None
        /\ (\A r \in Request : request[r].at \in {"closed", "stating"} => request[r].p # p)
        => \/ p \in missed
           \/ \E job \in {worker} \cup {queue[i] : i \in DOMAIN queue} \cup {r.job : r \in results} :
                job.graph = "outcome" /\ job.of = p

\* How the tables and the queue read as resolutions; a job that ended in an error is on
\* record as one that was asked for, one that was refused is on none.
jobs == {worker} \cup {queue[i] : i \in DOMAIN queue} \cup {r.job : r \in results}

Promise == INSTANCE Resolution WITH
    phase  <- [p \in Proposal |-> proposal[p].status],
    rule   <- [p \in Proposal |-> proposal[p].process],
    drafts <- {job \in jobs : job.graph = "outcome"},
    stated <- {p \in Proposal : outcome[p] # None}

\* However the requests about a proposal overlap or fail, and through restarts, it is closed
\* once and for all, and what is drafted or stated of it comes after (routers/deliberation.py).
PromiseKept == Promise!Spec

\* A consent proposal is never drafted as passed over a block on record.
\* (outcome.py:67, "Consent: ""rejected"" if block > 0, else ""passed""").
BlockIsHeard ==
    \A r \in results :
      r.job.graph = "outcome" /\ r.job.process = "consent" /\ r.state = "passed"
        => \A m \in Voter : stance[r.job.of][m] # "block"
=============================================================================
