----------------------------- MODULE Settlement -----------------------------
(***************************************************************************)
(* legacy/backend: the governance manifest and what it permits             *)
(* (governance/policy_engine.py), the Safe batches drafted under it        *)
(* (finance/tx_orchestrator.py), and the content, the causal events and    *)
(* the anchors of the mesh (mesh/sovereign_storage.py, causal_event.py,    *)
(* anchor_batcher.py, routers/mesh.py).                                    *)
(*                                                                         *)
(* No coroutine of these really suspends, so each call is one step.        *)
(***************************************************************************)
EXTENDS LangGraph, Integers

CONSTANTS Proposals,       \* payments that may be proposed, each with the sums it states
          DefaultManifest, \* the rules of settings.governance_manifest_path
          Cid,             \* content identifiers
          MaxTxs,          \* bound: batches drafted
          MaxBatches       \* bound: anchor batches flushed

VARIABLES manifest,        \* PolicyEngine: whether a manifest is in force, and its policies
          txs,             \* _pending_transactions, in the order they were drafted
          stored,          \* SovereignStorage._store
          records,         \* causal events that were answered: content, and what submit answered of it
          unanchored,      \* AnchorBatcher._pending
          batches          \* the contents of the roots on chain: _batch_counter is their number

settlementVars == <<manifest, txs, stored, records, unanchored, batches>>

\* A parameter that is not given reads as zero.
Get(p, key) == IF key \in DOMAIN p THEN p[key] ELSE 0

ASSUME SettlementAssumption ==
    \A p \in Proposals, key \in {"amount", "value_wei", "value"} : Get(p, key) \in Int

-----------------------------------------------------------------------------
(* PolicyEngine.                                                           *)

\* A rule is [constraint, types, key, value, applies_to]; one that is not of this form is
\* "malformed" and the manifest is refused as a whole.
WellFormed(policies) == \A rule \in policies : rule.constraint # "malformed"

load_manifest(policies) == manifest' = [loaded |-> TRUE, policies |-> policies]

\* Without a dict the file is read, whatever is in force; one that is refused raises first.
load_manifest_file ==
    /\ Touch("settlement")
    /\ WellFormed(DefaultManifest) /\ load_manifest(DefaultManifest)
    /\ UNCHANGED <<thread, txs, stored, records, unanchored, batches>>

\* The parameter a rule is named for; what is absent and what is zero are skipped alike.
Given(rule, p) == Get(p, rule.key)

_evaluate_rule(rule, p) ==
    \/ rule.constraint = "Deny" /\ p.type \in rule.types
    \/ rule.constraint = "RequireApproval" /\ p.type \in rule.types /\ ~p.hitl_approved
    \/ rule.constraint = "MaxValue" /\ Given(rule, p) > rule.value
    \/ rule.constraint = "MinValue" /\ Given(rule, p) # 0 /\ Given(rule, p) < rule.value

\* The principles no manifest can relax.  An amount of zero is as good as none, and `value'
\* is not asked for.
_check_constitutional_core(p) ==
    /\ LET moved == IF Get(p, "amount") # 0 THEN Get(p, "amount") ELSE Get(p, "value_wei") IN
       p.type \in {"payment", "transfer", "mint"} /\ p.is_external /\ moved > 0 => p.hitl_approved
    /\ p.type \in {"payment", "transfer", "mint", "burn"} => ~p.bypass_hitl
    /\ p.agent_id # ""
    /\ ~p.discriminates

check_compliance(p) ==
    /\ \A rule \in manifest.policies : rule.applies_to = {} \/ p.agent_id \in rule.applies_to
         => ~_evaluate_rule(rule, p)
    /\ _check_constitutional_core(p)

-----------------------------------------------------------------------------
(* Content, events and anchors.                                            *)

\* No peer answers the broadcast, so one replica is all there is, and asking for more
\* raises after the content was stored.
replicas(required) == 1 >= required

\* bound: an identifier no content has yet.
pin(c) == c \notin stored /\ stored' = stored \cup {c}

_is_governance_event(kind) == kind \in {"governance", "arbitration", "veto"}
RequiredReplicas(kind) == IF kind \in {"governance", "proposal", "council", "veto"} THEN 3 ELSE 0

flush_batch == batches' = Append(batches, unanchored) /\ unanchored' = {}

\* Variant of submit that names the batch after it may have been flushed.
submitThenName(c, elapsed) ==
    IF elapsed /\ Len(batches) < MaxBatches
    THEN /\ batches' = Append(batches, unanchored \cup {c}) /\ unanchored' = {}
         /\ records' = records \cup {[cid |-> c, batch |-> {Len(batches) + 1}]}
    ELSE /\ unanchored' = unanchored \cup {c} /\ UNCHANGED batches
         /\ records' = records \cup {[cid |-> c, batch |-> {Len(batches)}]}

\* The batch is named before the window may have it flushed.
submit(c, elapsed) ==
    /\ records' = records \cup {[cid |-> c, batch |-> {Len(batches)}]}
    /\ IF elapsed /\ Len(batches) < MaxBatches          \* bound
       THEN batches' = Append(batches, unanchored \cup {c}) /\ unanchored' = {}
       ELSE unanchored' = unanchored \cup {c} /\ UNCHANGED batches

\* A governance event is stored and then refused for want of replicas; an event of an
\* arbitration is not replicated and is anchored.
create(kind, c) ==
    /\ pin(c)
    /\ IF ~replicas(RequiredReplicas(kind)) THEN UNCHANGED <<records, unanchored, batches>>
       ELSE IF _is_governance_event(kind) THEN \E elapsed \in BOOLEAN : submit(c, elapsed)
       ELSE /\ records' = records \cup {[cid |-> c, batch |-> {}]}
            /\ UNCHANGED <<unanchored, batches>>

\* The handler unpacks two of three values: 500, the content kept.
pin_data(c) ==
    /\ Touch("mesh") /\ pin(c)
    /\ UNCHANGED <<thread, manifest, txs, records, unanchored, batches>>

create_event(c) ==
    /\ Touch("mesh")
    /\ \E kind \in {"governance", "arbitration", "proposal", "trade"} : create(kind, c)
    /\ UNCHANGED <<thread, manifest, txs>>

\* The batcher's own flush.
flush_pending ==
    /\ Touch("mesh")
    /\ unanchored # {} /\ Len(batches) < MaxBatches     \* bound
    /\ flush_batch
    /\ UNCHANGED <<thread, manifest, txs, stored, records>>

-----------------------------------------------------------------------------
(* TxOrchestrator.                                                         *)

\* Variant of Compliant that keeps the violations of the last proposal only.
compliantLast(batch) == \E p \in batch : check_compliance(p)

Compliant(batch) == \A p \in batch : check_compliance(p)

\* What the batch has the Safe pay, which no rule looks at under this name.
Paid(p) == IF "value_wei" \in DOMAIN p THEN p.value_wei ELSE Get(p, "value")

\* Without a manifest every draft raises.
draft_batch ==
    /\ Touch("settlement")
    /\ manifest.loaded /\ Len(txs) < MaxTxs       \* bound
    /\ \E batch \in SUBSET Proposals :
         /\ Cardinality(batch) \in 1..2 /\ Compliant(batch)
         /\ txs' = Append(txs, [status |-> "Drafted", batch |-> batch, policies |-> manifest.policies])
    /\ UNCHANGED <<thread, manifest, stored, records, unanchored, batches>>

\* Settled first, then the event for the audit trail, which raises: the caller gets the
\* error, and the next call one for the status.
verify_settlement(i, c) ==
    /\ Touch("settlement")
    /\ txs[i].status \in {"Drafted", "Pending", "Executed"}
    /\ txs' = [txs EXCEPT ![i].status = "Settled"]
    /\ create("governance", c)
    /\ UNCHANGED <<thread, manifest>>

\* Deadlines pass in the order of drafting.
purge_stale(n) ==
    /\ Touch("settlement")
    /\ txs' = [i \in DOMAIN txs |-> IF i <= n /\ txs[i].status \in {"Drafted", "Pending"}
                                    THEN [txs[i] EXCEPT !.status = "Stale"] ELSE txs[i]]
    /\ UNCHANGED <<thread, manifest, stored, records, unanchored, batches>>

\* Variant of MayCancel that asks for no status.
mayCancelAny(i) == TRUE

MayCancel(i) == txs[i].status \in {"Drafted", "Pending"}

cancel(i) ==
    /\ Touch("settlement")
    /\ MayCancel(i) /\ txs' = [txs EXCEPT ![i].status = "Cancelled"]
    /\ UNCHANGED <<thread, manifest, stored, records, unanchored, batches>>

-----------------------------------------------------------------------------
SettlementInit ==
    /\ manifest = [loaded |-> FALSE, policies |-> {}]
    /\ txs = <<>>
    /\ stored = {} /\ records = {} /\ unanchored = {} /\ batches = <<>>

SettlementNext ==
    \/ draft_batch \/ flush_pending \/ load_manifest_file
    \/ \E c \in Cid : pin_data(c) \/ create_event(c)
    \/ \E i \in DOMAIN txs : \/ cancel(i) \/ purge_stale(i)
                             \/ \E c \in Cid : verify_settlement(i, c)
=============================================================================
