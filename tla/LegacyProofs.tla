----------------------------- MODULE LegacyProofs -----------------------------
(***************************************************************************)
(* Proofs about the legacy backend's stores: the anchors of the mesh, the  *)
(* batches of payments, the attestations of credentials, the statuses of   *)
(* the commons, the deliberations, the credits and the inbox.  Each store  *)
(* is written by one part of CoopAgents; the frame lemmas say so, and the  *)
(* rest is about that part.                                                *)
(***************************************************************************)
EXTENDS CoopAgents, DataLemmas, TLAPS

meshVars == <<stored, records, unanchored, batches>>
credentialVars == <<issuer, attestation>>

-----------------------------------------------------------------------------
(* Frames.                                                                 *)

\* A boot writes the manifest and nothing else of the settlement.
LEMMA BootFrame ==
    ASSUME GenesisNext
    PROVE  UNCHANGED <<txs, stored, records, unanchored, batches>>
<1>1. ASSUME NEW t \in Thread,
             \/ build_genesis_graph(t) \/ review_mappings(t)
             \/ execute_genesis_binding(t) \/ execute_solo_genesis(t)
      PROVE  UNCHANGED <<txs, stored, records, unanchored, batches>>
  BY <1>1 DEF build_genesis_graph, review_mappings, execute_genesis_binding, execute_solo_genesis
<1>2. CASE (\E d \in Did : register_founder(d)) \/ start_boot \/ choose_mode
  BY <1>2 DEF register_founder, start_boot, choose_mode, settlementVars
<1>3. QED
  BY <1>1, <1>2 DEF GenesisNext

\* What crosses the boundary leaves the settlement alone.
LEMMA BoundaryFrame ==
    ASSUME FederationNext
    PROVE  UNCHANGED settlementVars
BY DEF FederationNext, post_inbox, receive_from_peer, sync_to_peer, receive_from_peer_with_anchor,
       route_hitl_proposal, publish, _route_local_db, _route_activitypub, file_dispute,
       record_verdict, submit_evidence, Untouched

\* Only the settlement's own steps write its stores.
LEMMA SettlementFrame ==
    ASSUME [Next]_vars
    PROVE  SettlementNext \/ UNCHANGED <<txs, meshVars>>
<1>1. CASE UNCHANGED vars
  BY <1>1 DEF vars, settlementVars, meshVars
<1>2. CASE GenesisNext
  BY <1>2, BootFrame DEF meshVars
<1>3. CASE FederationNext
  BY <1>3, BoundaryFrame DEF meshVars, settlementVars
<1>4. CASE UNCHANGED settlementVars
  BY <1>4 DEF meshVars, settlementVars
<1>5. QED
  BY <1>1, <1>2, <1>3, <1>4 DEF Next

-----------------------------------------------------------------------------
(* The anchors.                                                            *)

\* Content is stored before it is recorded or anchored, each batch promised has been
\* flushed or is the next one, and the promise holds.
AnchorsKept ==
    /\ batches \in Seq(SUBSET stored) /\ unanchored \subseteq stored
    /\ \A r \in records : r.cid \in stored /\ r.batch \in SUBSET (0..Len(batches))
    /\ AnchoredInItsBatch

\* A number up to n is the next one's predecessor only as n.
LEMMA NextNumber ==
    ASSUME NEW n \in Nat, NEW b \in 0..n
    PROVE  (n + 1 = b + 1 <=> b = n) /\ b # n + 1
OBVIOUS

\* A flush keeps what each batch was promised to hold.
LEMMA FlushKeeps ==
    ASSUME AnchorsKept, flush_batch, UNCHANGED <<stored, records>>
    PROVE  AnchorsKept'
<1>1. /\ batches' = Append(batches, unanchored) /\ unanchored' = {}
      /\ stored' = stored /\ records' = records
  BY DEF flush_batch
<1>2. /\ batches' \in Seq(SUBSET stored) /\ Len(batches') = Len(batches) + 1
      /\ DOMAIN batches' = 1..(Len(batches) + 1) /\ DOMAIN batches = 1..Len(batches)
      /\ batches'[Len(batches) + 1] = unanchored
      /\ \A i \in 1..Len(batches) : batches'[i] = batches[i]
      /\ Len(batches) \in Nat
  BY <1>1 DEF AnchorsKept
<1>3. \A r \in records : r.batch \in SUBSET (0..Len(batches'))
  BY <1>2 DEF AnchorsKept
<1>4. ASSUME NEW r \in records, NEW b \in r.batch
      PROVE  /\ \A i \in DOMAIN batches' : r.cid \in batches'[i] <=> i = b + 1
             /\ r.cid \in unanchored' <=> b = Len(batches')
  <2>1. /\ b \in 0..Len(batches)
        /\ \A i \in 1..Len(batches) : r.cid \in batches[i] <=> i = b + 1
        /\ r.cid \in unanchored <=> b = Len(batches)
    BY <1>2, <1>4 DEF AnchorsKept, AnchoredInItsBatch
  <2>2. \A i \in 1..(Len(batches) + 1) : i \in 1..Len(batches) \/ i = Len(batches) + 1
    BY <1>2
  <2>3. \A i \in 1..Len(batches) : r.cid \in batches'[i] <=> i = b + 1
    BY <1>2, <2>1
  <2>4. /\ r.cid \in batches'[Len(batches) + 1] <=> Len(batches) + 1 = b + 1
        /\ ~(b = Len(batches'))
    <3>1. (Len(batches) + 1 = b + 1 <=> b = Len(batches)) /\ b # Len(batches) + 1
      BY <1>2, <2>1, NextNumber
    <3>2. QED
      BY <1>2, <2>1, <3>1
  <2>5. QED
    BY <1>1, <1>2, <2>2, <2>3, <2>4
<1>5. QED
  BY <1>1, <1>2, <1>3, <1>4 DEF AnchorsKept, AnchoredInItsBatch

\* Fresh content that is stored takes nothing from the others.
LEMMA PinKeeps ==
    ASSUME AnchorsKept, NEW c, pin(c), UNCHANGED <<unanchored, batches>>,
           records' = records \/ records' = records \cup {[cid |-> c, batch |-> {}]}
    PROVE  AnchorsKept'
<1>1. stored' = stored \cup {c} /\ unanchored' = unanchored /\ batches' = batches
  BY DEF pin
<1>2. batches' \in Seq(SUBSET stored')
  <2>1. Len(batches) \in Nat /\ DOMAIN batches = 1..Len(batches)
        /\ \A i \in 1..Len(batches) : batches[i] \in SUBSET stored
    BY DEF AnchorsKept
  <2>2. batches = [i \in 1..Len(batches) |-> batches[i]]
    BY DEF AnchorsKept
  <2>3. \A i \in 1..Len(batches) : batches[i] \in SUBSET stored'
    BY <1>1, <2>1
  <2>4. QED
    BY <1>1, <2>1, <2>2, <2>3
<1>3. \A r \in records' : r.cid \in stored' /\ r.batch \in SUBSET (0..Len(batches'))
  BY <1>1 DEF AnchorsKept
<1>4. AnchoredInItsBatch'
  BY <1>1 DEF AnchorsKept, AnchoredInItsBatch
<1>5. QED
  BY <1>1, <1>2, <1>3, <1>4 DEF AnchorsKept

\* Fresh content that is submitted goes into the batch it is told, flushed at once or not.
LEMMA SubmitKeeps ==
    ASSUME AnchorsKept, NEW c, NEW elapsed \in BOOLEAN, pin(c), submit(c, elapsed)
    PROVE  AnchorsKept'
<1> DEFINE n == Len(batches)
           new == [cid |-> c, batch |-> {n}]
<1>1. /\ c \notin stored /\ stored' = stored \cup {c}
      /\ records' = records \cup {new}
      /\ \/ batches' = Append(batches, unanchored \cup {c}) /\ unanchored' = {}
         \/ batches' = batches /\ unanchored' = unanchored \cup {c}
  BY DEF pin, submit
<1>2. /\ n \in Nat /\ DOMAIN batches = 1..n /\ unanchored \in SUBSET stored
      /\ \A i \in 1..n : batches[i] \in SUBSET stored
      /\ \A r \in records : r.cid \in stored /\ r.batch \in SUBSET (0..n)
  BY DEF AnchorsKept
<1>3. batches \in Seq(SUBSET stored')
  <2>1. batches = [i \in 1..n |-> batches[i]]
    BY DEF AnchorsKept
  <2>2. \A i \in 1..n : batches[i] \in SUBSET stored'
    BY <1>1, <1>2
  <2>3. QED
    BY <1>2, <2>1, <2>2
<1>4. ASSUME NEW r \in records, NEW b \in r.batch
      PROVE  /\ r.cid # c /\ b \in 0..n
             /\ \A i \in 1..n : r.cid \in batches[i] <=> i = b + 1
             /\ r.cid \in unanchored <=> b = n
  BY <1>1, <1>2, <1>4 DEF AnchorsKept, AnchoredInItsBatch
<1>5. CASE batches' = batches /\ unanchored' = unanchored \cup {c}
  <2>1. ASSUME NEW r \in records, NEW b \in r.batch
        PROVE  /\ \A i \in DOMAIN batches' : r.cid \in batches'[i] <=> i = b + 1
               /\ r.cid \in unanchored' <=> b = Len(batches')
    BY <1>2, <1>4, <1>5, <2>1
  <2>2. /\ \A i \in DOMAIN batches' : c \in batches'[i] <=> i = n + 1
        /\ c \in unanchored' <=> n = Len(batches')
    BY <1>1, <1>2, <1>5
  <2>3. AnchoredInItsBatch'
    BY <1>1, <2>1, <2>2 DEF AnchoredInItsBatch
  <2>4. QED
    BY <1>1, <1>2, <1>3, <1>5, <2>3 DEF AnchorsKept
<1>6. CASE batches' = Append(batches, unanchored \cup {c}) /\ unanchored' = {}
  <2>1. /\ batches' \in Seq(SUBSET stored') /\ Len(batches') = n + 1
        /\ DOMAIN batches' = 1..(n + 1) /\ batches'[n + 1] = unanchored \cup {c}
        /\ \A i \in 1..n : batches'[i] = batches[i]
    BY <1>1, <1>2, <1>3, <1>6
  <2>2. \A i \in 1..(n + 1) : i \in 1..n \/ i = n + 1
    BY <1>2
  <2>3. ASSUME NEW r \in records, NEW b \in r.batch
        PROVE  /\ \A i \in DOMAIN batches' : r.cid \in batches'[i] <=> i = b + 1
               /\ r.cid \in unanchored' <=> b = Len(batches')
    <3>1. /\ r.cid # c /\ b \in 0..n
          /\ r.cid \in unanchored <=> b = n
          /\ \A i \in 1..n : r.cid \in batches[i] <=> i = b + 1
      BY <1>4, <2>3
    <3>2. \A i \in 1..n : r.cid \in batches'[i] <=> i = b + 1
      BY <2>1, <3>1
    <3>3. (n + 1 = b + 1 <=> b = n) /\ ~(b = n + 1)
      BY <1>2, <3>1, NextNumber
    <3>4. r.cid \in batches'[n + 1] <=> n + 1 = b + 1
      BY <2>1, <3>1, <3>3
    <3>5. QED
      BY <1>6, <2>1, <2>2, <3>2, <3>3, <3>4
  <2>4. /\ \A i \in DOMAIN batches' : c \in batches'[i] <=> i = n + 1
        /\ c \in unanchored' <=> n = Len(batches')
    <3>1. \A i \in 1..n : c \notin batches'[i] /\ i # n + 1
      BY <1>1, <1>2, <2>1
    <3>2. c \in batches'[n + 1]
      BY <2>1
    <3>3. \A i \in 1..(n + 1) : c \in batches'[i] <=> i = n + 1
      BY <2>2, <3>1, <3>2
    <3>4. c \notin unanchored'
      BY <1>6
    <3> HIDE DEF n
    <3>5. n # n + 1
      BY <1>2
    <3>6. n # Len(batches')
      BY <2>1, <3>5
    <3>7. QED
      BY <2>1, <3>3, <3>4, <3>6
  <2>5. AnchoredInItsBatch'
    BY <1>1, <2>3, <2>4 DEF AnchoredInItsBatch
  <2>6. \A r \in records' : r.cid \in stored' /\ r.batch \in SUBSET (0..Len(batches'))
    BY <1>1, <1>2, <2>1
  <2>7. QED
    BY <1>6, <2>1, <2>5, <2>6 DEF AnchorsKept
<1>7. QED
  BY <1>1, <1>5, <1>6

\* An event of any kind.
LEMMA CreateKeeps ==
    ASSUME AnchorsKept, NEW kind, NEW c, create(kind, c)
    PROVE  AnchorsKept'
<1>1. CASE ~replicas(RequiredReplicas(kind))
  BY <1>1, PinKeeps DEF create
<1>2. CASE replicas(RequiredReplicas(kind)) /\ _is_governance_event(kind)
  BY <1>2, SubmitKeeps DEF create
<1>3. CASE replicas(RequiredReplicas(kind)) /\ ~_is_governance_event(kind)
  BY <1>3, PinKeeps DEF create
<1>4. QED
  BY <1>1, <1>2, <1>3

(***************************************************************************)
(* Every anchored event is in the batch its submission was answered with,  *)
(* and in no other, for any contents and any order of events and flushes.  *)
(***************************************************************************)
THEOREM Anchoring == Spec => []AnchoredInItsBatch
<1>1. Init => AnchorsKept
  BY DEF Init, SettlementInit, AnchorsKept, AnchoredInItsBatch
<1>2. AnchorsKept /\ [Next]_vars => AnchorsKept'
  <2>1. SUFFICES ASSUME AnchorsKept, [Next]_vars PROVE AnchorsKept'
    OBVIOUS
  <2>2. CASE UNCHANGED meshVars
    BY <2>1, <2>2 DEF meshVars, AnchorsKept, AnchoredInItsBatch
  <2>3. CASE SettlementNext
    <3>1. CASE flush_pending
      BY <2>1, <3>1, FlushKeeps DEF flush_pending
    <3>2. ASSUME NEW c \in Cid, pin_data(c) PROVE AnchorsKept'
      BY <2>1, <3>2, PinKeeps DEF pin_data
    <3>3. ASSUME NEW c \in Cid, create_event(c) PROVE AnchorsKept'
      BY <2>1, <3>3, CreateKeeps DEF create_event
    <3>4. ASSUME NEW i, NEW c \in Cid, verify_settlement(i, c) PROVE AnchorsKept'
      BY <2>1, <3>4, CreateKeeps DEF verify_settlement
    <3>5. CASE draft_batch \/ load_manifest_file \/ \E i \in DOMAIN txs : cancel(i) \/ purge_stale(i)
      BY <2>2, <3>5 DEF draft_batch, load_manifest_file, cancel, purge_stale, meshVars
    <3>6. QED
      BY <2>3, <3>1, <3>2, <3>3, <3>4, <3>5 DEF SettlementNext
  <2>4. QED
    BY <2>1, <2>2, <2>3, SettlementFrame
<1>3. AnchorsKept => AnchoredInItsBatch
  BY DEF AnchorsKept
<1>4. QED
  BY <1>1, <1>2, <1>3, PTL DEF Spec

-----------------------------------------------------------------------------
(* The batches of payments.                                                *)

\* The log of drafts is a sequence of records, each of which complied.
Draft(s, i) == s[i] = [status |-> s[i].status, batch |-> s[i].batch, policies |-> s[i].policies]
DraftsKept ==
    /\ Len(txs) \in Nat /\ txs = [i \in 1..Len(txs) |-> txs[i]]
    /\ \A i \in 1..Len(txs) : Draft(txs, i)
    /\ BatchWasCompliant

\* A change of the statuses alone keeps every draft.
LEMMA StatusKeeps ==
    ASSUME DraftsKept, DOMAIN txs' = DOMAIN txs, txs' = [i \in DOMAIN txs |-> txs'[i]],
           \A i \in DOMAIN txs : txs'[i] = [status |-> txs'[i].status, batch |-> txs[i].batch,
                                           policies |-> txs[i].policies]
    PROVE  DraftsKept'
<1>1. DOMAIN txs = 1..Len(txs) /\ Len(txs) \in Nat
  BY DEF DraftsKept
<1>2. txs' \in Seq({txs'[i] : i \in 1..Len(txs)})
  BY <1>1
<1>3. Len(txs') = Len(txs)
  BY <1>1, <1>2
<1>4. \A i \in 1..Len(txs) : txs'[i].batch = txs[i].batch /\ txs'[i].policies = txs[i].policies
  BY <1>1
<1>5. BatchWasCompliant'
  BY <1>1, <1>4 DEF DraftsKept, BatchWasCompliant
<1>6. \A i \in 1..Len(txs') : Draft(txs', i)
  BY <1>1, <1>3, <1>4 DEF Draft
<1>7. QED
  BY <1>1, <1>3, <1>5, <1>6 DEF DraftsKept

\* What check_compliance lets through is what BatchWasCompliant asks of a payment.
LEMMA CheckedComplies ==
    ASSUME NEW p \in Proposals, check_compliance(p)
    PROVE  /\ \A rule \in manifest.policies :
                rule.applies_to = {} \/ p.agent_id \in rule.applies_to => Meets(p, rule)
           /\ ApprovedOutside(p)
<1>1. ASSUME NEW rule \in manifest.policies, rule.applies_to = {} \/ p.agent_id \in rule.applies_to
      PROVE  Meets(p, rule)
  <2>1. ~_evaluate_rule(rule, p)
    BY <1>1 DEF check_compliance
  <2>2. QED
    BY <2>1 DEF _evaluate_rule, Meets
<1>2. ApprovedOutside(p)
  <2>1. Get(p, "amount") \in Int /\ Get(p, "value_wei") \in Int
    BY SettlementAssumption
  <2>2. SUFFICES ASSUME p.is_external, p.type \in {"payment", "transfer", "mint"}, Paid(p) > 0,
                        ~p.hitl_approved, ~(Get(p, "amount") < 0)
                 PROVE  Get(p, "amount") = 0 /\ "value_wei" \notin DOMAIN p
    BY DEF ApprovedOutside
  <2>3. ~((IF Get(p, "amount") # 0 THEN Get(p, "amount") ELSE Get(p, "value_wei")) > 0)
    BY <2>2 DEF check_compliance, _check_constitutional_core
  <2>4. Get(p, "amount") = 0 /\ ~(Get(p, "value_wei") > 0)
    BY <2>1, <2>2, <2>3
  <2>5. "value_wei" \notin DOMAIN p
    BY <2>2, <2>4 DEF Paid, Get
  <2>6. QED
    BY <2>4, <2>5
<1>3. QED
  BY <1>1, <1>2

\* A new draft is compliant, and the ones before it are the same.
LEMMA DraftKeeps ==
    ASSUME DraftsKept, draft_batch
    PROVE  DraftsKept'
<1>1. PICK batch \in SUBSET Proposals :
        /\ Compliant(batch)
        /\ txs' = Append(txs, [status |-> "Drafted", batch |-> batch, policies |-> manifest.policies])
  BY DEF draft_batch
<1> DEFINE new == [status |-> "Drafted", batch |-> batch, policies |-> manifest.policies]
           n == Len(txs)
           S == {txs[i] : i \in 1..n} \cup {new}
<1>2. n \in Nat /\ DOMAIN txs = 1..n /\ txs \in Seq(S) /\ new \in S
  <2>1. n \in Nat /\ txs = [i \in 1..n |-> txs[i]] /\ \A i \in 1..n : txs[i] \in S
    BY DEF DraftsKept
  <2> HIDE DEF n, S
  <2>2. txs \in Seq(S) /\ DOMAIN txs = 1..n
    BY <2>1
  <2> USE DEF n, S
  <2>3. QED
    BY <2>1, <2>2
<1>3. /\ txs' \in Seq(S) /\ Len(txs') = n + 1 /\ txs'[n + 1] = new
      /\ \A i \in 1..n : txs'[i] = txs[i]
  <2> HIDE DEF S
  <2>1. QED
    BY <1>1, <1>2
<1>4. \A i \in 1..(n + 1) : i \in 1..n \/ i = n + 1
  BY <1>2
<1>5. \A i \in 1..(n + 1) : Draft(txs', i)
  BY <1>3, <1>4 DEF DraftsKept, Draft
<1>6. BatchWasCompliant'
  <2>1. \A p \in batch : check_compliance(p)
    BY <1>1 DEF Compliant
  <2>2. ASSUME NEW i \in 1..(n + 1), NEW p \in txs'[i].batch
        PROVE  /\ \A rule \in txs'[i].policies :
                    rule.applies_to = {} \/ p.agent_id \in rule.applies_to => Meets(p, rule)
               /\ ApprovedOutside(p)
    <3>1. CASE i \in 1..n
      BY <1>2, <1>3, <2>2, <3>1 DEF DraftsKept, BatchWasCompliant
    <3>2. CASE i = n + 1
      <4>1. p \in batch /\ txs'[i].policies = manifest.policies
        BY <1>3, <2>2, <3>2
      <4>2. QED
        BY <2>1, <4>1, CheckedComplies
    <3>3. QED
      BY <1>4, <3>1, <3>2
  <2>3. DOMAIN txs' = 1..(n + 1)
    BY <1>2, <1>3
  <2>4. QED
    BY <2>2, <2>3 DEF BatchWasCompliant
<1>7. Len(txs') \in Nat /\ txs' = [i \in 1..Len(txs') |-> txs'[i]]
  BY <1>2, <1>3
<1>8. QED
  BY <1>3, <1>5, <1>6, <1>7 DEF DraftsKept

\* Nobody else drafts, and what becomes of a draft is a matter of its status.
LEMMA NextDrafts ==
    ASSUME DraftsKept, [Next]_vars
    PROVE  DraftsKept'
<1>1. DOMAIN txs = 1..Len(txs) /\ \A i \in DOMAIN txs : Draft(txs, i)
  BY DEF DraftsKept
<1>2. CASE UNCHANGED txs
  BY <1>2 DEF DraftsKept, BatchWasCompliant, Draft
<1>3. ASSUME NEW i \in DOMAIN txs, NEW st, txs' = [txs EXCEPT ![i].status = st]
      PROVE  DraftsKept'
  <2>1. DOMAIN txs' = DOMAIN txs /\ txs' = [j \in DOMAIN txs |-> txs'[j]]
    BY <1>3
  <2>2. ASSUME NEW j \in DOMAIN txs
        PROVE  txs'[j] = [status |-> txs'[j].status, batch |-> txs[j].batch, policies |-> txs[j].policies]
    <3>1. CASE j = i
      BY <1>1, <1>3, <3>1 DEF Draft
    <3>2. CASE j # i
      BY <1>1, <1>3, <3>2 DEF Draft
    <3>3. QED
      BY <3>1, <3>2
  <2>3. QED
    BY <2>1, <2>2, StatusKeeps
<1>4. ASSUME NEW i \in DOMAIN txs, purge_stale(i)
      PROVE  DraftsKept'
  BY <1>1, <1>4, StatusKeeps DEF Draft, purge_stale
<1>5. CASE SettlementNext
  <2>1. CASE draft_batch
    BY <2>1, DraftKeeps
  <2>2. CASE flush_pending \/ load_manifest_file \/ \E c \in Cid : pin_data(c) \/ create_event(c)
    BY <1>2, <2>2 DEF flush_pending, load_manifest_file, pin_data, create_event
  <2>3. ASSUME NEW i \in DOMAIN txs,
               cancel(i) \/ \E c \in Cid : verify_settlement(i, c)
        PROVE  DraftsKept'
    BY <1>3, <2>3 DEF cancel, verify_settlement
  <2>4. QED
    BY <1>4, <1>5, <2>1, <2>2, <2>3 DEF SettlementNext
<1>6. QED
  BY <1>2, <1>5, SettlementFrame

(***************************************************************************)
(* No batch ever holds a payment that its manifest refuses, or that pays   *)
(* somebody outside without a human but for what the engine overlooks: for *)
(* any manifest, whoever loaded it, and any payments.                      *)
(***************************************************************************)
THEOREM Compliance == Spec => []BatchWasCompliant
<1>1. Init => DraftsKept
  <2>1. SUFFICES ASSUME txs = <<>> PROVE DraftsKept
    BY DEF Init, SettlementInit
  <2>2. QED
    BY <2>1 DEF DraftsKept, BatchWasCompliant
<1>2. DraftsKept /\ [Next]_vars => DraftsKept'
  BY NextDrafts
<1>3. DraftsKept => BatchWasCompliant
  BY DEF DraftsKept
<1>4. QED
  BY <1>1, <1>2, <1>3, PTL DEF Spec

-----------------------------------------------------------------------------
(* The attestations.                                                       *)

\* What is active was signed by a key of the registry that is trusted.
AttestedKept ==
    /\ DOMAIN issuer = Key /\ DOMAIN attestation = Attestation
    /\ \A a \in Attestation :
         /\ attestation[a] = [status |-> attestation[a].status, key |-> attestation[a].key]
         /\ attestation[a].status = "Active" => attestation[a].key \in Key
    /\ RevokedKeyHasNoAttestation

(***************************************************************************)
(* Nothing attested is active under a key that is not trusted, for any     *)
(* number of keys and attestations.                                        *)
(***************************************************************************)
THEOREM KeysRevoked == Spec => []RevokedKeyHasNoAttestation
<1>1. Init => AttestedKept
  BY DEF Init, DiplomacyInit, AttestedKept, RevokedKeyHasNoAttestation, None
<1>2. AttestedKept /\ [Next]_vars => AttestedKept'
  <2>1. SUFFICES ASSUME AttestedKept, [Next]_vars PROVE AttestedKept'
    OBVIOUS
  <2>2. CASE UNCHANGED credentialVars
    BY <2>1, <2>2 DEF credentialVars, AttestedKept, RevokedKeyHasNoAttestation
  <2>3. ASSUME NEW k \in Key, register_issuer(k) PROVE AttestedKept'
    BY <2>1, <2>3 DEF register_issuer, AttestedKept, RevokedKeyHasNoAttestation
  <2>4. ASSUME NEW k \in Key, revoke_issuer(k) PROVE AttestedKept'
    <3>1. /\ issuer' = [issuer EXCEPT ![k] = "revoked"]
          /\ attestation' = tombstone_by_issuer_key(k)
      BY <2>4 DEF revoke_issuer
    <3>2. /\ DOMAIN attestation' = Attestation /\ DOMAIN issuer' = Key
          /\ \A a \in Attestation :
               \/ attestation[a].key = k /\ attestation'[a] = [status |-> "Tombstoned", key |-> k]
               \/ attestation[a].key # k /\ attestation'[a] = attestation[a]
      BY <2>1, <3>1 DEF tombstone_by_issuer_key, AttestedKept
    <3>3. \A j \in Key : j # k => issuer'[j] = issuer[j]
      BY <2>1, <3>1 DEF AttestedKept
    <3>4. QED
      BY <2>1, <3>2, <3>3 DEF AttestedKept, RevokedKeyHasNoAttestation
  <2>5. ASSUME NEW a \in Attestation, attest_from_vc(a) PROVE AttestedKept'
    <3>1. PICK vc \in [key : Key, formed : BOOLEAN, expired : BOOLEAN] :
            /\ issuer[vc.key] = "active" /\ issuer' = issuer
            /\ attestation' = [attestation EXCEPT ![a] = [status |-> "Active", key |-> vc.key]]
      BY <2>5 DEF attest_from_vc, verify_vc
    <3>2. QED
      BY <2>1, <3>1 DEF AttestedKept, RevokedKeyHasNoAttestation
  <2>6. CASE DiplomacyNext
    <3>1. ASSUME tick \/ \E d \in Sdc : \/ register_sdc(d) \/ record_transaction(d)
                                       \/ \E forced \in BOOLEAN : force_quarantine(d, forced)
          PROVE  AttestedKept'
      <4>1. ASSUME NEW d, register_sdc(d) PROVE UNCHANGED <<issuer, attestation>>
        BY <4>1 DEF register_sdc
      <4>2. ASSUME NEW d, record_transaction(d) PROVE UNCHANGED <<issuer, attestation>>
        BY <4>2 DEF record_transaction
      <4>3. ASSUME NEW d, NEW forced, force_quarantine(d, forced) PROVE UNCHANGED <<issuer, attestation>>
        BY <4>3 DEF force_quarantine
      <4>4. tick => UNCHANGED <<issuer, attestation>>
        BY DEF tick
      <4>5. QED
        BY <2>2, <3>1, <4>1, <4>2, <4>3, <4>4 DEF credentialVars
    <3>2. CASE \E x \in External : ingest(x)
      BY <2>2, <3>2 DEF ingest, credentialVars
    <3>3. CASE UNCHANGED <<issuer, attestation>>
      BY <2>2, <3>3 DEF credentialVars
    <3>4. QED
      BY <2>3, <2>4, <2>5, <2>6, <3>1, <3>2, <3>3 DEF DiplomacyNext, diplomacyVars
  <2>7. QED
    BY <2>1, <2>2, <2>6 DEF Next, vars, diplomacyVars, credentialVars
<1>3. AttestedKept => RevokedKeyHasNoAttestation
  BY DEF AttestedKept
<1>4. QED
  BY <1>1, <1>2, <1>3, PTL DEF Spec

-----------------------------------------------------------------------------
(* The commons.                                                            *)

\* The registry is a function from the assets to records with their status.
AssetsKept ==
    /\ DOMAIN asset = Asset
    /\ \A c \in Asset :
         /\ asset[c] = [status |-> asset[c].status, deps |-> asset[c].deps]
         /\ asset[c].status \in Statuses \cup {None} /\ asset[c].deps \subseteq Asset

\* A registration adds an asset; a status changes where update_status permits it.
AssetStep ==
    \/ asset' = asset
    \/ \E c \in Asset \ Registered, deps \in SUBSET Asset :
         asset' = [asset EXCEPT ![c] = [status |-> "Active", deps |-> deps]]
    \/ \E c \in Asset : \E to : StatusCanChange(c, to) /\ asset' = [asset EXCEPT ![c].status = to]

\* update_status is such a step, or none.
LEMMA UpdateStep ==
    ASSUME NEW c, NEW to, update_status(c, to)
    PROVE  AssetStep
<1>1. StatusCanChange(c, to) => c \in Asset
  BY DEF StatusCanChange, Registered
<1>2. QED
  BY <1>1 DEF update_status, AssetStep

\* So is every step of the manager, of its curators, and of the embassy.
LEMMA NextAssetStep ==
    ASSUME [Next]_vars
    PROVE  AssetStep
<1>1. CASE UNCHANGED asset
  BY <1>1 DEF AssetStep
<1>2. CASE CommonsNext
  <2>1. ASSUME NEW c \in Asset, register_asset(c) PROVE AssetStep
    BY <2>1 DEF register_asset, AssetStep, Registered
  <2>2. ASSUME NEW t \in Thread, submit_curation_proposal(t) PROVE AssetStep
    <3>1. UNCHANGED asset \/ \E c \in Asset, to \in Statuses : update_status(c, to)
      BY <2>2 DEF submit_curation_proposal, commonsVars
    <3>2. QED
      BY <1>1, <3>1, UpdateStep
  <2>3. ASSUME NEW t \in Thread, review_curation(t) PROVE AssetStep
    <3>1. UNCHANGED asset \/ update_status(State(t).cid, State(t).to)
      BY <2>3 DEF review_curation
    <3>2. QED
      BY <1>1, <3>1, UpdateStep
  <2>4. CASE \E t \in Thread : \/ log_contribution(t) \/ resume_contribution(t) \/ review_contribution(t)
                               \/ compute_scores(t) \/ review_threshold(t)
    <3>1. UNCHANGED commonsVars
      BY <2>4 DEF log_contribution, resume_contribution, review_contribution, compute_scores, review_threshold
    <3>2. QED
      BY <1>1, <3>1 DEF commonsVars
  <2>5. CASE activate_break_glass \/ deactivate_break_glass \/ glass_time
    BY <1>1, <2>5 DEF activate_break_glass, deactivate_break_glass, glass_time
  <2>6. QED
    BY <1>2, <2>1, <2>2, <2>3, <2>4, <2>5 DEF CommonsNext
<1>3. CASE DiplomacyNext
  <2>1. ASSUME NEW x \in External, NEW c \in Asset, admit(x, c) PROVE AssetStep
    BY <2>1 DEF admit, AssetStep, Registered
  <2>2. CASE UNCHANGED asset
    BY <1>1, <2>2
  <2>3. QED
    BY <1>3, <2>1, <2>2 DEF DiplomacyNext, commonsVars
<1>4. QED
  BY <1>1, <1>2, <1>3 DEF Next, vars, commonsVars

\* What such a step does to an asset that is registered.
LEMMA AssetStepFrozen ==
    ASSUME AssetsKept, AssetStep
    PROVE  /\ AssetsKept'
           /\ \A c \in Registered :
                /\ glass.active => asset'[c].status = asset[c].status
                /\ asset[c].status = "Tombstoned" => asset'[c].status = "Tombstoned"
<1>1. CASE asset' = asset
  BY <1>1 DEF AssetsKept
<1>2. ASSUME NEW c \in Asset \ Registered, NEW deps \in SUBSET Asset,
             asset' = [asset EXCEPT ![c] = [status |-> "Active", deps |-> deps]]
      PROVE  /\ AssetsKept'
             /\ \A a \in Registered : asset'[a] = asset[a]
  BY <1>2 DEF AssetsKept, Registered, Statuses
<1>3. ASSUME NEW c \in Asset, NEW to, StatusCanChange(c, to), asset' = [asset EXCEPT ![c].status = to]
      PROVE  /\ AssetsKept' /\ ~glass.active
             /\ \A a \in Registered : asset[a].status = "Tombstoned" => asset'[a] = asset[a]
  <2>0. to \in Statuses
    <3>1. asset[c].status \in Statuses /\ to \in VALID_TRANSITIONS[asset[c].status]
      BY <1>3 DEF StatusCanChange, Registered, AssetsKept
    <3>2. QED
      BY <3>1 DEF Statuses, VALID_TRANSITIONS
  <2>1. asset[c].status # "Tombstoned" /\ ~glass.active
    BY <1>3 DEF StatusCanChange, VALID_TRANSITIONS
  <2>2. /\ DOMAIN asset' = Asset
        /\ \A a \in Asset : a # c => asset'[a] = asset[a]
        /\ asset'[c] = [asset[c] EXCEPT !.status = to]
    BY <1>3 DEF AssetsKept
  <2>3. asset'[c] = [status |-> to, deps |-> asset[c].deps]
    BY <2>2 DEF AssetsKept
  <2>4. QED
    BY <2>0, <2>1, <2>2, <2>3 DEF AssetsKept, Registered
<1>4. QED
  BY <1>1, <1>2, <1>3 DEF AssetStep

\* The registry keeps its shape.
LEMMA AssetsAlways == Spec => []AssetsKept
<1>1. Init => AssetsKept
  <2> SUFFICES ASSUME Init PROVE AssetsKept
    OBVIOUS
  <2>1. asset = [c \in Asset |-> [status |-> None, deps |-> {}]]
    BY DEF Init, CommonsInit
  <2>2. QED
    BY <2>1 DEF AssetsKept
<1>2. AssetsKept /\ [Next]_vars => AssetsKept'
  BY NextAssetStep, AssetStepFrozen
<1>3. QED
  BY <1>1, <1>2, PTL DEF Spec

(***************************************************************************)
(* While Break-Glass is active no status of the commons changes, and a     *)
(* tombstone is for ever, for any assets and dependencies.                 *)
(***************************************************************************)
THEOREM Frozen == Spec => CommonsFrozen
<1>1. AssetsKept /\ [Next]_vars =>
        [\A c \in Registered :
           /\ glass.active => asset'[c].status = asset[c].status
           /\ asset[c].status = "Tombstoned" => asset'[c].status = "Tombstoned"]_vars
  BY NextAssetStep, AssetStepFrozen
<1>2. QED
  BY <1>1, AssetsAlways, PTL DEF Spec, CommonsFrozen

-----------------------------------------------------------------------------
(* Decisions.  Every part writes the checkpoints, so every step counts.    *)

\* A checkpoint is absent, or a record with the four fields.
ThreadsKept ==
    /\ DOMAIN thread = Thread
    /\ \A t \in Thread :
         Kind(t) # "unborn" => thread[t] = [kind |-> Kind(t), next |-> thread[t].next,
                                            state |-> State(t), told |-> thread[t].told]

Decided(t) == Kind(t) \in {"governance", "treasury"} /\ ~Undecided(t)

\* What a step may do to the checkpoints.
ThreadStep ==
    /\ ThreadsKept'
    /\ \A t \in Thread : /\ Decided(t) => thread'[t] = thread[t]
                         /\ thread'[t].kind = "unborn" => Kind(t) = "unborn"

\* What a step of another part does to the threads of the genesis, the vetting, the app
\* store and the spawner.
BootsStand ==
    \A t \in Thread : Kind(t) = "genesis" \/ thread'[t].kind = "genesis" => thread'[t] = thread[t]
VettingsStand ==
    \A t \in Thread : Kind(t) = "vetting" \/ thread'[t].kind = "vetting" => thread'[t] = thread[t]
AppsStand ==
    \A t \in Thread :
      Kind(t) \in {"app", "spawner"} \/ thread'[t].kind \in {"app", "spawner"} => thread'[t] = thread[t]
OtherStep == ThreadStep /\ BootsStand /\ VettingsStand /\ AppsStand

LEMMA StillStep ==
    ASSUME ThreadsKept, UNCHANGED thread
    PROVE  OtherStep
BY DEF ThreadsKept, ThreadStep, Kind, State, OtherStep, BootsStand, VettingsStand, AppsStand

\* A request with a fresh identifier disturbs no other thread.
LEMMA CreateExact ==
    ASSUME ThreadsKept, NEW kind, NEW t \in Thread, Fresh(t, kind), NEW k, k # "unborn", NEW next, NEW state,
           NEW told, Create(t, k, next, state, told)
    PROVE  /\ ThreadStep /\ thread'[t] = [kind |-> k, next |-> next, state |-> state, told |-> told]
           /\ \A u \in Thread : u # t => thread'[u] = thread[u]
<1> DEFINE new == [kind |-> k, next |-> next, state |-> state, told |-> told]
<1>1. thread' = [thread EXCEPT ![t] = new] /\ Kind(t) = "unborn"
  BY DEF Create, Fresh
<1>2. DOMAIN thread' = Thread /\ thread'[t] = new /\ \A u \in Thread : u # t => thread'[u] = thread[u]
  BY <1>1 DEF ThreadsKept
<1>3. QED
  BY <1>1, <1>2 DEF ThreadsKept, ThreadStep, Kind, State, Decided

LEMMA CreateStep ==
    ASSUME ThreadsKept, NEW kind, NEW t \in Thread, Fresh(t, kind), NEW k, k \notin {"unborn", "genesis", "vetting", "app", "spawner"},
           NEW next, NEW state, NEW told, Create(t, k, next, state, told)
    PROVE  OtherStep
<1>1. /\ ThreadStep /\ thread'[t] = [kind |-> k, next |-> next, state |-> state, told |-> told]
      /\ \A u \in Thread : u # t => thread'[u] = thread[u]
  BY CreateExact
<1>2. thread'[t].kind = k /\ Kind(t) = "unborn"
  BY <1>1 DEF Fresh
<1>3. QED
  BY <1>1, <1>2 DEF OtherStep, BootsStand, VettingsStand, AppsStand

\* Nor does an answer, and it finds a thread that is not decided.
LEMMA ResumeExact ==
    ASSUME ThreadsKept, NEW t \in Thread, Kind(t) # "unborn", ~Decided(t), NEW next, NEW state,
           Resume(t, next, state)
    PROVE  /\ ThreadStep
           /\ thread'[t] = [kind |-> Kind(t), next |-> next, state |-> state, told |-> thread[t].told]
           /\ \A u \in Thread : u # t => thread'[u] = thread[u]
<1> DEFINE new == [kind |-> Kind(t), next |-> next, state |-> state, told |-> thread[t].told]
<1>1. thread[t] = [kind |-> Kind(t), next |-> thread[t].next, state |-> State(t), told |-> thread[t].told]
  BY DEF ThreadsKept
<1>2. /\ DOMAIN thread' = Thread /\ thread'[t] = [[thread[t] EXCEPT !.next = next] EXCEPT !.state = state]
      /\ \A u \in Thread : u # t => thread'[u] = thread[u]
  BY DEF ThreadsKept, Resume
<1>3. thread'[t] = new
  <2>1. [thread[t] EXCEPT !.next = next] = [kind |-> Kind(t), next |-> next, state |-> State(t), told |-> thread[t].told]
    BY <1>1
  <2>2. QED
    BY <1>2, <2>1
<1>4. QED
  BY <1>2, <1>3 DEF ThreadsKept, ThreadStep, Kind, State

LEMMA ResumeStep ==
    ASSUME ThreadsKept, NEW t \in Thread, Kind(t) \notin {"unborn", "genesis", "vetting", "app", "spawner"}, ~Decided(t),
           NEW next, NEW state, Resume(t, next, state)
    PROVE  OtherStep
<1>1. /\ ThreadStep
      /\ thread'[t] = [kind |-> Kind(t), next |-> next, state |-> state, told |-> thread[t].told]
      /\ \A u \in Thread : u # t => thread'[u] = thread[u]
  BY ResumeExact
<1>2. thread'[t].kind = Kind(t)
  BY <1>1
<1>3. QED
  BY <1>1, <1>2 DEF OtherStep, BootsStand, VettingsStand, AppsStand

LEMMA FinanceStep ==
    ASSUME ThreadsKept, FinanceNext
    PROVE  OtherStep
<1>1. ASSUME NEW t \in Thread, submit_proposal(t) PROVE OtherStep
  BY <1>1, CreateStep DEF submit_proposal
<1>2. ASSUME NEW t \in Thread, submit_payment(t) PROVE OtherStep
  BY <1>2, CreateStep DEF submit_payment
<1>3. ASSUME NEW t \in Thread, cast_vote(t) PROVE OtherStep
  BY <1>3, ResumeStep DEF cast_vote, Told, Decided
<1>4. ASSUME NEW t \in Thread, approve_payment(t) PROVE OtherStep
  BY <1>4, ResumeStep DEF approve_payment, Told, Decided
<1>5. ASSUME NEW t \in Thread, NEW action, fiat(t, action) PROVE OtherStep
  BY <1>5, CreateStep DEF fiat
<1>6. ASSUME NEW t \in Thread, create_purchase(t) PROVE OtherStep
  BY <1>6, CreateStep DEF create_purchase
<1>7. ASSUME NEW m \in Member, deposit_credits(m) \/ transfer_credits(m) \/ convert_to_chain(m) \/ convert_from_chain(m)
      PROVE  OtherStep
  BY <1>7, StillStep DEF deposit_credits, transfer_credits, convert_to_chain, convert_from_chain, Book
<1>8. QED
  BY <1>1, <1>2, <1>3, <1>4, <1>5, <1>6, <1>7 DEF FinanceNext, mint, burn

LEMMA AuditStep ==
    ASSUME ThreadsKept, AuditNext
    PROVE  /\ ThreadStep /\ BootsStand /\ AppsStand
           /\ VettingsStand \/ \E t \in Thread : assess_trading_partners(t)
<1>1. ASSUME NEW t \in Thread, assess_trading_partners(t) PROVE ThreadStep /\ BootsStand /\ AppsStand
  <2>1. PICK next, state, told : Create(t, "vetting", next, state, told)
    BY <1>1 DEF assess_trading_partners
  <2>2. Fresh(t, "vetting")
    BY <1>1 DEF assess_trading_partners
  <2>3. /\ ThreadStep /\ thread'[t] = [kind |-> "vetting", next |-> next, state |-> state, told |-> told]
        /\ \A u \in Thread : u # t => thread'[u] = thread[u]
    BY <2>1, <2>2, CreateExact
  <2>4. QED
    BY <2>2, <2>3 DEF BootsStand, AppsStand, Fresh
<1>2. ASSUME NEW e \in Trade, \/ create_escrow(e) \/ dispute_escrow(e) \/ record_outcome(e)
                              \/ \E user \in Coop : release_escrow(e, user)
      PROVE  OtherStep
  BY <1>2, StillStep DEF create_escrow, dispute_escrow, record_outcome, release_escrow, graphVars
<1>3. QED
  BY <1>1, <1>2 DEF AuditNext, OtherStep

LEMMA CommonsStep ==
    ASSUME ThreadsKept, CommonsNext
    PROVE  OtherStep
<1>1. CASE activate_break_glass \/ deactivate_break_glass \/ glass_time \/ \E c \in Asset : register_asset(c)
  BY <1>1, StillStep DEF activate_break_glass, deactivate_break_glass, glass_time, register_asset, graphVars
<1>2. ASSUME NEW t \in Thread, submit_curation_proposal(t) PROVE OtherStep
  BY <1>2, CreateStep DEF submit_curation_proposal
<1>3. ASSUME NEW t \in Thread, review_curation(t) PROVE OtherStep
  BY <1>3, ResumeStep DEF review_curation, Told, Decided
<1>4. ASSUME NEW t \in Thread, log_contribution(t) PROVE OtherStep
  BY <1>4, CreateStep DEF log_contribution
<1>5. ASSUME NEW t \in Thread, resume_contribution(t) PROVE OtherStep
  BY <1>5, ResumeStep DEF resume_contribution, Told, Decided
<1>6. ASSUME NEW t \in Thread, review_contribution(t) PROVE OtherStep
  BY <1>6, ResumeStep, CreateStep DEF review_contribution, Told, Decided
<1>7. ASSUME NEW t \in Thread, compute_scores(t) PROVE OtherStep
  BY <1>7, CreateStep DEF compute_scores
<1>8. ASSUME NEW t \in Thread, review_threshold(t) PROVE OtherStep
  BY <1>8, ResumeStep DEF review_threshold, Told, Decided
<1>9. QED
  BY <1>1, <1>2, <1>3, <1>4, <1>5, <1>6, <1>7, <1>8 DEF CommonsNext

LEMMA DiplomacyStep ==
    ASSUME ThreadsKept, DiplomacyNext
    PROVE  OtherStep
<1>1. ASSUME NEW t \in Thread, submit_for_review(t) PROVE OtherStep
  BY <1>1, CreateStep DEF submit_for_review
<1>2. ASSUME NEW t \in Thread, review_research(t) PROVE OtherStep
  BY <1>2, ResumeStep DEF review_research, Told, Decided
<1>3. QED
  BY <1>1, <1>2, StillStep DEF DiplomacyNext, graphVars

\* The threads of the store and of the spawner are those of their requests.
LEMMA AppsStep ==
    ASSUME ThreadsKept, AppsNext
    PROVE  ThreadStep /\ BootsStand /\ VettingsStand
<1>1. ASSUME NEW t \in Thread, NEW kind \in {"app", "spawner"}, Fresh(t, kind),
             \E next, state, told : Create(t, kind, next, state, told)
      PROVE  ThreadStep /\ BootsStand /\ VettingsStand
  <2>1. PICK next, state, told : Create(t, kind, next, state, told)
    BY <1>1
  <2>2. /\ ThreadStep /\ thread'[t] = [kind |-> kind, next |-> next, state |-> state, told |-> told]
        /\ \A u \in Thread : u # t => thread'[u] = thread[u]
    BY <1>1, <2>1, CreateExact
  <2>3. thread'[t].kind = kind /\ Kind(t) = "unborn"
    BY <1>1, <2>2 DEF Fresh
  <2>4. QED
    BY <2>2, <2>3 DEF BootsStand, VettingsStand
<1>2. ASSUME NEW t \in Thread, Kind(t) \in {"app", "spawner"}, \E next, state : Resume(t, next, state)
      PROVE  ThreadStep /\ BootsStand /\ VettingsStand
  <2>1. PICK next, state : Resume(t, next, state)
    BY <1>2
  <2>2. /\ ThreadStep
        /\ thread'[t] = [kind |-> Kind(t), next |-> next, state |-> state, told |-> thread[t].told]
        /\ \A u \in Thread : u # t => thread'[u] = thread[u]
    BY <1>2, <2>1, ResumeExact DEF Decided
  <2>3. thread'[t].kind = Kind(t)
    BY <2>2
  <2>4. QED
    BY <1>2, <2>2, <2>3 DEF BootsStand, VettingsStand
<1>3. ASSUME NEW t \in Thread, request_app(t) \/ propose_agent(t) \/ vote_on_unknown_agent(t)
      PROVE  ThreadStep /\ BootsStand /\ VettingsStand
  BY <1>1, <1>3 DEF request_app, propose_agent, vote_on_unknown_agent
<1>4. ASSUME NEW t \in Thread, vote_on_app(t) \/ vote_on_agent(t) PROVE ThreadStep /\ BootsStand /\ VettingsStand
  <2>1. Kind(t) \in {"app", "spawner"}
    BY <1>4 DEF vote_on_app, vote_on_agent, Told
  <2>2. UNCHANGED thread \/ \E next, state : Resume(t, next, state)
    BY <1>4 DEF vote_on_app, vote_on_agent, deploy_agent, graphVars
  <2>3. QED
    BY <1>2, <2>1, <2>2, StillStep DEF OtherStep
<1>5. ASSUME NEW agent \in Agent, revoke_agent(agent) PROVE ThreadStep /\ BootsStand /\ VettingsStand
  BY <1>5, StillStep DEF revoke_agent, graphVars, OtherStep
<1>6. QED
  BY <1>3, <1>4, <1>5 DEF AppsNext

LEMMA DeliberationStep ==
    ASSUME ThreadsKept, DeliberationNext
    PROVE  OtherStep
<1>1. UNCHANGED thread
  BY DEF DeliberationNext, work_begin, work_end, create_thread, create_proposal, create_task, update_task,
         add_member, remove_member, upsert_stance, vote_graph, close_proposal, enqueue_outcome,
         insert_outcome, toggle_reaction_write, toggle_reaction, state_outcome, cast_stance,
         request_fails, restart, graphVars
<1>2. QED
  BY <1>1, StillStep

LEMMA GenesisStep ==
    ASSUME ThreadsKept, GenesisNext
    PROVE  ThreadStep /\ VettingsStand /\ AppsStand
<1>1. ASSUME NEW t \in Thread, build_genesis_graph(t) PROVE ThreadStep /\ VettingsStand /\ AppsStand
  <2>1. PICK next, state, told : Create(t, "genesis", next, state, told)
    BY <1>1 DEF build_genesis_graph
  <2>2. Fresh(t, "genesis")
    BY <1>1 DEF build_genesis_graph
  <2>3. /\ ThreadStep /\ thread'[t] = [kind |-> "genesis", next |-> next, state |-> state, told |-> told]
        /\ \A u \in Thread : u # t => thread'[u] = thread[u]
    BY <2>1, <2>2, CreateExact
  <2>4. QED
    BY <2>2, <2>3 DEF VettingsStand, AppsStand, Fresh
<1>2. ASSUME NEW t \in Thread, review_mappings(t) \/ execute_genesis_binding(t) \/ execute_solo_genesis(t)
      PROVE  ThreadStep /\ VettingsStand /\ AppsStand
  <2>1. PICK next, state : Resume(t, next, state)
    BY <1>2 DEF review_mappings, execute_genesis_binding, execute_solo_genesis, Bind
  <2>2. Kind(t) = "genesis"
    BY <1>2 DEF review_mappings, execute_genesis_binding, execute_solo_genesis, Bind, Told
  <2>3. /\ ThreadStep
        /\ thread'[t] = [kind |-> Kind(t), next |-> next, state |-> state, told |-> thread[t].told]
        /\ \A u \in Thread : u # t => thread'[u] = thread[u]
    BY <2>1, <2>2, ResumeExact DEF Decided
  <2>4. QED
    BY <2>2, <2>3 DEF VettingsStand, AppsStand
<1>3. CASE (\E d \in Did : register_founder(d)) \/ start_boot \/ choose_mode
  BY <1>3, StillStep DEF register_founder, start_boot, choose_mode, OtherStep
<1>4. QED
  BY <1>1, <1>2, <1>3 DEF GenesisNext

LEMMA FederationStep ==
    ASSUME ThreadsKept, FederationNext
    PROVE  OtherStep
<1>1. ASSUME NEW t \in Thread, file_dispute(t) PROVE OtherStep
  BY <1>1, CreateStep DEF file_dispute
<1>2. ASSUME NEW t \in Thread, record_verdict(t) PROVE OtherStep
  BY <1>2, ResumeStep DEF record_verdict, Told, Decided
<1>3. ASSUME NEW t \in Thread, NEW c \in Cid, submit_evidence(t, c) PROVE OtherStep
  BY <1>3, StillStep DEF submit_evidence, graphVars
<1>4. ASSUME NEW p \in AskedOf, route_hitl_proposal(p) PROVE OtherStep
  BY <1>4, StillStep DEF route_hitl_proposal, publish, _route_local_db, HitlUnchanged
<1>5. ASSUME NEW i \in DOMAIN outbox, _route_activitypub(i) PROVE OtherStep
  BY <1>5, StillStep DEF _route_activitypub, HitlUnchanged
<1>6. CASE post_inbox
  BY <1>6, StillStep DEF post_inbox
<1>7. ASSUME NEW a \in Actor, NEW cids \in SUBSET Cid,
             \/ receive_from_peer(a, cids) \/ sync_to_peer(a, cids) \/ receive_from_peer_with_anchor(a, cids)
      PROVE  OtherStep
  BY <1>7, StillStep DEF receive_from_peer, sync_to_peer, receive_from_peer_with_anchor
<1>8. QED
  BY <1>1, <1>2, <1>3, <1>4, <1>5, <1>6, <1>7 DEF FederationNext

\* No step of any part disturbs a decided thread, the boots are the genesis's own, the
\* manifest is theirs or the file's, and a vetting is written once, by its request.
LEMMA NextThreadStep ==
    ASSUME ThreadsKept, [Next]_vars
    PROVE  /\ ThreadStep
           /\ GenesisNext \/ (BootsStand /\ (UNCHANGED manifest \/ load_manifest(DefaultManifest)))
           /\ VettingsStand \/ \E t \in Thread : assess_trading_partners(t)
           /\ AppsStand \/ AppsNext
<1>1. CASE UNCHANGED vars
  BY <1>1, StillStep DEF vars, graphVars, settlementVars, OtherStep
<1>2. EnergyNext => OtherStep
  BY StillStep DEF EnergyNext, receive_power_state, sense, process_queue, flush, enqueue,
                   energy_gated_execution, graphVars
<1>3. SettlementNext => OtherStep /\ (UNCHANGED manifest \/ load_manifest(DefaultManifest))
  BY StillStep DEF SettlementNext, draft_batch, flush_pending, load_manifest_file, pin_data, create_event,
                   cancel, purge_stale, verify_settlement
<1>4. CASE GenesisNext
  BY <1>4, GenesisStep
<1>5. QED
  BY <1>1, <1>2, <1>3, <1>4, FinanceStep, AuditStep, CommonsStep, DiplomacyStep, AppsStep, DeliberationStep,
     FederationStep, BoundaryFrame DEF Next, OtherStep, settlementVars

\* A thread nobody began has no deployment, and a batch is drafted or done with.
DecisionsKept ==
    /\ ThreadsKept /\ DraftsKept
    /\ DOMAIN deployment = Thread /\ DOMAIN cases = Thread
    /\ \A t \in Thread : Kind(t) = "unborn" => deployment[t] = None
    /\ \A t \in Thread : cases[t] = [status |-> cases[t].status, evidence |-> cases[t].evidence,
                                     verdict |-> cases[t].verdict]
    /\ \A i \in DOMAIN txs : txs[i].status \in {"Drafted", "Settled", "Cancelled", "Stale"}

\* A deployment changes by its request, from none, and by the one vote on it.
LEMMA DeploymentStep ==
    ASSUME DecisionsKept, [Next]_vars
    PROVE  /\ DOMAIN deployment' = Thread
           /\ \A t \in Thread : deployment'[t] = deployment[t] \/ thread'[t].kind # "unborn"
           /\ \A t \in Thread : deployment[t] \in {"rejected", "failed"} => deployment'[t] = deployment[t]
<1>1. CASE UNCHANGED deployment
  BY <1>1 DEF DecisionsKept
<1>2. ASSUME NEW t \in Thread, request_app(t)
      PROVE  /\ deployment[t] = None /\ thread'[t].kind # "unborn"
             /\ \E d : deployment' = [deployment EXCEPT ![t] = d]
  <2>1. thread'[t].kind = "app"
    <3>1. ThreadsKept /\ Fresh(t, "app") /\ \E next, state, told : Create(t, "app", next, state, told)
      BY <1>2 DEF request_app, DecisionsKept
    <3>2. PICK next, state, told : Create(t, "app", next, state, told)
      BY <3>1
    <3>3. thread'[t] = [kind |-> "app", next |-> next, state |-> state, told |-> told]
      BY <3>1, <3>2, CreateExact
    <3>4. QED
      BY <3>3
  <2>2. deployment[t] = None
    BY <1>2 DEF request_app, Fresh, DecisionsKept
  <2>3. QED
    BY <1>2, <2>1, <2>2 DEF request_app
<1>3. ASSUME NEW t \in Thread, vote_on_app(t)
      PROVE  /\ deployment[t] = "proposed" /\ thread'[t].kind # "unborn"
             /\ \E d : deployment' = [deployment EXCEPT ![t] = d]
  <2>1. deployment[t] = "proposed" /\ Kind(t) = "app"
    BY <1>3 DEF vote_on_app, MayVote, Told
  <2>2. ThreadStep
    BY <1>3, AppsStep DEF AppsNext, DecisionsKept
  <2>3. QED
    BY <1>3, <2>1, <2>2 DEF vote_on_app, ThreadStep
<1>4. CASE AppsNext
  <2>1. CASE \E t \in Thread : propose_agent(t) \/ vote_on_agent(t) \/ vote_on_unknown_agent(t)
    BY <1>1, <2>1 DEF propose_agent, vote_on_agent, vote_on_unknown_agent, appsVars
  <2>2. CASE \E agent \in Agent : revoke_agent(agent)
    BY <1>1, <2>2 DEF revoke_agent
  <2>3. CASE \E t \in Thread : request_app(t) \/ vote_on_app(t)
    <3>1. PICK t \in Thread : /\ deployment[t] \in {None, "proposed"} /\ thread'[t].kind # "unborn"
                             /\ \E d : deployment' = [deployment EXCEPT ![t] = d]
      BY <1>2, <1>3, <2>3
    <3>2. /\ DOMAIN deployment' = Thread
          /\ \A u \in Thread : u # t => deployment'[u] = deployment[u]
      BY <3>1 DEF DecisionsKept
    <3>3. QED
      BY <3>1, <3>2 DEF None
  <2>4. QED
    BY <1>4, <2>1, <2>2, <2>3 DEF AppsNext
<1>5. QED
  BY <1>1, <1>4 DEF Next, vars, appsVars

\* Cases keep their shape, and a verdict stands.
CasesKeep ==
    /\ DOMAIN cases' = Thread
    /\ \A t \in Thread :
         /\ cases'[t] = [status |-> cases'[t].status, evidence |-> cases'[t].evidence,
                         verdict |-> cases'[t].verdict]
         /\ cases[t].verdict # None => cases'[t].verdict = cases[t].verdict

\* A verdict is written on a case without one.
LEMMA CasesStep ==
    ASSUME DecisionsKept, [Next]_vars
    PROVE  CasesKeep
<1>1. UNCHANGED cases => CasesKeep
  BY DEF DecisionsKept, CasesKeep
<1>2. ASSUME NEW t \in Thread, NEW case, DOMAIN cases' = Thread, cases'[t] = case,
             \A u \in Thread : u # t => cases'[u] = cases[u],
             case = [status |-> case.status, evidence |-> case.evidence, verdict |-> case.verdict],
             cases[t].verdict # None => case.verdict = cases[t].verdict
      PROVE  CasesKeep
  BY <1>2 DEF DecisionsKept, CasesKeep
<1>3. ASSUME NEW t \in Thread, NEW c, cases' = [cases EXCEPT ![t].evidence = @ \cup {c}]
      PROVE  CasesKeep
  <2> DEFINE case == [status |-> cases[t].status, evidence |-> cases[t].evidence \cup {c},
                      verdict |-> cases[t].verdict]
  <2>1. cases[t] = [status |-> cases[t].status, evidence |-> cases[t].evidence, verdict |-> cases[t].verdict]
    BY DEF DecisionsKept
  <2>2. [cases[t] EXCEPT !.evidence = @ \cup {c}] = case
    BY <2>1
  <2>3. /\ DOMAIN cases' = Thread /\ cases'[t] = [cases[t] EXCEPT !.evidence = @ \cup {c}]
        /\ \A u \in Thread : u # t => cases'[u] = cases[u]
    BY <1>3 DEF DecisionsKept
  <2>4. QED
    BY <1>2, <2>2, <2>3
<1>4. ASSUME NEW t \in Thread, NEW status, cases' = [cases EXCEPT ![t].status = status]
      PROVE  CasesKeep
  <2> DEFINE case == [status |-> status, evidence |-> cases[t].evidence, verdict |-> cases[t].verdict]
  <2>1. cases[t] = [status |-> cases[t].status, evidence |-> cases[t].evidence, verdict |-> cases[t].verdict]
    BY DEF DecisionsKept
  <2>2. [cases[t] EXCEPT !.status = status] = case
    BY <2>1
  <2>3. /\ DOMAIN cases' = Thread /\ cases'[t] = [cases[t] EXCEPT !.status = status]
        /\ \A u \in Thread : u # t => cases'[u] = cases[u]
    BY <1>4 DEF DecisionsKept
  <2>4. QED
    BY <1>2, <2>2, <2>3
<1>5. ASSUME NEW t \in Thread, NEW status, NEW verdict, cases[t].verdict = None,
             cases' = [cases EXCEPT ![t].verdict = verdict, ![t].status = status]
      PROVE  CasesKeep
  <2> DEFINE case == [status |-> status, evidence |-> cases[t].evidence, verdict |-> verdict]
  <2>1. cases[t] = [status |-> cases[t].status, evidence |-> cases[t].evidence, verdict |-> cases[t].verdict]
    BY DEF DecisionsKept
  <2> DEFINE middle == [status |-> cases[t].status, evidence |-> cases[t].evidence, verdict |-> verdict]
  <2>2. [cases[t] EXCEPT !.verdict = verdict] = middle
    BY <2>1
  <2>3. [middle EXCEPT !.status = status] = case
    OBVIOUS
  <2> DEFINE ruled == [cases EXCEPT ![t].verdict = verdict]
  <2>4. /\ DOMAIN ruled = Thread /\ ruled[t] = [cases[t] EXCEPT !.verdict = verdict]
        /\ \A u \in Thread : u # t => ruled[u] = cases[u]
    BY DEF DecisionsKept
  <2>5. cases' = [ruled EXCEPT ![t].status = status]
    BY <1>5
  <2>6. /\ DOMAIN cases' = Thread /\ cases'[t] = [ruled[t] EXCEPT !.status = status]
        /\ \A u \in Thread : u # t => cases'[u] = cases[u]
    <3> HIDE DEF ruled
    <3>1. QED
      BY <2>4, <2>5
  <2>7. cases'[t] = case
    <3> HIDE DEF ruled, middle, case
    <3>1. QED
      BY <2>2, <2>3, <2>4, <2>6
  <2>8. QED
    BY <1>2, <1>5, <2>6, <2>7
<1>6. CASE FederationNext
  <2>1. ASSUME NEW t \in Thread, NEW c \in Cid, submit_evidence(t, c) PROVE CasesKeep
    <3>1. cases' = [cases EXCEPT ![t].evidence = @ \cup {c}]
      BY <2>1 DEF submit_evidence
    <3>2. QED
      BY <1>3, <3>1
  <2>2. ASSUME NEW t \in Thread, file_dispute(t) PROVE CasesKeep
    <3>1. UNCHANGED cases \/ \E status : cases' = [cases EXCEPT ![t].status = status]
      BY <2>2 DEF file_dispute
    <3>2. QED
      BY <1>1, <1>4, <3>1
  <2>3. ASSUME NEW t \in Thread, record_verdict(t) PROVE CasesKeep
    <3>1. cases[t].verdict = None
      BY <2>3 DEF record_verdict, MayRule
    <3>2. \E status, verdict : cases' = [cases EXCEPT ![t].verdict = verdict, ![t].status = status]
      BY <2>3 DEF record_verdict
    <3>3. QED
      BY <1>5, <3>1, <3>2
  <2>4. CASE (\E p \in AskedOf : route_hitl_proposal(p)) \/ \E i \in DOMAIN outbox : _route_activitypub(i)
    <3>1. UNCHANGED cases
      BY <2>4 DEF route_hitl_proposal, publish, _route_local_db, _route_activitypub, HitlUnchanged
    <3>2. QED
      BY <1>1, <3>1
  <2>5. CASE post_inbox \/ \E a \in Actor, cids \in SUBSET Cid :
               \/ receive_from_peer(a, cids) \/ sync_to_peer(a, cids) \/ receive_from_peer_with_anchor(a, cids)
    <3>1. UNCHANGED cases
      BY <2>5 DEF post_inbox, receive_from_peer, sync_to_peer, receive_from_peer_with_anchor
    <3>2. QED
      BY <1>1, <3>1
  <2>6. QED
    BY <1>6, <2>1, <2>2, <2>3, <2>4, <2>5 DEF FederationNext
<1>7. QED
  BY <1>1, <1>6 DEF Next, vars, federationVars

\* A batch leaves "Drafted" once.
LEMMA TxsStep ==
    ASSUME DecisionsKept, [Next]_vars
    PROVE  /\ \A i \in DOMAIN txs' : txs'[i].status \in {"Drafted", "Settled", "Cancelled", "Stale"}
           /\ \A i \in DOMAIN txs : txs[i].status # "Drafted" => txs'[i] = txs[i]
<1>1. /\ DOMAIN txs = 1..Len(txs) /\ Len(txs) \in Nat
      /\ \A i \in DOMAIN txs : /\ Draft(txs, i)
                              /\ txs[i].status \in {"Drafted", "Settled", "Cancelled", "Stale"}
  BY DEF DecisionsKept, DraftsKept
<1>2. CASE UNCHANGED txs
  BY <1>1, <1>2
<1>3. ASSUME NEW i \in DOMAIN txs, NEW status \in {"Settled", "Cancelled"}, txs[i].status = "Drafted",
             txs' = [txs EXCEPT ![i].status = status]
      PROVE  /\ \A j \in DOMAIN txs' : txs'[j].status \in {"Drafted", "Settled", "Cancelled", "Stale"}
             /\ \A j \in DOMAIN txs : txs[j].status # "Drafted" => txs'[j] = txs[j]
  <2>1. DOMAIN txs' = DOMAIN txs /\ \A j \in DOMAIN txs : j # i => txs'[j] = txs[j]
    BY <1>3
  <2>2. txs'[i].status = status
    BY <1>1, <1>3 DEF Draft
  <2>3. QED
    BY <1>1, <1>3, <2>1, <2>2
<1>4. CASE SettlementNext
  <2>1. CASE draft_batch
    <3>1. PICK new : new.status = "Drafted" /\ txs' = Append(txs, new)
      BY <2>1 DEF draft_batch
    <3> DEFINE S == {txs[i] : i \in 1..Len(txs)} \cup {new}
    <3>2. txs \in Seq(S) /\ new \in S
      BY <1>1 DEF DecisionsKept, DraftsKept
    <3>3. /\ DOMAIN txs' = 1..(Len(txs) + 1) /\ txs'[Len(txs) + 1] = new
          /\ \A i \in DOMAIN txs : txs'[i] = txs[i]
      <4> HIDE DEF S
      <4>1. QED
        BY <1>1, <3>1, <3>2
    <3>4. \A i \in 1..(Len(txs) + 1) : i \in DOMAIN txs \/ i = Len(txs) + 1
      BY <1>1
    <3>5. QED
      BY <1>1, <3>1, <3>3, <3>4
  <2>2. CASE flush_pending \/ load_manifest_file \/ \E c \in Cid : pin_data(c) \/ create_event(c)
    BY <1>2, <2>2 DEF flush_pending, load_manifest_file, pin_data, create_event
  <2>3. ASSUME NEW i \in DOMAIN txs, cancel(i) \/ \E c \in Cid : verify_settlement(i, c)
        PROVE  /\ \A j \in DOMAIN txs' : txs'[j].status \in {"Drafted", "Settled", "Cancelled", "Stale"}
               /\ \A j \in DOMAIN txs : txs[j].status # "Drafted" => txs'[j] = txs[j]
    <3>1. txs[i].status \in {"Drafted", "Pending", "Executed"}
      BY <2>3 DEF cancel, MayCancel, verify_settlement
    <3>2. txs[i].status = "Drafted"
      BY <1>1, <3>1
    <3>3. \E status \in {"Settled", "Cancelled"} : txs' = [txs EXCEPT ![i].status = status]
      BY <2>3 DEF cancel, verify_settlement
    <3>4. QED
      BY <1>3, <3>2, <3>3
  <2>4. ASSUME NEW n \in DOMAIN txs, purge_stale(n)
        PROVE  /\ \A j \in DOMAIN txs' : txs'[j].status \in {"Drafted", "Settled", "Cancelled", "Stale"}
               /\ \A j \in DOMAIN txs : txs[j].status # "Drafted" => txs'[j] = txs[j]
    BY <1>1, <2>4 DEF purge_stale, Draft
  <2>5. QED
    BY <1>4, <2>1, <2>2, <2>3, <2>4 DEF SettlementNext
<1>5. QED
  BY <1>2, <1>4, SettlementFrame

\* And the threads, deployments, cases and batches theirs.
LEMMA DecisionsAlways == Spec => []DecisionsKept
<1>1. Init => DecisionsKept
  <2>1. SUFFICES ASSUME Init PROVE DecisionsKept
    OBVIOUS
  <2>2. ThreadsKept
    BY <2>1 DEF Init, GraphInit, ThreadsKept, Kind, Unborn
  <2>3. txs = <<>>
    BY <2>1 DEF Init, SettlementInit
  <2>4. DraftsKept /\ DOMAIN txs = {}
    BY <2>3 DEF DraftsKept, BatchWasCompliant
  <2>5. QED
    BY <2>1, <2>2, <2>4 DEF Init, AppsInit, FederationInit, DecisionsKept
<1>2. DecisionsKept /\ [Next]_vars => DecisionsKept'
  <2>1. SUFFICES ASSUME DecisionsKept, [Next]_vars PROVE DecisionsKept'
    OBVIOUS
  <2>2. ThreadStep /\ DraftsKept' /\ CasesKeep
    BY <2>1, NextThreadStep, NextDrafts, CasesStep DEF DecisionsKept
  <2>3. \A t \in Thread : Kind(t)' = "unborn" => deployment'[t] = None
    BY <2>1, <2>2, DeploymentStep DEF DecisionsKept, ThreadStep, Kind
  <2>4. QED
    BY <2>1, <2>2, <2>3, DeploymentStep, TxsStep DEF DecisionsKept, ThreadStep, CasesKeep
<1>3. QED
  BY <1>1, <1>2, PTL DEF Spec

(***************************************************************************)
(* A decision is taken once, by whatever agent and in whatever order: for  *)
(* any number of threads, proposals, deployments, cases and batches.       *)
(***************************************************************************)
THEOREM Finality == Spec => DecisionIsFinal
<1>1. DecisionsKept /\ [Next]_vars =>
        [\A t \in Thread :
           /\ Kind(t) \in {"governance", "treasury"} /\ State(t).vote # "awaiting"
                => thread'[t].state.vote = State(t).vote
           /\ deployment[t] \in {"rejected", "failed"} => deployment'[t] = deployment[t]
           /\ cases[t].verdict # None => cases'[t].verdict = cases[t].verdict
           /\ \A i \in DOMAIN txs : txs[i].status # "Drafted" => txs'[i] = txs[i]]_vars
  <2>1. SUFFICES ASSUME DecisionsKept, [Next]_vars, NEW t \in Thread
        PROVE  /\ Kind(t) \in {"governance", "treasury"} /\ State(t).vote # "awaiting"
                    => thread'[t].state.vote = State(t).vote
               /\ deployment[t] \in {"rejected", "failed"} => deployment'[t] = deployment[t]
               /\ cases[t].verdict # None => cases'[t].verdict = cases[t].verdict
               /\ \A i \in DOMAIN txs : txs[i].status # "Drafted" => txs'[i] = txs[i]
    OBVIOUS
  <2>2. ThreadStep /\ CasesKeep
    BY <2>1, NextThreadStep, CasesStep DEF DecisionsKept
  <2>3. QED
    BY <2>1, <2>2, DeploymentStep, TxsStep DEF ThreadStep, Decided, Undecided, State, CasesKeep
<1>2. QED
  BY <1>1, DecisionsAlways, PTL DEF Spec, DecisionIsFinal

-----------------------------------------------------------------------------
(* The boots.                                                              *)

BootFields == {"mode", "profile", "founders", "rules", "node", "regulatory", "manifest", "sbts",
               "threshold", "ambiguous", "complete", "error"}
Regulation(profile_) == Templates[IF profile_ \in DOMAIN Templates THEN profile_ ELSE "UNIVERSAL"]
Chartered(s) ==
    /\ Regulation(s.profile) \subseteq s.manifest /\ s.manifest # {}
    /\ s.mode = "solo_node" \/ Cardinality(s.founders) >= MinFounders

\* What every node leaves alone.
Founded(s, u) == DOMAIN u = BootFields /\ u.mode = s.mode /\ u.profile = s.profile /\ u.founders = s.founders

\* Of a solo boot, the owner's manifest is the regulation of its jurisdiction.
LEMMA SoloCharters ==
    ASSUME NEW s, DOMAIN s = BootFields, s.mode = "solo_node", NEW u \in Solo(s)
    PROVE  DOMAIN u = BootFields /\ (u.error = None => Chartered(u))
<1>1. PICK a \in collect_owner_profile(s) : \E b \in inject_regulatory_layer(a) :
        \E c \in configure_solo_manifest(b) : u \in validate_genesis_manifest(c)
  BY DEF Solo, Then
<1>2. Founded(s, a)
  BY <1>1 DEF collect_owner_profile, Unless, Founded, BootFields
<1>3. PICK b \in inject_regulatory_layer(a) : \E c \in configure_solo_manifest(b) : u \in validate_genesis_manifest(c)
  BY <1>1
<1>4. Founded(s, b) /\ (b.error = None => b.regulatory = Regulation(s.profile))
  BY <1>2, <1>3 DEF inject_regulatory_layer, Unless, Founded, BootFields, Regulation
<1>5. PICK c \in configure_solo_manifest(b) : u \in validate_genesis_manifest(c)
  BY <1>3
<1>6. Founded(s, c) /\ (c.error = None => c.manifest = Regulation(s.profile))
  BY <1>4, <1>5 DEF configure_solo_manifest, Unless, Founded, BootFields
<1>7. Founded(s, u) /\ (u.error = None => u.manifest = Regulation(s.profile) /\ u.manifest # {})
  BY <1>5, <1>6 DEF validate_genesis_manifest, Unless, Founded, BootFields, None
<1>8. QED
  BY <1>7 DEF Founded, Chartered

\* The founders are a full body, or the boot has an error.
LEMMA FoundingCounts ==
    ASSUME NEW s, DOMAIN s = BootFields, s.founders \in SUBSET Did, NEW f \in Founding(s)
    PROVE  Founded(s, f) /\ (f.error = None => Cardinality(f.founders) >= MinFounders)
<1>1. PICK a \in register_founders(s) : \E b \in deploy_identity(a) : f \in deploy_safe(b)
  BY DEF Founding, Then
<1>2. Founded(s, a) /\ (a.error = None => Cardinality(s.founders) >= MinFounders)
  <2>1. Cardinality(s.founders) \in Nat /\ MinFounders \in Nat
    BY GenesisAssumption, FS_Subset, FS_CardinalityType
  <2>2. Founded(s, a) /\ (a.error = None => ~(Cardinality(s.founders) < MinFounders))
    BY <1>1 DEF register_founders, Unless, Founded, BootFields, None
  <2>3. QED
    BY <2>1, <2>2
<1>3. PICK b \in deploy_identity(a) : f \in deploy_safe(b)
  BY <1>1
<1>4. Founded(s, b) /\ (b.error = None => Cardinality(s.founders) >= MinFounders)
  BY <1>2, <1>3 DEF deploy_identity, Unless, Founded, BootFields
<1>5. QED
  BY <1>3, <1>4 DEF deploy_safe, Unless, Founded, BootFields

\* Rules that were confirmed are added to the regulation.
LEMMA CooperativeCharters ==
    ASSUME NEW s, DOMAIN s = BootFields, Cardinality(s.founders) >= MinFounders,
           NEW u \in Cooperative(s)
    PROVE  DOMAIN u = BootFields /\ (u.error = None => Chartered(u))
<1>1. PICK a \in _route_after_founders(s) : \E b \in inject_regulatory_layer(a) :
        \E c \in compile_genesis_manifest(b) : u \in validate_genesis_manifest(c)
  BY DEF Cooperative, Then
<1>2. Founded(s, a)
  BY <1>1 DEF _route_after_founders, Then, extract_rules_from_bylaws, tag_ambiguous_rules,
              browse_templates, select_template, Unless, Founded, BootFields
<1>3. PICK b \in inject_regulatory_layer(a) : \E c \in compile_genesis_manifest(b) : u \in validate_genesis_manifest(c)
  BY <1>1
<1>4. Founded(s, b) /\ (b.error = None => b.regulatory = Regulation(s.profile))
  BY <1>2, <1>3 DEF inject_regulatory_layer, Unless, Founded, BootFields, Regulation
<1>5. PICK c \in compile_genesis_manifest(b) : u \in validate_genesis_manifest(c)
  BY <1>3
<1>6. Founded(s, c) /\ (c.error = None => Regulation(s.profile) \subseteq c.manifest)
  BY <1>4, <1>5 DEF compile_genesis_manifest, Unless, Founded, BootFields
<1>7. Founded(s, u) /\ (u.error = None => Regulation(s.profile) \subseteq u.manifest /\ u.manifest # {})
  BY <1>5, <1>6 DEF validate_genesis_manifest, Unless, Founded, BootFields, None
<1>8. QED
  BY <1>7 DEF Founded, Chartered

\* So a boot that is suspended without an error waits with a charter.
LEMMA RouteCharters ==
    ASSUME NEW s, DOMAIN s = BootFields, s.founders \in SUBSET Did, s.node = "solo" => s.mode = "solo_node",
           NEW end \in _route_after_mode(s)
    PROVE  DOMAIN end[2] = BootFields /\ (end[2].error = None => Chartered(end[2]))
<1>1. CASE s.error # None
  BY <1>1 DEF _route_after_mode
<1>2. CASE s.error = None /\ s.node = "solo"
  <2>1. PICK u \in Solo(s) : end = <<"owner_review", u>>
    BY <1>2 DEF _route_after_mode
  <2>2. end[2] = u
    BY <2>1
  <2>3. QED
    BY <1>2, <2>2, SoloCharters
<1>3. CASE s.error = None /\ s.node # "solo"
  <2>1. PICK f \in Founding(s) : \/ f.error # None /\ end = <<END, f>>
                                 \/ f.error = None /\ \E u \in Cooperative(f) : end = <<"confirm_mappings", u>>
    BY <1>3 DEF _route_after_mode
  <2>2. DOMAIN f = BootFields /\ (f.error = None => Cardinality(f.founders) >= MinFounders)
    BY FoundingCounts DEF Founded
  <2>3. CASE f.error # None /\ end = <<END, f>>
    BY <2>2, <2>3
  <2>4. CASE f.error = None /\ \E u \in Cooperative(f) : end = <<"confirm_mappings", u>>
    <3>1. PICK u \in Cooperative(f) : end[2] = u
      BY <2>4
    <3>2. QED
      BY <2>2, <2>4, <3>1, CooperativeCharters
  <2>5. QED
    BY <2>1, <2>3, <2>4
<1>4. QED
  BY <1>1, <1>2, <1>3

\* What is in force is the file's, or the charter of a boot that is over.
BootsKept ==
    /\ ThreadsKept
    /\ \A t \in Of("genesis") :
         DOMAIN State(t) = BootFields /\ (State(t).error = None => Chartered(State(t)))
    /\ manifest.loaded =>
         \/ manifest.policies = DefaultManifest
         \/ \E t \in Of("genesis") :
              /\ thread[t].next = END /\ State(t).complete
              /\ State(t).manifest = manifest.policies /\ Chartered(State(t))
    /\ manifest.loaded \in BOOLEAN /\ (~manifest.loaded => manifest.policies = {})

\* What a step of the genesis does to the others' threads and to its own.
LEMMA BootKeeps ==
    ASSUME BootsKept, ThreadsKept', NEW t \in Thread, thread'[t].kind = "genesis",
           Kind(t) = "unborn" \/ thread[t].next # END,
           \A u \in Thread : u # t => thread'[u] = thread[u],
           DOMAIN thread'[t].state = BootFields,
           thread'[t].state.error = None => Chartered(thread'[t].state),
           \/ UNCHANGED manifest
           \/ /\ manifest' = [loaded |-> TRUE, policies |-> thread'[t].state.manifest]
              /\ thread'[t].next = END /\ thread'[t].state.complete /\ thread'[t].state.error = None
    PROVE  BootsKept'
<1>1. \A u \in Of("genesis")' :
        DOMAIN State(u)' = BootFields /\ (State(u).error = None => Chartered(State(u)))'
  BY DEF BootsKept, Of, Kind, State, Chartered, Regulation
<1>2. CASE UNCHANGED manifest
  <2>1. \A u \in Of("genesis") : thread[u].next = END => u # t
    BY DEF Of, Kind
  <2>2. \A u \in Of("genesis") : thread[u].next = END =>
          u \in Of("genesis")' /\ thread'[u] = thread[u]
    BY <2>1 DEF Of, Kind
  <2>3. (manifest.loaded =>
           \/ manifest.policies = DefaultManifest
           \/ \E u \in Of("genesis") :
                /\ thread[u].next = END /\ State(u).complete
                /\ State(u).manifest = manifest.policies /\ Chartered(State(u)))'
    BY <1>2, <2>2 DEF BootsKept, State, Chartered, Regulation
  <2>4. (manifest.loaded \in BOOLEAN /\ (~manifest.loaded => manifest.policies = {}))'
    BY <1>2 DEF BootsKept
  <2>5. QED
    BY <1>1, <2>3, <2>4 DEF BootsKept
<1>3. CASE /\ manifest' = [loaded |-> TRUE, policies |-> thread'[t].state.manifest]
           /\ thread'[t].next = END /\ thread'[t].state.complete /\ thread'[t].state.error = None
  <2>1. t \in Of("genesis")'
    BY DEF Of, Kind
  <2>2. (/\ thread[t].next = END /\ State(t).complete
         /\ State(t).manifest = manifest.policies /\ Chartered(State(t)))'
    BY <1>3 DEF State, Chartered, Regulation
  <2>3. manifest'.loaded = TRUE
    BY <1>3
  <2>4. QED
    BY <1>1, <2>1, <2>2, <2>3 DEF BootsKept
<1>4. QED
  BY <1>2, <1>3

LEMMA BuildKeeps ==
    ASSUME BootsKept, NEW t \in Thread, build_genesis_graph(t)
    PROVE  BootsKept'
<1>1. PICK mode \in Modes, profile_ \in DOMAIN Templates \cup {None, "elsewhere"}, founders \in SUBSET Did,
          rules \in Bylaws :
        \E s \in select_mode([BootState EXCEPT !.mode = mode, !.profile = profile_,
                                               !.founders = founders, !.rules = rules]) :
        \E end \in _route_after_mode(s) : Create(t, "genesis", end[1], end[2], TRUE)
  BY DEF build_genesis_graph
<1> DEFINE s0 == [BootState EXCEPT !.mode = mode, !.profile = profile_, !.founders = founders, !.rules = rules]
<1>2. DOMAIN s0 = BootFields /\ s0.founders = founders /\ s0.mode = mode /\ s0.node = None /\ s0.error = None
  BY DEF BootState, BootFields
<1>3. PICK s \in select_mode(s0) : \E end \in _route_after_mode(s) : Create(t, "genesis", end[1], end[2], TRUE)
  BY <1>1
<1>4. DOMAIN s = BootFields /\ s.founders \in SUBSET Did /\ (s.node = "solo" => s.mode = "solo_node")
  <2> HIDE DEF s0
  <2>1. QED
    BY <1>2, <1>3 DEF select_mode, Unless, BootFields, None
<1>5. PICK end \in _route_after_mode(s) : Create(t, "genesis", end[1], end[2], TRUE)
  BY <1>3
<1>6. DOMAIN end[2] = BootFields /\ (end[2].error = None => Chartered(end[2]))
  BY <1>4, RouteCharters
<1>7. /\ Fresh(t, "genesis") /\ Kind(t) = "unborn" /\ UNCHANGED manifest
  BY DEF build_genesis_graph, Fresh
<1>8. /\ ThreadStep /\ thread'[t] = [kind |-> "genesis", next |-> end[1], state |-> end[2], told |-> TRUE]
      /\ \A u \in Thread : u # t => thread'[u] = thread[u]
  BY <1>5, <1>7, CreateExact DEF BootsKept
<1>9. thread'[t].kind = "genesis" /\ thread'[t].state = end[2]
  BY <1>8
<1>10. QED
  BY <1>6, <1>7, <1>8, <1>9, BootKeeps DEF ThreadStep

LEMMA AnswerKeeps ==
    ASSUME BootsKept, NEW t \in Thread, Told(t, "genesis"), thread[t].next # END, NEW next, NEW state,
           Resume(t, next, state), DOMAIN state = BootFields, state.error = None => Chartered(state),
           \/ UNCHANGED manifest
           \/ /\ manifest' = [loaded |-> TRUE, policies |-> state.manifest]
              /\ next = END /\ state.complete /\ state.error = None
    PROVE  BootsKept'
<1>1. ThreadsKept /\ Kind(t) = "genesis" /\ ~Decided(t)
  BY DEF BootsKept, Told, Decided
<1>2. /\ ThreadStep
      /\ thread'[t] = [kind |-> Kind(t), next |-> next, state |-> state, told |-> thread[t].told]
      /\ \A u \in Thread : u # t => thread'[u] = thread[u]
  BY <1>1, ResumeExact
<1>3. thread'[t].kind = "genesis" /\ thread'[t].state = state /\ thread'[t].next = next
  BY <1>1, <1>2
<1>4. QED
  BY <1>1, <1>2, <1>3, BootKeeps DEF ThreadStep

LEMMA ReviewKeeps ==
    ASSUME BootsKept, NEW t \in Thread, review_mappings(t)
    PROVE  BootsKept'
<1>1. PICK s : /\ Told(t, "genesis") /\ thread[t].next = "confirm_mappings"
               /\ \E rules : s = [State(t) EXCEPT !.rules = rules]
               /\ Resume(t, "ratify_genesis", s) /\ UNCHANGED manifest
  BY DEF review_mappings, propose_novel_fields, Unless
<1>2. t \in Of("genesis")
  BY <1>1 DEF Of, Told
<1>3. Founded(State(t), s) /\ s.manifest = State(t).manifest /\ s.error = State(t).error
  BY <1>1, <1>2 DEF BootsKept, Founded, BootFields
<1>4. DOMAIN s = BootFields /\ (s.error = None => Chartered(s))
  BY <1>2, <1>3 DEF BootsKept, Founded, Chartered
<1>5. QED
  BY <1>1, <1>4, AnswerKeeps DEF END

LEMMA BindKeeps ==
    ASSUME BootsKept, NEW t \in Thread, Told(t, "genesis"), thread[t].next # END, Bind(t, State(t))
    PROVE  BootsKept'
<1>1. t \in Of("genesis")
  BY DEF Of, Told
<1>2. DOMAIN State(t) = BootFields /\ (State(t).error = None => Chartered(State(t)))
  BY <1>1 DEF BootsKept
<1>3. CASE UNCHANGED manifest /\ \E next : Resume(t, next, State(t))
  BY <1>2, <1>3, AnswerKeeps
<1>4. CASE /\ State(t).error = None /\ load_manifest(State(t).manifest)
           /\ Resume(t, END, [State(t) EXCEPT !.complete = TRUE])
  <2> DEFINE s == [State(t) EXCEPT !.complete = TRUE]
  <2>1. Founded(State(t), s) /\ s.manifest = State(t).manifest /\ s.error = None /\ s.complete
    BY <1>2, <1>4 DEF Founded, BootFields
  <2>2. DOMAIN s = BootFields /\ Chartered(s)
    BY <1>2, <1>4, <2>1 DEF Founded, Chartered
  <2>3. manifest' = [loaded |-> TRUE, policies |-> s.manifest] /\ Resume(t, END, s)
    BY <1>4, <2>1 DEF load_manifest
  <2> HIDE DEF s
  <2>4. QED
    BY <2>1, <2>2, <2>3, AnswerKeeps
<1>5. QED
  BY <1>3, <1>4 DEF Bind

\* Every boot is chartered or has an error, and so is what is in force.
LEMMA BootsAlways == Spec => []BootsKept
<1>1. Init => BootsKept
  BY DEF Init, GraphInit, SettlementInit, BootsKept, ThreadsKept, Of, Kind, Unborn
<1>2. BootsKept /\ [Next]_vars => BootsKept'
  <2>1. SUFFICES ASSUME BootsKept, [Next]_vars PROVE BootsKept'
    OBVIOUS
  <2>2. ThreadStep /\ (GenesisNext \/ (BootsStand /\ (UNCHANGED manifest \/ load_manifest(DefaultManifest))))
    BY <2>1, NextThreadStep DEF BootsKept
  <2>3. CASE BootsStand /\ (UNCHANGED manifest \/ load_manifest(DefaultManifest))
    <3>1. \A t \in Of("genesis")' : t \in Of("genesis") /\ thread'[t] = thread[t]
      BY <2>3 DEF BootsStand, Of, Kind
    <3>2. \A t \in Of("genesis") : t \in Of("genesis")' /\ thread'[t] = thread[t]
      BY <2>3 DEF BootsStand, Of, Kind
    <3>3. CASE UNCHANGED manifest
      BY <2>1, <2>2, <3>1, <3>2, <3>3 DEF BootsKept, ThreadStep, State, Chartered, Regulation
    <3>4. CASE load_manifest(DefaultManifest)
      <4>1. manifest'.loaded = TRUE /\ manifest'.policies = DefaultManifest
        BY <3>4 DEF load_manifest
      <4>2. QED
        BY <2>1, <2>2, <3>1, <4>1 DEF BootsKept, ThreadStep, State, Chartered, Regulation
    <3>5. QED
      BY <2>3, <3>3, <3>4
  <2>4. CASE GenesisNext
    <3>1. ASSUME NEW t \in Thread, execute_genesis_binding(t) \/ execute_solo_genesis(t) PROVE BootsKept'
      BY <2>1, <3>1, BindKeeps DEF execute_genesis_binding, execute_solo_genesis, END
    <3>2. CASE (\E d \in Did : register_founder(d)) \/ start_boot \/ choose_mode
      <4>1. UNCHANGED <<thread, manifest>>
        BY <3>2 DEF register_founder, start_boot, choose_mode, settlementVars
      <4>2. QED
        BY <2>1, <4>1 DEF BootsKept, ThreadsKept, Of, Kind, State, Chartered, Regulation
    <3>3. QED
      BY <2>1, <2>4, <3>1, <3>2, BuildKeeps, ReviewKeeps DEF GenesisNext
  <2>5. QED
    BY <2>2, <2>3, <2>4
<1>3. QED
  BY <1>1, <1>2, PTL DEF Spec

(***************************************************************************)
(* The manifest in force is the file's, or that of a boot reviewed to its  *)
(* end by a full body of founders or a sole owner, and then it holds the   *)
(* regulation of its jurisdiction: for any file, any templates, any        *)
(* bylaws, and any number of founders and boots.                           *)
(***************************************************************************)
THEOREM Regulated == Spec => []RegulatoryFloor
<1>1. BootsKept => RegulatoryFloor
  BY DEF BootsKept, RegulatoryFloor, Chartered, Regulation
<1>2. QED
  BY <1>1, BootsAlways, PTL

-----------------------------------------------------------------------------
(* Deliberations.                                                          *)

Outcome(job, p) == job.graph = "outcome" /\ job.of = p

\* The request that closes a proposal is still under way, or its job is somewhere, unless
\* what should have brought it there failed.
OnItsWay(p) == \E r \in Request : request[r].at \in {"closed", "stating"} /\ request[r].p = p
Queued(p) == \/ Outcome(worker, p) \/ \E i \in 1..Len(queue) : Outcome(queue[i], p)
             \/ (\E r \in results : Outcome(r.job, p)) \/ p \in missed

QueueKept ==
    /\ DOMAIN request = Request /\ DOMAIN proposal = Proposal /\ DOMAIN outcome = Proposal
    /\ Len(queue) \in Nat /\ queue = [i \in 1..Len(queue) |-> queue[i]]
    /\ \A r \in Request :
         /\ request[r].at = "closing" =>
              request[r] = [at |-> "closing", p |-> request[r].p, tally |-> request[r].tally]
         /\ request[r].at = "checked" =>
              request[r] = [at |-> "checked", p |-> request[r].p, m |-> request[r].m, option |-> request[r].option]
    /\ \A p \in Proposal : proposal[p] = [status |-> proposal[p].status, process |-> proposal[p].process]

DraftsOnTheWay ==
    /\ QueueKept
    /\ \A p \in Proposal : proposal[p].status = "closed" /\ outcome[p] = None => OnItsWay(p) \/ Queued(p)

\* A job that is handed over is queued, or its proposal is missed, and no other is lost.
LEMMA EnqueueKeeps ==
    ASSUME Len(queue) \in Nat, queue = [i \in 1..Len(queue) |-> queue[i]], NEW job, enqueue_agent(job),
           UNCHANGED <<worker, results>>
    PROVE  /\ Len(queue') \in Nat /\ queue' = [i \in 1..Len(queue') |-> queue'[i]]
           /\ \A p : Queued(p) \/ Outcome(job, p) => Queued(p)'
<1> DEFINE S == {queue[i] : i \in 1..Len(queue)} \cup {job}
<1>1. queue \in Seq(S) /\ job \in S
  OBVIOUS
<1>2. CASE queue' = Append(queue, job) /\ UNCHANGED missed
  <2>1. /\ queue' \in Seq(S) /\ Len(queue') = Len(queue) + 1 /\ queue'[Len(queue) + 1] = job
        /\ \A i \in 1..Len(queue) : queue'[i] = queue[i] /\ i \in 1..(Len(queue) + 1)
        /\ Len(queue) + 1 \in 1..(Len(queue) + 1)
    <3> HIDE DEF S
    <3>1. QED
      BY <1>1, <1>2
  <2>2. Len(queue') \in Nat /\ queue' = [i \in 1..Len(queue') |-> queue'[i]]
    BY <2>1
  <2>3. ASSUME NEW p, Queued(p) \/ Outcome(job, p) PROVE Queued(p)'
    <3>1. CASE Outcome(job, p)
      BY <2>1, <3>1 DEF Queued, Outcome
    <3>2. CASE \E i \in 1..Len(queue) : Outcome(queue[i], p)
      BY <2>1, <3>2 DEF Queued, Outcome
    <3>3. CASE Outcome(worker, p) \/ (\E r \in results : Outcome(r.job, p)) \/ p \in missed
      BY <1>2, <3>3 DEF Queued, Outcome
    <3>4. QED
      BY <2>3, <3>1, <3>2, <3>3 DEF Queued
  <2>4. QED
    BY <2>2, <2>3
<1>3. CASE GivenUp(job) /\ UNCHANGED queue
  <2>1. \A p : p \in missed \/ Outcome(job, p) => p \in missed'
    BY <1>3 DEF GivenUp, Outcome
  <2>2. ASSUME NEW p, Queued(p) \/ Outcome(job, p) PROVE Queued(p)'
    BY <1>3, <2>1, <2>2 DEF Queued, Outcome
  <2>3. QED
    BY <1>3, <2>2
<1>4. QED
  BY <1>2, <1>3 DEF enqueue_agent

\* The worker takes the oldest job.
LEMMA WorkBeginKeeps ==
    ASSUME QueueKept, work_begin
    PROVE  /\ Len(queue') \in Nat /\ queue' = [i \in 1..Len(queue') |-> queue'[i]]
           /\ \A p : Queued(p) => Queued(p)'
<1> DEFINE S == {queue[i] : i \in 1..Len(queue)}
<1>1. queue \in Seq(S) /\ queue # <<>> /\ Len(queue) \in Nat
  BY DEF QueueKept, work_begin
<1>2. worker = NoJob /\ worker' = Head(queue) /\ queue' = Tail(queue) /\ UNCHANGED <<results, missed>>
  BY DEF work_begin
<1>3. /\ queue' \in Seq(S) /\ Len(queue') = Len(queue) - 1 /\ Len(queue) >= 1 /\ worker' = queue[1]
      /\ \A i \in 1..(Len(queue) - 1) : queue'[i] = queue[i + 1]
  <2> HIDE DEF S
  <2>1. QED
    BY <1>1, <1>2
<1>4. ASSUME NEW p, Queued(p) PROVE Queued(p)'
  <2>1. ~Outcome(worker, p)
    BY <1>2 DEF Outcome, NoJob, None
  <2>2. CASE (\E r \in results : Outcome(r.job, p)) \/ p \in missed
    BY <1>2, <2>2 DEF Queued, Outcome
  <2>3. ASSUME NEW i \in 1..Len(queue), Outcome(queue[i], p) PROVE Queued(p)'
    <3>1. CASE i = 1
      BY <1>3, <2>3, <3>1 DEF Queued, Outcome
    <3>2. CASE i # 1
      <4>1. i - 1 \in 1..(Len(queue) - 1) /\ queue'[i - 1] = queue[i]
        BY <1>1, <1>3, <3>2
      <4>2. QED
        BY <1>3, <2>3, <4>1 DEF Queued, Outcome
    <3>3. QED
      BY <3>1, <3>2
  <2>4. QED
    BY <1>4, <2>1, <2>2, <2>3 DEF Queued
<1>5. QED
  BY <1>1, <1>3, <1>4

\* A request that is not about to draft an outcome moves on, or ends.
LEMMA RequestKeeps ==
    ASSUME DraftsOnTheWay, NEW r \in Request, NEW req, request' = [request EXCEPT ![r] = req],
           request[r].at \notin {"closed", "stating"},
           req.at = "closing" => req = [at |-> "closing", p |-> req.p, tally |-> req.tally],
           req.at = "checked" => req = [at |-> "checked", p |-> req.p, m |-> req.m, option |-> req.option],
           UNCHANGED <<proposal, outcome, queue, worker, results, missed>>
    PROVE  DraftsOnTheWay'
<1>1. /\ DOMAIN request' = Request /\ request'[r] = req
      /\ \A r2 \in Request : r2 # r => request'[r2] = request[r2]
  BY DEF DraftsOnTheWay, QueueKept
<1>2. QueueKept'
  BY <1>1 DEF DraftsOnTheWay, QueueKept
<1>3. ASSUME NEW p, OnItsWay(p) PROVE OnItsWay(p)'
  BY <1>1, <1>3 DEF OnItsWay
<1>4. ASSUME NEW p, Queued(p) PROVE Queued(p)'
  BY <1>4 DEF Queued, Outcome
<1>5. QED
  BY <1>2, <1>3, <1>4 DEF DraftsOnTheWay

LEMMA CastStanceKeeps ==
    ASSUME DraftsOnTheWay, NEW r \in Request, NEW p, NEW m, cast_stance(r, p, m)
    PROVE  DraftsOnTheWay'
<1>1. PICK option \in StanceOption :
        request' = [request EXCEPT ![r] = [at |-> "checked", p |-> p, m |-> m, option |-> option]]
  BY DEF cast_stance
<1>2. request[r].at \notin {"closed", "stating"} /\ UNCHANGED <<proposal, outcome, queue, worker, results, missed>>
  BY DEF cast_stance, Idle
<1>3. QED
  BY <1>1, <1>2, RequestKeeps

LEMMA UpsertStanceKeeps ==
    ASSUME DraftsOnTheWay, NEW r \in Request, upsert_stance(r)
    PROVE  DraftsOnTheWay'
<1> DEFINE req == [request[r] EXCEPT !.at = "recorded"]
<1>1. request' = [request EXCEPT ![r] = req] /\ request[r].at = "checked"
      /\ UNCHANGED <<proposal, outcome, queue, worker, results, missed>>
  BY DEF upsert_stance
<1>2. request[r] = [at |-> "checked", p |-> request[r].p, m |-> request[r].m, option |-> request[r].option]
  BY <1>1 DEF DraftsOnTheWay, QueueKept
<1>3. req.at = "recorded"
  BY <1>2
<1> HIDE DEF req
<1>4. QED
  BY <1>1, <1>3, RequestKeeps

LEMMA VoteGraphKeeps ==
    ASSUME DraftsOnTheWay, NEW r \in Request, vote_graph(r)
    PROVE  DraftsOnTheWay'
<1>1. request[r].at = "recorded" /\ UNCHANGED <<proposal, outcome, queue, worker, results, missed>>
  BY DEF vote_graph
<1>2. \/ request' = [request EXCEPT ![r] = [at |-> "closing", p |-> request[r].p, tally |-> stance[request[r].p]]]
      \/ request' = [request EXCEPT ![r] = Idle]
  BY DEF vote_graph
<1>3. Idle.at = "idle"
  BY DEF Idle
<1>4. QED
  BY <1>1, <1>2, <1>3, RequestKeeps

LEMMA ToggleKeeps ==
    ASSUME DraftsOnTheWay, NEW r \in Request,
           toggle_reaction_write(r) \/ \E m \in Voter : toggle_reaction(r, m)
    PROVE  DraftsOnTheWay'
<1>1. CASE toggle_reaction_write(r)
  <2>1. Idle.at = "idle"
    BY DEF Idle
  <2>2. QED
    BY <1>1, <2>1, RequestKeeps DEF toggle_reaction_write
<1>2. ASSUME NEW m \in Voter, toggle_reaction(r, m) PROVE DraftsOnTheWay'
  <2>1. /\ request' = [request EXCEPT ![r] = [at |-> "toggling", key |-> <<"reaction", m>>,
                                              existing |-> <<"reaction", m>> \in rows]]
        /\ UNCHANGED <<proposal, outcome, queue, worker, results, missed>>
    BY <1>2 DEF toggle_reaction
  <2>2. request[r].at \notin {"closed", "stating"}
    BY <1>2 DEF toggle_reaction, Idle
  <2>3. QED
    BY <2>1, <2>2, RequestKeeps
<1>3. QED
  BY <1>1, <1>2

\* A proposal closes while its request goes on to draft, or to state, its outcome.
LEMMA ClosingKeeps ==
    ASSUME DraftsOnTheWay, NEW r \in Request, NEW p, NEW req,
           request[r].at \notin {"closed", "stating"}, req.at \in {"closed", "stating"}, req.p = p,
           request' = [request EXCEPT ![r] = req], proposal' = [proposal EXCEPT ![p].status = "closed"],
           UNCHANGED <<outcome, queue, worker, results, missed>>
    PROVE  DraftsOnTheWay'
<1>1. /\ DOMAIN request' = Request /\ request'[r] = req
      /\ \A r2 \in Request : r2 # r => request'[r2] = request[r2]
  BY DEF DraftsOnTheWay, QueueKept
<1>2. /\ DOMAIN proposal' = Proposal
      /\ \A q \in Proposal : q # p => proposal'[q] = proposal[q]
      /\ p \in Proposal => proposal'[p] = [proposal[p] EXCEPT !.status = "closed"]
  BY DEF DraftsOnTheWay, QueueKept
<1>3. \A q \in Proposal : proposal'[q] = [status |-> proposal'[q].status, process |-> proposal'[q].process]
  BY <1>2 DEF DraftsOnTheWay, QueueKept
<1>4. QueueKept'
  BY <1>1, <1>2, <1>3 DEF DraftsOnTheWay, QueueKept
<1>5. OnItsWay(p)' /\ \A q : OnItsWay(q) => OnItsWay(q)'
  BY <1>1 DEF OnItsWay
<1>6. ASSUME NEW q, Queued(q) PROVE Queued(q)'
  BY <1>6 DEF Queued, Outcome
<1>7. QED
  BY <1>2, <1>4, <1>5, <1>6 DEF DraftsOnTheWay

LEMMA CloseKeeps ==
    ASSUME DraftsOnTheWay, NEW r \in Request, close_proposal(r)
    PROVE  DraftsOnTheWay'
<1> DEFINE req == [request[r] EXCEPT !.at = "closed"]
<1>1. /\ request' = [request EXCEPT ![r] = req] /\ request[r].at = "closing"
      /\ proposal' = [proposal EXCEPT ![request[r].p].status = "closed"]
      /\ UNCHANGED <<outcome, queue, worker, results, missed>>
  BY DEF close_proposal
<1>2. request[r] = [at |-> "closing", p |-> request[r].p, tally |-> request[r].tally]
  BY <1>1 DEF DraftsOnTheWay, QueueKept
<1>3. req.at = "closed" /\ req.p = request[r].p
  BY <1>2
<1> HIDE DEF req
<1>4. QED
  BY <1>1, <1>3, ClosingKeeps

LEMMA StateKeeps ==
    ASSUME DraftsOnTheWay, NEW r \in Request, NEW p, state_outcome(r, p)
    PROVE  DraftsOnTheWay'
<1>1. /\ request' = [request EXCEPT ![r] = [at |-> "stating", p |-> p]] /\ request[r].at = "idle"
      /\ proposal' = [proposal EXCEPT ![p].status = "closed"]
      /\ UNCHANGED <<outcome, queue, worker, results, missed>>
  BY DEF state_outcome, Idle
<1>2. QED
  BY <1>1, ClosingKeeps

\* A request is done once its outcome is queued, or on record.
LEMMA EnqueueOutcomeKeeps ==
    ASSUME DraftsOnTheWay, NEW r \in Request, enqueue_outcome(r)
    PROVE  DraftsOnTheWay'
<1> DEFINE p == request[r].p
           job == [graph |-> "outcome", of |-> p, process |-> proposal[p].process, tally |-> request[r].tally]
<1>1. enqueue_agent(job) /\ request' = [request EXCEPT ![r] = Idle] /\ UNCHANGED <<proposal, outcome, worker, results>>
  BY DEF enqueue_outcome
<1>2. Outcome(job, p)
  BY DEF Outcome
<1>3. Len(queue) \in Nat /\ queue = [i \in 1..Len(queue) |-> queue[i]]
  BY DEF DraftsOnTheWay, QueueKept
<1> HIDE DEF job
<1>4. /\ Len(queue') \in Nat /\ queue' = [i \in 1..Len(queue') |-> queue'[i]]
      /\ \A q : Queued(q) \/ Outcome(job, q) => Queued(q)'
  BY <1>1, <1>3, EnqueueKeeps
<1>5. /\ DOMAIN request' = Request /\ request'[r].at = "idle"
      /\ \A r2 \in Request : r2 # r => request'[r2] = request[r2]
  BY <1>1 DEF DraftsOnTheWay, QueueKept, Idle
<1>6. QueueKept'
  BY <1>1, <1>4, <1>5 DEF DraftsOnTheWay, QueueKept
<1>7. ASSUME NEW q, OnItsWay(q) PROVE OnItsWay(q)' \/ Queued(q)'
  BY <1>2, <1>4, <1>5, <1>7 DEF OnItsWay
<1>8. QED
  BY <1>1, <1>4, <1>6, <1>7 DEF DraftsOnTheWay

LEMMA InsertKeeps ==
    ASSUME DraftsOnTheWay, NEW r \in Request, insert_outcome(r)
    PROVE  DraftsOnTheWay'
<1> DEFINE p == request[r].p
           task == [graph |-> "task", of |-> p]
<1>1. /\ request[r].at = "stating" /\ request' = [request EXCEPT ![r] = Idle] /\ UNCHANGED <<proposal, worker, results>>
      /\ \/ outcome[p] # None /\ UNCHANGED <<outcome, queue, missed>>
         \/ /\ outcome' = [outcome EXCEPT ![p] = "stated"]
            /\ enqueue_agent(task) \/ UNCHANGED <<queue, missed>>
  BY DEF insert_outcome
<1>2. /\ Len(queue) \in Nat /\ queue = [i \in 1..Len(queue) |-> queue[i]]
      /\ DOMAIN outcome = Proposal
  BY DEF DraftsOnTheWay, QueueKept
<1> HIDE DEF task
<1>3. /\ Len(queue') \in Nat /\ queue' = [i \in 1..Len(queue') |-> queue'[i]]
      /\ \A q : Queued(q) => Queued(q)'
  <2>1. CASE enqueue_agent(task)
    BY <1>1, <1>2, <2>1, EnqueueKeeps
  <2>2. CASE UNCHANGED <<queue, missed>>
    BY <1>1, <1>2, <2>2 DEF Queued, Outcome
  <2>3. QED
    BY <1>1, <2>1, <2>2
<1>4. /\ DOMAIN outcome' = Proposal
      /\ p \in Proposal => outcome'[p] # None
      /\ \A q \in Proposal : outcome[q] # None => outcome'[q] # None
  BY <1>1, <1>2 DEF None
<1>5. /\ DOMAIN request' = Request /\ request'[r].at = "idle"
      /\ \A r2 \in Request : r2 # r => request'[r2] = request[r2]
  BY <1>1 DEF DraftsOnTheWay, QueueKept, Idle
<1>6. QueueKept'
  BY <1>1, <1>3, <1>4, <1>5 DEF DraftsOnTheWay, QueueKept
<1>7. ASSUME NEW q \in Proposal, OnItsWay(q) PROVE OnItsWay(q)' \/ outcome'[q] # None
  BY <1>4, <1>5, <1>7 DEF OnItsWay
<1>8. QED
  BY <1>1, <1>3, <1>4, <1>6, <1>7 DEF DraftsOnTheWay

\* The steps that touch no request: a proposal or a thread is created, the worker runs.
LEMMA QueueStepKeeps ==
    ASSUME DraftsOnTheWay, UNCHANGED <<request, outcome>>, DOMAIN proposal' = Proposal,
           \A p \in Proposal :
             /\ proposal'[p] = [status |-> proposal'[p].status, process |-> proposal'[p].process]
             /\ proposal'[p].status = "closed" => proposal[p].status = "closed",
           Len(queue') \in Nat, queue' = [i \in 1..Len(queue') |-> queue'[i]],
           \A p : Queued(p) => Queued(p)'
    PROVE  DraftsOnTheWay'
<1>1. \A p : OnItsWay(p)' <=> OnItsWay(p)
  BY DEF OnItsWay
<1>2. QED
  BY <1>1 DEF DraftsOnTheWay, QueueKept

LEMMA CreateThreadKeeps ==
    ASSUME DraftsOnTheWay, create_thread
    PROVE  DraftsOnTheWay'
<1>1. QueueKept
  BY DEF DraftsOnTheWay
<1>2. PICK job : enqueue_agent(job) /\ UNCHANGED <<request, outcome, proposal, worker, results>>
  BY DEF create_thread
<1>3. /\ Len(queue') \in Nat /\ queue' = [i \in 1..Len(queue') |-> queue'[i]]
      /\ \A q : Queued(q) => Queued(q)'
  BY <1>1, <1>2, EnqueueKeeps DEF QueueKept
<1>4. QED
  BY <1>1, <1>2, <1>3, QueueStepKeeps DEF QueueKept

LEMMA CreateProposalKeeps ==
    ASSUME DraftsOnTheWay, NEW p \in Proposal, create_proposal(p)
    PROVE  DraftsOnTheWay'
<1>1. QueueKept
  BY DEF DraftsOnTheWay
<1>2. PICK job : enqueue_agent(job) /\ UNCHANGED <<request, outcome, worker, results>>
  BY DEF create_proposal
<1>3. /\ Len(queue') \in Nat /\ queue' = [i \in 1..Len(queue') |-> queue'[i]]
      /\ \A q : Queued(q) => Queued(q)'
  BY <1>1, <1>2, EnqueueKeeps DEF QueueKept
<1>4. PICK way \in Processes : proposal' = [proposal EXCEPT ![p] = [status |-> "open", process |-> way]]
  BY DEF create_proposal
<1>5. /\ DOMAIN proposal' = Proposal /\ proposal'[p] = [status |-> "open", process |-> way]
      /\ \A q \in Proposal : q # p => proposal'[q] = proposal[q]
  BY <1>1, <1>4 DEF QueueKept
<1>6. \A q \in Proposal :
        /\ proposal'[q] = [status |-> proposal'[q].status, process |-> proposal'[q].process]
        /\ proposal'[q].status = "closed" => proposal[q].status = "closed"
  BY <1>1, <1>5 DEF QueueKept
<1>7. QED
  BY <1>2, <1>3, <1>5, <1>6, QueueStepKeeps

LEMMA WorkerKeeps ==
    ASSUME DraftsOnTheWay, work_begin \/ work_end
    PROVE  DraftsOnTheWay'
<1>0. QueueKept
  BY DEF DraftsOnTheWay
<1>1. CASE work_begin
  <2>1. UNCHANGED <<request, outcome, proposal>>
    BY <1>1 DEF work_begin
  <2>2. /\ Len(queue') \in Nat /\ queue' = [i \in 1..Len(queue') |-> queue'[i]]
        /\ \A q : Queued(q) => Queued(q)'
    BY <1>0, <1>1, WorkBeginKeeps
  <2>3. QED
    BY <1>0, <2>1, <2>2, QueueStepKeeps DEF QueueKept
<1>2. CASE work_end
  <2>1. /\ worker.graph = "outcome" => \E state : results' = results \cup {[job |-> worker, state |-> state]}
        /\ worker.graph # "outcome" => UNCHANGED results
    BY <1>2 DEF work_end
  <2>2. UNCHANGED <<request, outcome, proposal, queue, missed>>
    BY <1>2 DEF work_end
  <2>3. ASSUME NEW q, Queued(q) PROVE Queued(q)'
    <3>1. CASE Outcome(worker, q)
      <4>1. PICK state : [job |-> worker, state |-> state] \in results'
        BY <2>1, <3>1 DEF Outcome
      <4>2. QED
        BY <3>1, <4>1 DEF Queued, Outcome
    <3>2. CASE ~Outcome(worker, q)
      BY <2>1, <2>2, <2>3, <3>2 DEF Queued, Outcome
    <3>3. QED
      BY <3>1, <3>2
  <2>4. QED
    BY <1>0, <2>2, <2>3, QueueStepKeeps DEF QueueKept
<1>3. QED
  BY <1>1, <1>2

\* The other tables.
LEMMA AsideKeeps ==
    ASSUME DraftsOnTheWay, UNCHANGED <<proposal, outcome, request, queue, worker, results, missed>>
    PROVE  DraftsOnTheWay'
<1>1. \A p : (OnItsWay(p)' <=> OnItsWay(p)) /\ (Queued(p)' <=> Queued(p))
  BY DEF OnItsWay, Queued, Outcome
<1>2. QED
  BY <1>1 DEF DraftsOnTheWay, QueueKept

\* A statement that fails takes a proposal off its way only by stating its outcome, or on
\* record.
LEMMA FailsKeeps ==
    ASSUME DraftsOnTheWay, NEW r \in Request, request_fails(r)
    PROVE  DraftsOnTheWay'
<1> DEFINE p == request[r].p
<1>1. /\ DOMAIN request' = Request /\ request'[r].at = "idle"
      /\ \A r2 \in Request : r2 # r => request'[r2] = request[r2]
  BY DEF request_fails, DraftsOnTheWay, QueueKept, Idle
<1>2. request[r].at # "closed" /\ UNCHANGED <<queue, worker, results>>
  BY DEF request_fails
<1>3. /\ UNCHANGED proposal \/ (proposal' = [proposal EXCEPT ![p].status = "closed"] /\ p \in missed')
      /\ UNCHANGED outcome \/ outcome' = [outcome EXCEPT ![p] = "stated"]
      /\ missed \subseteq missed'
      /\ request[r].at = "stating" =>
           outcome' = [outcome EXCEPT ![p] = "stated"] \/ (p \in Proposal => p \in missed')
  BY DEF request_fails, CarriedOut, NotCarriedOut
<1>4. /\ DOMAIN proposal = Proposal /\ DOMAIN outcome = Proposal
      /\ \A q \in Proposal : proposal[q] = [status |-> proposal[q].status, process |-> proposal[q].process]
  BY DEF DraftsOnTheWay, QueueKept
<1>5. /\ DOMAIN proposal' = Proposal
      /\ \A q \in Proposal :
           /\ proposal'[q] = [status |-> proposal'[q].status, process |-> proposal'[q].process]
           /\ proposal'[q].status = "closed" => proposal[q].status = "closed" \/ q \in missed'
  BY <1>3, <1>4
<1>6. /\ DOMAIN outcome' = Proposal
      /\ \A q \in Proposal : outcome[q] # None => outcome'[q] # None
      /\ request[r].at = "stating" /\ p \in Proposal => outcome'[p] # None \/ p \in missed'
  BY <1>3, <1>4 DEF None
<1>7. QueueKept'
  BY <1>1, <1>2, <1>5, <1>6 DEF DraftsOnTheWay, QueueKept
<1>8. \A q : Queued(q) => Queued(q)'
  BY <1>2, <1>3 DEF Queued, Outcome
<1>9. \A q : q \in missed' => Queued(q)'
  BY DEF Queued
<1>10. ASSUME NEW q \in Proposal, OnItsWay(q) PROVE OnItsWay(q)' \/ outcome'[q] # None \/ q \in missed'
  BY <1>1, <1>2, <1>6, <1>10 DEF OnItsWay
<1>11. QED
  BY <1>5, <1>6, <1>7, <1>8, <1>9, <1>10 DEF DraftsOnTheWay

\* After a restart what was on its way is missed.
LEMMA RestartKeeps ==
    ASSUME DraftsOnTheWay, restart
    PROVE  DraftsOnTheWay'
<1>1. /\ request' = [r \in Request |-> Idle] /\ queue' = <<>> /\ UNCHANGED <<proposal, outcome>>
      /\ \A p \in Proposal : proposal[p].status = "closed" /\ outcome[p] = None => p \in missed'
  BY DEF restart
<1>2. QueueKept'
  BY <1>1 DEF DraftsOnTheWay, QueueKept, Idle
<1>3. \A q : q \in missed' => Queued(q)'
  BY DEF Queued
<1>4. QED
  BY <1>1, <1>2, <1>3 DEF DraftsOnTheWay

LEMMA DeliberationKeeps ==
    ASSUME DraftsOnTheWay, DeliberationNext
    PROVE  DraftsOnTheWay'
<1>1. CASE work_begin \/ work_end
  BY <1>1, WorkerKeeps
<1>2. CASE create_thread
  BY <1>2, CreateThreadKeeps
<1>3. ASSUME NEW p \in Proposal, create_proposal(p) PROVE DraftsOnTheWay'
  BY <1>3, CreateProposalKeeps
<1>4. CASE \/ \E p \in Proposal : create_task(p) \/ update_task(p)
           \/ \E m \in Voter : add_member(m) \/ remove_member(m)
  BY <1>4, AsideKeeps DEF create_task, update_task, add_member, remove_member
<1>5. ASSUME NEW r \in Request,
             upsert_stance(r) \/ vote_graph(r) \/ close_proposal(r) \/ enqueue_outcome(r) \/ insert_outcome(r)
      PROVE  DraftsOnTheWay'
  BY <1>5, UpsertStanceKeeps, VoteGraphKeeps, CloseKeeps, EnqueueOutcomeKeeps, InsertKeeps
<1>6. ASSUME NEW r \in Request, toggle_reaction_write(r) \/ \E m \in Voter : toggle_reaction(r, m)
      PROVE  DraftsOnTheWay'
  BY <1>6, ToggleKeeps
<1>7. ASSUME NEW r \in Request, NEW p \in Proposal,
             state_outcome(r, p) \/ \E m \in Voter : cast_stance(r, p, m)
      PROVE  DraftsOnTheWay'
  BY <1>7, StateKeeps, CastStanceKeeps
<1>8. ASSUME NEW r \in Request, request_fails(r) PROVE DraftsOnTheWay'
  BY <1>8, FailsKeeps
<1>9. CASE restart
  BY <1>9, RestartKeeps
<1>10. QED
  BY <1>1, <1>2, <1>3, <1>4, <1>5, <1>6, <1>7, <1>8, <1>9 DEF DeliberationNext

\* What a job is for, in the words of the property.
LEMMA DraftedWhenDone ==
    ASSUME DraftsOnTheWay
    PROVE  ClosedIsDrafted
<1>1. ASSUME NEW p \in Proposal, Queued(p)
      PROVE  \/ p \in missed
             \/ \E job \in {worker} \cup {queue[i] : i \in DOMAIN queue} \cup {r.job : r \in results} :
                  job.graph = "outcome" /\ job.of = p
  <2>1. DOMAIN queue = 1..Len(queue)
    BY DEF DraftsOnTheWay, QueueKept
  <2>2. QED
    BY <1>1, <2>1 DEF Queued, Outcome
<1>2. QED
  BY <1>1 DEF DraftsOnTheWay, OnItsWay, ClosedIsDrafted

\* So every draft is somewhere.
LEMMA DraftsAlways == Spec => []DraftsOnTheWay
<1>1. Init => DraftsOnTheWay
  BY DEF Init, DeliberationInit, DraftsOnTheWay, QueueKept, Idle, None
<1>2. DraftsOnTheWay /\ [Next]_vars => DraftsOnTheWay'
  <2> SUFFICES ASSUME DraftsOnTheWay, [Next]_vars PROVE DraftsOnTheWay'
    OBVIOUS
  <2>1. CASE DeliberationNext
    BY <2>1, DeliberationKeeps
  <2>2. CASE UNCHANGED deliberationVars
    BY <2>2, AsideKeeps DEF deliberationVars
  <2>3. QED
    BY <2>1, <2>2 DEF Next, vars
<1>3. QED
  BY <1>1, <1>2, PTL DEF Spec

\* Of a closed proposal the request that closed it is still under way, the draft is in the
\* queue, running or ended, or the outcome was stated, whatever the interleaving: the ways to
\* miss it are a full queue, a statement that fails, and a restart (routers/deliberation.py,
\* llm_queue_manager.py).
THEOREM Drafting == Spec => []ClosedIsDrafted
BY DraftsAlways, DraftedWhenDone, PTL

-----------------------------------------------------------------------------
(***************************************************************************)
(* The resolutions that the deliberations implement.                       *)
(***************************************************************************)
PhaseNow == [p \in Proposal |-> proposal[p].status]
RuleNow == [p \in Proposal |-> proposal[p].process]
DraftsNow == {job \in jobs : job.graph = "outcome"}
StatedNow == {p \in Proposal : outcome[p] # None}

\* The stages of a request that has found its proposal.
Found == {"checked", "recorded", "closing", "closed", "stating"}

(***************************************************************************)
(* A request decides on the status it read awaits ago.  What still holds   *)
(* when it writes: its proposal exists, and once closed it is closed.      *)
(***************************************************************************)
RequestFits(req) ==
    /\ req.at \in Found => req.p \in Proposal /\ proposal[req.p].status # None
    /\ req.at \in {"closed", "stating"} => proposal[req.p].status = "closed"

RequestsFit ==
    /\ \A p \in Proposal : proposal[p].status \in {None, "open", "closed"}
    /\ \A r \in Request : RequestFits(request[r])

\* No step takes a proposal back.
Forward ==
    \A p \in Proposal :
      /\ proposal'[p].status \in {None, "open", "closed"}
      /\ proposal[p].status # None => proposal'[p].status # None
      /\ proposal[p].status = "closed" => proposal'[p].status = "closed"

LEMMA FitsForward ==
    ASSUME NEW req, RequestFits(req), Forward
    PROVE  RequestFits(req)'
BY DEF RequestFits, Forward, Found

\* One request moves on, or none does.
LEMMA OneRequestFits ==
    ASSUME QueueKept, RequestsFit, Forward, NEW r \in Request, NEW req,
           request' = [request EXCEPT ![r] = req], RequestFits(req)'
    PROVE  RequestsFit'
<1>1. /\ request'[r] = req
      /\ \A s \in Request : s # r => request'[s] = request[s]
  BY DEF QueueKept
<1>2. \A s \in Request : RequestFits(request[s])'
  <2>1. ASSUME NEW s \in Request, s # r
        PROVE  RequestFits(request[s])'
    <3>1. PICK q : q = request[s]
      OBVIOUS
    <3>2. RequestFits(q)'
      BY <3>1, FitsForward DEF RequestsFit
    <3>3. request'[s] = q
      BY <1>1, <2>1, <3>1
    <3>4. QED
      BY <3>2, <3>3 DEF RequestFits
  <2>2. RequestFits(request[r])'
    BY <1>1 DEF RequestFits
  <2>3. QED
    BY <2>1, <2>2
<1>3. QED
  BY <1>2 DEF RequestsFit, Forward

LEMMA NoRequestMoves ==
    ASSUME RequestsFit, Forward, UNCHANGED request
    PROVE  RequestsFit'
BY DEF RequestsFit, Forward, RequestFits, Found

LEMMA IdleFits == RequestFits(Idle)'
BY DEF RequestFits, Idle, Found

\* What a job that is handed over, taken or ended leaves of the drafts.
LEMMA DraftsHandedOver ==
    ASSUME QueueKept, NEW job, enqueue_agent(job), UNCHANGED <<worker, results>>
    PROVE  \/ DraftsNow' = DraftsNow \cup {j \in {job} : j.graph = "outcome"}
           \/ DraftsNow' = DraftsNow
<1> DEFINE S == {queue[i] : i \in 1..Len(queue)} \cup {job}
<1>1. queue \in Seq(S) /\ job \in S /\ DOMAIN queue = 1..Len(queue) /\ Len(queue) \in Nat
  BY DEF QueueKept
<1>2. CASE queue' = Append(queue, job)
  <2>1. /\ DOMAIN queue' = 1..(Len(queue) + 1) /\ queue'[Len(queue) + 1] = job
        /\ \A i \in 1..Len(queue) : queue'[i] = queue[i]
    <3> HIDE DEF S
    <3>1. QED
      BY <1>1, <1>2
  <2>2. {queue'[i] : i \in DOMAIN queue'} = {queue[i] : i \in DOMAIN queue} \cup {job}
    BY <1>1, <2>1
  <2>3. jobs' = jobs \cup {job}
    BY <2>2 DEF jobs
  <2>4. QED
    BY <2>3 DEF DraftsNow
<1>3. CASE UNCHANGED queue
  BY <1>3 DEF DraftsNow, jobs
<1>4. QED
  BY <1>2, <1>3 DEF enqueue_agent

LEMMA DraftsTaken ==
    ASSUME QueueKept, work_begin
    PROVE  DraftsNow' = DraftsNow
<1> DEFINE S == {queue[i] : i \in 1..Len(queue)}
<1>1. queue \in Seq(S) /\ queue # <<>> /\ DOMAIN queue = 1..Len(queue) /\ Len(queue) \in Nat
  BY DEF QueueKept, work_begin
<1>2. worker = NoJob /\ worker' = Head(queue) /\ queue' = Tail(queue) /\ UNCHANGED results
  BY DEF work_begin
<1>3. /\ Len(queue) >= 1 /\ worker' = queue[1] /\ DOMAIN queue' = 1..(Len(queue) - 1)
      /\ \A i \in 1..(Len(queue) - 1) : queue'[i] = queue[i + 1]
  <2> HIDE DEF S
  <2>1. QED
    BY <1>1, <1>2
<1>4. {queue[i] : i \in DOMAIN queue} = {worker'} \cup {queue'[i] : i \in DOMAIN queue'}
  <2>1. ASSUME NEW i \in DOMAIN queue
        PROVE  queue[i] \in {worker'} \cup {queue'[k] : k \in DOMAIN queue'}
    <3>1. CASE i = 1
      BY <1>3, <3>1
    <3>2. CASE i # 1
      <4>1. i - 1 \in DOMAIN queue' /\ queue'[i - 1] = queue[i]
        BY <1>1, <1>3, <3>2
      <4>2. QED
        BY <4>1
    <3>3. QED
      BY <3>1, <3>2
  <2>2. ASSUME NEW i \in DOMAIN queue'
        PROVE  queue'[i] \in {queue[k] : k \in DOMAIN queue}
    <3>1. i + 1 \in DOMAIN queue /\ queue'[i] = queue[i + 1]
      BY <1>1, <1>3
    <3>2. QED
      BY <3>1
  <2>3. worker' \in {queue[k] : k \in DOMAIN queue}
    BY <1>1, <1>3
  <2>4. QED
    BY <2>1, <2>2, <2>3
<1>5. jobs = jobs' \cup {NoJob}
  BY <1>2, <1>4 DEF jobs
<1>6. NoJob.graph # "outcome"
  BY DEF NoJob, None
<1>7. QED
  BY <1>5, <1>6 DEF DraftsNow

LEMMA DraftsEnded ==
    ASSUME work_end
    PROVE  DraftsNow' = DraftsNow
<1>1. NoJob.graph # "outcome" /\ worker' = NoJob /\ UNCHANGED queue
  BY DEF NoJob, None, work_end
<1>2. CASE worker.graph = "outcome"
  <2>1. PICK state : results' = results \cup {[job |-> worker, state |-> state]}
    BY <1>2 DEF work_end
  <2> DEFINE new == [job |-> worker, state |-> state]
  <2>2. results' = results \cup {new} /\ new.job = worker
    BY <2>1
  <2> HIDE DEF new
  <2>3. {r.job : r \in results'} = {r.job : r \in results} \cup {worker}
    BY <2>2
  <2>4. jobs' = jobs \cup {NoJob}
    BY <1>1, <2>3 DEF jobs
  <2>5. QED
    BY <1>1, <2>4 DEF DraftsNow
<1>3. CASE worker.graph # "outcome"
  <2>1. UNCHANGED results
    BY <1>3 DEF work_end
  <2>2. jobs \cup {NoJob} = jobs' \cup {worker}
    BY <1>1, <2>1 DEF jobs
  <2>3. QED
    BY <1>1, <1>3, <2>2 DEF DraftsNow
<1>4. QED
  BY <1>2, <1>3

\* A step that closes nothing, asks for no draft and states nothing is none of it.
LEMMA ResolutionStutter ==
    ASSUME RequestsFit, UNCHANGED <<proposal, outcome>>, DraftsNow' = DraftsNow
    PROVE  Forward /\ UNCHANGED Promise!vars
<1>1. Forward
  BY DEF RequestsFit, Forward
<1>2. PhaseNow' = PhaseNow /\ RuleNow' = RuleNow /\ StatedNow' = StatedNow
  BY DEF PhaseNow, RuleNow, StatedNow
<1>3. QED
  BY <1>1, <1>2 DEF Promise!vars, DraftsNow, PhaseNow, RuleNow, StatedNow

\* What the drafts, and the rest, do not notice.
LEMMA DraftsStill ==
    ASSUME UNCHANGED <<queue, worker, results>>
    PROVE  DraftsNow' = DraftsNow
BY DEF DraftsNow, jobs

LEMMA DraftsOfOthers ==
    ASSUME QueueKept, NEW job, job.graph # "outcome", enqueue_agent(job), UNCHANGED <<worker, results>>
    PROVE  DraftsNow' = DraftsNow
BY DraftsHandedOver

Resolves == RequestsFit' /\ [Promise!Next]_Promise!vars

\* create_proposal.
LEMMA ResolutionOpens ==
    ASSUME QueueKept, RequestsFit, NEW p \in Proposal, create_proposal(p)
    PROVE  Resolves
<1>1. PICK way \in Processes : proposal' = [proposal EXCEPT ![p] = [status |-> "open", process |-> way]]
  BY DEF create_proposal
<1>2. proposal[p].status = None /\ UNCHANGED <<outcome, request, worker, results>>
  BY DEF create_proposal
<1>3. /\ proposal'[p] = [status |-> "open", process |-> way]
      /\ \A q \in Proposal : q # p => proposal'[q] = proposal[q]
  BY <1>1 DEF QueueKept
<1>4. Forward
  BY <1>2, <1>3 DEF RequestsFit, Forward, None
<1>5. DraftsNow' = DraftsNow
  <2> DEFINE job == [graph |-> "proposal", of |-> p]
  <2>1. job.graph # "outcome" /\ enqueue_agent(job)
    BY DEF create_proposal
  <2> HIDE DEF job
  <2>2. QED
    BY <1>2, <2>1, DraftsOfOthers
<1>6. \A q \in Proposal :
        /\ proposal'[q].status = IF q = p THEN "open" ELSE proposal[q].status
        /\ proposal'[q].process = IF q = p THEN way ELSE proposal[q].process
  BY <1>3
<1>7. PhaseNow[p] = "none" /\ PhaseNow' = [PhaseNow EXCEPT ![p] = "open"]
  BY <1>2, <1>6 DEF PhaseNow, None
<1>8. RuleNow' = [RuleNow EXCEPT ![p] = way] /\ StatedNow' = StatedNow
  BY <1>2, <1>6 DEF RuleNow, StatedNow
<1>9. Promise!Open(p, way)
  BY <1>5, <1>7, <1>8 DEF Promise!Open, PhaseNow, RuleNow, DraftsNow, StatedNow
<1>10. Promise!Next
  BY <1>9 DEF Promise!Next, Processes
<1>11. QED
  BY <1>2, <1>4, <1>10, NoRequestMoves DEF Resolves

\* close_proposal, though it may end in an error, and the first step of state_outcome: the
\* proposal is closed, whoever else closed it already.
LEMMA ResolutionCloses ==
    ASSUME QueueKept, RequestsFit, NEW r \in Request, NEW p \in Proposal, NEW req,
           proposal[p].status # None, req.at \in Found => req.p = p,
           request' = [request EXCEPT ![r] = req],
           proposal' = [proposal EXCEPT ![p].status = "closed"],
           UNCHANGED <<outcome, queue, worker, results>>
    PROVE  Resolves
<1>1. /\ proposal'[p] = [status |-> "closed", process |-> proposal[p].process]
      /\ \A q \in Proposal : q # p => proposal'[q] = proposal[q]
  BY DEF QueueKept
<1>2. Forward
  BY <1>1 DEF RequestsFit, Forward, None
<1>3. RequestFits(req)'
  BY <1>1 DEF RequestFits, None, Found
<1>4. RequestsFit'
  BY <1>2, <1>3, OneRequestFits
<1>5. DraftsNow' = DraftsNow /\ StatedNow' = StatedNow
  BY DraftsStill DEF StatedNow
<1>6. PhaseNow' = [PhaseNow EXCEPT ![p] = "closed"] /\ RuleNow' = RuleNow
  <2>1. \A q \in Proposal :
          /\ proposal'[q].status = IF q = p THEN "closed" ELSE proposal[q].status
          /\ proposal'[q].process = proposal[q].process
    BY <1>1
  <2>2. QED
    BY <2>1 DEF PhaseNow, RuleNow
<1>7. CASE proposal[p].status = "open"
  <2>1. PhaseNow[p] = "open"
    BY <1>7 DEF PhaseNow
  <2>2. Promise!Close(p)
    BY <1>5, <1>6, <2>1 DEF Promise!Close, PhaseNow, RuleNow, DraftsNow, StatedNow
  <2>3. QED
    BY <1>4, <2>2 DEF Promise!Next, Resolves
<1>8. CASE proposal[p].status = "closed"
  <2>1. PhaseNow' = PhaseNow
    BY <1>6, <1>8 DEF PhaseNow
  <2>2. UNCHANGED Promise!vars
    BY <1>5, <1>6, <2>1 DEF Promise!vars, PhaseNow, RuleNow, DraftsNow, StatedNow
  <2>3. QED
    BY <1>4, <2>2 DEF Resolves
<1>9. QED
  BY <1>7, <1>8 DEF RequestsFit

\* enqueue_outcome.
LEMMA ResolutionDrafts ==
    ASSUME QueueKept, RequestsFit, NEW r \in Request, enqueue_outcome(r)
    PROVE  Resolves
<1>1. request[r].at = "closed"
  BY DEF enqueue_outcome
<1>2. RequestFits(request[r])
  BY DEF RequestsFit
<1>3. PICK p \in Proposal : request[r].p = p
  BY <1>1, <1>2 DEF RequestFits, Found
<1>0. PICK job : job = [graph |-> "outcome", of |-> p, process |-> proposal[p].process,
                        tally |-> request[r].tally]
  OBVIOUS
<1>4. proposal[p].status = "closed"
  BY <1>1, <1>2, <1>3 DEF RequestFits
<1>5. enqueue_agent(job) /\ request' = [request EXCEPT ![r] = Idle] /\ UNCHANGED <<proposal, outcome, worker, results>>
  BY <1>0, <1>3 DEF enqueue_outcome
<1>6. job.graph = "outcome" /\ job.of = p /\ job.process = proposal[p].process
  BY <1>0
<1>7. DraftsNow' = DraftsNow \cup {job} \/ DraftsNow' = DraftsNow
  BY <1>5, <1>6, DraftsHandedOver
<1>8. PhaseNow[p] = "closed" /\ RuleNow[p] = job.process
  BY <1>4, <1>6 DEF PhaseNow, RuleNow
<1>9. PhaseNow' = PhaseNow /\ RuleNow' = RuleNow /\ StatedNow' = StatedNow
  BY <1>5 DEF PhaseNow, RuleNow, StatedNow
<1>10. ASSUME DraftsNow' = DraftsNow \cup {job} PROVE Promise!Next
  <2>1. Promise!Draft(p, job)
    BY <1>6, <1>8, <1>9, <1>10 DEF Promise!Draft, PhaseNow, RuleNow, DraftsNow, StatedNow
  <2>2. job \in DraftsNow'
    BY <1>10
  <2>3. QED
    BY <2>1, <2>2 DEF Promise!Next, DraftsNow
<1>11. ASSUME DraftsNow' = DraftsNow PROVE UNCHANGED Promise!vars
  BY <1>5, <1>11, ResolutionStutter
<1>12. Forward
  BY <1>5 DEF RequestsFit, Forward
<1>13. RequestsFit'
  BY <1>5, <1>12, IdleFits, OneRequestFits
<1>14. QED
  BY <1>7, <1>10, <1>11, <1>13 DEF Resolves

\* The end of a request that was to state an outcome: a row is written, or none.
LEMMA StatedResolves ==
    ASSUME QueueKept, RequestsFit, NEW r \in Request, request[r].at = "stating",
           request' = [request EXCEPT ![r] = Idle], UNCHANGED proposal, DraftsNow' = DraftsNow,
           UNCHANGED outcome \/ outcome' = [outcome EXCEPT ![request[r].p] = "stated"]
    PROVE  Resolves
<1>1. RequestFits(request[r])
  BY DEF RequestsFit
<1>2. PICK p \in Proposal : request[r].p = p
  BY <1>1 DEF RequestFits, Found
<1>3. proposal[p].status = "closed"
  BY <1>1, <1>2 DEF RequestFits
<1>4. Forward
  BY DEF RequestsFit, Forward
<1>5. RequestsFit'
  BY <1>4, IdleFits, OneRequestFits
<1>6. PhaseNow' = PhaseNow /\ RuleNow' = RuleNow /\ PhaseNow[p] = "closed"
  BY <1>3 DEF PhaseNow, RuleNow
<1>7. StatedNow' = StatedNow \/ StatedNow' = StatedNow \cup {p}
  BY <1>2 DEF StatedNow, QueueKept, None
<1>8. CASE StatedNow' = StatedNow
  BY <1>5, <1>6, <1>8 DEF Promise!vars, PhaseNow, RuleNow, DraftsNow, StatedNow, Resolves
<1>9. CASE p \notin StatedNow /\ StatedNow' = StatedNow \cup {p}
  <2>1. Promise!State(p)
    BY <1>6, <1>9 DEF Promise!State, PhaseNow, RuleNow, DraftsNow, StatedNow
  <2>2. QED
    BY <1>5, <2>1 DEF Promise!Next, Resolves
<1>10. p \in StatedNow => StatedNow \cup {p} = StatedNow
  OBVIOUS
<1>11. QED
  BY <1>7, <1>8, <1>9, <1>10

\* insert_outcome.
LEMMA ResolutionStates ==
    ASSUME QueueKept, RequestsFit, NEW r \in Request, insert_outcome(r)
    PROVE  Resolves
<1>1. request[r].at = "stating" /\ request' = [request EXCEPT ![r] = Idle]
      /\ UNCHANGED <<proposal, worker, results>>
  BY DEF insert_outcome
<1>2. PICK p : request[r].p = p
  OBVIOUS
<1> DEFINE task == [graph |-> "task", of |-> p]
<1>3. /\ UNCHANGED outcome \/ outcome' = [outcome EXCEPT ![request[r].p] = "stated"]
      /\ enqueue_agent(task) \/ UNCHANGED queue
  BY <1>2 DEF insert_outcome
<1>4. task.graph # "outcome"
  OBVIOUS
<1> HIDE DEF task
<1>5. DraftsNow' = DraftsNow
  BY <1>1, <1>3, <1>4, DraftsOfOthers, DraftsStill
<1>6. QED
  BY <1>1, <1>3, <1>5, StatedResolves

\* A stance on its way: the request finds its proposal, and keeps to it.
LEMMA StanceResolves ==
    ASSUME QueueKept, RequestsFit, NEW r \in Request,
           \/ \E p \in Proposal, m \in Voter : cast_stance(r, p, m)
           \/ upsert_stance(r) \/ vote_graph(r)
    PROVE  Resolves
<1>1. UNCHANGED <<proposal, outcome, queue, worker, results>>
  BY DEF cast_stance, upsert_stance, vote_graph
<1>2. Forward /\ UNCHANGED Promise!vars
  BY <1>1, DraftsStill, ResolutionStutter
<1>3. ASSUME NEW p \in Proposal, NEW m \in Voter, cast_stance(r, p, m)
      PROVE  RequestsFit'
  <2>1. PICK option \in StanceOption :
          request' = [request EXCEPT ![r] = [at |-> "checked", p |-> p, m |-> m, option |-> option]]
    BY <1>3 DEF cast_stance
  <2> DEFINE req == [at |-> "checked", p |-> p, m |-> m, option |-> option]
  <2>2. req.at = "checked" /\ req.p = p /\ proposal'[p].status # None
    BY <1>1, <1>3 DEF cast_stance, None
  <2>3. RequestFits(req)'
    BY <2>2 DEF RequestFits
  <2>4. QED
    BY <1>2, <2>1, <2>3, OneRequestFits
<1>4. CASE upsert_stance(r)
  <2> DEFINE req == [request[r] EXCEPT !.at = "recorded"]
  <2>1. request' = [request EXCEPT ![r] = req] /\ request[r].at = "checked"
    BY <1>4 DEF upsert_stance
  <2>2. request[r] = [at |-> "checked", p |-> request[r].p, m |-> request[r].m, option |-> request[r].option]
    BY <2>1 DEF QueueKept
  <2>3. req.at = "recorded" /\ req.p = request[r].p
    BY <2>2
  <2> HIDE DEF req
  <2>4. request[r].p \in Proposal /\ proposal[request[r].p].status # None
    BY <2>1 DEF RequestsFit, RequestFits, Found
  <2>5. PICK q : q = req
    OBVIOUS
  <2>6. RequestFits(q)'
    BY <1>1, <2>3, <2>4, <2>5 DEF RequestFits
  <2>7. request' = [request EXCEPT ![r] = q]
    BY <2>1, <2>5
  <2>8. RequestsFit'
    BY <1>2, <2>6, <2>7, OneRequestFits
  <2>9. QED
    BY <1>2, <2>8 DEF Resolves
<1>5. CASE vote_graph(r)
  <2> DEFINE p == request[r].p
             closing == [at |-> "closing", p |-> p, tally |-> stance[p]]
  <2>1. /\ request[r].at = "recorded"
        /\ \/ request' = [request EXCEPT ![r] = closing]
           \/ request' = [request EXCEPT ![r] = Idle]
    BY <1>5 DEF vote_graph
  <2>2. p \in Proposal /\ proposal[p].status # None
    BY <2>1 DEF RequestsFit, RequestFits, Found
  <2>3. closing.at = "closing" /\ closing.p = p
    OBVIOUS
  <2> HIDE DEF closing, p
  <2>4. PICK q : q = closing
    OBVIOUS
  <2>5. RequestFits(q)'
    BY <1>1, <2>2, <2>3, <2>4 DEF RequestFits
  <2>6. request' = [request EXCEPT ![r] = q] \/ request' = [request EXCEPT ![r] = Idle]
    BY <2>1, <2>4
  <2>7. request' = [request EXCEPT ![r] = q] => RequestsFit'
    BY <1>2, <2>5, OneRequestFits
  <2>8. request' = [request EXCEPT ![r] = Idle] => RequestsFit'
    BY <1>2, IdleFits, OneRequestFits
  <2>9. QED
    BY <1>2, <2>6, <2>7, <2>8 DEF Resolves
<1>6. QED
  BY <1>2, <1>3, <1>4, <1>5 DEF Resolves

\* The two ways a proposal is closed.
LEMMA ClosingResolves ==
    ASSUME QueueKept, RequestsFit, NEW r \in Request,
           close_proposal(r) \/ \E p \in Proposal : state_outcome(r, p)
    PROVE  Resolves
<1>1. CASE close_proposal(r)
  <2> DEFINE req == [request[r] EXCEPT !.at = "closed"]
  <2>1. /\ request' = [request EXCEPT ![r] = req] /\ request[r].at = "closing"
        /\ proposal' = [proposal EXCEPT ![request[r].p].status = "closed"]
        /\ UNCHANGED <<outcome, queue, worker, results>>
    BY <1>1 DEF close_proposal
  <2>2. request[r] = [at |-> "closing", p |-> request[r].p, tally |-> request[r].tally]
    BY <2>1 DEF QueueKept
  <2>3. req.p = request[r].p
    BY <2>2
  <2> HIDE DEF req
  <2>4. request[r].p \in Proposal /\ proposal[request[r].p].status # None
    BY <2>1 DEF RequestsFit, RequestFits, Found
  <2>5. QED
    BY <2>1, <2>3, <2>4, ResolutionCloses
<1>2. ASSUME NEW p \in Proposal, state_outcome(r, p)
      PROVE  Resolves
  <2> DEFINE req == [at |-> "stating", p |-> p]
  <2>1. /\ request' = [request EXCEPT ![r] = req] /\ proposal[p].status # None
        /\ proposal' = [proposal EXCEPT ![p].status = "closed"]
        /\ UNCHANGED <<outcome, queue, worker, results>>
    BY <1>2 DEF state_outcome
  <2>2. req.p = p
    OBVIOUS
  <2> HIDE DEF req
  <2>3. QED
    BY <2>1, <2>2, ResolutionCloses
<1>3. QED
  BY <1>1, <1>2

\* The worker, threads and the tables beside.
LEMMA AsideResolves ==
    ASSUME QueueKept, RequestsFit, UNCHANGED <<proposal, outcome, request>>,
           \/ work_begin \/ work_end \/ create_thread
           \/ UNCHANGED <<queue, worker, results>>
    PROVE  Resolves
<1>1. CASE create_thread
  <2> DEFINE job == [graph |-> "discussion", of |-> None]
  <2>1. job.graph # "outcome" /\ enqueue_agent(job) /\ UNCHANGED <<worker, results>>
    BY <1>1 DEF create_thread
  <2> HIDE DEF job
  <2>2. DraftsNow' = DraftsNow
    BY <2>1, DraftsOfOthers
  <2>3. QED
    BY <2>2, ResolutionStutter, NoRequestMoves DEF Resolves
<1>2. CASE work_begin \/ work_end \/ UNCHANGED <<queue, worker, results>>
  <2>1. DraftsNow' = DraftsNow
    BY <1>2, DraftsTaken, DraftsEnded, DraftsStill
  <2>2. QED
    BY <2>1, ResolutionStutter, NoRequestMoves DEF Resolves
<1>3. QED
  BY <1>1, <1>2

LEMMA ReactionResolves ==
    ASSUME QueueKept, RequestsFit, NEW r \in Request,
           toggle_reaction_write(r) \/ \E m \in Voter : toggle_reaction(r, m)
    PROVE  Resolves
<1>1. UNCHANGED <<proposal, outcome, queue, worker, results>>
  BY DEF toggle_reaction, toggle_reaction_write
<1>2. Forward /\ UNCHANGED Promise!vars
  BY <1>1, DraftsStill, ResolutionStutter
<1>3. ASSUME NEW req, request' = [request EXCEPT ![r] = req], req.at = "toggling"
      PROVE  RequestsFit'
  <2>1. RequestFits(req)'
    BY <1>3 DEF RequestFits, Found
  <2>2. QED
    BY <1>2, <1>3, <2>1, OneRequestFits
<1>4. CASE toggle_reaction_write(r)
  BY <1>2, <1>4, IdleFits, OneRequestFits DEF toggle_reaction_write, Resolves
<1>5. CASE \E m \in Voter : toggle_reaction(r, m)
  BY <1>2, <1>3, <1>5 DEF toggle_reaction, Resolves
<1>6. QED
  BY <1>4, <1>5

\* A statement that fails.
LEMMA FailureResolves ==
    ASSUME QueueKept, RequestsFit, NEW r \in Request, request_fails(r)
    PROVE  Resolves
<1>1. request' = [request EXCEPT ![r] = Idle] /\ UNCHANGED <<queue, worker, results>>
  BY DEF request_fails
<1>2. DraftsNow' = DraftsNow
  BY <1>1, DraftsStill
<1>3. CASE UNCHANGED <<proposal, outcome>>
  <2>1. Forward /\ UNCHANGED Promise!vars
    BY <1>2, <1>3, ResolutionStutter
  <2>2. QED
    BY <1>1, <2>1, IdleFits, OneRequestFits DEF Resolves
<1>4. CASE /\ request[r].at = "closing" /\ proposal' = [proposal EXCEPT ![request[r].p].status = "closed"]
           /\ UNCHANGED outcome
  <2>1. request[r].p \in Proposal /\ proposal[request[r].p].status # None
    BY <1>4 DEF RequestsFit, RequestFits, Found
  <2>2. PICK p \in Proposal : p = request[r].p
    BY <2>1
  <2>3. Idle.at \notin Found
    BY DEF Idle, Found
  <2>4. QED
    BY <1>1, <1>4, <2>1, <2>2, <2>3, ResolutionCloses
<1>5. CASE /\ request[r].at = "stating" /\ outcome' = [outcome EXCEPT ![request[r].p] = "stated"]
           /\ UNCHANGED proposal
  BY <1>1, <1>2, <1>5, StatedResolves
<1>6. QED
  BY <1>3, <1>4, <1>5 DEF request_fails, CarriedOut, NotCarriedOut

\* A restart: every draft is forgotten, and every request.
LEMMA RestartResolves ==
    ASSUME QueueKept, RequestsFit, restart
    PROVE  Resolves
<1>1. /\ request' = [r \in Request |-> Idle] /\ queue' = <<>> /\ worker' = NoJob /\ results' = {}
      /\ UNCHANGED <<proposal, outcome>>
  BY DEF restart
<1>2. RequestsFit'
  <2>1. \A r \in Request : request'[r] = Idle
    BY <1>1
  <2>2. QED
    BY <1>1, <2>1 DEF RequestsFit, RequestFits, Idle, Found
<1>3. jobs' = {NoJob}
  BY <1>1 DEF jobs
<1>4. DraftsNow' = {}
  BY <1>3 DEF DraftsNow, NoJob, None
<1>5. PhaseNow' = PhaseNow /\ RuleNow' = RuleNow /\ StatedNow' = StatedNow
  BY <1>1 DEF PhaseNow, RuleNow, StatedNow
<1>6. Promise!Forget
  BY <1>4, <1>5 DEF Promise!Forget, PhaseNow, RuleNow, DraftsNow, StatedNow
<1>7. QED
  BY <1>2, <1>6 DEF Promise!Next, Resolves

LEMMA DeliberationResolves ==
    ASSUME QueueKept, RequestsFit, [Next]_vars
    PROVE  Resolves
<1>1. CASE work_begin \/ work_end \/ create_thread
  BY <1>1, AsideResolves DEF work_begin, work_end, create_thread
<1>2. CASE \/ \E p \in Proposal : create_task(p) \/ update_task(p)
           \/ \E m \in Voter : add_member(m) \/ remove_member(m)
  BY <1>2, AsideResolves DEF create_task, update_task, add_member, remove_member
<1>3. CASE UNCHANGED deliberationVars
  BY <1>3, AsideResolves DEF deliberationVars
<1>4. CASE DeliberationNext
  <2>1. ASSUME NEW r \in Request,
               \/ upsert_stance(r) \/ vote_graph(r) \/ close_proposal(r) \/ enqueue_outcome(r)
               \/ insert_outcome(r) \/ toggle_reaction_write(r)
               \/ \E m \in Voter : toggle_reaction(r, m)
               \/ \E p \in Proposal : state_outcome(r, p) \/ \E m \in Voter : cast_stance(r, p, m)
               \/ request_fails(r)
        PROVE  Resolves
    BY <2>1, StanceResolves, ClosingResolves, ResolutionDrafts, ResolutionStates, ReactionResolves,
       FailureResolves
  <2>2. QED
    BY <1>1, <1>2, <1>4, <2>1, ResolutionOpens, RestartResolves DEF DeliberationNext
<1>5. QED
  BY <1>3, <1>4 DEF Next, vars

(***************************************************************************)
(* The deliberations implement Resolution: however the awaits of their     *)
(* requests interleave, whatever statement fails, and through restarts, a  *)
(* closed proposal never reopens, no outcome is drafted or stated of an    *)
(* open one or drafted under another process than its own, one at most is  *)
(* stated, and no draft is forgotten but by a restart, which forgets all   *)
(* (routers/deliberation.py, llm_queue_manager.py).                        *)
(***************************************************************************)
THEOREM ResolutionsKept == Spec => PromiseKept
<1>1. ASSUME Init
      PROVE  RequestsFit /\ Promise!Init
  <2>1. RequestsFit
    BY <1>1 DEF Init, DeliberationInit, RequestsFit, RequestFits, Found, Idle, None
  <2>2. PhaseNow = [p \in Proposal |-> "none"] /\ RuleNow = [p \in Proposal |-> "none"] /\ StatedNow = {}
    BY <1>1 DEF Init, DeliberationInit, PhaseNow, RuleNow, StatedNow, None
  <2>3. jobs = {NoJob}
    BY <1>1 DEF Init, DeliberationInit, jobs
  <2>4. DraftsNow = {}
    BY <2>3 DEF DraftsNow, NoJob, None
  <2>5. QED
    BY <2>1, <2>2, <2>4 DEF Promise!Init, PhaseNow, RuleNow, StatedNow, DraftsNow
<1>2. DraftsOnTheWay => QueueKept
  BY DEF DraftsOnTheWay
<1>3. QueueKept /\ RequestsFit /\ [Next]_vars => RequestsFit' /\ [Promise!Next]_Promise!vars
  BY DeliberationResolves DEF Resolves
<1>4. QED
  BY <1>1, <1>2, <1>3, DraftsAlways, PTL DEF Spec, PromiseKept, Promise!Spec

\* What the outcome agent found is what the rule of the process says of the tally it was
\* handed; a job that raised found nothing.
FoundByRule ==
    \A r \in results :
      r.job.graph = "outcome" =>
        r.state \in {"error", classify_decision(r.job.process, r.job.tally)}

\* No block among the stances that were counted is passed over.
CountedBlocksHeard ==
    \A r \in results :
      r.job.graph = "outcome" /\ r.job.process = "consent" /\ r.state = "passed"
        => \A m \in Voter : r.job.tally[m] # "block"

LEMMA FoundStep ==
    ASSUME FoundByRule, [Next]_vars
    PROVE  FoundByRule'
<1>1. CASE restart
  BY <1>1 DEF restart, FoundByRule
<1>2. CASE work_end /\ worker.graph = "outcome"
  <2>1. PICK state \in RunGraph(worker) : results' = results \cup {[job |-> worker, state |-> state]}
    BY <1>2 DEF work_end
  <2> DEFINE new == [job |-> worker, state |-> state]
  <2>2. new.job = worker /\ new.state = state /\ results' = results \cup {new}
    BY <2>1
  <2> HIDE DEF new
  <2>3. state \in {"error", classify_decision(worker.process, worker.tally)}
    BY <2>1 DEF RunGraph
  <2>4. QED
    BY <2>2, <2>3 DEF FoundByRule, classify_decision, Counted
<1>3. CASE UNCHANGED results
  BY <1>3 DEF FoundByRule, classify_decision, Counted
<1>4. CASE DeliberationNext
  BY <1>1, <1>2, <1>3, <1>4
  DEF DeliberationNext, work_begin, work_end, request_fails, create_thread, create_proposal, create_task, update_task, add_member,
      remove_member, upsert_stance, vote_graph, close_proposal, enqueue_outcome, insert_outcome,
      toggle_reaction_write, toggle_reaction, state_outcome, cast_stance
<1>5. QED
  BY <1>3, <1>4 DEF Next, vars, deliberationVars

(***************************************************************************)
(* What BlockIsHeard leaves of its promise: a consent proposal drafted as  *)
(* passed had no block among the stances that were counted, so the block   *)
(* it passes over was recorded after the count (agents/library/outcome.py).*)
(***************************************************************************)
THEOREM CountedBlocksAreHeard ==
    ASSUME IsFiniteSet(Voter)
    PROVE  Spec => []CountedBlocksHeard
<1>1. Init => FoundByRule
  BY DEF Init, DeliberationInit, FoundByRule
<1>2. FoundByRule /\ [Next]_vars => FoundByRule'
  BY FoundStep
<1>3. ASSUME FoundByRule, NEW r \in results, NEW m \in Voter,
             r.job.graph = "outcome", r.job.process = "consent", r.state = "passed"
      PROVE  r.job.tally[m] # "block"
  <2> DEFINE blocks == {v \in Voter : r.job.tally[v] = "block"}
  <2>1. ~(Cardinality(blocks) > 0)
    BY <1>3 DEF FoundByRule, classify_decision, Counted
  <2>2. IsFiniteSet(blocks)
    BY FS_Subset
  <2>3. blocks = {}
    BY <2>1, <2>2, FS_EmptySet, FS_CardinalityType
  <2>4. QED
    BY <2>3
<1>4. FoundByRule => CountedBlocksHeard
  BY <1>3 DEF CountedBlocksHeard
<1>5. QED
  BY <1>1, <1>2, <1>4, PTL DEF Spec

-----------------------------------------------------------------------------
(* Credits.                                                                *)
Entry == [from : Member \cup {None}, to : Member \cup {None}, amount : Nat]
Recorded(log) == [i \in DOMAIN log |-> log[i].amount]

LedgerKept ==
    /\ balance \in [Member -> Nat] /\ ledger \in Seq(Entry)
    /\ BalancesMatchLedger

\* What an entry more makes of a sum over some of the log.
LEMMA EntryAdds ==
    ASSUME NEW log \in Seq(Entry), NEW e \in Entry, NEW some \in SUBSET DOMAIN log
    PROVE  /\ SumFunctionOnSet(Recorded(log), some) \in Nat
           /\ SumFunctionOnSet(Recorded(Append(log, e)), some) = SumFunctionOnSet(Recorded(log), some)
           /\ SumFunctionOnSet(Recorded(Append(log, e)), some \cup {Len(log) + 1})
                = SumFunctionOnSet(Recorded(log), some) + e.amount
<1> DEFINE n == Len(log) + 1
           more == Append(log, e)
<1>1. /\ \A i \in some : i # n /\ log[i] \in Entry /\ more[i] = log[i] /\ i \in DOMAIN more
      /\ n \in DOMAIN more /\ more[n] = e /\ n \notin some /\ DOMAIN log = 1..Len(log) /\ Len(log) \in Nat
  OBVIOUS
<1> HIDE DEF n, more
<1>2. IsFiniteSet(some)
  <2>1. 1 \in Int /\ Len(log) \in Int /\ some \subseteq 1..Len(log)
    BY <1>1
  <2>2. IsFiniteSet(1..Len(log))
    BY <2>1, FS_Interval
  <2>3. QED
    BY <2>1, <2>2, FS_Subset
<1>3. /\ \A i \in some : /\ Recorded(log)[i] = log[i].amount /\ Recorded(more)[i] = log[i].amount
                         /\ log[i].amount \in Nat
      /\ Recorded(more)[n] = e.amount /\ e.amount \in Nat
  BY <1>1 DEF Recorded, Entry
<1>4. SumFunctionOnSet(Recorded(log), some) \in Nat
  <2>1. \A i \in some : Recorded(log)[i] \in Nat
    BY <1>3
  <2>2. QED
    BY <1>2, <2>1, SumNat
<1>5. SumFunctionOnSet(Recorded(more), some) = SumFunctionOnSet(Recorded(log), some)
  <2>1. \A i \in some : Recorded(more)[i] = Recorded(log)[i]
    BY <1>3
  <2>2. QED
    BY <1>2, <2>1, SumSame
<1>6. SumFunctionOnSet(Recorded(more), some \cup {n}) = SumFunctionOnSet(Recorded(log), some) + e.amount
  <2>1. \A i \in some : Recorded(log)[i] \in Int /\ Recorded(log)[i] = Recorded(more)[i]
    BY <1>3
  <2>2. Recorded(more)[n] \in Int
    BY <1>3
  <2>3. SumFunctionOnSet(Recorded(more), some \cup {n}) = SumFunctionOnSet(Recorded(log), some) + Recorded(more)[n]
    BY <1>1, <1>2, <2>1, <2>2, SumNew
  <2>4. QED
    BY <1>3, <2>3
<1>7. QED
  BY <1>4, <1>5, <1>6 DEF n, more

\* A transaction is on one side of the books of the account it leaves, and on the other
\* of the one it reaches.
LEMMA BookMoves ==
    ASSUME LedgerKept, NEW from \in Member \cup {None}, NEW to \in Member \cup {None}, NEW a \in Amounts,
           Book(from, to, a), NEW m \in Member
    PROVE  /\ Total(Sent(m)) \in Nat /\ Total(Received(m)) \in Nat
           /\ Total(Sent(m))' = Total(Sent(m)) + (IF m = from THEN a ELSE 0)
           /\ Total(Received(m))' = Total(Received(m)) + (IF m = to THEN a ELSE 0)
<1> DEFINE e == [from |-> from, to |-> to, amount |-> a]
           n == Len(ledger) + 1
<1>1. /\ ledger' = Append(ledger, e) /\ e \in Entry /\ e.from = from /\ e.to = to /\ e.amount = a
      /\ ledger \in Seq(Entry) /\ a \in Nat
  BY FinanceAssumption DEF Book, Entry, LedgerKept
<1> HIDE DEF e
<1>2. /\ DOMAIN ledger' = DOMAIN ledger \cup {n} /\ ledger'[n] = e
      /\ \A i \in DOMAIN ledger : ledger'[i] = ledger[i]
  BY <1>1
<1>3. /\ Sent(m)' = IF m = from THEN Sent(m) \cup {n} ELSE Sent(m)
      /\ Received(m)' = IF m = to THEN Received(m) \cup {n} ELSE Received(m)
      /\ Sent(m) \in SUBSET DOMAIN ledger /\ Received(m) \in SUBSET DOMAIN ledger
  BY <1>1, <1>2 DEF Sent, Received
<1>4. /\ \A some : Total(some) = SumFunctionOnSet(Recorded(ledger), some)
      /\ Total(Sent(m))' = SumFunctionOnSet(Recorded(ledger'), Sent(m)')
      /\ Total(Received(m))' = SumFunctionOnSet(Recorded(ledger'), Received(m)')
  BY DEF Total, Recorded
<1>5. \A some \in SUBSET DOMAIN ledger :
        /\ SumFunctionOnSet(Recorded(ledger), some) \in Nat
        /\ SumFunctionOnSet(Recorded(ledger'), some) = SumFunctionOnSet(Recorded(ledger), some)
        /\ SumFunctionOnSet(Recorded(ledger'), some \cup {n}) = SumFunctionOnSet(Recorded(ledger), some) + a
  BY <1>1, EntryAdds
<1> HIDE DEF n
<1>6. ASSUME NEW some \in SUBSET DOMAIN ledger, NEW side, NEW now,
             now = IF m = side THEN some \cup {n} ELSE some
      PROVE  /\ SumFunctionOnSet(Recorded(ledger), some) \in Nat
             /\ SumFunctionOnSet(Recorded(ledger'), now)
                  = SumFunctionOnSet(Recorded(ledger), some) + (IF m = side THEN a ELSE 0)
  <2>1. CASE m = side
    BY <1>5, <1>6, <2>1
  <2>2. CASE m # side
    <3>1. now = some
      BY <1>6, <2>2
    <3>2. /\ SumFunctionOnSet(Recorded(ledger), some) \in Nat
          /\ SumFunctionOnSet(Recorded(ledger'), some) = SumFunctionOnSet(Recorded(ledger), some)
      BY <1>5
    <3>3. SumFunctionOnSet(Recorded(ledger), some) = SumFunctionOnSet(Recorded(ledger), some) + 0
      BY <3>2
    <3>4. QED
      BY <2>2, <3>1, <3>2, <3>3
  <2>3. QED
    BY <2>1, <2>2
<1>7. /\ SumFunctionOnSet(Recorded(ledger), Sent(m)) \in Nat
      /\ SumFunctionOnSet(Recorded(ledger'), Sent(m)')
           = SumFunctionOnSet(Recorded(ledger), Sent(m)) + (IF m = from THEN a ELSE 0)
  BY <1>3, <1>6
<1>8. /\ SumFunctionOnSet(Recorded(ledger), Received(m)) \in Nat
      /\ SumFunctionOnSet(Recorded(ledger'), Received(m)')
           = SumFunctionOnSet(Recorded(ledger), Received(m)) + (IF m = to THEN a ELSE 0)
  BY <1>3, <1>6
<1>9. Total(Sent(m)) \in Nat /\ Total(Sent(m))' = Total(Sent(m)) + (IF m = from THEN a ELSE 0)
  BY <1>4, <1>7, Zenon
<1>10. Total(Received(m)) \in Nat /\ Total(Received(m))' = Total(Received(m)) + (IF m = to THEN a ELSE 0)
  BY <1>4, <1>8, Zenon
<1>11. QED
  BY <1>9, <1>10

LEMMA CreditsKeep ==
    ASSUME LedgerKept, FinanceNext
    PROVE  LedgerKept'
<1>1. ASSUME NEW from \in Member \cup {None}, NEW to \in Member \cup {None}, NEW a \in Amounts, Book(from, to, a),
             \A m \in Member : /\ balance'[m] \in Nat
                               /\ balance'[m] + (IF m = from THEN a ELSE 0) = balance[m] + (IF m = to THEN a ELSE 0),
             balance' \in [Member -> Nat]
      PROVE  LedgerKept'
  <2>1. ledger' \in Seq(Entry)
    BY <1>1, FinanceAssumption DEF Book, Entry, LedgerKept
  <2>2. ASSUME NEW m \in Member
        PROVE  balance'[m] + Total(Sent(m))' = Total(Received(m))'
    <3>1. /\ Total(Sent(m)) \in Nat /\ Total(Received(m)) \in Nat
          /\ Total(Sent(m))' = Total(Sent(m)) + (IF m = from THEN a ELSE 0)
          /\ Total(Received(m))' = Total(Received(m)) + (IF m = to THEN a ELSE 0)
      BY <1>1, BookMoves
    <3>2. balance[m] + Total(Sent(m)) = Total(Received(m)) /\ balance[m] \in Nat /\ a \in Nat
      BY FinanceAssumption DEF LedgerKept, BalancesMatchLedger
    <3>3. QED
      BY <1>1, <3>1, <3>2
  <2>3. QED
    BY <1>1, <2>1, <2>2 DEF LedgerKept, BalancesMatchLedger
<1>2. ASSUME NEW m \in Member, deposit_credits(m) \/ convert_from_chain(m) PROVE LedgerKept'
  <2>1. PICK a \in Amounts : balance' = [balance EXCEPT ![m] = @ + a] /\ Book(None, m, a)
    BY <1>2 DEF deposit_credits, convert_from_chain
  <2>2. a \in Nat /\ None \notin Member /\ balance \in [Member -> Nat]
    BY FinanceAssumption DEF LedgerKept
  <2>3. QED
    BY <1>1, <2>1, <2>2
<1>3. ASSUME NEW m \in Member, convert_to_chain(m) PROVE LedgerKept'
  <2>1. PICK a \in Amounts : balance[m] >= a /\ balance' = [balance EXCEPT ![m] = @ - a] /\ Book(m, None, a)
    BY <1>3 DEF convert_to_chain
  <2>2. a \in Nat /\ None \notin Member /\ balance \in [Member -> Nat]
    BY FinanceAssumption DEF LedgerKept
  <2>3. QED
    BY <1>1, <2>1, <2>2
<1>4. ASSUME NEW m \in Member, transfer_credits(m) PROVE LedgerKept'
  <2>1. PICK to \in Member, a \in Amounts :
          /\ balance[m] >= a /\ Book(m, to, a)
          /\ balance' = [[balance EXCEPT ![m] = @ - a] EXCEPT ![to] = @ + a]
    BY <1>4 DEF transfer_credits
  <2>2. a \in Nat /\ balance \in [Member -> Nat]
    BY FinanceAssumption DEF LedgerKept
  <2> DEFINE debited == [balance EXCEPT ![m] = @ - a]
  <2>3. debited \in [Member -> Nat] /\ \A k \in Member : debited[k] = IF k = m THEN balance[k] - a ELSE balance[k]
    BY <2>1, <2>2
  <2> HIDE DEF debited
  <2>4. balance' \in [Member -> Nat] /\ \A k \in Member : balance'[k] = IF k = to THEN debited[k] + a ELSE debited[k]
    BY <2>1, <2>2, <2>3 DEF debited
  <2>5. \A k \in Member : balance'[k] + (IF k = m THEN a ELSE 0) = balance[k] + (IF k = to THEN a ELSE 0)
    BY <2>2, <2>3, <2>4
  <2>6. QED
    BY <1>1, <2>1, <2>4, <2>5
<1>5. CASE UNCHANGED financeVars
  BY <1>5 DEF financeVars, LedgerKept, BalancesMatchLedger, Total, Sent, Received
<1>6. QED
  BY <1>2, <1>3, <1>4, <1>5 DEF FinanceNext, submit_proposal, cast_vote, submit_payment, approve_payment,
     mint, burn, fiat, create_purchase

\* Every balance is what the log adds up to.
LEMMA LedgerAlways == Spec => []LedgerKept
<1>1. Init => LedgerKept
  <2> SUFFICES ASSUME Init PROVE LedgerKept
    OBVIOUS
  <2>1. \A m : Sent(m) = {} /\ Received(m) = {}
    BY DEF Init, FinanceInit, Sent, Received
  <2>2. \A m : Total(Sent(m)) = 0 /\ Total(Received(m)) = 0
    BY <2>1, SumEmpty DEF Total
  <2>3. QED
    BY <2>2 DEF Init, FinanceInit, LedgerKept, BalancesMatchLedger
<1>2. LedgerKept /\ [Next]_vars => LedgerKept'
  <2> SUFFICES ASSUME LedgerKept, [Next]_vars PROVE LedgerKept'
    OBVIOUS
  <2>1. CASE FinanceNext
    BY <2>1, CreditsKeep
  <2>2. CASE UNCHANGED financeVars
    BY <2>2 DEF financeVars, LedgerKept, BalancesMatchLedger, Total, Sent, Received
  <2>3. QED
    BY <2>1, <2>2 DEF Next, vars
<1>3. QED
  BY <1>1, <1>2, PTL DEF Spec

(***************************************************************************)
(* A member's balance is what the log of its transactions adds up to.      *)
(***************************************************************************)
THEOREM Balanced == Spec => []BalancesMatchLedger
<1>1. LedgerKept => BalancesMatchLedger
  BY DEF LedgerKept
<1>2. QED
  BY <1>1, LedgerAlways, PTL

-----------------------------------------------------------------------------
(* Reputation.                                                             *)

\* A score within its scale, noted at the time or before.
ProfileAt(p, now) ==
    /\ p = [known |-> p.known, raw |-> p.raw, updated |-> p.updated, forced |-> p.forced]
    /\ p.raw \in Nat /\ p.raw <= MaxScore
    /\ p.updated \in 0..now

\* No score was noted in the future, and each lies within its scale.
ProfilesKept ==
    /\ clock \in Nat
    /\ profile = [d \in Sdc |-> profile[d]]
    /\ \A d \in Sdc : ProfileAt(profile[d], clock)

\* What the fields of a changed profile are.
LEMMA ProfileFields ==
    ASSUME NEW p, NEW now, ProfileAt(p, now)
    PROVE  /\ \A forced : [p EXCEPT !.forced = forced]
                = [known |-> p.known, raw |-> p.raw, updated |-> p.updated, forced |-> forced]
           /\ \A raw, time : [p EXCEPT !.raw = raw, !.updated = time]
                = [known |-> p.known, raw |-> raw, updated |-> time, forced |-> p.forced]
<1>1. /\ p = [known |-> p.known, raw |-> p.raw, updated |-> p.updated, forced |-> p.forced]
      /\ DOMAIN p = {"known", "raw", "updated", "forced"}
  BY DEF ProfileAt
<1>2. ASSUME NEW forced
      PROVE  [p EXCEPT !.forced = forced]
                = [known |-> p.known, raw |-> p.raw, updated |-> p.updated, forced |-> forced]
  BY <1>1
<1>3. ASSUME NEW raw, NEW time
      PROVE  [p EXCEPT !.raw = raw, !.updated = time]
                = [known |-> p.known, raw |-> raw, updated |-> time, forced |-> p.forced]
  <2> DEFINE q == [p EXCEPT !.raw = raw]
  <2>1. q = [known |-> p.known, raw |-> raw, updated |-> p.updated, forced |-> p.forced]
    BY <1>1
  <2>2. [p EXCEPT !.raw = raw, !.updated = time] = [q EXCEPT !.updated = time]
    BY Zenon
  <2> HIDE DEF q
  <2>3. [q EXCEPT !.updated = time] = [known |-> q.known, raw |-> q.raw, updated |-> time, forced |-> q.forced]
    BY <2>1
  <2>4. q.known = p.known /\ q.raw = raw /\ q.forced = p.forced
    BY <2>1
  <2>5. QED
    BY <2>2, <2>3, <2>4
<1>4. QED
  BY <1>2, <1>3

\* A change to one profile that stays within its scale.
LEMMA ProfileChanged ==
    ASSUME ProfilesKept, NEW d \in Sdc, NEW new, ProfileAt(new, clock),
           profile' = [profile EXCEPT ![d] = new], clock' = clock
    PROVE  ProfilesKept' /\ clock <= clock'
<1>1. /\ profile' = [c \in Sdc |-> profile'[c]]
      /\ \A c \in Sdc : profile'[c] = IF c = d THEN new ELSE profile[c]
  BY DEF ProfilesKept
<1>2. \A c \in Sdc : ProfileAt(profile'[c], clock')
  BY <1>1 DEF ProfilesKept
<1>3. clock <= clock'
  BY DEF ProfilesKept
<1>4. QED
  BY <1>1, <1>2, <1>3 DEF ProfilesKept

LEMMA ScoreInScale ==
    ASSUME ProfilesKept, NEW d \in Sdc
    PROVE  /\ profile[d].raw \in Nat /\ clock - profile[d].updated \in Nat
           /\ Score(d) \in Nat /\ Score(d) = decayedScore(profile[d].raw, clock - profile[d].updated, HalfLife, 13)
<1> DEFINE raw == profile[d].raw
           e == clock - profile[d].updated
<1>1. raw \in Nat /\ e \in Nat
  BY DEF ProfilesKept, ProfileAt
<1>2. HalfLife \in Nat \ {0} /\ 13 \in 1..13
  BY DiplomacyAssumption
<1>3. Score(d) = decayedScore(raw, e, HalfLife, 13)
  BY DEF Score, _compute_decay
<1> HIDE DEF raw, e
<1>4. e <= e
  BY <1>1
<1>5. decayedScore(raw, e, HalfLife, 13) \in Nat
  BY <1>1, <1>2, <1>4, Decay
<1>6. QED
  BY <1>1, <1>3, <1>5 DEF raw, e

LEMMA ProfilesStep ==
    ASSUME ProfilesKept, DiplomacyNext
    PROVE  ProfilesKept' /\ clock <= clock'
<1>1. CASE tick
  <2>1. profile' = profile /\ clock' \in Nat /\ clock' > clock
    BY <1>1, DiplomacyAssumption DEF tick
  <2>2. QED
    BY <2>1 DEF ProfilesKept, ProfileAt
<1>2. ASSUME NEW d \in Sdc, register_sdc(d) PROVE ProfilesKept' /\ clock <= clock'
  <2>1. PICK score \in FirstScores : profile' = [profile EXCEPT ![d] = NewProfile(score)]
    BY <1>2 DEF register_sdc
  <2>2. score \in Nat /\ score <= MaxScore /\ clock \in 0..clock /\ clock' = clock
    BY <1>2 DEF register_sdc, ProfilesKept, FirstScores, MaxScore
  <2>3. ProfileAt(NewProfile(score), clock)
    BY <2>2 DEF NewProfile, ProfileAt
  <2>4. QED
    BY <2>1, <2>2, <2>3, ProfileChanged
<1>3. ASSUME NEW d \in Sdc, record_transaction(d) PROVE ProfilesKept' /\ clock <= clock'
  <2>1. PICK delta \in Deltas :
          profile' = [profile EXCEPT ![d] = [@ EXCEPT !.raw = clamped(Score(d) + delta), !.updated = clock]]
    BY <1>3 DEF record_transaction
  <2> DEFINE raw == clamped(Score(d) + delta)
             new == [profile[d] EXCEPT !.raw = raw, !.updated = clock]
  <2>2. Score(d) \in Nat
    BY ScoreInScale
  <2>3. raw \in Nat /\ raw <= MaxScore
    BY <2>2 DEF Deltas, clamped, MaxScore
  <2>4. profile' = [profile EXCEPT ![d] = new]
    BY <2>1, Zenon
  <2>5. clock \in 0..clock /\ clock' = clock
    BY <1>3 DEF record_transaction, ProfilesKept
  <2>6. ProfileAt(profile[d], clock)
    BY DEF ProfilesKept
  <2> HIDE DEF raw
  <2>7. new = [known |-> profile[d].known, raw |-> raw, updated |-> clock, forced |-> profile[d].forced]
    BY <2>6, ProfileFields
  <2> HIDE DEF new
  <2>8. ProfileAt(new, clock)
    BY <2>3, <2>5, <2>7 DEF ProfileAt
  <2>9. QED
    BY <2>4, <2>5, <2>8, ProfileChanged
<1>4. ASSUME NEW d \in Sdc, NEW forced, force_quarantine(d, forced)
      PROVE  ProfilesKept' /\ clock <= clock'
  <2> DEFINE new == [profile[d] EXCEPT !.forced = forced]
  <2>1. profile' = [profile EXCEPT ![d] = new]
    BY <1>4, Zenon DEF force_quarantine
  <2>2. ProfileAt(profile[d], clock)
    BY DEF ProfilesKept
  <2>3. new = [known |-> profile[d].known, raw |-> profile[d].raw,
               updated |-> profile[d].updated, forced |-> forced]
    BY <2>2, ProfileFields
  <2> HIDE DEF new
  <2>4. ProfileAt(new, clock)
    BY <2>2, <2>3 DEF ProfileAt
  <2>5. clock' = clock
    BY <1>4 DEF force_quarantine
  <2>6. QED
    BY <2>1, <2>4, <2>5, ProfileChanged
<1>5. CASE UNCHANGED <<profile, clock>>
  BY <1>5 DEF ProfilesKept
<1>6. QED
  BY <1>1, <1>2, <1>3, <1>4, <1>5 DEF DiplomacyNext, ingest, register_issuer, revoke_issuer, attest_from_vc, diplomacyVars

\* Every step is such a step, or leaves the profiles alone.
LEMMA NextProfiles ==
    ASSUME ProfilesKept, [Next]_vars
    PROVE  ProfilesKept' /\ clock <= clock'
<1>1. CASE DiplomacyNext
  BY <1>1, ProfilesStep
<1>2. CASE UNCHANGED diplomacyVars
  BY <1>2 DEF diplomacyVars, ProfilesKept
<1>3. QED
  BY <1>1, <1>2 DEF Next, vars

LEMMA ProfilesAlways == Spec => []ProfilesKept
<1>1. Init => ProfilesKept
  <2> SUFFICES ASSUME Init PROVE ProfilesKept
    OBVIOUS
  <2> DEFINE none == [known |-> FALSE, raw |-> 0, updated |-> 0, forced |-> FALSE]
  <2>1. profile = [d \in Sdc |-> none] /\ clock = 0
    BY DEF Init, DiplomacyInit
  <2>2. ProfileAt(none, 0)
    BY DEF ProfileAt, MaxScore
  <2> HIDE DEF none
  <2>3. QED
    BY <2>1, <2>2 DEF ProfilesKept
<1>2. ProfilesKept /\ [Next]_vars => ProfilesKept'
  BY NextProfiles
<1>3. QED
  BY <1>1, <1>2, PTL DEF Spec

(***************************************************************************)
(* Time alone never raises the score or the tier of a foreign cooperative. *)
(***************************************************************************)
THEOREM DecaysOnly == Spec => DecayNeverRaises
<1>1. ProfilesKept /\ [Next]_vars =>
        [\A d \in Sdc : profile'[d] = profile[d] /\ d \in Profiled =>
           /\ Score(d)' <= Score(d)
           /\ get_tier(d)' <= get_tier(d)]_vars
  <2> SUFFICES ASSUME ProfilesKept, [Next]_vars, NEW d \in Sdc, profile'[d] = profile[d], d \in Profiled
               PROVE  Score(d)' <= Score(d) /\ get_tier(d)' <= get_tier(d)
    OBVIOUS
  <2> DEFINE raw == profile[d].raw
             e == clock - profile[d].updated
             e2 == clock' - profile[d].updated
  <2>1. /\ raw \in Nat /\ e \in Nat /\ Score(d) \in Nat
        /\ Score(d) = decayedScore(raw, e, HalfLife, 13)
    BY ScoreInScale
  <2>2. clock \in Nat /\ clock' \in Nat /\ clock <= clock' /\ profile[d].updated \in 0..clock
    BY NextProfiles DEF ProfilesKept, ProfileAt
  <2>3. e2 \in Nat /\ e <= e2 /\ e2 <= e2
    BY <2>2
  <2>4. HalfLife \in Nat \ {0} /\ 13 \in 1..13
    BY DiplomacyAssumption
  <2>5. Score(d)' = decayedScore(raw, e2, HalfLife, 13)
    BY DEF Score, _compute_decay
  <2>6. /\ get_tier(d) = _score_tier(Score(d), profile[d].forced)
        /\ get_tier(d)' = _score_tier(Score(d)', profile[d].forced)
    BY DEF get_tier, Profiled
  <2> HIDE DEF raw, e, e2
  <2>7. decayedScore(raw, e2, HalfLife, 13) \in Nat
    BY <2>1, <2>3, <2>4, Decay
  <2>8. decayedScore(raw, e2, HalfLife, 13) <= decayedScore(raw, e, HalfLife, 13)
    BY <2>1, <2>3, <2>4, Decay
  <2>9. \A m, n \in Nat : m <= n => _score_tier(m, profile[d].forced) <= _score_tier(n, profile[d].forced)
    BY DEF _score_tier, QUARANTINE
  <2>10. QED
    BY <2>1, <2>5, <2>6, <2>7, <2>8, <2>9
<1>2. QED
  BY <1>1, ProfilesAlways, PTL DEF Spec, DecayNeverRaises

-----------------------------------------------------------------------------
(* Vettings.                                                               *)

PredictionFields == {"meatspace", "ica", "last", "signals", "p", "human", "dominant", "move", "error"}

\* The vetting's own score has some weight, and is all that is heard of a first contact.
LEMMA WeightOfOne ==
    ASSUME NEW v, NEW meatspace
    PROVE  \E k \in Nat \ {0} : Weight([ica |-> v], meatspace) = [n \in {"ica"} |-> k]
<1> DEFINE signals == [ica |-> v]
           freed == IF ~meatspace THEN {} ELSE {"trust"} \cup ({"pairwise"} \ DOMAIN signals)
           kept  == DOMAIN weights \ freed
           heard == kept \cap DOMAIN signals
           k == 60 * 15 + (60 * SumFunctionOnSet(weights, freed)) \div 1
<1>1. DOMAIN weights = {"pairwise", "global", "trust", "federation", "ica", "meatspace"}
  BY DEF weights
<1>2. DOMAIN signals = {"ica"}
  OBVIOUS
<1>3. heard = {"ica"} /\ freed \subseteq {"trust", "pairwise"}
  BY <1>1, <1>2
<1>4. \A n \in DOMAIN weights : weights[n] \in Nat
  BY DEF weights
<1>5. weights["ica"] = 15
  BY DEF weights
<1>6. IsFiniteSet(freed)
  <2>1. IsFiniteSet({"trust", "pairwise"})
    <3>1. IsFiniteSet({"trust"})
      BY FS_Singleton
    <3>2. IsFiniteSet({"trust"} \cup {"pairwise"})
      BY <3>1, FS_AddElement
    <3>3. {"trust", "pairwise"} = {"trust"} \cup {"pairwise"}
      OBVIOUS
    <3>4. QED
      BY <3>2, <3>3
  <2>2. QED
    BY <1>3, <2>1, FS_Subset
<1>7. Cardinality(heard) = 1
  BY <1>3, FS_Singleton
<1>8. Weight(signals, meatspace) =
        [n \in heard |-> 60 * weights[n] + (60 * SumFunctionOnSet(weights, freed)) \div Cardinality(heard)]
  BY Zenon DEF Weight
<1> HIDE DEF freed, heard, signals
<1>9. SumFunctionOnSet(weights, freed) \in Nat
  <2>1. \A n \in freed : weights[n] \in Nat
    BY <1>1, <1>3, <1>4
  <2>2. QED
    BY <1>6, <2>1, SumNat
<1>10. k \in Nat \ {0}
  BY <1>9
<1>11. Weight(signals, meatspace) = [n \in {"ica"} |-> k]
  BY <1>3, <1>5, <1>7, <1>8
<1>12. QED
  BY <1>10, <1>11 DEF signals

\* A sum over one.
LEMMA SumOfOne ==
    ASSUME NEW n, NEW x \in Int
    PROVE  SumFunction([m \in {n} |-> x]) = x
<1> DEFINE f == [m \in {n} |-> x]
<1>1. IsFiniteSet({n}) /\ {n} \ {n} = {} /\ n \in {n} /\ f[n] = x /\ DOMAIN f = {n}
  BY FS_Singleton
<1>2. \A y \in {n} : f[y] \in Int
  OBVIOUS
<1> HIDE DEF f
<1>3. SumFunctionOnSet(f, {n}) = f[n] + SumFunctionOnSet(f, {n} \ {n})
  BY <1>1, <1>2, SumTake
<1>4. SumFunctionOnSet(f, {n}) = x
  BY <1>1, <1>3, SumEmpty
<1>5. QED
  BY <1>1, <1>4 DEF SumFunction, f

\* Of a partner nobody knows, the prediction is the composite of the vetting.
LEMMA FirstContact ==
    ASSUME NEW v \in Nat, NEW meatspace
    PROVE  \E q \in predict_cooperation_for_partner(meatspace, <<v>>) : q.human <=> v < Floor
<1> DEFINE s0 == [meatspace |-> meatspace, ica |-> <<v>>, last |-> None, signals |-> <<>>,
                  p |-> 0, human |-> FALSE, dominant |-> FALSE, move |-> None, error |-> None]
           s1 == load_interaction_history(s0)
           s2 == compute_cooperation_signals(s1)
           s3 == predict_cooperation_probability(s2)
           s4 == compute_payoff_matrix(s3)
           q == [s4 EXCEPT !.move = "cooperate"]
<1>1. DOMAIN s0 = PredictionFields /\ s0.ica = <<v>> /\ s0.meatspace = meatspace
  BY DEF PredictionFields
<1> HIDE DEF s0
<1>2. DOMAIN s1 = PredictionFields /\ s1.ica = <<v>> /\ s1.meatspace = meatspace
  BY <1>1 DEF load_interaction_history, PredictionFields
<1> HIDE DEF s1
<1>3. DOMAIN s2 = PredictionFields /\ s2.signals = [ica |-> v] /\ s2.meatspace = meatspace
  <2>1. <<v>> # <<>> /\ <<v>>[1] = v
    OBVIOUS
  <2>2. QED
    BY <1>2, <2>1 DEF compute_cooperation_signals, PredictionFields
<1> HIDE DEF s2
<1>4. DOMAIN s3 = PredictionFields /\ (s3.human <=> v < Floor)
  <2> DEFINE w == Weight(s2.signals, s2.meatspace)
             p == IF DOMAIN w = {} THEN Prior
                  ELSE SumFunction([n \in DOMAIN w |-> w[n] * s2.signals[n]]) \div SumFunction(w)
  <2>1. PICK k \in Nat \ {0} : w = [n \in {"ica"} |-> k]
    BY <1>3, WeightOfOne
  <2>2. DOMAIN w = {"ica"} /\ w["ica"] = k /\ s2.signals["ica"] = v
    BY <1>3, <2>1
  <2>3. [n \in DOMAIN w |-> w[n] * s2.signals[n]] = [n \in {"ica"} |-> k * v]
    BY <2>2
  <2>4. k * v \in Int /\ k \in Int
    OBVIOUS
  <2>5. SumFunction([n \in DOMAIN w |-> w[n] * s2.signals[n]]) = k * v /\ SumFunction(w) = k
    BY <2>1, <2>3, <2>4, SumOfOne
  <2>6. (k * v) \div k = v
    OBVIOUS
  <2>7. p = v
    BY <2>2, <2>5, <2>6
  <2>8. s3 = [s2 EXCEPT !.p = Least(p, 100), !.human = p < Floor]
    BY DEF predict_cooperation_probability
  <2> HIDE DEF p
  <2>9. QED
    BY <1>3, <2>7, <2>8 DEF PredictionFields
<1> HIDE DEF s3
<1>5. DOMAIN s4 = PredictionFields /\ (s4.human <=> v < Floor)
  BY <1>4 DEF compute_payoff_matrix, PredictionFields
<1> HIDE DEF s4
<1>6. q.human <=> v < Floor
  BY <1>5 DEF PredictionFields
<1>7. q \in select_strategy(s4)
  BY DEF select_strategy
<1>8. select_strategy(s4) = predict_cooperation_for_partner(meatspace, <<v>>)
  BY DEF predict_cooperation_for_partner, s0, s1, s2, s3, s4
<1>9. QED
  BY <1>6, <1>7, <1>8

VettingFields == {"query", "weights", "candidates", "onChain", "federated", "scores", "matrix",
                  "human", "report", "error"}

\* A principle's score is a number, and the flag is up if any of them failed.
Scored(s) ==
    /\ DOMAIN s = VettingFields
    /\ \A c \in s.candidates, p \in Principles : s.scores[c][p] \in Nat
    /\ ~s.human => \A c \in s.candidates, p \in Principles : Grade(s.scores[c][p]) # "FAIL"

\* What the chain said of a candidate, if it said anything.
LEMMA HeuristicIsNat ==
    ASSUME NEW p, NEW c, NEW federated, NEW onChain \in {<<>>, <<(<<>>)>>, <<(<< 1000 >>)>>}
    PROVE  _heuristic_principle_score(p, c, onChain, federated) \in Nat
<1> DEFINE trust == IF onChain \notin {<<>>, <<(<<>>)>>} THEN (onChain[1][1] * 20) \div 1000 ELSE 0
<1>1. trust \in Nat
  <2>1. CASE onChain = <<(<< 1000 >>)>>
    <3>1. onChain[1][1] = 1000
      BY <2>1
    <3>2. QED
      BY <3>1
  <2>2. CASE onChain \in {<<>>, <<(<<>>)>>}
    BY <2>2
  <2>3. QED
    BY <2>1, <2>2
<1> HIDE DEF trust
<1>2. QED
  BY <1>1 DEF _heuristic_principle_score, Least, trust

LEMMA ScoringsAreNat ==
    ASSUME NEW s, NEW c, s.onChain[c] \in {<<>>, <<(<<>>)>>, <<(<< 1000 >>)>>},
           NEW g \in Scorings(c, s), NEW p \in Principles
    PROVE  g[p] \in Nat
<1> DEFINE heuristic == [r \in Principles |-> _heuristic_principle_score(r, c, s.onChain[c], c \in s.federated)]
<1>1. CASE g = heuristic
  BY <1>1, HeuristicIsNat
<1>2. CASE g \in {[r \in Principles |-> IF r = "P2" THEN low ELSE rest] : low \in {0, 45}, rest \in {0, 30, 90}}
  BY <1>2
<1>3. QED
  BY <1>1, <1>2 DEF Scorings

\* What every node up to the scores leaves alone.
Intake(s, w) == DOMAIN s = VettingFields /\ s.weights = w

\* The first four nodes score every candidate they read.
LEMMA GraphScores ==
    ASSUME NEW query \in Queries, NEW w \in Weights, NEW s \in build_ica_vetter_graph(Unvetted(query, w))
    PROVE  Scored(s) /\ s.weights = w
<1> DEFINE u == Unvetted(query, w)
<1>1. PICK a \in intake_partner(u) : \E b \in gather_on_chain_signals(a) :
        \E d \in gather_off_chain_signals(b) : s \in assess_ica_principles(d)
  BY DEF build_ica_vetter_graph, Then
<1>2. Intake(u, w) /\ u.query = query /\ u.candidates = {}
  BY DEF Unvetted, Intake, VettingFields
<1> HIDE DEF u
<1>3. Intake(a, w) /\ a.candidates \in {query, {}}
  BY <1>1, <1>2 DEF intake_partner, Intake, VettingFields
<1>4. PICK b \in gather_on_chain_signals(a) : \E d \in gather_off_chain_signals(b) : s \in assess_ica_principles(d)
  BY <1>1
<1>5. PICK up \in BOOLEAN :
        b = [a EXCEPT !.onChain = [c \in a.candidates |-> IF up /\ c.chain THEN <<c.trust>> ELSE <<>>]]
  BY <1>4 DEF gather_on_chain_signals
<1>6. /\ Intake(b, w) /\ b.candidates = a.candidates
      /\ \A c \in b.candidates : b.onChain[c] \in {<<(c.trust)>>, <<>>}
  BY <1>3, <1>5 DEF Intake, VettingFields
<1>7. PICK d \in gather_off_chain_signals(b) : s \in assess_ica_principles(d)
  BY <1>4
<1>8. Intake(d, w) /\ d.candidates = a.candidates /\ d.onChain = b.onChain
  BY <1>6, <1>7 DEF gather_off_chain_signals, Intake, VettingFields
<1>9. \A c \in query : c.trust \in {<<>>, << 1000 >>}
  BY DEF Queries, Candidates
<1>10. \A c \in d.candidates : d.onChain[c] \in {<<>>, <<(<<>>)>>, <<(<< 1000 >>)>>}
  BY <1>3, <1>6, <1>8, <1>9
<1>11. PICK f \in {g \in [d.candidates -> UNION {Scorings(c, d) : c \in d.candidates}] :
                     \A c \in d.candidates : g[c] \in Scorings(c, d)} :
          s = [d EXCEPT !.scores = f, !.human = \E c \in d.candidates, p \in Principles : Grade(f[c][p]) = "FAIL"]
  BY <1>7, Zenon DEF assess_ica_principles
<1>12. \A c \in d.candidates, p \in Principles : f[c][p] \in Nat
  BY <1>10, <1>11, ScoringsAreNat
<1> DEFINE failed == \E c \in d.candidates, p \in Principles : Grade(f[c][p]) = "FAIL"
<1>13. /\ DOMAIN s = VettingFields /\ s.weights = w /\ s.candidates = d.candidates /\ s.scores = f
       /\ s.human = failed
  BY <1>8, <1>11, Zenon DEF Intake, VettingFields
<1>14. QED
  BY <1>12, <1>13 DEF Scored

\* Named or left out, each weight is a number.
LEMMA WeightsAreNat ==
    ASSUME NEW w \in Weights
    PROVE  \A p \in DOMAIN w : p \in Principles /\ w[p] \in Nat
<1>1. CASE w = <<>>
  <2>1. DOMAIN w = {}
    BY <1>1
  <2>2. QED
    BY <2>1
<1>2. CASE w \in {[p \in Principles |-> 1], [p \in Principles |-> 0]}
  BY <1>2
<1>3. CASE w = [P2 |-> 1]
  BY <1>3 DEF Principles
<1>4. QED
  BY <1>1, <1>2, <1>3 DEF Weights

\* The composite of numbers is a number.
LEMMA CompositeIsNat ==
    ASSUME NEW score, \A p \in Principles : score[p] \in Nat, NEW w \in Weights
    PROVE  Composite(score, w) \in Nat
<1> DEFINE counted == [p \in DOMAIN w |-> w[p] * Count[p]]
           scored == [p \in Principles |-> score[p] * Count[p] * (IF p \in DOMAIN w THEN w[p] ELSE 1)]
           total == SumFunction(counted)
           sum == SumFunction(scored)
<1>1. \A p \in Principles : Count[p] \in Nat
  BY DEF Principles, Count
<1>2. \A p \in DOMAIN w : p \in Principles /\ w[p] \in Nat
  BY WeightsAreNat
<1>3. IsFiniteSet(Principles) /\ IsFiniteSet(DOMAIN w)
  <2>1. IsFiniteSet({"P2"})
    BY FS_Singleton
  <2>2. IsFiniteSet(({"P2"} \cup {"P3"}) \cup {"P6"})
    BY <2>1, FS_AddElement
  <2>3. IsFiniteSet((({"P2"} \cup {"P3"}) \cup {"P6"}) \cup {"others"})
    BY <2>2, FS_AddElement
  <2>4. Principles = (({"P2"} \cup {"P3"}) \cup {"P6"}) \cup {"others"}
    BY DEF Principles
  <2>5. DOMAIN w \subseteq Principles
    BY <1>2
  <2>6. QED
    BY <2>3, <2>4, <2>5, FS_Subset
<1>4. total \in Nat
  <2>1. \A p \in DOMAIN w : counted[p] \in Nat
    BY <1>1, <1>2
  <2>2. DOMAIN counted = DOMAIN w
    OBVIOUS
  <2> HIDE DEF counted
  <2>3. QED
    BY <1>3, <2>1, <2>2, SumNat DEF SumFunction
<1>5. sum \in Nat
  <2>1. ASSUME NEW p \in Principles PROVE scored[p] \in Nat
    <3> DEFINE x == IF p \in DOMAIN w THEN w[p] ELSE 1
    <3>1. x \in Nat /\ score[p] \in Nat /\ Count[p] \in Nat
      BY <1>1, <1>2
    <3>2. scored[p] = score[p] * Count[p] * x
      OBVIOUS
    <3> HIDE DEF x, scored
    <3>3. score[p] * Count[p] \in Nat
      BY <3>1
    <3>4. QED
      BY <3>1, <3>2, <3>3
  <2>2. DOMAIN scored = Principles
    OBVIOUS
  <2> HIDE DEF scored
  <2>3. QED
    BY <1>3, <2>1, <2>2, SumNat DEF SumFunction
<1>6. Composite(score, w) = IF total > 0 THEN sum \div total ELSE 0
  BY Zenon DEF Composite
<1> HIDE DEF total, sum
<1>7. total > 0 => sum \div total \in Nat
  BY <1>4, <1>5, Division
<1>8. QED
  BY <1>4, <1>6, <1>7

Vetted(s) ==
    \A c \in s.candidates :
      s.matrix[c] >= Floor /\ \A p \in Principles : Grade(s.scores[c][p]) # "FAIL"

\* What leaves the last nodes without the flag is vetted.
LEMMA ReportIsVetted ==
    ASSUME NEW s, Scored(s), NEW w \in Weights, s.weights = w,
           NEW r \in Then(compute_value_matrix(s), enrich_with_ipd_prediction), ~r.human,
           NEW e \in emit_report(r)
    PROVE  Vetted(e)
<1>1. PICK m \in compute_value_matrix(s) : r \in enrich_with_ipd_prediction(m)
  BY DEF Then
<1>2. m = [s EXCEPT !.matrix = [c \in s.candidates |-> Composite(s.scores[c], s.weights)]]
  BY <1>1 DEF compute_value_matrix
<1>3. /\ DOMAIN m = VettingFields /\ m.candidates = s.candidates /\ m.scores = s.scores
      /\ m.human = s.human /\ \A c \in s.candidates : m.matrix[c] = Composite(s.scores[c], w)
  BY <1>2 DEF Scored, VettingFields
<1> DEFINE doubted == \E c \in m.candidates :
             \E q \in predict_cooperation_for_partner(c.type = "conventional", <<(m.matrix[c])>>) : q.human
           flag == m.human \/ doubted
<1>4. r = [m EXCEPT !.human = flag]
  BY <1>1, Zenon DEF enrich_with_ipd_prediction
<1> HIDE DEF doubted
<1>5. /\ DOMAIN r = VettingFields /\ r.candidates = s.candidates /\ r.scores = s.scores
      /\ r.matrix = m.matrix /\ r.human = flag
  BY <1>3, <1>4, Zenon DEF VettingFields
<1>6. ~s.human /\ ~doubted
  BY <1>3, <1>5, Zenon
<1>7. ASSUME NEW c \in s.candidates PROVE m.matrix[c] >= Floor
  <2> DEFINE v == m.matrix[c]
  <2>1. v \in Nat
    <3>1. \A p \in Principles : s.scores[c][p] \in Nat
      BY DEF Scored
    <3>2. QED
      BY <1>3, <3>1, CompositeIsNat
  <2>2. \A q \in predict_cooperation_for_partner(c.type = "conventional", <<v>>) : ~q.human
    BY <1>3, <1>6, Zenon DEF doubted
  <2> HIDE DEF v
  <2>3. ~(v < Floor)
    BY <2>1, <2>2, FirstContact
  <2>4. QED
    BY <2>1, <2>3 DEF v, Floor
<1>8. e = [r EXCEPT !.report = r.matrix]
  BY DEF emit_report
<1>9. e.candidates = s.candidates /\ e.scores = s.scores /\ e.matrix = m.matrix
  BY <1>5, <1>8 DEF VettingFields
<1>10. QED
  BY <1>6, <1>7, <1>9 DEF Vetted, Scored

\* The request of a vetting leaves the other threads alone, and ends its own as vetted.
LEMMA VettingKeeps ==
    ASSUME ThreadsKept, NEW t \in Thread, assess_trading_partners(t), VettingFlagsFailures
    PROVE  VettingFlagsFailures'
<1>1. PICK query \in Queries, w \in Weights : \E s \in build_ica_vetter_graph(Unvetted(query, w)) :
        IF w = <<>> THEN Create(t, "vetting", "compute_value_matrix", s, FALSE)
        ELSE \E r \in Then(compute_value_matrix(s), enrich_with_ipd_prediction) :
               IF r.human THEN Create(t, "vetting", "human_review_vetting", r, r.error = None)
               ELSE \E e \in emit_report(r) : Create(t, "vetting", END, e, e.error = None)
  BY DEF assess_trading_partners
<1>2. PICK s \in build_ica_vetter_graph(Unvetted(query, w)) :
        IF w = <<>> THEN Create(t, "vetting", "compute_value_matrix", s, FALSE)
        ELSE \E r \in Then(compute_value_matrix(s), enrich_with_ipd_prediction) :
               IF r.human THEN Create(t, "vetting", "human_review_vetting", r, r.error = None)
               ELSE \E e \in emit_report(r) : Create(t, "vetting", END, e, e.error = None)
  BY <1>1
<1>3. Scored(s) /\ s.weights = w
  BY GraphScores
<1>4. \E next, state, told : /\ Create(t, "vetting", next, state, told)
                             /\ next = END => Vetted(state)
  <2>1. CASE w = <<>>
    <3>1. Create(t, "vetting", "compute_value_matrix", s, FALSE)
      BY <1>2, <2>1, Zenon
    <3>2. "compute_value_matrix" # END
      BY DEF END
    <3>3. QED
      BY <3>1, <3>2, Zenon
  <2>2. CASE w # <<>>
    <3>1. PICK r \in Then(compute_value_matrix(s), enrich_with_ipd_prediction) :
            IF r.human THEN Create(t, "vetting", "human_review_vetting", r, r.error = None)
            ELSE \E e \in emit_report(r) : Create(t, "vetting", END, e, e.error = None)
      BY <1>2, <2>2
    <3>2. CASE r.human
      BY <3>1, <3>2 DEF END
    <3>3. CASE ~r.human
      <4>1. PICK e \in emit_report(r) : Create(t, "vetting", END, e, e.error = None)
        BY <3>1, <3>3
      <4>2. Vetted(e)
        BY <1>3, <3>3, ReportIsVetted
      <4>3. QED
        BY <4>1, <4>2
    <3>4. QED
      BY <3>2, <3>3
  <2>3. QED
    BY <2>1, <2>2
<1>5. PICK next, state, told : /\ Create(t, "vetting", next, state, told)
                               /\ next = END => Vetted(state)
  BY <1>4
<1>6. Fresh(t, "vetting")
  BY DEF assess_trading_partners
<1>7. /\ thread'[t] = [kind |-> "vetting", next |-> next, state |-> state, told |-> told]
      /\ \A u \in Thread : u # t => thread'[u] = thread[u]
  BY <1>5, <1>6, CreateExact
<1>8. QED
  BY <1>5, <1>7 DEF VettingFlagsFailures, Vetted, Of, Kind, State

(***************************************************************************)
(* No report goes out without a human on a candidate that failed a         *)
(* principle or is predicted to defect, for any number of requests.        *)
(***************************************************************************)
THEOREM VettingsAreFlagged == Spec => []VettingFlagsFailures
<1> DEFINE Inv == ThreadsKept /\ VettingFlagsFailures
<1>1. Init => Inv
  BY DEF Init, GraphInit, Unborn, ThreadsKept, VettingFlagsFailures, Of, Kind
<1>2. Inv /\ [Next]_vars => Inv'
  <2>1. SUFFICES ASSUME Inv, [Next]_vars PROVE Inv'
    OBVIOUS
  <2>2. ThreadsKept' /\ (VettingsStand \/ \E t \in Thread : assess_trading_partners(t))
    BY <2>1, NextThreadStep DEF ThreadStep
  <2>3. CASE VettingsStand
    BY <2>1, <2>2, <2>3 DEF VettingsStand, VettingFlagsFailures, Of, Kind, State
  <2>4. ASSUME NEW t \in Thread, assess_trading_partners(t) PROVE VettingFlagsFailures'
    BY <2>1, <2>4, VettingKeeps
  <2>5. QED
    BY <2>2, <2>3, <2>4
<1>3. QED
  BY <1>1, <1>2, PTL DEF Spec

-----------------------------------------------------------------------------
(* The boundary.                                                           *)

inboxVars == <<delivery, held, counts, seen, refused, raised, dropped, processed>>

\* What of some deliveries comes from an actor.
From(log, s, a) == {f \in s : log[f].content.actor = a}

\* Counts that are those of some deliveries.
CountsAre(count, log, s) ==
    DOMAIN count = Actor /\ \A a \in Actor : count[a] = Cardinality(From(log, s, a))

Carried == {_apply_translation(content) : content \in Contents}

Logged ==
    /\ delivery \in Seq([handle : Handle, content : Carried])
    /\ processed \in Seq(Seq(Handle)) /\ Len(processed) = Len(delivery)

\* An activity that names a predecessor of its own.
Linked(content) == Dependant(content) /\ OwnLink(content) # None

HeldKept ==
    /\ held \subseteq 1..Len(delivery) /\ refused \subseteq 1..Len(delivery)
    /\ raised \subseteq 1..Len(delivery) /\ dropped \subseteq 1..Len(delivery)
    /\ held \cap (refused \cup raised \cup dropped) = {}
    /\ \A f \in held : Linked(delivery[f].content)
    /\ Cardinality(held) <= MaxHeld
    /\ DOMAIN counts = Actor

\* What the links of an activity say is noted, whichever field they stand in.
LinksSeen(content, s) ==
    \A field \in LinkFields : content.link[field] # None => <<content.type, content.link[field]>> \in s

\* Whatever went through noted its links; only a verdict is turned away before that.
SeenKept ==
    \A g \in 1..Len(delivery) :
      g \in raised \/ delivery[g].content.type = "Verdict" \/ LinksSeen(delivery[g].content, seen)

InboxKept ==
    Logged /\ HeldKept /\ SeenKept /\ NothingVanishes /\ HeldAwaitsPredecessor /\ CountsMatchBuffer

\* The counting down of a count stops at none.
LEMMA MaxOfTwo ==
    ASSUME NEW x \in Nat
    PROVE  Max({0, x}) = x
<1>1. \A y \in {0, x} : x >= y
  OBVIOUS
<1>2. \A z \in {0, x} : (\A y \in {0, x} : z >= y) => z = x
  OBVIOUS
<1>3. Max({0, x}) = CHOOSE z \in {0, x} : \A y \in {0, x} : z >= y
  BY Zenon DEF Max
<1>4. QED
  BY <1>1, <1>2, <1>3

\* What is left of a finite set, counted.
LEMMA PartLeft ==
    ASSUME NEW S, IsFiniteSet(S), NEW T, T \subseteq S
    PROVE  /\ Cardinality(S) \in Nat /\ Cardinality(T) \in Nat
           /\ Cardinality(S \ T) = Cardinality(S) - Cardinality(T)
           /\ Cardinality(S \ T) \in Nat
<1>1. S \cap T = T
  OBVIOUS
<1>2. IsFiniteSet(S \ T) /\ Cardinality(S \ T) = Cardinality(S) - Cardinality(S \cap T)
  BY FS_Difference, Zenon
<1>3. IsFiniteSet(T)
  BY FS_Subset
<1>4. Cardinality(S) \in Nat /\ Cardinality(T) \in Nat /\ Cardinality(S \ T) \in Nat
  BY <1>2, <1>3, FS_CardinalityType, Zenon
<1>5. Cardinality(S \ T) = Cardinality(S) - Cardinality(T)
  BY <1>1, <1>2, Zenon
<1>6. QED
  BY <1>4, <1>5, Zenon

\* When some of the held leave, the counts are those of what is left.
LEMMA FlushCounts ==
    ASSUME NEW s, IsFiniteSet(s), NEW left \in SUBSET s, NEW count, CountsAre(count, delivery, s)
    PROVE  CountsAre(_flush_expired(left, count), delivery, s \ left)
<1> DEFINE rest == _flush_expired(left, count)
<1>0. DOMAIN rest = Actor /\ \A a \in Actor : count[a] = Cardinality(From(delivery, s, a))
  BY DEF _flush_expired, CountsAre
<1> SUFFICES ASSUME NEW a \in Actor
             PROVE  _flush_expired(left, count)[a] = Cardinality(From(delivery, s \ left, a))
  BY <1>0 DEF CountsAre
<1>1. /\ From(delivery, left, a) \subseteq From(delivery, s, a) /\ From(delivery, s, a) \subseteq s
      /\ From(delivery, s \ left, a) = From(delivery, s, a) \ From(delivery, left, a)
  BY DEF From
<1>2. IsFiniteSet(From(delivery, s, a)) /\ IsFiniteSet(From(delivery, left, a))
  BY <1>1, FS_Subset
<1>3. /\ Cardinality(From(delivery, s, a)) \in Nat /\ Cardinality(From(delivery, left, a)) \in Nat
      /\ Cardinality(From(delivery, s, a) \ From(delivery, left, a)) = Cardinality(From(delivery, s, a)) - Cardinality(From(delivery, left, a))
      /\ Cardinality(From(delivery, s, a) \ From(delivery, left, a)) \in Nat
  BY <1>1, <1>2, PartLeft, Zenon
<1>4. _flush_expired(left, count)[a] = Max({0, count[a] - Cardinality(From(delivery, left, a))})
  <2>1. {f \in left : delivery[f].content.actor = a} = From(delivery, left, a)
    BY DEF From
  <2>2. QED
    BY <2>1 DEF _flush_expired
<1>5. QED
  BY <1>0, <1>1, <1>3, <1>4, MaxOfTwo

\* Nothing but a request to an inbox changes what became of the deliveries.
LEMMA InboxFrame ==
    ASSUME [Next]_vars
    PROVE  post_inbox \/ UNCHANGED inboxVars
<1>1. CASE UNCHANGED vars
  BY <1>1 DEF vars, federationVars, inboxVars
<1>2. CASE FederationNext
  BY <1>2 DEF FederationNext, receive_from_peer, sync_to_peer, receive_from_peer_with_anchor, route_hitl_proposal,
              publish, _route_local_db, _route_activitypub, HitlUnchanged, file_dispute, record_verdict,
              submit_evidence, CasesUnchanged, inboxVars
<1>3. CASE UNCHANGED federationVars
  BY <1>3 DEF federationVars, inboxVars
<1>4. QED
  BY <1>1, <1>2, <1>3 DEF Next

\* One more entry leaves the others as they were.
LEMMA Grown ==
    ASSUME NEW T, NEW s \in Seq(T), NEW x \in T
    PROVE  /\ Append(s, x) \in Seq(T) /\ Len(s) \in Nat /\ Len(Append(s, x)) = Len(s) + 1
           /\ DOMAIN s = 1..Len(s) /\ DOMAIN Append(s, x) = 1..(Len(s) + 1)
           /\ \A i \in 1..Len(s) : Append(s, x)[i] = s[i] /\ s[i] \in T
           /\ Append(s, x)[Len(s) + 1] = x
<1> DEFINE more == Append(s, x)
<1>1. more \in Seq(T) /\ Len(s) \in Nat /\ Len(more) = Len(s) + 1
  OBVIOUS
<1>2. \A i \in 1..Len(s) : more[i] = s[i] /\ s[i] \in T
  OBVIOUS
<1>3. more[Len(s) + 1] = x
  OBVIOUS
<1>4. DOMAIN s = 1..Len(s) /\ DOMAIN more = 1..Len(more)
  BY <1>1
<1>5. QED
  BY <1>1, <1>2, <1>3, <1>4

\* A function on the first numbers is a sequence.
LEMMA Listed ==
    ASSUME NEW T, NEW n \in Nat, NEW s \in [1..n -> T]
    PROVE  s \in Seq(T) /\ Len(s) = n
OBVIOUS

\* Whatever is ready is processed once more, and nothing else is.
LEMMA ProcessAppends ==
    ASSUME processed \in Seq(Seq(Handle)), NEW f, f = Len(processed) + 1, NEW handle \in Handle,
           NEW ready, process(f, handle, ready)
    PROVE  /\ processed' \in Seq(Seq(Handle)) /\ Len(processed') = Len(processed) + 1
           /\ \A g \in 1..Len(processed) :
                Len(processed'[g]) = IF g \in ready THEN Len(processed[g]) + 1 ELSE Len(processed[g])
           /\ Len(processed'[f]) = IF f \in ready THEN 1 ELSE 0
<1> DEFINE before == Append(processed, <<>>)
<1>1. /\ before \in Seq(Seq(Handle)) /\ Len(processed) \in Nat /\ Len(before) = Len(processed) + 1
      /\ DOMAIN before = 1..(Len(processed) + 1)
      /\ \A g \in 1..Len(processed) : before[g] = processed[g] /\ processed[g] \in Seq(Handle)
      /\ before[Len(processed) + 1] = <<>>
  <2>1. <<>> \in Seq(Handle)
    OBVIOUS
  <2>2. QED
    BY <2>1, Grown
<1>2. processed' = [g \in 1..(Len(processed) + 1) |->
                      IF g \in ready THEN Append(before[g], handle) ELSE before[g]]
  BY <1>1 DEF process
<1>3. \A g \in 1..(Len(processed) + 1) :
        /\ before[g] \in Seq(Handle)
        /\ Append(before[g], handle) \in Seq(Handle) /\ Len(Append(before[g], handle)) = Len(before[g]) + 1
  <2>1. \A g \in 1..(Len(processed) + 1) : before[g] \in Seq(Handle)
    BY <1>1
  <2> HIDE DEF before
  <2>2. QED
    BY <2>1
<1> HIDE DEF before
<1>4. \A g \in 1..(Len(processed) + 1) :
        /\ processed'[g] \in Seq(Handle)
        /\ Len(processed'[g]) = IF g \in ready THEN Len(before[g]) + 1 ELSE Len(before[g])
  BY <1>2, <1>3
<1>5. processed' \in Seq(Seq(Handle)) /\ Len(processed') = Len(processed) + 1
  <2>1. processed' \in [1..(Len(processed) + 1) -> Seq(Handle)]
    BY <1>2, <1>4
  <2>2. Len(processed) + 1 \in Nat
    BY <1>1
  <2>3. QED
    BY <2>1, <2>2, Listed
<1>6. /\ f \in 1..(Len(processed) + 1) /\ \A g \in 1..Len(processed) : g \in 1..(Len(processed) + 1)
      /\ before[f] = <<>> /\ Len(<<>>) = 0
  BY <1>1
<1>7. Len(processed'[f]) = IF f \in ready THEN 1 ELSE 0
  BY <1>4, <1>6
<1>8. QED
  BY <1>1, <1>4, <1>5, <1>6, <1>7

\* The counts of what waits with one more of an actor's.
LEMMA OneMoreHeld ==
    ASSUME NEW log, NEW s, IsFiniteSet(s), NEW f, f \notin s, NEW count, CountsAre(count, log, s)
    PROVE  CountsAre([count EXCEPT ![log[f].content.actor] = @ + 1], log, s \cup {f})
<1> DEFINE who == log[f].content.actor
           more == [count EXCEPT ![who] = @ + 1]
<1>0. DOMAIN count = Actor /\ DOMAIN more = Actor /\ \A a \in Actor : count[a] = Cardinality(From(log, s, a))
  BY DEF CountsAre
<1> SUFFICES ASSUME NEW a \in Actor
             PROVE  more[a] = Cardinality(From(log, s \cup {f}, a))
  BY <1>0 DEF CountsAre
<1>1. IsFiniteSet(From(log, s, a)) /\ f \notin From(log, s, a)
  <2>1. From(log, s, a) \subseteq s
    BY DEF From
  <2>2. QED
    BY <2>1, FS_Subset
<1>2. From(log, s \cup {f}, a) = IF who = a THEN From(log, s, a) \cup {f} ELSE From(log, s, a)
  BY DEF From
<1>3. CASE who = a
  <2>1. more[a] = count[a] + 1
    BY <1>0, <1>3
  <2>2. Cardinality(From(log, s, a) \cup {f}) = Cardinality(From(log, s, a)) + 1
    BY <1>1, FS_AddElement
  <2>3. QED
    BY <1>0, <1>2, <1>3, <2>1, <2>2
<1>4. CASE who # a
  <2>1. more[a] = count[a]
    BY <1>0, <1>4
  <2>2. QED
    BY <1>0, <1>2, <1>4, <2>1
<1>5. QED
  BY <1>3, <1>4

\* Activities of the kinds that others wait for do not wait themselves.
LEMMA NobodyWaitsForThose ==
    ASSUME NEW c, Dependant(c), NEW waiting, Dependant(waiting)
    PROVE  ~Answers(c, waiting)
<1>1. c.type \in {"Verdict", "AuditResponse"} /\ waiting.type \in {"Verdict", "AuditResponse"}
  BY DEF Dependant, CAUSAL_PREDECESSORS
<1>2. CAUSAL_PREDECESSORS[waiting.type][1] \in {"ArbitrationRequest", "AuditRequest"}
  BY <1>1 DEF CAUSAL_PREDECESSORS
<1>3. QED
  BY <1>1, <1>2 DEF Answers

\* What was in the buffer stays, is ready, or is dropped, and so is the arrival; what
\* stays does not wait for it.
Buffered(next, f, c) ==
    /\ next.held \subseteq held \cup {f} /\ Cardinality(next.held) <= MaxHeld
    /\ Unlinkable(c) => /\ next.held \subseteq held
                        /\ next.ready = {} /\ next.dropped = held \ next.held
    /\ ~Unlinkable(c) => /\ next.ready = (held \cup {f}) \ next.held /\ next.dropped = {}
                         /\ \A g \in next.held : ~Answers(c, delivery'[g].content)
                         /\ LinksSeen(c, next.seen)
    /\ seen \subseteq next.seen /\ (f \in next.held => Awaited(c) \notin next.seen)
    /\ \A g \in next.held : Linked(delivery'[g].content)
    /\ CountsAre(next.counts, delivery', next.held)

\* What the buffer becomes with a new arrival.
LEMMA BufferHolds ==
    ASSUME IsFiniteSet(held), Cardinality(held) <= MaxHeld, CountsAre(counts, delivery, held),
           \A g \in held : Linked(delivery[g].content),
           NEW f, f \notin held,
           NEW c, \A g \in held : delivery'[g] = delivery[g], delivery'[f].content = c,
           NEW n, NEW next, next = causal_ingest(f, c, n)
    PROVE  Buffered(next, f, c)
<1> DEFINE expired == {g \in held : g <= n}
           kept == held \ expired
           count == _flush_expired(expired, counts)
           seen1 == seen \cup SeenBy(c)
           fails == Unlinkable(c)
           hold == /\ ~fails /\ Dependant(c)
                   /\ OwnLink(c) # None /\ Awaited(c) \notin seen1
                   /\ _should_buffer(c.actor, kept, count)
           unblocked == IF fails \/ hold THEN {} ELSE _release_dependants(c, kept)
<1>1. /\ next.seen = seen1
      /\ next.held = IF hold THEN kept \cup {f} ELSE kept \ unblocked
      /\ next.counts = IF hold THEN [count EXCEPT ![c.actor] = @ + 1] ELSE _flush_expired(unblocked, count)
      /\ next.ready = IF fails THEN {} ELSE expired \cup unblocked \cup (IF hold THEN {} ELSE {f})
      /\ next.dropped = IF fails THEN expired ELSE {}
  BY DEF causal_ingest
<1>2. /\ expired \subseteq held /\ kept \subseteq held /\ f \notin kept
      /\ IsFiniteSet(kept) /\ Cardinality(kept) <= MaxHeld
  <2>1. expired \subseteq held /\ kept \subseteq held /\ f \notin kept
    OBVIOUS
  <2>2. IsFiniteSet(kept) /\ Cardinality(kept) <= Cardinality(held) /\ Cardinality(kept) \in Nat /\ Cardinality(held) \in Nat
    BY <2>1, FS_Subset, FS_CardinalityType, Zenon
  <2> HIDE DEF kept, expired
  <2>3. Cardinality(kept) <= MaxHeld
    BY <2>2, FederationAssumption
  <2>4. QED
    BY <2>1, <2>2, <2>3
<1>3. CountsAre(count, delivery, kept) /\ CountsAre(count, delivery', kept)
  <2>1. expired \in SUBSET held
    OBVIOUS
  <2> HIDE DEF expired
  <2>2. CountsAre(count, delivery, kept)
    BY <2>1, FlushCounts
  <2>3. \A a \in Actor : From(delivery, kept, a) = From(delivery', kept, a)
    BY DEF From
  <2> HIDE DEF kept, count
  <2>4. QED
    BY <2>2, <2>3 DEF CountsAre
<1>4. \A g \in kept : Linked(delivery'[g].content) /\ delivery'[g] = delivery[g]
  BY <1>2
<1>5. seen \subseteq seen1 /\ (~fails => LinksSeen(c, seen1))
  BY DEF SeenBy, LinksSeen
<1>6. CASE hold
  <2>1. ~fails /\ Linked(c) /\ Awaited(c) \notin seen1 /\ Cardinality(kept) < MaxHeld
    BY <1>6 DEF Linked, _should_buffer
  <2> HIDE DEF hold, fails, seen1
  <2>2. /\ next.held = kept \cup {f} /\ next.counts = [count EXCEPT ![c.actor] = @ + 1] /\ next.ready = expired
        /\ next.dropped = {} /\ next.seen = seen1
    BY <1>1, <1>6, <2>1
  <2>3. \A g \in next.held : Linked(delivery'[g].content)
    BY <1>4, <2>1, <2>2
  <2>4. \A g \in next.held : ~Answers(c, delivery'[g].content)
    BY <2>1, <2>3, NobodyWaitsForThose DEF Linked
  <2>5. Cardinality(kept \cup {f}) = Cardinality(kept) + 1 /\ Cardinality(kept) \in Nat
    BY <1>2, FS_AddElement, FS_CardinalityType
  <2>6. CountsAre(next.counts, delivery', next.held)
    <3> HIDE DEF kept, count
    <3>1. CountsAre([count EXCEPT ![delivery'[f].content.actor] = @ + 1], delivery', kept \cup {f})
      BY <1>2, <1>3, OneMoreHeld
    <3>2. QED
      BY <2>2, <3>1
  <2>7. Cardinality(next.held) <= MaxHeld
    <3> HIDE DEF kept
    <3>1. QED
      BY <2>1, <2>2, <2>5, FederationAssumption
  <2>8. next.held \subseteq held \cup {f} /\ next.ready = (held \cup {f}) \ next.held
    BY <1>2, <2>2
  <2>9. QED
    BY <1>5, <2>1, <2>2, <2>3, <2>4, <2>6, <2>7, <2>8 DEF fails, Buffered
<1>7. CASE ~hold
  <2> HIDE DEF hold
  <2>1. /\ unblocked = IF fails THEN {} ELSE _release_dependants(c, kept)
        /\ next.held = kept \ unblocked /\ next.counts = _flush_expired(unblocked, count)
        /\ next.ready = IF fails THEN {} ELSE expired \cup unblocked \cup {f}
        /\ next.dropped = IF fails THEN expired ELSE {}
        /\ next.seen = seen1
    BY <1>1, <1>7
  <2>2. unblocked \subseteq kept /\ (~fails => \A g \in kept \ unblocked : ~Answers(c, delivery'[g].content))
    BY <1>4, <2>1 DEF _release_dependants
  <2> HIDE DEF unblocked, fails, seen1
  <2>3. next.held \subseteq kept
    BY <2>1
  <2>4. CountsAre(next.counts, delivery', next.held)
    <3> HIDE DEF kept, count
    <3>1. unblocked \in SUBSET kept
      BY <2>2
    <3>2. CountsAre(next.counts, delivery, next.held)
      BY <1>2, <1>3, <2>1, <3>1, FlushCounts
    <3>3. \A a \in Actor : From(delivery, next.held, a) = From(delivery', next.held, a)
      BY <1>4, <2>3 DEF From
    <3>4. QED
      BY <3>2, <3>3 DEF CountsAre
  <2>5. Cardinality(next.held) <= MaxHeld
    <3> HIDE DEF kept
    <3>1. /\ Cardinality(next.held) <= Cardinality(kept)
          /\ Cardinality(next.held) \in Nat /\ Cardinality(kept) \in Nat
      BY <1>2, <2>3, FS_Subset, FS_CardinalityType
    <3>2. QED
      BY <1>2, <3>1, FederationAssumption
  <2>6. CASE fails
    <3>1. unblocked = {} /\ next.held = kept /\ next.ready = {} /\ next.dropped = expired
      BY <2>1, <2>6
    <3>2. next.held \subseteq held /\ next.dropped = held \ next.held /\ f \notin next.held
      BY <1>2, <3>1
    <3>3. \A g \in next.held : Linked(delivery'[g].content)
      BY <1>4, <2>3
    <3>4. QED
      BY <1>5, <2>1, <2>4, <2>5, <2>6, <3>1, <3>2, <3>3 DEF fails, Buffered
  <2>7. CASE ~fails
    <3>1. /\ next.held = kept \ unblocked /\ next.ready = expired \cup unblocked \cup {f} /\ next.dropped = {}
          /\ \A g \in next.held : ~Answers(c, delivery'[g].content)
      BY <2>1, <2>2, <2>7
    <3>2. next.held \subseteq held \cup {f} /\ next.ready = (held \cup {f}) \ next.held /\ f \notin next.held
      BY <1>2, <2>2, <3>1
    <3>3. \A g \in next.held : Linked(delivery'[g].content)
      BY <1>4, <2>3
    <3>4. QED
      BY <1>5, <2>1, <2>4, <2>5, <2>7, <3>1, <3>2, <3>3 DEF fails, Buffered
  <2>8. QED
    BY <2>6, <2>7
<1>8. QED
  BY <1>6, <1>7

\* What the invariant says of the buffer so far.
LEMMA BufferNow ==
    ASSUME InboxKept
    PROVE  /\ Len(delivery) \in Nat /\ IsFiniteSet(held) /\ CountsAre(counts, delivery, held)
           /\ Cardinality(held) <= MaxHeld
           /\ \A g \in held : Linked(delivery[g].content)
<1>1. Len(delivery) \in Nat /\ held \subseteq 1..Len(delivery)
  BY DEF InboxKept, Logged, HeldKept
<1>2. IsFiniteSet(held)
  <2>1. 1 \in Int /\ Len(delivery) \in Int
    BY <1>1
  <2>2. IsFiniteSet(1..Len(delivery))
    BY <2>1, FS_Interval
  <2>3. held \in SUBSET (1..Len(delivery))
    BY <1>1
  <2>4. QED
    BY <2>2, <2>3, FS_Subset, Zenon
<1>3. CountsAre(counts, delivery, held)
  BY DEF InboxKept, HeldKept, CountsMatchBuffer, CountsAre, From
<1>4. QED
  BY <1>1, <1>2, <1>3 DEF InboxKept, HeldKept

\* What an activity that was let through noted keeps its dependants from being held.
LEMMA NotedIsNotAwaited ==
    ASSUME NEW c, c.type # "Verdict" => LinksSeen(c, seen'), NEW waiting, Linked(waiting),
           Awaited(waiting) \notin seen'
    PROVE  ~Answers(c, waiting)
<1> SUFFICES ASSUME Answers(c, waiting)
             PROVE  FALSE
  OBVIOUS
<1> DEFINE needed == CAUSAL_PREDECESSORS[waiting.type]
<1>1. /\ needed[1] \in {"ArbitrationRequest", "AuditRequest"} /\ needed[2] \in LinkFields
      /\ OwnLink(waiting) # None
  BY DEF Linked, Dependant, CAUSAL_PREDECESSORS, LinkFields
<1>2. c.type = needed[1] /\ c.link[needed[2]] = OwnLink(waiting)
  BY DEF Answers
<1>3. Awaited(waiting) = <<needed[1], OwnLink(waiting)>>
  BY DEF Awaited
<1> HIDE DEF needed
<1>4. c.type # "Verdict"
  BY <1>1, <1>2
<1>5. <<c.type, c.link[needed[2]]>> \in seen'
  BY <1>1, <1>2, <1>4 DEF LinksSeen
<1>6. QED
  BY <1>2, <1>3, <1>5

\* A request to an inbox keeps what is known of every delivery.
LEMMA InboxStep ==
    ASSUME InboxKept, post_inbox
    PROVE  InboxKept'
<1> DEFINE f == Len(delivery) + 1
           past == 1..Len(delivery)
<1>1. PICK handle \in Handle, content \in Contents :
        /\ delivery' = Append(delivery, [handle |-> handle, content |-> _apply_translation(content)])
        /\ boundary_ingest(f, _apply_translation(content), handle)
  BY DEF post_inbox
<1> DEFINE c == _apply_translation(content)
           entry == [handle |-> handle, content |-> c]
<1>2. /\ delivery \in Seq([handle : Handle, content : Carried])
      /\ entry \in [handle : Handle, content : Carried] /\ entry.content = c
  BY DEF InboxKept, Logged, Carried
<1> HIDE DEF c, entry
<1>3. delivery' = Append(delivery, entry) /\ boundary_ingest(f, c, handle)
  BY <1>1 DEF c, entry
<1>4. /\ delivery' \in Seq([handle : Handle, content : Carried])
      /\ Len(delivery) \in Nat /\ Len(delivery') = f
      /\ \A g \in past : delivery'[g] = delivery[g]
      /\ delivery'[f].content = c
      /\ f \notin past /\ 1..f = past \cup {f} /\ \A g \in past : g < f
  BY <1>2, <1>3, Grown
<1>5. /\ processed \in Seq(Seq(Handle)) /\ Len(processed) = Len(delivery)
      /\ held \subseteq past /\ refused \subseteq past /\ raised \subseteq past /\ dropped \subseteq past
      /\ held \cap (refused \cup raised \cup dropped) = {}
      /\ Arrived = past /\ Arrived' = past \cup {f} /\ 1..Len(delivery') = past \cup {f}
  <2>1. DOMAIN delivery = 1..Len(delivery) /\ DOMAIN delivery' = 1..Len(delivery')
    BY <1>2, <1>4
  <2>2. QED
    BY <1>4, <2>1 DEF InboxKept, Logged, HeldKept, Arrived
<1>6. /\ \A g \in past : /\ Len(processed[g]) = IF g \in refused \cup held \cup raised \cup dropped THEN 0 ELSE 1
                         /\ \/ g \in raised \/ delivery[g].content.type = "Verdict"
                            \/ LinksSeen(delivery[g].content, seen)
      /\ \A g \in raised : delivery[g].content.bare
      /\ \A g \in dropped : g \notin held /\ \E h \in raised : g < h
      /\ \A g \in held, h \in past :
           Answers(delivery[h].content, delivery[g].content) => h \in raised
  BY <1>5 DEF InboxKept, SeenKept, NothingVanishes, HeldAwaitsPredecessor
<1>7. /\ IsFiniteSet(held) /\ CountsAre(counts, delivery, held) /\ Cardinality(held) <= MaxHeld
      /\ \A g \in held : Linked(delivery[g].content)
  BY BufferNow, Zenon
<1>8. Untranslatable(c) \/ Unlinkable(c) => c.bare
  BY DEF Untranslatable, Unlinkable
<1>9. /\ Len(processed) + 1 = f
      /\ processed' = Append(processed, <<>>) =>
           /\ processed' \in Seq(Seq(Handle)) /\ Len(processed') = f
           /\ \A g \in past : processed'[g] = processed[g]
           /\ Len(processed'[f]) = 0
  <2>1. <<>> \in Seq(Handle) /\ Len(<<>>) = 0 /\ Len(processed) + 1 = f
    BY <1>5
  <2>2. ASSUME processed' = Append(processed, <<>>)
        PROVE  /\ processed' \in Seq(Seq(Handle)) /\ Len(processed') = f
               /\ \A g \in past : processed'[g] = processed[g]
               /\ processed'[f] = <<>>
    BY <1>5, <2>1, <2>2, Grown
  <2>3. QED
    BY <2>1, <2>2
<1> HIDE DEF f, past
\* What is left to show of the sets of deliveries, whichever way it went.
<1>10. ASSUME processed' \in Seq(Seq(Handle)), Len(processed') = f,
              \A g \in past \cup {f} :
                Len(processed'[g]) = IF g \in (refused \cup held \cup raised \cup dropped)' THEN 0 ELSE 1,
              \A g \in past \cup {f} : \/ g \in raised' \/ delivery'[g].content.type = "Verdict"
                                       \/ LinksSeen(delivery'[g].content, seen'),
              held' \subseteq held \cup {f}, refused' \subseteq past \cup {f},
              raised' \subseteq past \cup {f}, dropped' \subseteq past,
              held' \cap (refused \cup raised \cup dropped)' = {},
              \A g \in raised' : delivery'[g].content.bare,
              \A g \in dropped' : \E h \in raised' : g < h,
              \A g \in held' : Linked(delivery'[g].content),
              \A g \in held', h \in past \cup {f} :
                Answers(delivery'[h].content, delivery'[g].content) => h \in raised',
              Cardinality(held') <= MaxHeld, CountsAre(counts', delivery', held')
       PROVE  InboxKept'
  <2>1. Logged'
    BY <1>4, <1>10 DEF Logged
  <2>2. HeldKept'
    BY <1>5, <1>10 DEF HeldKept, CountsAre
  <2>3. SeenKept'
    BY <1>5, <1>10 DEF SeenKept
  <2>4. NothingVanishes'
    <3>1. \A g \in dropped' : g \notin held'
      BY <1>10
    <3>2. QED
      BY <1>5, <1>10, <3>1 DEF NothingVanishes
  <2>5. HeldAwaitsPredecessor'
    BY <1>5, <1>10 DEF HeldAwaitsPredecessor
  <2>6. CountsMatchBuffer'
    BY <1>10 DEF CountsMatchBuffer, CountsAre, From
  <2>7. QED
    BY <2>1, <2>2, <2>3, <2>4, <2>5, <2>6 DEF InboxKept
<1>11. ASSUME processed' = Append(processed, <<>>), UNCHANGED <<held, counts, seen, dropped>>,
              raised \subseteq raised', refused \subseteq refused',
              raised' \cup refused' = raised \cup refused \cup {f}, raised' \subseteq raised \cup {f},
              f \in raised' => c.bare, f \notin raised' => c.type = "Verdict"
       PROVE  InboxKept'
  <2>1. \A g \in past \cup {f} :
          Len(processed'[g]) = IF g \in (refused \cup held \cup raised \cup dropped)' THEN 0 ELSE 1
    BY <1>4, <1>5, <1>6, <1>9, <1>11
  <2>2. \A g \in past \cup {f} : \/ g \in raised' \/ delivery'[g].content.type = "Verdict"
                                 \/ LinksSeen(delivery'[g].content, seen')
    BY <1>4, <1>6, <1>11
  <2>3. /\ held' \subseteq held \cup {f} /\ refused' \subseteq past \cup {f}
        /\ raised' \subseteq past \cup {f} /\ dropped' \subseteq past
        /\ held' \cap (refused \cup raised \cup dropped)' = {}
    BY <1>4, <1>5, <1>11
  <2>4. \A g \in raised' : delivery'[g].content.bare
    BY <1>4, <1>5, <1>6, <1>11
  <2>5. \A g \in dropped' : \E h \in raised' : g < h
    BY <1>6, <1>11
  <2>6. \A g \in held' : Linked(delivery'[g].content)
    BY <1>4, <1>5, <1>7, <1>11
  <2>7. \A g \in held', h \in past \cup {f} :
          Answers(delivery'[h].content, delivery'[g].content) => h \in raised'
    <3> SUFFICES ASSUME NEW g \in held', NEW h \in past \cup {f},
                        Answers(delivery'[h].content, delivery'[g].content), h \notin raised'
                 PROVE  FALSE
      OBVIOUS
    <3>1. g \in held /\ g \in past /\ delivery'[g] = delivery[g] /\ Linked(delivery[g].content)
      BY <1>4, <1>5, <1>7, <1>11
    <3>2. CASE h \in past
      BY <1>4, <1>6, <1>11, <3>1, <3>2
    <3>3. CASE h = f
      <4>1. c.type = "Verdict" /\ Answers(c, delivery[g].content)
        BY <1>4, <1>11, <3>1, <3>3
      <4>2. Dependant(c) /\ Dependant(delivery[g].content)
        BY <3>1, <4>1 DEF Dependant, Linked, CAUSAL_PREDECESSORS
      <4>3. QED
        BY <4>1, <4>2, NobodyWaitsForThose
    <3>4. QED
      BY <3>2, <3>3
  <2>8. Cardinality(held') <= MaxHeld /\ CountsAre(counts', delivery', held')
    <3>1. \A a \in Actor : From(delivery', held', a) = From(delivery, held, a)
      BY <1>4, <1>5, <1>11 DEF From
    <3>2. QED
      BY <1>7, <1>11, <3>1 DEF CountsAre
  <2>9. QED
    BY <1>9, <1>10, <1>11, <2>1, <2>2, <2>3, <2>4, <2>5, <2>6, <2>7, <2>8
<1>12. ASSUME NEW n, NEW next, next = causal_ingest(f, c, n)
       PROVE  Buffered(next, f, c)
  <2>1. f \notin held /\ \A g \in held : delivery'[g] = delivery[g]
    BY <1>4, <1>5
  <2>2. delivery'[f].content = c
    BY <1>4
  <2>3. QED
    BY <1>7, <1>12, <2>1, <2>2, BufferHolds
<1>13. ASSUME NEW n, NEW next, next = causal_ingest(f, c, n),
              held' = next.held, counts' = next.counts, seen' = next.seen, dropped' = dropped \cup next.dropped,
              Unlinkable(c), boundary_raises(f)
       PROVE  InboxKept'
  <2>1. /\ held' \subseteq held /\ dropped' = dropped \cup (held \ held')
        /\ seen \subseteq seen' /\ Cardinality(held') <= MaxHeld
        /\ \A g \in held' : Linked(delivery'[g].content)
        /\ CountsAre(counts', delivery', held')
    BY <1>12, <1>13 DEF Buffered
  <2>2. /\ raised' = raised \cup {f} /\ refused' = refused /\ processed' = Append(processed, <<>>) /\ c.bare
    BY <1>8, <1>13 DEF boundary_raises
  <2>3. \A g \in past \cup {f} :
          Len(processed'[g]) = IF g \in (refused \cup held \cup raised \cup dropped)' THEN 0 ELSE 1
    BY <1>4, <1>5, <1>6, <1>9, <2>1, <2>2
  <2>4. \A g \in past \cup {f} : \/ g \in raised' \/ delivery'[g].content.type = "Verdict"
                                 \/ LinksSeen(delivery'[g].content, seen')
    BY <1>4, <1>6, <2>1, <2>2 DEF LinksSeen
  <2>5. /\ held' \subseteq held \cup {f} /\ refused' \subseteq past \cup {f}
        /\ raised' \subseteq past \cup {f} /\ dropped' \subseteq past
        /\ held' \cap (refused \cup raised \cup dropped)' = {}
    BY <1>4, <1>5, <2>1, <2>2
  <2>6. \A g \in raised' : delivery'[g].content.bare
    BY <1>4, <1>5, <1>6, <2>2
  <2>7. \A g \in dropped' : \E h \in raised' : g < h
    BY <1>4, <1>5, <1>6, <2>1, <2>2
  <2>8. \A g \in held', h \in past \cup {f} :
          Answers(delivery'[h].content, delivery'[g].content) => h \in raised'
    BY <1>4, <1>5, <1>6, <2>1, <2>2
  <2>9. QED
    BY <1>9, <1>10, <2>1, <2>2, <2>3, <2>4, <2>5, <2>6, <2>7, <2>8
<1>14. ASSUME NEW n, NEW next, next = causal_ingest(f, c, n),
              held' = next.held, counts' = next.counts, seen' = next.seen, dropped' = dropped \cup next.dropped,
              ~Unlinkable(c), process(f, handle, next.ready), UNCHANGED <<refused, raised>>
       PROVE  InboxKept'
  <2>1. /\ held' \subseteq held \cup {f} /\ next.ready = (held \cup {f}) \ held' /\ dropped' = dropped
        /\ seen \subseteq seen' /\ Cardinality(held') <= MaxHeld /\ LinksSeen(c, seen')
        /\ \A g \in held' : ~Answers(c, delivery'[g].content)
        /\ (f \in held' => Awaited(c) \notin seen')
        /\ \A g \in held' : Linked(delivery'[g].content)
        /\ CountsAre(counts', delivery', held')
    BY <1>12, <1>14 DEF Buffered
  <2>2. /\ processed' \in Seq(Seq(Handle)) /\ Len(processed') = f
        /\ \A g \in past :
             Len(processed'[g]) = IF g \in next.ready THEN Len(processed[g]) + 1 ELSE Len(processed[g])
        /\ Len(processed'[f]) = IF f \in next.ready THEN 1 ELSE 0
    BY <1>5, <1>9, <1>14, ProcessAppends DEF past
  <2>3. \A g \in past \cup {f} :
          Len(processed'[g]) = IF g \in (refused \cup held \cup raised \cup dropped)' THEN 0 ELSE 1
    <3>1. ASSUME NEW g \in past
          PROVE  Len(processed'[g]) = IF g \in (refused \cup held \cup raised \cup dropped)' THEN 0 ELSE 1
      <4>1. /\ Len(processed'[g]) = IF g \in next.ready THEN Len(processed[g]) + 1 ELSE Len(processed[g])
            /\ Len(processed[g]) = IF g \in refused \cup held \cup raised \cup dropped THEN 0 ELSE 1
        BY <1>6, <2>2
      <4>2. (g \in next.ready <=> g \in held /\ g \notin held') /\ (g \in held' => g \in held)
        BY <1>4, <2>1
      <4>3. /\ refused' = refused /\ raised' = raised /\ dropped' = dropped
            /\ g \in held => g \notin refused \cup raised \cup dropped
        BY <1>5, <1>14, <2>1
      <4>4. QED
        BY <4>1, <4>2, <4>3
    <3>2. Len(processed'[f]) = IF f \in (refused \cup held \cup raised \cup dropped)' THEN 0 ELSE 1
      BY <1>4, <1>5, <1>14, <2>1, <2>2
    <3>3. QED
      BY <3>1, <3>2
  <2>4. \A g \in past \cup {f} : \/ g \in raised' \/ delivery'[g].content.type = "Verdict"
                                 \/ LinksSeen(delivery'[g].content, seen')
    BY <1>4, <1>6, <1>14, <2>1 DEF LinksSeen
  <2>5. /\ held' \subseteq held \cup {f} /\ refused' \subseteq past \cup {f}
        /\ raised' \subseteq past \cup {f} /\ dropped' \subseteq past
        /\ held' \cap (refused \cup raised \cup dropped)' = {}
    BY <1>4, <1>5, <1>14, <2>1
  <2>6. \A g \in raised' : delivery'[g].content.bare
    BY <1>4, <1>5, <1>6, <1>14
  <2>7. \A g \in dropped' : \E h \in raised' : g < h
    BY <1>6, <1>14, <2>1
  <2>8. ASSUME NEW g \in held', NEW h \in past \cup {f}, h \notin raised'
        PROVE  ~Answers(delivery'[h].content, delivery'[g].content)
    <3>1. CASE h = f
      BY <1>4, <2>1, <3>1
    <3>2. CASE h \in past /\ g \in held
      BY <1>4, <1>5, <1>6, <1>14, <2>8, <3>2
    <3>3. CASE h \in past /\ g = f
      <4>1. /\ delivery'[g].content = c /\ Linked(c) /\ Awaited(c) \notin seen'
        BY <1>4, <2>1, <2>8, <3>3
      <4>2. delivery'[h].content.type # "Verdict" => LinksSeen(delivery'[h].content, seen')
        BY <1>4, <2>4, <2>8, <3>3
      <4>3. PICK d : d = delivery'[h].content
        OBVIOUS
      <4>4. ~Answers(d, c)
        BY <4>1, <4>2, <4>3, NotedIsNotAwaited
      <4>5. QED
        BY <4>1, <4>3, <4>4
    <3>4. QED
      BY <2>1, <2>8, <3>1, <3>2, <3>3
  <2>9. QED
    BY <1>10, <2>1, <2>2, <2>3, <2>4, <2>5, <2>6, <2>7, <2>8
<1>15. CASE UNCHANGED <<held, counts, seen, dropped>> /\ boundary_raises(f) /\ Untranslatable(c)
  BY <1>8, <1>11, <1>15 DEF boundary_raises
<1>16. CASE /\ UNCHANGED <<held, counts, seen, dropped>> /\ governance_rejects(f, c)
            /\ ~evaluate(c)
  <2>1. c.type = "Verdict" /\ f \notin raised'
    BY <1>4, <1>5, <1>16 DEF evaluate, governance_rejects
  <2>2. QED
    BY <1>11, <1>16, <2>1 DEF governance_rejects
<1>17. QED
  BY <1>3, <1>13, <1>14, <1>15, <1>16 DEF boundary_ingest, boundary_accepts

\* The buffer, its counts and the log of what was processed agree for ever, whatever
\* arrives, expires, is released or is refused (boundary_agent.py, causal_buffer.py).
THEOREM InboxAgrees == Spec => []InboxKept
<1>1. Init => InboxKept
  <2> SUFFICES ASSUME Init
               PROVE  InboxKept
    OBVIOUS
  <2>1. /\ delivery = <<>> /\ held = {} /\ counts = [a \in Actor |-> 0] /\ seen = {}
        /\ refused = {} /\ raised = {} /\ dropped = {} /\ processed = <<>>
    BY DEF Init, FederationInit
  <2>2. Cardinality({}) = 0
    BY FS_EmptySet
  <2>3. Logged
    BY <2>1 DEF Logged
  <2>4. HeldKept
    BY <2>1, <2>2, FederationAssumption DEF HeldKept
  <2>5. NothingVanishes
    BY <2>1 DEF NothingVanishes, Arrived
  <2>6. HeldAwaitsPredecessor
    BY <2>1 DEF HeldAwaitsPredecessor
  <2>7. CountsMatchBuffer
    <3>1. \A a \in Actor : {g \in {} : delivery[g].content.actor = a} = {}
      OBVIOUS
    <3>2. QED
      BY <2>1, <2>2, <3>1 DEF CountsMatchBuffer
  <2>8. SeenKept
    BY <2>1 DEF SeenKept
  <2>9. QED
    BY <2>3, <2>4, <2>5, <2>6, <2>7, <2>8 DEF InboxKept
<1>2. InboxKept /\ [Next]_vars => InboxKept'
  <2> SUFFICES ASSUME InboxKept, [Next]_vars
               PROVE  InboxKept'
    OBVIOUS
  <2>1. CASE UNCHANGED inboxVars
    BY <2>1 DEF inboxVars, InboxKept, Logged, HeldKept, SeenKept, NothingVanishes, HeldAwaitsPredecessor, CountsMatchBuffer, Arrived
  <2>2. QED
    BY <2>1, InboxStep, InboxFrame
<1>3. QED
  BY <1>1, <1>2, PTL DEF Spec

\* Nothing that arrives vanishes or is done twice, but for what raises and what expires in
\* the same request: an activity was refused, is held, or was processed, once
\* (boundary_agent.py, causal_buffer.py).
THEOREM ArrivalsAreKept == Spec => []NothingVanishes
<1>1. InboxKept => NothingVanishes
  BY DEF InboxKept
<1>2. QED
  BY <1>1, InboxAgrees, PTL

\* Nothing is held for a predecessor that has been let through, by the link of its own
\* field (causal_buffer.py).
THEOREM HeldForReason == Spec => []HeldAwaitsPredecessor
<1>1. InboxKept => HeldAwaitsPredecessor
  BY DEF InboxKept
<1>2. QED
  BY <1>1, InboxAgrees, PTL

THEOREM BufferIsCounted == Spec => []CountsMatchBuffer
<1>1. InboxKept => CountsMatchBuffer
  BY DEF InboxKept
<1>2. QED
  BY <1>1, InboxAgrees, PTL

\* What is ready gets the handle of the request, and nothing else does.
LEMMA ProcessedFor ==
    ASSUME processed \in Seq(Seq(Handle)), NEW f, f = Len(processed) + 1, NEW handle \in Handle,
           NEW ready, process(f, handle, ready)
    PROVE  /\ \A g \in 1..Len(processed) :
                processed'[g] = IF g \in ready THEN Append(processed[g], handle) ELSE processed[g]
           /\ processed'[f] = IF f \in ready THEN <<handle>> ELSE <<>>
<1> DEFINE before == Append(processed, <<>>)
<1>1. /\ Len(processed) \in Nat /\ DOMAIN before = 1..(Len(processed) + 1)
      /\ \A g \in 1..Len(processed) : before[g] = processed[g]
      /\ before[Len(processed) + 1] = <<>>
  <2>1. <<>> \in Seq(Handle)
    OBVIOUS
  <2>2. QED
    BY <2>1, Grown
<1>2. processed' = [g \in 1..(Len(processed) + 1) |->
                      IF g \in ready THEN Append(before[g], handle) ELSE before[g]]
  BY <1>1 DEF process
<1> HIDE DEF before
<1>3. /\ f \in 1..(Len(processed) + 1) /\ \A g \in 1..Len(processed) : g \in 1..(Len(processed) + 1)
      /\ before[f] = <<>> /\ Append(<<>>, handle) = <<handle>>
  BY <1>1
<1>4. QED
  BY <1>1, <1>2, <1>3

(***************************************************************************)
(* What is left of "a list of (activity, local_handle) tuples"             *)
(* (causal_buffer.py:88): an activity is processed for the actor it was    *)
(* sent to, unless it is one that waits for a predecessor; then it may be  *)
(* processed for the recipient of a later request.                         *)
(***************************************************************************)
OnlyTheHeldGoAstray ==
    \A f \in Arrived : processed[f] # <<>> =>
      \/ processed[f] = <<delivery[f].handle>>
      \/ /\ Dependant(delivery[f].content)
         /\ \E g \in Arrived : f < g /\ processed[f] = <<delivery[g].handle>>

\* A request to an inbox gives its own handle to what arrives and to what it releases.
LEMMA StrayStep ==
    ASSUME InboxKept, OnlyTheHeldGoAstray, post_inbox
    PROVE  OnlyTheHeldGoAstray'
<1> DEFINE f == Len(delivery) + 1
<1>1. PICK handle \in Handle, content \in Contents :
        /\ delivery' = Append(delivery, [handle |-> handle, content |-> _apply_translation(content)])
        /\ boundary_ingest(f, _apply_translation(content), handle)
  BY DEF post_inbox
<1> DEFINE c == _apply_translation(content)
           entry == [handle |-> handle, content |-> c]
<1>2. /\ delivery \in Seq([handle : Handle, content : Carried])
      /\ entry \in [handle : Handle, content : Carried] /\ entry.content = c /\ entry.handle = handle
  BY DEF InboxKept, Logged, Carried
<1> HIDE DEF c, entry
<1>3. delivery' = Append(delivery, entry) /\ boundary_ingest(f, c, handle)
  BY <1>1 DEF c, entry
<1>4. /\ Len(delivery) \in Nat /\ Len(delivery') = f
      /\ \A g \in 1..Len(delivery) : delivery'[g] = delivery[g]
      /\ delivery'[f] = entry
      /\ f \notin 1..Len(delivery) /\ 1..f = 1..Len(delivery) \cup {f}
      /\ \A g \in 1..Len(delivery) : g < f
      /\ Arrived = 1..Len(delivery) /\ Arrived' = 1..f
  BY <1>2, <1>3, Grown DEF Arrived
<1>5. /\ processed \in Seq(Seq(Handle)) /\ Len(processed) = Len(delivery)
      /\ held \subseteq 1..Len(delivery)
      /\ \A g \in held : Dependant(delivery[g].content) /\ Len(processed[g]) = 0
  BY <1>4 DEF InboxKept, Logged, HeldKept, Linked, NothingVanishes
<1>6. \A g \in held : processed[g] = <<>>
  <2>1. \A g \in held : processed[g] \in Seq(Handle) /\ Len(processed[g]) = 0
    BY <1>5
  <2>2. \A s \in Seq(Handle) : Len(s) = 0 => s = <<>>
    OBVIOUS
  <2>3. QED
    BY <2>1, <2>2
<1> HIDE DEF f
<1>7. CASE processed' = Append(processed, <<>>)
  <2>1. /\ \A g \in 1..Len(delivery) : processed'[g] = processed[g]
        /\ processed'[f] = <<>>
    <3>1. <<>> \in Seq(Handle)
      OBVIOUS
    <3>2. QED
      BY <1>5, <1>7, <3>1, Grown DEF f
  <2>2. QED
    BY <1>4, <2>1 DEF OnlyTheHeldGoAstray
<1>8. ASSUME NEW n, NEW next, next = causal_ingest(f, c, n), held' = next.held,
             process(f, handle, next.ready), n \in {0} \cup held
      PROVE  OnlyTheHeldGoAstray'
  <2>1. next.ready \subseteq held \cup {f}
    BY <1>8 DEF causal_ingest, _release_dependants
  <2>2. /\ \A g \in 1..Len(delivery) :
             processed'[g] = IF g \in next.ready THEN Append(processed[g], handle) ELSE processed[g]
        /\ processed'[f] = IF f \in next.ready THEN <<handle>> ELSE <<>>
    BY <1>5, <1>8, ProcessedFor DEF f
  <2>3. ASSUME NEW g \in 1..Len(delivery), processed'[g] # <<>>
        PROVE  \/ processed'[g] = <<delivery'[g].handle>>
               \/ /\ Dependant(delivery'[g].content)
                  /\ \E h \in Arrived' : g < h /\ processed'[g] = <<delivery'[h].handle>>
    <3>1. CASE g \in next.ready
      <4>1. g \in held /\ processed'[g] = <<handle>>
        <5>1. g \in held
          BY <1>4, <2>1, <3>1
        <5>2. processed'[g] = Append(processed[g], handle)
          BY <2>2, <3>1
        <5>3. Append(<<>>, handle) = <<handle>>
          OBVIOUS
        <5>4. QED
          BY <1>6, <5>1, <5>2, <5>3
      <4>2. /\ Dependant(delivery'[g].content) /\ f \in Arrived' /\ g < f /\ delivery'[f].handle = handle
        BY <1>2, <1>4, <1>5, <4>1
      <4>3. processed'[g] = <<delivery'[f].handle>>
        BY <4>1, <4>2
      <4>4. QED
        BY <4>2, <4>3
    <3>2. CASE g \notin next.ready
      <4>1. processed'[g] = processed[g] /\ g \in Arrived /\ delivery'[g] = delivery[g]
        BY <1>4, <2>2, <3>2
      <4>2. \A h \in Arrived : h \in Arrived' /\ delivery'[h] = delivery[h]
        BY <1>4
      <4>3. QED
        BY <2>3, <4>1, <4>2 DEF OnlyTheHeldGoAstray
    <3>3. QED
      BY <3>1, <3>2
  <2>4. processed'[f] # <<>> => processed'[f] = <<delivery'[f].handle>>
    BY <1>2, <1>4, <2>2
  <2>5. QED
    BY <1>4, <2>3, <2>4 DEF OnlyTheHeldGoAstray
<1>9. QED
  BY <1>3, <1>7, <1>8 DEF boundary_ingest, boundary_raises, governance_rejects, boundary_accepts

\* Only what waited for a predecessor can be processed for someone else, and then for
\* the recipient of a request that came later (routers/federation.py:203-206).
THEOREM StraysWereHeld == Spec => []OnlyTheHeldGoAstray
<1>1. Init => OnlyTheHeldGoAstray
  BY DEF Init, FederationInit, OnlyTheHeldGoAstray, Arrived
<1>2. InboxKept /\ OnlyTheHeldGoAstray /\ [Next]_vars => OnlyTheHeldGoAstray'
  <2> SUFFICES ASSUME InboxKept, OnlyTheHeldGoAstray, [Next]_vars
               PROVE  OnlyTheHeldGoAstray'
    OBVIOUS
  <2>1. CASE UNCHANGED inboxVars
    BY <2>1 DEF inboxVars, OnlyTheHeldGoAstray, Arrived
  <2>2. QED
    BY <2>1, StrayStep, InboxFrame
<1>3. QED
  BY <1>1, <1>2, InboxAgrees, PTL DEF Spec

-----------------------------------------------------------------------------
(* Types.                                                                  *)

AppFields == {"preferred", "blank", "matches", "spec", "human", "container", "error"}
SpawnFields == {"agent", "known", "votes", "quorum", "compiled", "error"}

\* An application never has a container, and what is known or compiled has a description.
AppState(kind, s) ==
    /\ kind = "app" => DOMAIN s = AppFields /\ s.container = None
    /\ kind = "spawner" => /\ DOMAIN s = SpawnFields /\ s.known \in BOOLEAN /\ s.compiled \in BOOLEAN
                           /\ s.known = TRUE \/ s.compiled = TRUE => s.agent \in Agent
AppThreads == \A t \in Thread : AppState(Kind(t), State(t))

AppsKept ==
    /\ AppThreads
    /\ deployment \in [Thread -> {None, "proposed", "rejected", "failed"}]
    /\ active \subseteq Agent

\* A request in progress still has the stance it will record.
StancesKept ==
    /\ stance \in [Proposal -> [Voter -> StanceOption \cup {None}]]
    /\ \A r \in Request : request[r].at = "checked" => request[r].option \in StanceOption
    /\ Len(queue) <= MaxDepth

PenaltiesKept == penalty \in [Actor -> 0..FULL_PENALTY]

TradesKept ==
    /\ DOMAIN trade = Trade
    /\ \A e \in Trade :
         /\ trade[e] = [status |-> trade[e].status, buyer |-> trade[e].buyer, seller |-> trade[e].seller]
         /\ trade[e].status \in {None, "Active", "Released", "Disputed"}

PowerKept == paused \in BOOLEAN /\ battery \in Reading

\* The nodes of an application give it no container.
LEMMA EntryKeeps ==
    ASSUME NEW s, DOMAIN s = AppFields, NEW u \in FromEntry(s)
    PROVE  DOMAIN u = AppFields /\ u.container = s.container
<1>1. PICK a \in parse_app_request(s) : \E b \in search_app_catalog(a) : u \in propose_deployment(b)
  BY DEF FromEntry, Then
<1>2. DOMAIN a = AppFields /\ a.container = s.container
  BY DEF parse_app_request, AppFields
<1>3. PICK b \in search_app_catalog(a) : u \in propose_deployment(b)
  BY <1>1
<1>4. DOMAIN b = AppFields /\ b.container = s.container
  BY <1>2, <1>3 DEF search_app_catalog, AppFields
<1>5. CASE u = [b EXCEPT !.error = "no match"]
  BY <1>4, <1>5 DEF AppFields
<1>6. CASE \E top \in b.matches : u = [b EXCEPT !.spec = top, !.human = TRUE]
  BY <1>4, <1>6 DEF AppFields
<1>7. QED
  BY <1>3, <1>5, <1>6 DEF propose_deployment

\* One thread of the store or the spawner begins, or goes on.
LEMMA AppThreadKeeps ==
    ASSUME AppThreads, NEW t \in Thread, \A u \in Thread : u # t => thread'[u] = thread[u],
           AppState(thread'[t].kind, thread'[t].state)
    PROVE  AppThreads'
BY DEF AppThreads, AppState, Kind, State

LEMMA AppBegins ==
    ASSUME ThreadsKept, AppThreads, NEW t \in Thread, NEW kind, kind # "unborn", Fresh(t, kind),
           NEW next, NEW state, NEW told, Create(t, kind, next, state, told), AppState(kind, state)
    PROVE  AppThreads'
<1>1. /\ thread'[t] = [kind |-> kind, next |-> next, state |-> state, told |-> told]
      /\ \A u \in Thread : u # t => thread'[u] = thread[u]
  BY CreateExact
<1>2. thread'[t].kind = kind /\ thread'[t].state = state
  BY <1>1
<1>3. QED
  BY <1>1, <1>2, AppThreadKeeps

LEMMA AppGoesOn ==
    ASSUME ThreadsKept, AppThreads, NEW t \in Thread, Kind(t) \in {"app", "spawner"},
           NEW next, NEW state, Resume(t, next, state), AppState(Kind(t), state)
    PROVE  AppThreads'
<1>1. /\ thread'[t] = [kind |-> Kind(t), next |-> next, state |-> state, told |-> thread[t].told]
      /\ \A u \in Thread : u # t => thread'[u] = thread[u]
  BY ResumeExact DEF Decided
<1>2. thread'[t].kind = Kind(t) /\ thread'[t].state = state
  BY <1>1
<1>3. QED
  BY <1>1, <1>2, AppThreadKeeps

\* What compiling makes of a state, and what is registered.
LEMMA CompiledKeeps ==
    ASSUME NEW s, AppState("spawner", s), NEW c \in compile_agent_limits(s)
    PROVE  AppState("spawner", c)
<1>1. /\ DOMAIN s = SpawnFields /\ s.known \in BOOLEAN /\ s.compiled \in BOOLEAN
      /\ s.known = TRUE \/ s.compiled = TRUE => s.agent \in Agent
  BY DEF AppState
<1>2. CASE s.known = TRUE /\ c = [s EXCEPT !.compiled = TRUE]
  <2>1. DOMAIN c = SpawnFields /\ c.agent = s.agent /\ c.known = s.known /\ c.compiled = TRUE
    BY <1>1, <1>2 DEF SpawnFields
  <2>2. QED
    BY <1>1, <1>2, <2>1 DEF AppState
<1>3. CASE c = [s EXCEPT !.error = "compile"]
  <2>1. DOMAIN c = SpawnFields /\ c.agent = s.agent /\ c.known = s.known /\ c.compiled = s.compiled
    BY <1>1, <1>3 DEF SpawnFields
  <2>2. QED
    BY <1>1, <2>1 DEF AppState
<1>4. QED
  BY <1>2, <1>3 DEF compile_agent_limits

\* A step of the store or the spawner.
LEMMA AppsNextKeeps ==
    ASSUME ThreadsKept, AppsKept, AppsNext
    PROVE  AppsKept'
<1>0. AppThreads
  BY DEF AppsKept
<1>1. ASSUME NEW t \in Thread, request_app(t) PROVE AppsKept'
  <2>1. PICK preferred, blank :
          \E s \in FromEntry([preferred |-> preferred, blank |-> blank, matches |-> {}, spec |-> None,
                              human |-> TRUE, container |-> None, error |-> None]) :
            /\ Create(t, "app", "human_vote_app", s, s.error = None)
            /\ deployment' = [deployment EXCEPT ![t] = IF s.error = None THEN "proposed" ELSE None]
    BY <1>1 DEF request_app
  <2> DEFINE entry == [preferred |-> preferred, blank |-> blank, matches |-> {}, spec |-> None,
                       human |-> TRUE, container |-> None, error |-> None]
  <2>2. DOMAIN entry = AppFields /\ entry.container = None
    BY DEF AppFields
  <2>3. PICK s \in FromEntry(entry) :
          /\ Create(t, "app", "human_vote_app", s, s.error = None)
          /\ deployment' = [deployment EXCEPT ![t] = IF s.error = None THEN "proposed" ELSE None]
    BY <2>1
  <2> HIDE DEF entry
  <2>4. AppState("app", s)
    BY <2>2, <2>3, EntryKeeps DEF AppState
  <2>5. Fresh(t, "app") /\ UNCHANGED active
    BY <1>1 DEF request_app
  <2>6. AppThreads'
    BY <1>0, <2>3, <2>4, <2>5, AppBegins
  <2>7. QED
    BY <2>3, <2>5, <2>6 DEF AppsKept
<1>2. ASSUME NEW t \in Thread, vote_on_app(t) PROVE AppsKept'
  <2>1. Kind(t) = "app" /\ DOMAIN State(t) = AppFields /\ State(t).container = None /\ UNCHANGED active
    BY <1>0, <1>2 DEF vote_on_app, Told, AppThreads, AppState
  <2>2. CASE deployment' = [deployment EXCEPT ![t] = "rejected"] /\ UNCHANGED graphVars
    BY <1>0, <2>1, <2>2 DEF AppsKept, AppThreads, AppState, Kind, State, graphVars
  <2>3. ASSUME NEW s \in FromEntry([State(t) EXCEPT !.human = FALSE]), Resume(t, "human_vote_app", s),
               deployment' = [deployment EXCEPT ![t] =
                 IF s.error # None \/ s.container = None THEN "failed" ELSE "running"]
        PROVE  AppsKept'
    <3> DEFINE again == [State(t) EXCEPT !.human = FALSE]
    <3>1. DOMAIN again = AppFields /\ again.container = None /\ s \in FromEntry(again)
      BY <2>1, <2>3 DEF AppFields
    <3> HIDE DEF again
    <3>2. DOMAIN s = AppFields /\ s.container = None
      BY <3>1, EntryKeeps
    <3>3. AppState(Kind(t), s)
      BY <2>1, <3>2 DEF AppState
    <3>4. AppThreads'
      BY <1>0, <2>1, <2>3, <3>3, AppGoesOn
    <3>5. deployment' = [deployment EXCEPT ![t] = "failed"]
      BY <2>3, <3>2
    <3>6. QED
      BY <2>1, <3>4, <3>5 DEF AppsKept
  <2>4. QED
    BY <1>2, <2>2, <2>3 DEF vote_on_app
<1>3. ASSUME NEW t \in Thread, propose_agent(t) PROVE AppsKept'
  <2>1. PICK agent \in Agent, known \in BOOLEAN :
          \E s \in propose_ajd([Unspecified EXCEPT !.agent = agent, !.known = known]) :
            Create(t, "spawner", "human_vote", s, s.error = None)
    BY <1>3 DEF propose_agent
  <2> DEFINE ajd == [Unspecified EXCEPT !.agent = agent, !.known = known]
  <2>2. DOMAIN ajd = SpawnFields /\ ajd.agent = agent /\ ajd.known = known /\ ajd.compiled = FALSE
    BY DEF Unspecified, SpawnFields
  <2>3. PICK s \in propose_ajd(ajd) : Create(t, "spawner", "human_vote", s, s.error = None)
    BY <2>1
  <2> HIDE DEF ajd
  <2>4. DOMAIN s = SpawnFields /\ s.agent = agent /\ s.known = known /\ s.compiled = FALSE
    BY <2>2, <2>3 DEF propose_ajd, SpawnFields
  <2>5. AppState("spawner", s)
    BY <2>4 DEF AppState
  <2>6. Fresh(t, "spawner") /\ UNCHANGED appsVars
    BY <1>3 DEF propose_agent
  <2>7. AppThreads'
    BY <1>0, <2>3, <2>5, <2>6, AppBegins
  <2>8. QED
    BY <2>6, <2>7 DEF AppsKept, appsVars
<1>4. ASSUME NEW t \in Thread, vote_on_agent(t) PROVE AppsKept'
  <2>1. Kind(t) = "spawner" /\ AppState("spawner", State(t)) /\ UNCHANGED deployment
    BY <1>0, <1>4 DEF vote_on_agent, Told, AppThreads
  <2>2. PICK approved \in BOOLEAN :
          LET s == [State(t) EXCEPT !.votes = Append(@, approved)] IN
          IF VotesFor(s) < 1
          THEN Resume(t, "compile_agent_limits", s) /\ UNCHANGED active
          ELSE \E c \in compile_agent_limits([s EXCEPT !.quorum = TRUE]) : deploy_agent(t, c)
    BY <1>4 DEF vote_on_agent
  <2> DEFINE s == [State(t) EXCEPT !.votes = Append(@, approved)]
             q == [s EXCEPT !.quorum = TRUE]
  <2>3. AppState("spawner", s)
    BY <2>1 DEF AppState, SpawnFields
  <2>4. \/ Resume(t, "compile_agent_limits", s) /\ UNCHANGED active
        \/ \E c \in compile_agent_limits(q) : deploy_agent(t, c)
    BY <2>2
  <2> HIDE DEF s
  <2>5. AppState("spawner", q)
    BY <2>3 DEF AppState, SpawnFields
  <2>6. CASE Resume(t, "compile_agent_limits", s) /\ UNCHANGED active
    BY <1>0, <2>1, <2>3, <2>6, AppGoesOn DEF AppsKept
  <2> HIDE DEF q
  <2>7. ASSUME NEW c \in compile_agent_limits(q), deploy_agent(t, c) PROVE AppsKept'
    <3>1. AppState("spawner", c)
      BY <2>5, CompiledKeeps
    <3>2. AppState("spawner", [c EXCEPT !.error = "nothing compiled"])
      BY <3>1 DEF AppState, SpawnFields
    <3>3. AppState("spawner", [c EXCEPT !.compiled = FALSE])
      BY <3>1 DEF AppState, SpawnFields
    <3>4. PICK next, state : Resume(t, next, state) /\ AppState("spawner", state)
      BY <2>7, <3>1, <3>2, <3>3 DEF deploy_agent
    <3>5. AppThreads'
      BY <1>0, <2>1, <3>4, AppGoesOn
    <3>6. active' \subseteq Agent
      BY <2>7, <3>1 DEF deploy_agent, AppState, AppsKept
    <3>7. QED
      BY <2>1, <3>5, <3>6 DEF AppsKept
  <2>8. QED
    BY <2>4, <2>6, <2>7
<1>5. ASSUME NEW t \in Thread, vote_on_unknown_agent(t) PROVE AppsKept'
  <2> DEFINE one == [Unspecified EXCEPT !.votes = <<FALSE>>]
             two == [Unspecified EXCEPT !.votes = <<TRUE>>, !.quorum = TRUE, !.error = "nothing compiled"]
  <2>1. AppState("spawner", one) /\ AppState("spawner", two)
    BY DEF AppState, Unspecified, SpawnFields
  <2>2. /\ Fresh(t, "spawner") /\ UNCHANGED appsVars
        /\ \/ Create(t, "spawner", "compile_agent_limits", one, TRUE)
           \/ Create(t, "spawner", END, two, TRUE)
    BY <1>5 DEF vote_on_unknown_agent
  <2> HIDE DEF one, two
  <2>3. AppThreads'
    BY <1>0, <2>1, <2>2, AppBegins
  <2>4. QED
    BY <2>2, <2>3 DEF AppsKept, appsVars
<1>6. ASSUME NEW agent \in Agent, revoke_agent(agent) PROVE AppsKept'
  BY <1>0, <1>6 DEF revoke_agent, graphVars, AppsKept, AppThreads, AppState, Kind, State
<1>7. QED
  BY <1>1, <1>2, <1>3, <1>4, <1>5, <1>6 DEF AppsNext

\* Nobody else touches their threads.
LEMMA AppsAlone ==
    ASSUME AppsKept, AppsStand, UNCHANGED appsVars
    PROVE  AppsKept'
<1>1. ASSUME NEW t \in Thread PROVE AppState(Kind(t), State(t))'
  BY DEF AppsStand, AppsKept, AppThreads, AppState, Kind, State
<1>2. QED
  BY <1>1 DEF AppsKept, AppThreads, appsVars

\* The queue never outgrows its limit.
LEMMA QueueBound ==
    ASSUME QueueKept, Len(queue) <= MaxDepth,
           (\E job : enqueue_agent(job)) \/ work_begin \/ queue' = <<>> \/ UNCHANGED queue
    PROVE  Len(queue') <= MaxDepth
<1> DEFINE S == {queue[i] : i \in 1..Len(queue)}
<1>1. queue \in Seq(S) /\ Len(queue) \in Nat /\ MaxDepth \in Nat \ {0}
  BY DeliberationAssumption DEF QueueKept
<1> HIDE DEF S
<1>2. ASSUME NEW job, queue' = Append(queue, job), Len(queue) < MaxDepth PROVE Len(queue') <= MaxDepth
  <2> DEFINE T == S \cup {job}
  <2>1. queue \in Seq(T) /\ job \in T
    BY <1>1
  <2> HIDE DEF T
  <2>2. Len(queue') = Len(queue) + 1
    BY <1>2, <2>1
  <2>3. QED
    BY <1>1, <1>2, <2>2
<1>3. CASE queue # <<>> /\ queue' = Tail(queue)
  BY <1>1, <1>3
<1>4. CASE queue' = <<>>
  BY <1>1, <1>4
<1>5. QED
  BY <1>2, <1>3, <1>4 DEF enqueue_agent, work_begin

\* The stance of a request in progress is one that can be taken.
Options == \A r \in Request : request[r].at = "checked" => request[r].option \in StanceOption

LEMMA OptionKeeps ==
    ASSUME QueueKept, Options, NEW r \in Request, NEW req, request' = [request EXCEPT ![r] = req],
           req.at = "checked" => req.option \in StanceOption
    PROVE  Options'
<1>1. request'[r] = req /\ \A q \in Request : q # r => request'[q] = request[q]
  BY DEF QueueKept
<1>2. QED
  BY <1>1 DEF Options

LEMMA OptionsKeep ==
    ASSUME QueueKept, Options, DeliberationNext
    PROVE  Options'
<1>1. CASE UNCHANGED request
  BY <1>1 DEF Options
<1>2. Idle.at # "checked"
  BY DEF Idle
<1>3. ASSUME NEW r \in Request, request' = [request EXCEPT ![r] = Idle] PROVE Options'
  BY <1>2, <1>3, OptionKeeps
<1>4. ASSUME NEW r \in Request, NEW p \in Proposal, NEW m \in Voter, cast_stance(r, p, m) PROVE Options'
  <2>1. PICK option \in StanceOption :
          request' = [request EXCEPT ![r] = [at |-> "checked", p |-> p, m |-> m, option |-> option]]
    BY <1>4 DEF cast_stance
  <2>2. QED
    BY <2>1, OptionKeeps
<1>5. ASSUME NEW r \in Request, upsert_stance(r) PROVE Options'
  <2> DEFINE req == [request[r] EXCEPT !.at = "recorded"]
  <2>1. request[r] = [at |-> "checked", p |-> request[r].p, m |-> request[r].m, option |-> request[r].option]
    BY <1>5 DEF upsert_stance, QueueKept
  <2>2. req.at = "recorded" /\ request' = [request EXCEPT ![r] = req]
    BY <1>5, <2>1 DEF upsert_stance
  <2> HIDE DEF req
  <2>3. QED
    BY <2>2, OptionKeeps
<1>6. ASSUME NEW r \in Request, vote_graph(r) PROVE Options'
  <2>1. \/ request' = [request EXCEPT ![r] = [at |-> "closing", p |-> request[r].p, tally |-> stance[request[r].p]]]
        \/ request' = [request EXCEPT ![r] = Idle]
    BY <1>6 DEF vote_graph
  <2>2. QED
    BY <1>3, <2>1, OptionKeeps
<1>7. ASSUME NEW r \in Request, close_proposal(r) PROVE Options'
  <2> DEFINE req == [request[r] EXCEPT !.at = "closed"]
  <2>1. request[r] = [at |-> "closing", p |-> request[r].p, tally |-> request[r].tally]
    BY <1>7 DEF close_proposal, QueueKept
  <2>2. req.at = "closed" /\ request' = [request EXCEPT ![r] = req]
    BY <1>7, <2>1 DEF close_proposal
  <2> HIDE DEF req
  <2>3. QED
    BY <2>2, OptionKeeps
<1>8. ASSUME NEW r \in Request, enqueue_outcome(r) \/ insert_outcome(r) \/ toggle_reaction_write(r)
      PROVE  Options'
  BY <1>3, <1>8 DEF enqueue_outcome, insert_outcome, toggle_reaction_write
<1>9. ASSUME NEW r \in Request, NEW m \in Voter, toggle_reaction(r, m) PROVE Options'
  <2>1. request' = [request EXCEPT ![r] = [at |-> "toggling", key |-> <<"reaction", m>>,
                                           existing |-> <<"reaction", m>> \in rows]]
    BY <1>9 DEF toggle_reaction
  <2>2. QED
    BY <2>1, OptionKeeps
<1>10. ASSUME NEW r \in Request, NEW p \in Proposal, state_outcome(r, p) PROVE Options'
  <2>1. request' = [request EXCEPT ![r] = [at |-> "stating", p |-> p]]
    BY <1>10 DEF state_outcome
  <2>2. QED
    BY <2>1, OptionKeeps
<1>11. CASE work_begin \/ work_end \/ create_thread
  BY <1>1, <1>11 DEF work_begin, work_end, create_thread
<1>12. CASE \/ \E p \in Proposal : create_proposal(p) \/ create_task(p) \/ update_task(p)
            \/ \E m \in Voter : add_member(m) \/ remove_member(m)
  BY <1>1, <1>12 DEF create_proposal, create_task, update_task, add_member, remove_member
<1>13. CASE restart
  BY <1>2, <1>13 DEF restart, Options
<1>14. ASSUME NEW r \in Request, request_fails(r) PROVE Options'
  BY <1>3, <1>14 DEF request_fails
<1>15. QED
  BY <1>4, <1>5, <1>6, <1>7, <1>8, <1>9, <1>10, <1>11, <1>12, <1>13, <1>14 DEF DeliberationNext

\* A step of a deliberation queues one job, takes one, loses all, or leaves the queue alone.
LEMMA QueueMoves ==
    ASSUME DeliberationNext
    PROVE  (\E job : enqueue_agent(job)) \/ work_begin \/ queue' = <<>> \/ UNCHANGED queue
<1>1. CASE work_begin \/ work_end \/ create_thread
  BY <1>1 DEF work_end, create_thread
<1>2. ASSUME NEW p \in Proposal, create_proposal(p) \/ create_task(p) \/ update_task(p)
      PROVE  (\E job : enqueue_agent(job)) \/ UNCHANGED queue
  BY <1>2 DEF create_proposal, create_task, update_task
<1>3. ASSUME NEW m \in Voter, add_member(m) \/ remove_member(m) PROVE UNCHANGED queue
  BY <1>3 DEF add_member, remove_member
<1>4. ASSUME NEW r \in Request,
             upsert_stance(r) \/ vote_graph(r) \/ close_proposal(r) \/ toggle_reaction_write(r)
      PROVE  UNCHANGED queue
  BY <1>4 DEF upsert_stance, vote_graph, close_proposal, toggle_reaction_write
<1>5. ASSUME NEW r \in Request, enqueue_outcome(r) \/ insert_outcome(r)
      PROVE  (\E job : enqueue_agent(job)) \/ UNCHANGED queue
  BY <1>5 DEF enqueue_outcome, insert_outcome
<1>6. ASSUME NEW r \in Request, \/ \E m \in Voter : toggle_reaction(r, m)
                                \/ \E p \in Proposal : state_outcome(r, p) \/ \E m \in Voter : cast_stance(r, p, m)
      PROVE  UNCHANGED queue
  BY <1>6 DEF toggle_reaction, state_outcome, cast_stance
<1>7. ASSUME NEW r \in Request, request_fails(r) PROVE UNCHANGED queue
  BY <1>7 DEF request_fails
<1>8. CASE restart
  BY <1>8 DEF restart
<1>9. QED
  BY <1>1, <1>2, <1>3, <1>4, <1>5, <1>6, <1>7, <1>8 DEF DeliberationNext

LEMMA StancesKeep ==
    ASSUME QueueKept, StancesKept, DeliberationNext
    PROVE  StancesKept'
<1>1. Options' /\ Len(queue') <= MaxDepth
  BY OptionsKeep, QueueMoves, QueueBound DEF StancesKept, Options
<1>2. CASE UNCHANGED stance
  BY <1>1, <1>2 DEF StancesKept, Options
<1>3. ASSUME NEW r \in Request, upsert_stance(r) PROVE stance' \in [Proposal -> [Voter -> StanceOption \cup {None}]]
  <2>1. request[r].option \in StanceOption
    BY <1>3 DEF upsert_stance, StancesKept
  <2>2. /\ stance \in [Proposal -> [Voter -> StanceOption \cup {None}]]
        /\ stance' = [stance EXCEPT ![request[r].p][request[r].m] = request[r].option]
    BY <1>3 DEF upsert_stance, StancesKept
  <2>3. QED
    BY <2>1, <2>2
<1>4. ASSUME NEW r \in Request, request_fails(r)
      PROVE  UNCHANGED stance \/ stance' \in [Proposal -> [Voter -> StanceOption \cup {None}]]
  <2>1. \/ UNCHANGED stance
        \/ /\ request[r].at = "checked"
           /\ stance' = [stance EXCEPT ![request[r].p][request[r].m] = request[r].option]
    BY <1>4 DEF request_fails, CarriedOut, NotCarriedOut
  <2>2. stance \in [Proposal -> [Voter -> StanceOption \cup {None}]]
    BY DEF StancesKept
  <2>3. QED
    BY <2>1, <2>2 DEF StancesKept
<1>5. UNCHANGED stance \/ \E r \in Request : upsert_stance(r) \/ request_fails(r)
  BY DEF DeliberationNext, work_begin, work_end, create_thread, create_proposal, create_task, update_task,
         add_member, remove_member, vote_graph, close_proposal, enqueue_outcome, insert_outcome,
         toggle_reaction_write, toggle_reaction, state_outcome, cast_stance, restart
<1>6. QED
  BY <1>1, <1>2, <1>3, <1>4, <1>5 DEF StancesKept, Options

\* The lesser and the greater of two.
LEMMA OfTwo ==
    ASSUME NEW x \in Int, NEW y \in Int
    PROVE  /\ Min({x, y}) \in {x, y} /\ Min({x, y}) <= x /\ Min({x, y}) <= y
           /\ Max({x, y}) \in {x, y} /\ Max({x, y}) >= x /\ Max({x, y}) >= y
<1>1. (\E m \in {x, y} : \A z \in {x, y} : m <= z) /\ (\E m \in {x, y} : \A z \in {x, y} : m >= z)
  <2>1. CASE x <= y
    BY <2>1
  <2>2. CASE y <= x
    BY <2>2
  <2>3. QED
    BY <2>1, <2>2
<1>2. Min({x, y}) = CHOOSE m \in {x, y} : \A z \in {x, y} : m <= z
  BY Zenon DEF Min
<1>3. Max({x, y}) = CHOOSE m \in {x, y} : \A z \in {x, y} : m >= z
  BY Zenon DEF Max
<1>4. QED
  BY <1>1, <1>2, <1>3

\* However bad or good an outcome, the penalty stays within its scale.
LEMMA PenaltyInScale ==
    ASSUME NEW p \in 0..FULL_PENALTY, NEW quarantined \in BOOLEAN, NEW recovery \in Nat
    PROVE  record_outcome_of(p, quarantined, recovery) \in 0..FULL_PENALTY
<1>1. CASE quarantined
  <2>1. record_outcome_of(p, quarantined, recovery) = Min({FULL_PENALTY, p + 20})
    BY <1>1 DEF record_outcome_of
  <2>2. Min({FULL_PENALTY, p + 20}) \in {FULL_PENALTY, p + 20} /\ Min({FULL_PENALTY, p + 20}) <= FULL_PENALTY
    <3>1. FULL_PENALTY \in Int /\ p + 20 \in Int
      BY DEF FULL_PENALTY
    <3>2. QED
      BY <3>1, OfTwo
  <2>3. QED
    BY <2>1, <2>2 DEF FULL_PENALTY
<1>2. CASE ~quarantined
  <2>1. record_outcome_of(p, quarantined, recovery) = Max({0, p - recovery})
    BY <1>2 DEF record_outcome_of
  <2>2. Max({0, p - recovery}) \in {0, p - recovery} /\ Max({0, p - recovery}) >= 0
    <3>1. 0 \in Int /\ p - recovery \in Int
      BY DEF FULL_PENALTY
    <3>2. QED
      BY <3>1, OfTwo
  <2>3. QED
    BY <2>1, <2>2 DEF FULL_PENALTY
<1>3. QED
  BY <1>1, <1>2

\* A step of the federation keeps the penalties within their scale.
LEMMA PenaltiesKeep ==
    ASSUME InboxKept, PenaltiesKept, FederationNext
    PROVE  PenaltiesKept'
<1>1. CASE UNCHANGED penalty
  BY <1>1 DEF PenaltiesKept
<1>2. ASSUME NEW a, NEW quarantined \in BOOLEAN, NEW recovery \in Nat,
             penalty' = [penalty EXCEPT ![a] = record_outcome_of(@, quarantined, recovery)]
      PROVE  PenaltiesKept'
  <2>1. CASE a \in Actor
    <3>1. record_outcome_of(penalty[a], quarantined, recovery) \in 0..FULL_PENALTY
      BY <2>1, PenaltyInScale DEF PenaltiesKept
    <3>2. QED
      BY <1>2, <3>1 DEF PenaltiesKept
  <2>2. CASE a \notin Actor
    BY <1>2, <2>2 DEF PenaltiesKept
  <2>3. QED
    BY <2>1, <2>2
<1>3. ASSUME NEW a \in Actor, NEW cids, receive_from_peer(a, cids) PROVE PenaltiesKept'
  <2>1. penalty' = [penalty EXCEPT ![a] = record_outcome_of(@, Denied(a), 2)] /\ Denied(a) \in BOOLEAN
    BY <1>3 DEF receive_from_peer, ingest_sync, Denied
  <2>2. QED
    BY <1>2, <2>1
<1>4. CASE post_inbox
  <2>1. PICK f, c, handle : boundary_ingest(f, c, handle)
    BY <1>4 DEF post_inbox
  <2>2. CASE penalty' = [penalty EXCEPT ![c.actor] = record_outcome_of(@, TRUE, 0)]
    BY <1>2, <2>2
  <2>3. ASSUME NEW n,
               LET next == causal_ingest(f, c, n)
                   kindOf(g) == IF g = f THEN c ELSE delivery[g].content
                   outcomes_ == IF next.ready = {} THEN {f} ELSE next.ready
                   weight == [g \in outcomes_ |-> INTERACTION_RISK_WEIGHTS(kindOf(g).type)]
                   recovery(a) == SumFunctionOnSet(weight, {g \in outcomes_ : kindOf(g).actor = a})
               IN  penalty' = [a \in Actor |-> record_outcome_of(penalty[a], FALSE, recovery(a))]
        PROVE  PenaltiesKept'
    <3> DEFINE next == causal_ingest(f, c, n)
               kindOf(g) == IF g = f THEN c ELSE delivery[g].content
               some == IF next.ready = {} THEN {f} ELSE next.ready
               weight == [g \in some |-> INTERACTION_RISK_WEIGHTS(kindOf(g).type)]
               share(a) == {g \in some : kindOf(g).actor = a}
               recovery(a) == SumFunctionOnSet(weight, share(a))
    <3>1. IsFiniteSet(some)
      <4>1. IsFiniteSet(held \cup {f})
        BY BufferNow, FS_AddElement
      <4>2. some \subseteq held \cup {f}
        BY DEF causal_ingest, _release_dependants
      <4> HIDE DEF some
      <4>3. QED
        BY <4>1, <4>2, FS_Subset
    <3>2. \A g \in some : weight[g] \in Nat
      <4>1. \A type : INTERACTION_RISK_WEIGHTS(type) \in Nat
        BY DEF INTERACTION_RISK_WEIGHTS
      <4> HIDE DEF some, kindOf
      <4>2. QED
        BY <4>1
    <3>3. ASSUME NEW a \in Actor PROVE recovery(a) \in Nat
      <4>1. share(a) \subseteq some
        OBVIOUS
      <4> HIDE DEF some, weight, share
      <4>2. IsFiniteSet(share(a)) /\ \A g \in share(a) : weight[g] \in Nat
        BY <3>1, <3>2, <4>1, FS_Subset
      <4>3. QED
        BY <4>2, SumNat
    <3>4. penalty' = [a \in Actor |-> record_outcome_of(penalty[a], FALSE, recovery(a))]
      BY <2>3
    <3> HIDE DEF recovery
    <3>5. \A a \in Actor : record_outcome_of(penalty[a], FALSE, recovery(a)) \in 0..FULL_PENALTY
      BY <3>3, PenaltyInScale DEF PenaltiesKept
    <3>6. QED
      BY <3>4, <3>5 DEF PenaltiesKept
  <2>4. QED
    BY <1>1, <2>1, <2>2, <2>3 DEF boundary_ingest, boundary_raises, governance_rejects, boundary_accepts
<1>5. UNCHANGED penalty \/ post_inbox \/ \E a \in Actor, cids \in SUBSET Cid : receive_from_peer(a, cids)
  BY DEF FederationNext, sync_to_peer, receive_from_peer_with_anchor, route_hitl_proposal, publish,
         _route_local_db, _route_activitypub, HitlUnchanged, file_dispute, record_verdict, submit_evidence,
         CasesUnchanged
<1>6. QED
  BY <1>1, <1>3, <1>4, <1>5

\* A trade goes on only from Active, to released or disputed.
LEMMA TradesKeep ==
    ASSUME TradesKept, AuditNext
    PROVE  TradesKept'
<1>1. CASE UNCHANGED trade
  BY <1>1 DEF TradesKept
<1>2. ASSUME NEW e \in Trade, NEW new, trade' = [trade EXCEPT ![e] = new],
             new = [status |-> new.status, buyer |-> new.buyer, seller |-> new.seller],
             new.status \in {"Active", "Released", "Disputed"}
      PROVE  TradesKept'
  <2>1. DOMAIN trade' = Trade /\ trade'[e] = new /\ \A d \in Trade : d # e => trade'[d] = trade[d]
    BY <1>2 DEF TradesKept
  <2>2. QED
    BY <1>2, <2>1 DEF TradesKept
<1>3. ASSUME NEW e \in Trade, create_escrow(e) PROVE TradesKept'
  <2>1. PICK buyer, seller : trade' = [trade EXCEPT ![e] = [status |-> "Active", buyer |-> buyer, seller |-> seller]]
    BY <1>3 DEF create_escrow
  <2>2. QED
    BY <1>2, <2>1
<1>4. ASSUME NEW e \in Trade, NEW status \in {"Released", "Disputed"}, trade' = [trade EXCEPT ![e].status = status]
      PROVE  TradesKept'
  <2> DEFINE new == [trade[e] EXCEPT !.status = status]
  <2>1. trade[e] = [status |-> trade[e].status, buyer |-> trade[e].buyer, seller |-> trade[e].seller]
    BY DEF TradesKept
  <2>2. new = [status |-> status, buyer |-> trade[e].buyer, seller |-> trade[e].seller]
    BY <2>1
  <2>3. trade' = [trade EXCEPT ![e] = new] /\ new.status = status
    BY <1>4, <2>2
  <2>4. new = [status |-> new.status, buyer |-> new.buyer, seller |-> new.seller]
    BY <2>2
  <2> HIDE DEF new
  <2>5. QED
    BY <1>2, <2>3, <2>4
<1>5. ASSUME NEW e \in Trade, dispute_escrow(e) \/ record_outcome(e) \/ \E user \in Coop : release_escrow(e, user)
      PROVE  TradesKept'
  BY <1>1, <1>4, <1>5 DEF dispute_escrow, record_outcome, release_escrow
<1>6. ASSUME NEW t \in Thread, assess_trading_partners(t) PROVE TradesKept'
  BY <1>1, <1>6 DEF assess_trading_partners, auditVars
<1>7. QED
  BY <1>3, <1>5, <1>6 DEF AuditNext

LEMMA PowerKeeps ==
    ASSUME PowerKept, EnergyNext
    PROVE  PowerKept'
BY DEF EnergyNext, PowerKept, receive_power_state, sense, process_queue, flush, enqueue, energy_gated_execution

\* The shapes that no other invariant keeps.
TypesKept == AppsKept /\ StancesKept /\ PenaltiesKept /\ TradesKept /\ PowerKept

LEMMA TypesBegin ==
    ASSUME Init
    PROVE  TypesKept
<1>1. AppsKept
  <2>1. \A t \in Thread : Kind(t) = "unborn"
    BY DEF Init, GraphInit, Kind, Unborn
  <2>2. AppThreads
    BY <2>1 DEF AppThreads, AppState
  <2>3. QED
    BY <2>2 DEF Init, AppsInit, AppsKept
<1>2. StancesKept
  BY DeliberationAssumption DEF Init, DeliberationInit, StancesKept, Idle
<1>3. PenaltiesKept
  BY DEF Init, FederationInit, PenaltiesKept, INITIAL_PENALTY, FULL_PENALTY
<1>4. TradesKept
  BY DEF Init, AuditInit, TradesKept
<1>5. PowerKept
  BY DEF Init, EnergyInit, PowerKept, Reading
<1>6. QED
  BY <1>1, <1>2, <1>3, <1>4, <1>5 DEF TypesKept

\* Each part keeps its own, and leaves the others' alone.
LEMMA TypesStep ==
    ASSUME TypesKept, ThreadsKept, QueueKept, InboxKept, [Next]_vars
    PROVE  TypesKept'
<1>1. AppsKept'
  <2>1. CASE AppsNext
    BY <2>1, AppsNextKeeps DEF TypesKept
  <2>2. CASE ~AppsNext
    <3>1. AppsStand
      BY <2>2, NextThreadStep
    <3>2. UNCHANGED appsVars
      BY <2>2 DEF Next, vars
    <3>3. QED
      BY <3>1, <3>2, AppsAlone DEF TypesKept
  <2>3. QED
    BY <2>1, <2>2
<1>2. StancesKept'
  <2>1. CASE DeliberationNext
    BY <2>1, StancesKeep DEF TypesKept
  <2>2. CASE UNCHANGED deliberationVars
    BY <2>2 DEF deliberationVars, TypesKept, StancesKept
  <2>3. QED
    BY <2>1, <2>2 DEF Next, vars
<1>3. PenaltiesKept'
  <2>1. CASE FederationNext
    BY <2>1, PenaltiesKeep DEF TypesKept
  <2>2. CASE UNCHANGED federationVars
    BY <2>2 DEF federationVars, TypesKept, PenaltiesKept
  <2>3. QED
    BY <2>1, <2>2 DEF Next, vars
<1>4. TradesKept'
  <2>1. CASE AuditNext
    BY <2>1, TradesKeep DEF TypesKept
  <2>2. CASE UNCHANGED auditVars
    BY <2>2 DEF auditVars, TypesKept, TradesKept
  <2>3. QED
    BY <2>1, <2>2 DEF Next, vars
<1>5. PowerKept'
  <2>1. CASE EnergyNext
    BY <2>1, PowerKeeps DEF TypesKept
  <2>2. CASE UNCHANGED energyVars
    BY <2>2 DEF energyVars, TypesKept, PowerKept
  <2>3. FederationNext => UNCHANGED energyVars
    BY DEF FederationNext, post_inbox, receive_from_peer, sync_to_peer, receive_from_peer_with_anchor,
           route_hitl_proposal, publish, _route_local_db, _route_activitypub, file_dispute, record_verdict,
           submit_evidence, Untouched
  <2>4. QED
    BY <2>1, <2>2, <2>3 DEF Next, vars
<1>6. QED
  BY <1>1, <1>2, <1>3, <1>4, <1>5 DEF TypesKept

LEMMA TypesAlways == Spec => []TypesKept
<1>1. Init => TypesKept
  BY TypesBegin
<1>2. TypesKept /\ DecisionsKept /\ DraftsOnTheWay /\ InboxKept /\ [Next]_vars => TypesKept'
  BY TypesStep DEF DecisionsKept, DraftsOnTheWay
<1>3. QED
  BY <1>1, <1>2, DecisionsAlways, DraftsAlways, InboxAgrees, PTL DEF Spec

\* A score within its scale, in the terms of the type.
LEMMA InScale ==
    ASSUME NEW p, NEW now \in Nat, ProfileAt(p, now)
    PROVE  p.raw \in 0..MaxScore /\ p.updated <= now
<1>1. p.raw \in Nat /\ p.raw <= MaxScore /\ p.updated \in 0..now
  BY Zenon DEF ProfileAt
<1>2. MaxScore \in Nat
  BY DEF MaxScore
<1>3. QED
  BY <1>1, <1>2

(***************************************************************************)
(* Every part keeps its state within the shapes its handlers read, however *)
(* the requests to the parts interleave: no store thread ever reports a    *)
(* running container, an agent is registered only under a name it has, a   *)
(* stance is one of the options, the queue and the causal buffer stay      *)
(* within their limits, a penalty and a score within their scales, and     *)
(* policies are in force only of a manifest that was loaded.               *)
(***************************************************************************)
THEOREM LegacyTyped == Spec => []TypeOK
<1>1. ASSUME DecisionsKept, BootsKept, AssetsKept, LedgerKept, ProfilesKept, InboxKept, TypesKept
      PROVE  TypeOK
  <2>1. \A t \in Thread : Kind(t) # "unborn" => {"next", "state", "told"} \subseteq DOMAIN thread[t]
    <3> SUFFICES ASSUME NEW t \in Thread, Kind(t) # "unborn"
                 PROVE  {"next", "state", "told"} \subseteq DOMAIN thread[t]
      OBVIOUS
    <3>1. thread[t] = [kind |-> Kind(t), next |-> thread[t].next, state |-> State(t), told |-> thread[t].told]
      BY <1>1, Zenon DEF DecisionsKept, ThreadsKept
    <3> DEFINE row == thread[t]
    <3>2. \E kind, next, state, told : row = [kind |-> kind, next |-> next, state |-> state, told |-> told]
      BY <3>1, Zenon
    <3> HIDE DEF row
    <3>3. {"next", "state", "told"} \subseteq DOMAIN row
      BY <3>2
    <3>4. QED
      BY <3>3, Zenon DEF row
  <2>2. balance \in [Member -> Nat]
    BY <1>1 DEF LedgerKept
  <2>3. \A d \in Sdc : profile[d].raw \in 0..MaxScore /\ profile[d].updated <= clock
    <3>1. clock \in Nat /\ \A d \in Sdc : ProfileAt(profile[d], clock)
      BY <1>1, Zenon DEF ProfilesKept
    <3>2. QED
      BY <3>1, InScale
  <2>4. held \subseteq Arrived /\ Cardinality(held) <= MaxHeld
    <3>1. DOMAIN delivery = 1..Len(delivery)
      BY <1>1 DEF InboxKept, Logged
    <3>2. QED
      BY <1>1, <3>1 DEF InboxKept, HeldKept, Arrived
  <2>5. manifest.loaded \/ manifest.policies = {}
    BY <1>1 DEF BootsKept
  <2>6. \A c \in Asset : asset[c].status \in Statuses \cup {None} /\ asset[c].deps \subseteq Asset
    BY <1>1, Zenon DEF AssetsKept
  <2>7. (\A t \in Thread : deployment[t] \in {None, "proposed", "rejected", "failed"}) /\ active \subseteq Agent
    BY <1>1 DEF TypesKept, AppsKept
  <2>8. \A e \in Trade : trade[e].status \in {None, "Active", "Released", "Disputed"}
    BY <1>1, Zenon DEF TypesKept, TradesKept
  <2>9. /\ paused \in BOOLEAN /\ battery \in Reading
        /\ stance \in [Proposal -> [Voter -> StanceOption \cup {None}]] /\ Len(queue) <= MaxDepth
        /\ penalty \in [Actor -> 0..FULL_PENALTY]
    BY <1>1, Zenon DEF TypesKept, PowerKept, StancesKept, PenaltiesKept
  <2>10. QED
    BY <2>1, <2>2, <2>3, <2>4, <2>5, <2>6, <2>7, <2>8, <2>9, Zenon DEF TypeOK
<1>2. Spec => [](DecisionsKept /\ BootsKept /\ AssetsKept)
  BY DecisionsAlways, BootsAlways, AssetsAlways, PTL
<1>3. Spec => [](LedgerKept /\ ProfilesKept /\ InboxKept /\ TypesKept)
  BY LedgerAlways, ProfilesAlways, InboxAgrees, TypesAlways, PTL
<1>4. QED
  BY <1>1, <1>2, <1>3, PTL
=============================================================================
