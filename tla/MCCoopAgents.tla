---------------------------- MODULE MCCoopAgents ----------------------------
\* The instances of CoopAgents that TLC checks.
EXTENDS CoopAgents, TLC

\* Parts that share state are explored together, and those whose nodes poll the daemon's
\* pause flag while it changes.
MCMixes == {{"governance", "treasury", "power"}, {"fiat", "power"}, {"procurement", "power"},
            {"credits"}, {"energy"}, {"vetting", "power"}, {"escrow"}, {"library", "curation"},
            {"contribution", "power"}, {"scores", "power"}, {"frs", "embassy"}, {"library", "research"},
            {"credentials"}, {"app", "power"}, {"spawner"}, {"stances"}, {"board"},
            {"genesis", "settlement"}, {"founders"}, {"mesh"}, {"inbox"}, {"sync"}, {"hitl"},
            {"case", "power"}}

\* The two jurisdictions with rules of their own, and rules as bylaws have them: a cap, a
\* floor, a prohibition for one agent, and one that the engine cannot read.
Rule(constraint, types, key, value, agents) ==
    [constraint |-> constraint, types |-> types, key |-> key, value |-> value, applies_to |-> agents]
MCUniversal == {Rule("RequireApproval", {"transfer", "external_payment"}, None, 0, {})}
MCTemplates == [UNIVERSAL |-> MCUniversal,
                GB |-> MCUniversal \cup {Rule("MinValue", {}, "members", 3, {})}]
Extracted(policy, sure) == [policy |-> policy, confirmed |-> sure, sure |-> sure]
MCCap == Rule("MaxValue", {}, "amount", 1, {})
MCBylaws == {{}, {Extracted(MCCap, TRUE)},
             {Extracted(MCCap, TRUE), Extracted(Rule("Deny", {"mint"}, None, 0, {"treasurer"}), TRUE)},
             {Extracted(Rule("MinValue", {}, "amount", 2, {}), TRUE), Extracted(MCCap, FALSE)},
             {Extracted(Rule("malformed", {}, None, 0, {}), TRUE)}}

\* The manifest of the repository: two caps on what no payment states, payments and transfers
\* only with approval, no minting.
MCDefault == {Rule("MaxValue", {}, "pay_ratio", 6, {"treasurer"}),
              Rule("MaxValue", {}, "single_payment", 100000, {"treasurer"}),
              Rule("RequireApproval", {"payment", "transfer"}, None, 0, {}),
              Rule("Deny", {"mint"}, None, 0, {})}

\* Payments that state what they pay as the amount and in wei, in wei alone and as the value
\* alone.
Proposed(type, agent, sums, external, approved, bypass, fields) ==
    sums @@ [type |-> type, agent_id |-> agent, is_external |-> external,
             hitl_approved |-> approved, bypass_hitl |-> bypass, discriminates |-> fields]
Sum(n) == [amount |-> n, value_wei |-> n]
MCProposals == {Proposed("payment", "treasurer", Sum(1), FALSE, FALSE, FALSE, FALSE),
                Proposed("payment", "treasurer", Sum(2), TRUE, FALSE, FALSE, FALSE),
                Proposed("payment", "treasurer", Sum(2), TRUE, TRUE, FALSE, FALSE),
                Proposed("payment", "treasurer", [value |-> 2], TRUE, FALSE, FALSE, FALSE),
                Proposed("transfer", "steward", [value_wei |-> 1], FALSE, FALSE, FALSE, FALSE),
                Proposed("mint", "treasurer", Sum(1), FALSE, TRUE, TRUE, FALSE),
                Proposed("burn", "", Sum(1), FALSE, TRUE, FALSE, TRUE)}

\* Verdicts before, after and without their request, from three actors; the request by the
\* other field; an audit with scores on each of the scales; objects that are IRIs, which
\* raise in the translation, raise in the buffer after noting the case, or do not; votes for
\* a proposal that was sent and one that was not.
Sending(part, type, actor, case, audit, proof, score) ==
    [part |-> part, type |-> type, actor |-> actor, proposal |-> None, proof |-> proof, approved |-> proof,
     link |-> [caseId |-> case, auditRequestId |-> audit], score |-> score, framework |-> None,
     bare |-> FALSE, stream |-> FALSE]
ByIri(content, stream) == [content EXCEPT !.bare = TRUE, !.stream = stream]
MCRequest(case, audit, score) == Sending("inbox", "ArbitrationRequest", "a2", case, audit, FALSE, score)
MCContents ==
    {Sending("inbox", "Verdict", a, "case", None, TRUE, {}) : a \in Actor}
    \cup {Sending("inbox", "Verdict", "a1", "case", None, FALSE, {}),
          MCRequest("case", None, {}), MCRequest(None, "case", {}),
          ByIri(MCRequest("case", None, {80}), TRUE), ByIri(MCRequest("case", "other", {80}), TRUE),
          ByIri(MCRequest("case", None, {}), FALSE),
          Sending("inbox", "AuditResponse", "a1", None, "audit", FALSE, {700}),
          Sending("inbox", "AuditRequest", "a2", None, "audit", FALSE, {}),
          Sending("inbox", "Create", "a2", None, None, FALSE, {20000}),
          Sending("sync", "Verdict", "a1", "case", None, FALSE, {})}
    \cup {[Sending("hitl", "HITLProposalVote", "a2", None, None, yes, {}) EXCEPT !.proposal = key] :
            key \in {"vote", "other"}, yes \in BOOLEAN}

MCSymmetry == Permutations(Thread) \cup Permutations(Request) \cup Permutations(Voter)
=============================================================================
