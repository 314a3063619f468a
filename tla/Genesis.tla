------------------------------- MODULE Genesis -------------------------------
(***************************************************************************)
(* legacy/backend/agents/genesis: the boot of a node, that gives it its    *)
(* governance manifest, and the latch and the founders of                  *)
(* routers/genesis.py.  The router never runs the graph; whoever does,     *)
(* resumes it at each review.  The boot is not paused for want of power.   *)
(*                                                                         *)
(* select_mode -> [solo] collect_owner_profile -> inject_regulatory_layer  *)
(*   -> configure_solo_manifest -> validate_genesis_manifest               *)
(*   -> [owner_review] -> execute_solo_genesis                             *)
(*             -> [cooperative] register_founders -> deploy_identity       *)
(*   -> deploy_safe -> rules or template -> inject_regulatory_layer        *)
(*   -> compile_genesis_manifest -> validate_genesis_manifest              *)
(*   -> [confirm_mappings] -> propose_novel_fields -> [ratify_genesis]     *)
(*   -> execute_genesis_binding                                            *)
(***************************************************************************)
EXTENDS Settlement

CONSTANTS Did,             \* founders
          Templates,       \* the regulatory rules by jurisdiction
          Bylaws,          \* sets of rules that were extracted
          MinFounders      \* genesis_min_founders

VARIABLE boot              \* _boot_state: mode and founders

genesisVars == <<boot>>

ASSUME GenesisAssumption ==
    "UNIVERSAL" \in DOMAIN Templates /\ MinFounders \in Nat /\ IsFiniteSet(Did)

Modes == {"solo_node", "legacy_import", "new_founding"}

-----------------------------------------------------------------------------
(* The nodes.  After an error each of the rest passes the state on.        *)

Unless(s, result) == IF s.error # None THEN {s} ELSE {result}

select_mode(s) ==
    Unless(s, IF s.complete THEN [s EXCEPT !.error = "complete"]
              ELSE [s EXCEPT !.node = IF s.mode = "solo_node" THEN "solo" ELSE "cooperative"])

collect_owner_profile(s) == Unless(s, IF s.profile = None THEN [s EXCEPT !.error = "profile"] ELSE s)

\* A jurisdiction without a template gets the universal one.
inject_regulatory_layer(s) ==
    Unless(s, [s EXCEPT !.regulatory =
                 Templates[IF s.profile \in DOMAIN Templates THEN s.profile ELSE "UNIVERSAL"]])

configure_solo_manifest(s) == Unless(s, [s EXCEPT !.manifest = s.regulatory])

register_founders(s) ==
    Unless(s, IF Cardinality(s.founders) < MinFounders THEN [s EXCEPT !.error = "founders"] ELSE s)

\* One token and one key of the Safe for each founder.
deploy_identity(s) == Unless(s, [s EXCEPT !.sbts = Cardinality(s.founders)])
deploy_safe(s) == Unless(s, [s EXCEPT !.threshold = Cardinality(s.founders)])

\* The rules were extracted before; what is uncertain is marked.
extract_rules_from_bylaws(s) == Unless(s, s)
tag_ambiguous_rules(s) == Unless(s, [s EXCEPT !.ambiguous = {r \in s.rules : ~r.sure}])
browse_templates(s) == Unless(s, s)
select_template(s) == Unless(s, s)

\* Variant of compile_genesis_manifest in which the confirmed rules replace the others.
compileConfirmed(s) ==
    LET confirmed == {r.policy : r \in {q \in s.rules : q.confirmed}} IN
    Unless(s, [s EXCEPT !.manifest = IF confirmed = {} THEN s.regulatory ELSE confirmed])

compile_genesis_manifest(s) ==
    Unless(s, [s EXCEPT !.manifest = s.regulatory \cup {r.policy : r \in {q \in s.rules : q.confirmed}}])

\* Both builders write the four principles and the version it asks for.
validate_genesis_manifest(s) ==
    Unless(s, IF s.manifest = {} THEN [s EXCEPT !.error = "no manifest"] ELSE s)

propose_novel_fields(s) == Unless(s, s)

-----------------------------------------------------------------------------
(* The paths between the reviews.                                          *)

_route_after_founders(s) ==
    IF s.mode = "legacy_import" THEN Then(extract_rules_from_bylaws(s), tag_ambiguous_rules)
    ELSE Then(browse_templates(s), select_template)

Solo(s) ==
    Then(Then(Then(collect_owner_profile(s), inject_regulatory_layer), configure_solo_manifest),
         validate_genesis_manifest)

Cooperative(s) ==
    Then(Then(Then(_route_after_founders(s), inject_regulatory_layer), compile_genesis_manifest),
         validate_genesis_manifest)

Founding(s) == Then(Then(register_founders(s), deploy_identity), deploy_safe)

\* Where the run from the entry is suspended, and with what.
_route_after_mode(s) ==
    IF s.error # None THEN {<<END, s>>}
    ELSE IF s.node = "solo" THEN {<<"owner_review", u>> : u \in Solo(s)}
    ELSE UNION {IF f.error # None THEN {<<END, f>>}
                ELSE {<<"confirm_mappings", u>> : u \in Cooperative(f)} : f \in Founding(s)}

BootState == [mode |-> None, profile |-> None, founders |-> {}, rules |-> {},
              node |-> None, regulatory |-> {}, manifest |-> {}, sbts |-> 0, threshold |-> 0,
              ambiguous |-> {}, complete |-> FALSE, error |-> None]

build_genesis_graph(t) ==
    /\ Fresh(t, "genesis")
    /\ \E mode \in Modes, profile \in DOMAIN Templates \cup {None, "elsewhere"}, founders \in SUBSET Did,
          rules \in Bylaws :
       \E s \in select_mode([BootState EXCEPT !.mode = mode, !.profile = profile,
                                              !.founders = founders, !.rules = rules]) :
       \E end \in _route_after_mode(s) : Create(t, "genesis", end[1], end[2], TRUE)
    /\ UNCHANGED <<manifest, txs, stored, records, unanchored, batches, boot>>

\* The reviews.  Rules confirmed in the first come after the manifest was compiled, and no
\* node reads whether a founder objected in the second.
review_mappings(t) ==
    /\ Told(t, "genesis") /\ thread[t].next = "confirm_mappings"
    /\ \E sure \in SUBSET State(t).rules :
       \E s \in propose_novel_fields([State(t) EXCEPT !.rules =
                  {[r EXCEPT !.confirmed = r \in sure] : r \in State(t).rules}]) :
         Resume(t, "ratify_genesis", s)
    /\ UNCHANGED <<manifest, txs, stored, records, unanchored, batches, boot>>

\* A manifest the engine refuses raises: the boot waits at the binding, and a further
\* invoke raises again.
Bind(t, s) ==
    IF s.error # None THEN Resume(t, END, s) /\ UNCHANGED manifest
    ELSE IF WellFormed(s.manifest)
         THEN load_manifest(s.manifest) /\ Resume(t, END, [s EXCEPT !.complete = TRUE])
    ELSE Resume(t, "execute_genesis_binding", s) /\ UNCHANGED manifest

execute_genesis_binding(t) ==
    /\ Told(t, "genesis") /\ thread[t].next = "ratify_genesis"
    /\ Bind(t, State(t))
    /\ UNCHANGED <<txs, stored, records, unanchored, batches, boot>>

execute_solo_genesis(t) ==
    /\ Told(t, "genesis") /\ thread[t].next = "owner_review"
    /\ Bind(t, State(t))
    /\ UNCHANGED <<txs, stored, records, unanchored, batches, boot>>

-----------------------------------------------------------------------------
(* routers/genesis.py.  Nothing sets boot_complete nor writes the latch.   *)

_check_not_complete == ~boot.complete

register_founder(d) ==
    /\ Touch("founders")
    /\ _check_not_complete /\ d \notin boot.founders
    /\ boot' = [boot EXCEPT !.founders = @ \cup {d}]
    /\ UNCHANGED <<thread, settlementVars>>

start_boot ==
    /\ Touch("founders")
    /\ _check_not_complete
    /\ \E mode \in Modes : boot' = [boot EXCEPT !.mode = mode, !.phase = "in-progress"]
    /\ UNCHANGED <<thread, settlementVars>>

choose_mode ==
    /\ Touch("founders")
    /\ _check_not_complete
    /\ \E mode \in Modes : boot' = [boot EXCEPT !.mode = mode]
    /\ UNCHANGED <<thread, settlementVars>>

-----------------------------------------------------------------------------
GenesisInit ==
    boot = [mode |-> None, phase |-> "pre-genesis", founders |-> {}, complete |-> FALSE]

GenesisNext ==
    \/ \E t \in Thread : \/ build_genesis_graph(t) \/ review_mappings(t)
                         \/ execute_genesis_binding(t) \/ execute_solo_genesis(t)
    \/ \E d \in Did : register_founder(d)
    \/ start_boot \/ choose_mode
=============================================================================
