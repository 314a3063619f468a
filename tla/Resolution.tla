----------------------------- MODULE Resolution -----------------------------
(***************************************************************************)
(* What the deliberations promise of a proposal, however the requests for  *)
(* it overlap: it opens once, under a process that stays, and closes once; *)
(* its outcome is drafted and stated only when it is closed, stated once,  *)
(* and drafted under its own process.  No draft is withdrawn by itself:    *)
(* they are forgotten all at once, and that reopens and unstates nothing.  *)
(***************************************************************************)
CONSTANT Proposal

VARIABLES
    phase,      \* proposal -> "none", "open" or "closed"
    rule,       \* proposal -> the process it is decided by
    drafts,     \* the drafts asked for, each of a proposal, under a process
    stated      \* the proposals whose outcome is on record

vars == << phase, rule, drafts, stated >>

Init ==
    /\ phase = [p \in Proposal |-> "none"]
    /\ rule = [p \in Proposal |-> "none"]
    /\ drafts = {}
    /\ stated = {}

Open(p, way) ==
    /\ phase[p] = "none"
    /\ phase' = [phase EXCEPT ![p] = "open"]
    /\ rule' = [rule EXCEPT ![p] = way]
    /\ UNCHANGED << drafts, stated >>

Close(p) ==
    /\ phase[p] = "open"
    /\ phase' = [phase EXCEPT ![p] = "closed"]
    /\ UNCHANGED << rule, drafts, stated >>

Draft(p, d) ==
    /\ phase[p] = "closed"
    /\ d.of = p /\ d.process = rule[p]
    /\ drafts' = drafts \cup {d}
    /\ UNCHANGED << phase, rule, stated >>

State(p) ==
    /\ phase[p] = "closed" /\ p \notin stated
    /\ stated' = stated \cup {p}
    /\ UNCHANGED << phase, rule, drafts >>

Forget ==
    /\ drafts' = {}
    /\ UNCHANGED << phase, rule, stated >>

Next ==
    \/ Forget
    \/ \E p \in Proposal :
          \/ Close(p) \/ State(p)
          \/ \E way \in {"consent", "consensus", "advice"} : Open(p, way)
          \/ \E d \in drafts' : Draft(p, d)

Spec == Init /\ [][Next]_vars
=============================================================================
