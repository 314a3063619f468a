-------------------------------- MODULE Apps --------------------------------
(***************************************************************************)
(* legacy/backend: the two graphs that put something into operation after  *)
(* a vote of the members.  routers/appstore.py with the provisioner's      *)
(* graph, and routers/spawner.py with the spawner's.                       *)
(***************************************************************************)
EXTENDS Energy

CONSTANTS App,             \* names of the catalog
          Agent            \* agent ids of job descriptions

VARIABLES deployment,      \* _deployments: the status of the one of a thread
          active           \* _ACTIVE_AGENTS

appsVars == <<deployment, active>>

-----------------------------------------------------------------------------
(* Applications: parse_app_request -> search_app_catalog ->                *)
(* propose_deployment -> [human_vote_app] -> pull_image -> ...             *)

\* A paused agent notes an error that the next node clears or replaces.
parse_app_request(s) ==
    {[s EXCEPT !.error = IF agents_are_paused \/ s.blank THEN "request" ELSE None]}

\* Any entries may share a word with the request; one that is named is among them.
search(s) == {found \in SUBSET App : s.preferred \cap App \subseteq found}

search_app_catalog(s) ==
    {[s EXCEPT !.matches = found, !.error = IF found = {} THEN "no match" ELSE None] : found \in search(s)}

propose_deployment(s) ==
    IF s.matches = {} THEN {[s EXCEPT !.error = "no match"]}
    ELSE {[s EXCEPT !.spec = top, !.human = TRUE] : top \in s.matches}

FromEntry(s) == Then(Then(parse_app_request(s), search_app_catalog), propose_deployment)

\* An error is answered 422, and nothing is stored.
request_app(t) ==
    /\ Fresh(t, "app")
    /\ \E preferred \in {{}} \cup {{a} : a \in App}, blank \in BOOLEAN :
         \E s \in FromEntry([preferred |-> preferred, blank |-> blank, matches |-> {}, spec |-> None,
                             human |-> TRUE, container |-> None, error |-> None]) :
           /\ Create(t, "app", "human_vote_app", s, s.error = None)
           /\ deployment' = [deployment EXCEPT ![t] = IF s.error = None THEN "proposed" ELSE None]
    /\ UNCHANGED active

\* Otherwise 409.
MayVote(t) == deployment[t] = "proposed"

\* One vote decides.  The approval is an invoke with a state: the graph runs again from
\* its entry up to the breakpoint, no container is there, and the deployment has failed.
vote_on_app(t) ==
    /\ Told(t, "app") /\ MayVote(t)
    /\ \/ /\ deployment' = [deployment EXCEPT ![t] = "rejected"]
          /\ UNCHANGED graphVars
       \/ \E s \in FromEntry([State(t) EXCEPT !.human = FALSE]) :
            /\ Resume(t, "human_vote_app", s)
            /\ deployment' = [deployment EXCEPT ![t] =
                 IF s.error # None \/ s.container = None THEN "failed" ELSE "running"]
    /\ UNCHANGED active

-----------------------------------------------------------------------------
(* Agents: propose_ajd -> [human_vote] -> compile_agent_limits ->          *)
(* deploy_agent.                                                           *)

\* A job description names an agent and nodes that resolve_nodes may not know.
propose_ajd(s) ==
    {IF s.known THEN [s EXCEPT !.votes = <<>>, !.quorum = FALSE, !.error = None]
     ELSE [s EXCEPT !.error = "unknown nodes"]}

compile_agent_limits(s) ==
    {IF s.known THEN [s EXCEPT !.compiled = TRUE] ELSE [s EXCEPT !.error = "compile"]}

Unspecified == [agent |-> None, known |-> FALSE, votes |-> <<>>, quorum |-> FALSE,
                compiled |-> FALSE, error |-> None]

\* An error is answered 422: the thread stays suspended, and its identifier unknown.
propose_agent(t) ==
    /\ Fresh(t, "spawner")
    /\ \E agent \in Agent, known \in BOOLEAN :
         \E s \in propose_ajd([Unspecified EXCEPT !.agent = agent, !.known = known]) :
           Create(t, "spawner", "human_vote", s, s.error = None)
    /\ UNCHANGED appsVars

VotesFor(s) == Cardinality({i \in DOMAIN s.votes : s.votes[i]})

\* deploy_agent registers what was compiled, over what had the name before.  The compiled
\* graph then sits in the state: a checkpointer that cannot store it leaves the thread
\* where update_state had put it, and the answer is 500.
deploy_agent(t, s) ==
    /\ active' = IF s.compiled THEN active \cup {s.agent} ELSE active
    /\ \/ Resume(t, END, IF s.compiled THEN s ELSE [s EXCEPT !.error = "nothing compiled"])
       \/ s.compiled /\ Resume(t, "compile_agent_limits", [s EXCEPT !.compiled = FALSE])

\* Nothing counts a voter once, or asks where the thread stands; quorum_required is 1.
vote_on_agent(t) ==
    /\ Told(t, "spawner")
    /\ Len(State(t).votes) < 2                                         \* bound
    /\ \E approved \in BOOLEAN :
         LET s == [State(t) EXCEPT !.votes = Append(@, approved)] IN
         IF VotesFor(s) < 1
         THEN /\ Resume(t, "compile_agent_limits", s)
              /\ UNCHANGED active
         ELSE \E c \in compile_agent_limits([s EXCEPT !.quorum = TRUE]) : deploy_agent(t, c)
    /\ UNCHANGED deployment

\* A vote on an identifier nobody had begins a thread without a description.
vote_on_unknown_agent(t) ==
    /\ Fresh(t, "spawner")
    /\ \/ Create(t, "spawner", "compile_agent_limits", [Unspecified EXCEPT !.votes = <<FALSE>>], TRUE)
       \/ Create(t, "spawner", END, [Unspecified EXCEPT !.votes = <<TRUE>>, !.quorum = TRUE,
                                                        !.error = "nothing compiled"], TRUE)
    /\ UNCHANGED appsVars

revoke_agent(agent) ==
    /\ agent \in active /\ active' = active \ {agent}
    /\ UNCHANGED <<graphVars, deployment>>

-----------------------------------------------------------------------------
AppsInit ==
    /\ deployment = [t \in Thread |-> None]
    /\ active = {}

AppsNext ==
    \/ \E t \in Thread : \/ request_app(t) \/ vote_on_app(t)
                         \/ propose_agent(t) \/ vote_on_agent(t) \/ vote_on_unknown_agent(t)
    \/ \E agent \in Agent : revoke_agent(agent)
=============================================================================
