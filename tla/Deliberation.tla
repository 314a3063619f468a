---------------------------- MODULE Deliberation ----------------------------
(***************************************************************************)
(* legacy/backend: the deliberations (routers/deliberation.py and          *)
(* subgroups.py), the agents that assist them, and the queue those agents  *)
(* run in.                                                                 *)
(*                                                                         *)
(* These handlers await the database and run the voting graph in a worker  *)
(* thread, so two of them interleave at every await: a request here is a   *)
(* process.  One worker of the queue runs the agents' graphs; each of them *)
(* but the voting graph ends suspended for a human, and no handler resumes *)
(* one.  The tables are in PostgreSQL, one statement to a transaction, and *)
(* survive the process; the requests, the queue and what the graphs left   *)
(* do not.  The tables' keys are known from the router's statements.       *)
(***************************************************************************)
EXTENDS Energy

CONSTANTS Request,         \* concurrent requests
          Proposal,        \* proposals of a thread
          Voter,           \* members who take a stance
          MaxDepth         \* agent_queue_max_depth

VARIABLES proposal,        \* deliberation_proposals: process, status
          stance,          \* proposal_stances: unique by proposal and member
          outcome,         \* decision_outcomes: unique by proposal
          request,         \* the handlers in progress
          queue,           \* AsyncAgentQueue._queue
          worker,          \* what its one worker runs
          results,         \* what the outcome graphs ended with
          rows,            \* reactions, tasks and seats of working groups, by kind and key
          missed           \* history: proposals that a draft, or an outcome, failed to reach

deliberationVars == <<proposal, stance, outcome, request, queue, worker, results, rows, missed>>

ASSUME DeliberationAssumption == MaxDepth \in Nat \ {0}

Idle == [at |-> "idle"]
NoJob == [graph |-> None]

\* agree, abstain and disagree, and the key of a poll's option.
StanceOption == {"agree", "disagree", "block"}
Processes == {"consent", "consensus", "advice"}
BLOCK_ALLOWED == {"consent", "consensus"}

-----------------------------------------------------------------------------
(* The queue.  A refused job is announced (queue_rejected) and raised to   *)
(* its caller, who logs it: nothing is left of it.                         *)

\* The history when a job is given up.
GivenUp(job) == missed' = missed \cup {p \in {job.of} : job.graph = "outcome"}

\* Variant of enqueue_agent that refuses only beyond the limit.
enqueueOneMore(job) ==
    IF Len(queue) <= MaxDepth
    THEN queue' = Append(queue, job) /\ UNCHANGED missed
    ELSE GivenUp(job) /\ UNCHANGED queue

enqueue_agent(job) ==
    IF Len(queue) < MaxDepth
    THEN queue' = Append(queue, job) /\ UNCHANGED missed
    ELSE GivenUp(job) /\ UNCHANGED queue

Counted(tally, option) == Cardinality({m \in Voter : tally[m] = option})

\* The outcome agent: tally_final_results -> classify_decision ->
\* draft_outcome_statement -> [human_approve_outcome].
classify_decision(process, tally) ==
    IF \A m \in Voter : tally[m] = None THEN "no_quorum"
    ELSE IF \/ process = "consent" /\ Counted(tally, "block") > 0
            \/ process = "consensus" /\ Counted(tally, "block") + Counted(tally, "disagree") > 0
         THEN "rejected" ELSE "passed"

\* An exception is recorded, and the worker goes on with the next.
RunGraph(job) == {classify_decision(job.process, job.tally), "error"}

work_begin ==
    /\ worker = NoJob /\ queue # <<>>
    /\ worker' = Head(queue) /\ queue' = Tail(queue)
    /\ UNCHANGED <<thread, parts, proposal, stance, outcome, request, results, rows, missed>>

\* In a thread of the pool: the event loop goes on meanwhile.  What the other agents leave
\* is text of the model's, or the fallback of each, that nothing reads.
work_end ==
    /\ worker # NoJob
    /\ IF worker.graph = "outcome"
       THEN \E state \in RunGraph(worker) : results' = results \cup {[job |-> worker, state |-> state]}
       ELSE UNCHANGED results
    /\ worker' = NoJob
    /\ UNCHANGED <<thread, parts, proposal, stance, outcome, request, queue, rows, missed>>

-----------------------------------------------------------------------------
(* Threads and proposals: the row, then the agent's job.                   *)

create_thread ==
    /\ Touch("board")
    /\ enqueue_agent([graph |-> "discussion", of |-> None])
    /\ UNCHANGED <<thread, proposal, stance, outcome, request, worker, results, rows>>

create_proposal(p) ==
    /\ Touch("stances")
    /\ proposal[p].status = None
    /\ \E process \in Processes : proposal' = [proposal EXCEPT ![p] = [status |-> "open", process |-> process]]
    /\ enqueue_agent([graph |-> "proposal", of |-> p])
    /\ UNCHANGED <<thread, stance, outcome, request, worker, results, rows>>

-----------------------------------------------------------------------------
(* A stance, from the SELECT to the answer.                                *)

cast_stance(r, p, m) ==
    /\ request[r] = Idle
    /\ proposal[p].status = "open"                  \* otherwise 409
    /\ \E option \in StanceOption :
         request' = [request EXCEPT ![r] = [at |-> "checked", p |-> p, m |-> m, option |-> option]]
    /\ UNCHANGED <<graphVars, proposal, stance, outcome, queue, worker, results, rows, missed>>

\* INSERT ... ON CONFLICT DO UPDATE, a block on whatever process included.
upsert_stance(r) ==
    /\ request[r].at = "checked"
    /\ stance' = [stance EXCEPT ![request[r].p][request[r].m] = request[r].option]
    /\ request' = [request EXCEPT ![r].at = "recorded"]
    /\ UNCHANGED <<graphVars, proposal, outcome, queue, worker, results, rows, missed>>

validate_stance(process, option) == option # "block" \/ process \in BLOCK_ALLOWED

\* Unanimous means everyone who has spoken: the first to agree closes a consensus.
evaluate_closing_condition(process, tally, overdue) ==
    \/ process = "consent" /\ Counted(tally, "block") > 0
    \/ /\ process = "consensus"
       /\ \E m \in Voter : tally[m] # None
       /\ \A m \in Voter : tally[m] \in {None, "agree"}
    \/ overdue

\* The SELECT of the stances and the voting graph, that works on what it was given.
vote_graph(r) ==
    /\ request[r].at = "recorded"
    /\ LET p == request[r].p IN
       \E overdue \in BOOLEAN :
         request' = [request EXCEPT ![r] =
             IF /\ validate_stance(proposal[p].process, request[r].option)
                /\ evaluate_closing_condition(proposal[p].process, stance[p], overdue)
             THEN [at |-> "closing", p |-> p, tally |-> stance[p]] ELSE Idle]
    /\ UNCHANGED <<graphVars, proposal, stance, outcome, queue, worker, results, rows, missed>>

\* Variant of close_proposal that answers once the row is written.
closeAndAnswer(r) ==
    /\ request[r].at = "closing"
    /\ proposal' = [proposal EXCEPT ![request[r].p].status = "closed"]
    /\ request' = [request EXCEPT ![r] = Idle]
    /\ UNCHANGED <<graphVars, stance, outcome, queue, worker, results, rows, missed>>

close_proposal(r) ==
    /\ request[r].at = "closing"
    /\ proposal' = [proposal EXCEPT ![request[r].p].status = "closed"]
    /\ request' = [request EXCEPT ![r].at = "closed"]
    /\ UNCHANGED <<graphVars, stance, outcome, queue, worker, results, rows, missed>>

\* The job carries the tally of this request.
enqueue_outcome(r) ==
    /\ request[r].at = "closed"
    /\ LET p == request[r].p IN
       enqueue_agent([graph |-> "outcome", of |-> p, process |-> proposal[p].process,
                      tally |-> request[r].tally])
    /\ request' = [request EXCEPT ![r] = Idle]
    /\ UNCHANGED <<graphVars, proposal, stance, outcome, worker, results, rows>>

-----------------------------------------------------------------------------
(* An outcome: the proposal closes, then the row or a unique violation.    *)

state_outcome(r, p) ==
    /\ request[r] = Idle
    /\ proposal[p].status # None
    /\ proposal' = [proposal EXCEPT ![p].status = "closed"]
    /\ request' = [request EXCEPT ![r] = [at |-> "stating", p |-> p]]
    /\ UNCHANGED <<graphVars, stance, outcome, queue, worker, results, rows, missed>>

\* A statement with an action keyword has its tasks extracted.
insert_outcome(r) ==
    /\ request[r].at = "stating"
    /\ LET p == request[r].p IN
       IF outcome[p] # None THEN UNCHANGED <<outcome, queue, missed>>              \* 409
       ELSE \E keyword \in BOOLEAN :
              /\ outcome' = [outcome EXCEPT ![p] = "stated"]
              /\ IF keyword THEN enqueue_agent([graph |-> "task", of |-> p])
                 ELSE UNCHANGED <<queue, missed>>
    /\ request' = [request EXCEPT ![r] = Idle]
    /\ UNCHANGED <<graphVars, proposal, stance, worker, results, rows>>

-----------------------------------------------------------------------------
(* The other tables.                                                       *)

\* SELECT, then DELETE or INSERT: the second of two insertions violates the key (500).
toggle_reaction(r, m) ==
    /\ Touch("board")
    /\ request[r] = Idle
    /\ request' = [request EXCEPT ![r] = [at |-> "toggling", key |-> <<"reaction", m>>,
                                          existing |-> <<"reaction", m>> \in rows]]
    /\ UNCHANGED <<thread, proposal, stance, outcome, queue, worker, results, rows, missed>>

toggle_reaction_write(r) ==
    /\ request[r].at = "toggling"
    /\ rows' = IF request[r].existing THEN rows \ {request[r].key} ELSE rows \cup {request[r].key}
    /\ request' = [request EXCEPT ![r] = Idle]
    /\ UNCHANGED <<graphVars, proposal, stance, outcome, queue, worker, results, missed>>

\* One statement each: a row appears, unless its key is there, or goes.
add_member(m) ==
    /\ Touch("board")
    /\ <<"seat", m>> \notin rows /\ rows' = rows \cup {<<"seat", m>>}
    /\ UNCHANGED <<thread, proposal, stance, outcome, request, queue, worker, results, missed>>

remove_member(m) ==
    /\ Touch("board")
    /\ <<"seat", m>> \in rows /\ rows' = rows \ {<<"seat", m>>}
    /\ UNCHANGED <<thread, proposal, stance, outcome, request, queue, worker, results, missed>>

\* A task is open or done, and may be opened again.
create_task(p) ==
    /\ Touch("board")
    /\ {<<"task", p, d>> : d \in BOOLEAN} \cap rows = {} /\ rows' = rows \cup {<<"task", p, FALSE>>}
    /\ UNCHANGED <<thread, proposal, stance, outcome, request, queue, worker, results, missed>>

update_task(p) ==
    /\ Touch("board")
    /\ \E d \in BOOLEAN : /\ <<"task", p, d>> \in rows
                          /\ rows' = (rows \ {<<"task", p, d>>}) \cup {<<"task", p, ~d>>}
    /\ UNCHANGED <<thread, proposal, stance, outcome, request, queue, worker, results, missed>>

-----------------------------------------------------------------------------
(* What goes wrong.  A statement that raises ends its request, with an     *)
(* error or, after the stance is on record, with a warning in the log; it  *)
(* was carried out all the same if the connection broke before the answer. *)

CarriedOut(r) ==
    LET p == request[r].p IN
    \/ /\ request[r].at = "checked"
       /\ stance' = [stance EXCEPT ![p][request[r].m] = request[r].option]
       /\ UNCHANGED <<proposal, outcome, rows, missed>>
    \/ /\ request[r].at = "closing"
       /\ proposal' = [proposal EXCEPT ![p].status = "closed"]
       /\ missed' = missed \cup {p}
       /\ UNCHANGED <<stance, outcome, rows>>
    \/ /\ request[r].at = "stating"
       /\ outcome' = [outcome EXCEPT ![p] = "stated"]
       /\ UNCHANGED <<proposal, stance, rows, missed>>
    \/ /\ request[r].at = "toggling"
       /\ rows' = IF request[r].existing THEN rows \ {request[r].key} ELSE rows \cup {request[r].key}
       /\ UNCHANGED <<proposal, stance, outcome, missed>>

NotCarriedOut(r) ==
    /\ missed' = missed \cup {p \in Proposal : request[r].at = "stating" /\ request[r].p = p}
    /\ UNCHANGED <<proposal, stance, outcome, rows>>

\* Between the close and the queue there is no statement to fail.
request_fails(r) ==
    /\ request[r].at \notin {"idle", "closed"}
    /\ CarriedOut(r) \/ NotCarriedOut(r)
    /\ request' = [request EXCEPT ![r] = Idle]
    /\ UNCHANGED <<graphVars, queue, worker, results>>

\* The process ends and starts again: only the tables are still there.
restart ==
    /\ parts \subseteq {"stances", "board"}         \* of the other parts there is nothing to forget
    /\ request' = [r \in Request |-> Idle]
    /\ queue' = <<>> /\ worker' = NoJob /\ results' = {}
    /\ missed' = missed \cup {p \in Proposal : proposal[p].status = "closed" /\ outcome[p] = None}
    /\ UNCHANGED <<graphVars, proposal, stance, outcome, rows>>

-----------------------------------------------------------------------------
DeliberationInit ==
    /\ proposal = [p \in Proposal |-> [status |-> None, process |-> None]]
    /\ stance = [p \in Proposal |-> [m \in Voter |-> None]]
    /\ outcome = [p \in Proposal |-> None]
    /\ request = [r \in Request |-> Idle]
    /\ queue = <<>>
    /\ worker = NoJob
    /\ results = {}
    /\ rows = {}
    /\ missed = {}

DeliberationNext ==
    \/ work_begin \/ work_end \/ create_thread \/ restart
    \/ \E p \in Proposal : create_proposal(p) \/ create_task(p) \/ update_task(p)
    \/ \E m \in Voter : add_member(m) \/ remove_member(m)
    \/ \E r \in Request : \/ upsert_stance(r) \/ vote_graph(r) \/ close_proposal(r) \/ enqueue_outcome(r)
                          \/ insert_outcome(r) \/ toggle_reaction_write(r) \/ request_fails(r)
                          \/ \E m \in Voter : toggle_reaction(r, m)
                          \/ \E p \in Proposal : \/ state_outcome(r, p)
                                                 \/ \E m \in Voter : cast_stance(r, p, m)
=============================================================================
