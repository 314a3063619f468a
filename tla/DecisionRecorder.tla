-------------------------- MODULE DecisionRecorder --------------------------
(***************************************************************************)
(* services/decision-recorder: the tables of recorded decisions, tensions, *)
(* labour and Glass Box entries, and the handlers that write them.         *)
(*                                                                         *)
(* The webhook is an `async def' that never awaits between its two commits,*)
(* so webhooks do not interleave with each other; the other handlers are   *)
(* `def', run in a thread pool and may run between the two commits.  Each  *)
(* of those commits once and is one action.  They are operators over the   *)
(* body of a request here, and become actions in Agents, where the Clerk   *)
(* calls them; a refused request (404, 403, 422) is no state change.       *)
(***************************************************************************)
EXTENDS Naturals, Sequences, FiniteSets

CONSTANTS Members,    \* Mattermost user ids
          Polls,      \* Loomio polls that close with an outcome
          MaxDay,     \* bound on the calendar
          MaxRows,    \* bound on the rows of tensions and of labour_log
          MaxFaults   \* bound on restarts of the recorder and answers that get lost

ASSUME RecorderAssumption ==
    /\ MaxDay \in Nat \ {0}
    /\ MaxRows \in Nat
    /\ MaxFaults \in Nat

VARIABLES decisions,  \* rows of table decisions, in order of id
          tensions,   \* rows of table tensions
          labour,     \* rows of table labour_log: who is said to have worked
          today,      \* date.today()
          hook,       \* row of the webhook between its commits, 0 when none runs
          outbox,     \* outcomes Loomio still delivers
          faults      \* restarts and lost answers so far

recorderVars == <<decisions, tensions, labour, today, hook, outbox, faults>>

Statuses == {"not_applicable", "not_started", "in_progress",
             "implemented", "not_implemented", "deferred"}
OpenStatuses == {"not_started", "in_progress", "deferred"}
TensionStatuses == {"open", "in_progress", "resolved"}

\* A date column is a day, or 0 for NULL.
Dates == 0..(MaxDay + 1)

Decision == [poll : Polls, ipfs_cid : BOOLEAN, review_date : Dates,
             accountability_status : Statuses, accountability_review_date : Dates]

Tension == [logged_by : Members, status : TensionStatuses, resolved_at : BOOLEAN]

RecorderTypeOK ==
    /\ decisions \in Seq(Decision)
    /\ tensions \in Seq(Tension)
    /\ labour \in Seq(Members)
    /\ today \in 1..MaxDay
    /\ hook \in 0..Len(decisions)
    /\ outbox \subseteq Polls
    /\ faults \in 0..MaxFaults

\* create_all leaves empty tables; Loomio holds the outcome of every poll.
RecorderInit ==
    /\ decisions = <<>>
    /\ tensions = <<>>
    /\ labour = <<>>
    /\ today = 1
    /\ hook = 0
    /\ outbox = Polls
    /\ faults = 0

-----------------------------------------------------------------------------
(* POST /webhook/loomio                                                    *)

\* Variant of Webhook that pins the payload first and gives up with IPFS: here,
\* with an IPFS node that is down.
webhookPinFirst(p) == FALSE /\ p \in Polls

\* The first commit stores the outcome; nothing makes a poll unique, so a second
\* delivery makes a second row.
Webhook(p) ==
    /\ hook = 0
    /\ p \in outbox
    /\ decisions' = Append(decisions,
           [poll |-> p, ipfs_cid |-> FALSE, review_date |-> 0,
            accountability_status |-> "not_started", accountability_review_date |-> 0])
    /\ hook' = Len(decisions')
    /\ UNCHANGED <<tensions, labour, today, outbox, faults>>

\* The pin, its commit and the answer 202: the payload is pinned and the CID
\* committed, or the exception is logged and the CID stays NULL.  The answer may
\* be lost on its way, and Loomio then delivers the outcome again.
Pin ==
    /\ hook # 0
    /\ \E pinned \in BOOLEAN :
         decisions' = [decisions EXCEPT ![hook].ipfs_cid = pinned]
    /\ \/ outbox' = outbox \ {decisions[hook].poll} /\ UNCHANGED faults
       \/ faults < MaxFaults /\ faults' = faults + 1 /\ UNCHANGED outbox   \* bound
    /\ hook' = 0
    /\ UNCHANGED <<tensions, labour, today>>

\* A restart of the recorder: committed rows stay, the webhook is gone unanswered.
RecorderCrash ==
    /\ faults < MaxFaults                                          \* bound
    /\ hook' = 0
    /\ faults' = faults + 1
    /\ UNCHANGED <<decisions, tensions, labour, today, outbox>>

NextDay ==
    /\ today < MaxDay                                              \* bound
    /\ today' = today + 1
    /\ UNCHANGED <<decisions, tensions, labour, hook, outbox, faults>>

-----------------------------------------------------------------------------
(* The handlers the agents' tools call.                                    *)

\* A date in a request body must lie in the future.
Future == (today + 1)..(MaxDay + 1)

PatchReview(d, on) ==
    /\ d \in DOMAIN decisions
    /\ on \in Future
    /\ decisions' = [decisions EXCEPT ![d].review_date = on]
    /\ UNCHANGED <<tensions, labour, today, hook, outbox, faults>>

\* The date of the next check is kept when the request names none (on = 0).
PatchAccountability(d, status, on) ==
    /\ d \in DOMAIN decisions
    /\ status \in Statuses
    /\ on \in Future \cup {0}
    /\ decisions' = [decisions EXCEPT
           ![d].accountability_status = status,
           ![d].accountability_review_date = IF on = 0 THEN @ ELSE on]
    /\ UNCHANGED <<tensions, labour, today, hook, outbox, faults>>

PostTension(m) ==
    /\ Len(tensions) < MaxRows                                     \* bound
    /\ tensions' = Append(tensions, [logged_by |-> m, status |-> "open", resolved_at |-> FALSE])
    /\ UNCHANGED <<decisions, labour, today, hook, outbox, faults>>

\* Any status may follow any other.  The first resolution is dated and the date
\* survives a reopening.
PatchTension(t, m, status) ==
    /\ t \in DOMAIN tensions
    /\ status \in TensionStatuses
    /\ tensions[t].logged_by = m
    /\ tensions' = [tensions EXCEPT
           ![t].status = status,
           ![t].resolved_at = @ \/ status = "resolved"]
    /\ UNCHANGED <<decisions, labour, today, hook, outbox, faults>>

PostLabour(m) ==
    /\ Len(labour) < MaxRows                                       \* bound
    /\ labour' = Append(labour, m)
    /\ UNCHANGED <<decisions, tensions, today, hook, outbox, faults>>

-----------------------------------------------------------------------------
(* What the reading endpoints list, as of a day and a number of days ahead. *)

\* Variant of list_due_reviews that lists only dates still to come.
dueReviewsAhead(days) ==
    {d \in DOMAIN decisions : decisions[d].review_date \in today..(today + days)}

\* No handler ever moves review_status from "pending", so the filter on
\* "complete" drops nothing.
list_due_reviews(days) ==
    {d \in DOMAIN decisions :
        /\ decisions[d].review_date # 0
        /\ decisions[d].review_date <= today + days}

list_overdue_accountability(days) ==
    {d \in DOMAIN decisions :
        /\ decisions[d].accountability_review_date # 0
        /\ decisions[d].accountability_review_date <= today + days
        /\ decisions[d].accountability_status \in OpenStatuses}

RecorderStep == \/ \E p \in Polls : Webhook(p)
                \/ Pin
                \/ RecorderCrash
                \/ NextDay
=============================================================================
