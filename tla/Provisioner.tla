---------------------------- MODULE Provisioner ----------------------------
(***************************************************************************)
(* services/provisioner: POST /members takes a person through three        *)
(* systems, Authentik (account, then recovery link), Loomio (membership)   *)
(* and Mattermost (welcome post), recording each step in the database      *)
(* before the next.  Handlers run in a thread pool, each with a session of *)
(* its own; a retry of the Clerk can overlap the request it gave up on.    *)
(*                                                                         *)
(* A session keeps the row it read until its next commit expires it, so a  *)
(* handler may decide on an old row.  The three services are external: a   *)
(* call works, fails, or works with its answer lost; Authentik refuses a   *)
(* username it has.  Names, e-mails and ids are left out, and so is the    *)
(* rate limiter, which only rejects requests before they read anything.    *)
(***************************************************************************)
EXTENDS Integers, FiniteSets

CONSTANTS
    Users,          \* usernames
    Requests,       \* handler threads
    MaxFaults       \* bound: failures of a service, the database or the process

ASSUME ProvisionerAssumption == MaxFaults \in Nat

Stage == {"authentik", "loomio", "mattermost"}

VARIABLES
    rows,           \* provisioning_records: username -> stages done, or NoRow
    effects,        \* per stage and username: how often the service did it
    req,            \* per thread: what its handler is at
    created,        \* per username: responses 201 sent
    disturbed,      \* history: requests of the user overlapped, or an effect
                    \* was not recorded
    faults

vars == << rows, effects, req, created, disturbed, faults >>

\* A row is the set of stages whose flag is set; NoRow is not one.
NoRow == {"no row"}
NewRow == {}
complete(row) == Stage \subseteq row

\* What a session holds of the row after a commit, until it reads it again.
Expired == {"expired"}

Idle == [user |-> "nobody", at |-> "idle", stage |-> "authentik",
         isNew |-> FALSE, record |-> Expired]

Init ==
    /\ rows = [u \in Users |-> NoRow]
    /\ effects = [s \in Stage |-> [u \in Users |-> 0]]
    /\ req = [r \in Requests |-> Idle]
    /\ created = [u \in Users |-> 0]
    /\ disturbed = [u \in Users |-> FALSE]
    /\ faults = 0

busy(u) == {r \in Requests : req[r].at # "idle" /\ req[r].user = u}

\* A handler elsewhere in the function, with what its session holds.
moveTo(q, at, stage) ==
    [user |-> q.user, at |-> at, stage |-> stage, isNew |-> q.isNew, record |-> q.record]
hold(q, record) ==
    [user |-> q.user, at |-> q.at, stage |-> q.stage, isNew |-> q.isNew, record |-> record]

\* The step of the handler that follows a stage.
after(q) ==
    CASE q.stage = "authentik"  -> moveTo(q, "check", "loomio")
      [] q.stage = "loomio"     -> moveTo(q, "check", "mattermost")
      [] q.stage = "mattermost" -> moveTo(q, "respond", "mattermost")

Arrive(r, u) ==
    /\ req[r].at = "idle"
    /\ req' = [req EXCEPT ![r] = [user |-> u, at |-> "query", stage |-> "authentik",
                                  isNew |-> FALSE, record |-> Expired]]
    /\ disturbed' = [disturbed EXCEPT ![u] = disturbed[u] \/ busy(u) # {}]
    /\ UNCHANGED << rows, effects, created, faults >>

\* Variant of Query that takes a missing row for an existing one.
queryAssumingRow(r) ==
    LET q == req[r]
        row == rows[q.user]
    IN
    /\ q.at = "query"
    /\ req' = [req EXCEPT ![r] = IF complete(row) THEN Idle
                                 ELSE moveTo(hold(q, row), "check", "authentik")]
    /\ UNCHANGED << rows, effects, created, disturbed, faults >>

\* Variant of Query that takes any row for a complete one.
queryAnyRow(r) ==
    /\ req[r].at = "query"
    /\ req' = [req EXCEPT ![r] = IF rows[req[r].user] # NoRow THEN Idle
                                 ELSE moveTo(req[r], "insert", "authentik")]
    /\ UNCHANGED << rows, effects, created, disturbed, faults >>

\* A complete record answers 200 at once.
Query(r) ==
    LET q == req[r]
        row == rows[q.user]
    IN
    /\ q.at = "query"
    /\ req' = [req EXCEPT ![r] =
                  IF complete(row) THEN Idle
                  ELSE IF row = NoRow THEN moveTo(q, "insert", "authentik")
                  ELSE moveTo(hold(q, row), "check", "authentik")]
    /\ UNCHANGED << rows, effects, created, disturbed, faults >>

\* Variant of Insert on a table whose usernames are not unique.
insertAgain(r) ==
    /\ req[r].at = "insert"
    /\ rows' = [rows EXCEPT ![req[r].user] = IF rows[req[r].user] = NoRow THEN NewRow
                                             ELSE rows[req[r].user]]
    /\ req' = [req EXCEPT ![r] = [user |-> req[r].user, at |-> "check",
                                  stage |-> "authentik", isNew |-> TRUE,
                                  record |-> Expired]]
    /\ UNCHANGED << effects, created, disturbed, faults >>

Insert(r) ==
    /\ req[r].at = "insert"
    /\ rows[req[r].user] = NoRow
    /\ rows' = [rows EXCEPT ![req[r].user] = NewRow]
    /\ req' = [req EXCEPT ![r] = [user |-> req[r].user, at |-> "check",
                                  stage |-> "authentik", isNew |-> TRUE,
                                  record |-> Expired]]
    /\ UNCHANGED << effects, created, disturbed, faults >>

\* The unique index refuses a second row: nothing catches it, the answer is 500.
InsertRefused(r) ==
    /\ req[r].at = "insert"
    /\ rows[req[r].user] # NoRow
    /\ req' = [req EXCEPT ![r] = Idle]
    /\ UNCHANGED << rows, effects, created, disturbed, faults >>

\* `if not record.<flag>', on the loaded row or, after a commit, a fresh one.
recordOf(q) == IF q.record = Expired THEN rows[q.user] ELSE q.record

\* Variant of Check that looks at the account's flag only.
checkAccountOnly(r) ==
    LET q == hold(req[r], recordOf(req[r])) IN
    /\ req[r].at = "check"
    /\ req' = [req EXCEPT ![r] =
                  IF q.stage = "authentik" /\ q.stage \in q.record THEN after(q)
                  ELSE moveTo(q, "call", q.stage)]
    /\ UNCHANGED << rows, effects, created, disturbed, faults >>

Check(r) ==
    LET q == hold(req[r], recordOf(req[r])) IN
    /\ req[r].at = "check"
    /\ req' = [req EXCEPT ![r] = IF q.stage \in q.record THEN after(q)
                                 ELSE moveTo(q, "call", q.stage)]
    /\ UNCHANGED << rows, effects, created, disturbed, faults >>

\* The service takes the call; Authentik takes a username once.
accepts(s, u) == s = "authentik" => effects[s][u] = 0

done(s, u) ==
    effects' = [effects EXCEPT ![s] = [effects[s] EXCEPT ![u] = effects[s][u] + 1]]

Call(r) ==
    LET q == req[r] IN
    /\ q.at = "call"
    /\ accepts(q.stage, q.user)
    /\ done(q.stage, q.user)
    /\ req' = [req EXCEPT ![r] =
                  moveTo(q, IF q.stage = "authentik" THEN "link" ELSE "save", q.stage)]
    /\ UNCHANGED << rows, created, disturbed, faults >>

CallRefused(r) ==
    /\ req[r].at = "call"
    /\ ~accepts(req[r].stage, req[r].user)
    /\ req' = [req EXCEPT ![r] = Idle]                \* 502
    /\ UNCHANGED << rows, effects, created, disturbed, faults >>

\* get_recovery_link, in the same try block as create_user.
Link(r) ==
    /\ req[r].at = "link"
    /\ req' = [req EXCEPT ![r] = moveTo(req[r], "save", "authentik")]
    /\ UNCHANGED << rows, effects, created, disturbed, faults >>

Save(r) ==
    LET q == req[r] IN
    /\ q.at = "save"
    /\ rows' = [rows EXCEPT ![q.user] = rows[q.user] \cup {q.stage}]
    /\ req' = [req EXCEPT ![r] = after(hold(q, Expired))]
    /\ UNCHANGED << effects, created, disturbed, faults >>

Respond(r) ==
    LET q == req[r] IN
    /\ q.at = "respond"
    /\ created' = IF q.isNew THEN [created EXCEPT ![q.user] = created[q.user] + 1]
                             ELSE created
    /\ req' = [req EXCEPT ![r] = Idle]
    /\ UNCHANGED << rows, effects, disturbed, faults >>

\* The service did its part and the database does not say so.
unrecorded(q) == q.at \in {"link", "save"}

\* Variant of Fail that logs the failure of a call and goes on.
failAndGoOn(r) ==
    LET q == req[r] IN
    /\ faults < MaxFaults
    /\ q.at = "call"
    /\ faults' = faults + 1
    /\ req' = [req EXCEPT ![r] = after(q)]
    /\ UNCHANGED << rows, effects, created, disturbed >>

\* A service or the database fails under the handler: 502, or 500.
Fail(r) ==
    LET q == req[r] IN
    /\ faults < MaxFaults                             \* bound
    /\ q.at # "idle"
    /\ faults' = faults + 1
    /\ disturbed' = [disturbed EXCEPT ![q.user] = disturbed[q.user] \/ unrecorded(q)]
    /\ req' = [req EXCEPT ![r] = Idle]
    /\ UNCHANGED << rows, effects, created >>

\* The service does its part and its answer does not arrive.
AnswerLost(r) ==
    LET q == req[r] IN
    /\ faults < MaxFaults                             \* bound
    /\ q.at = "call"
    /\ accepts(q.stage, q.user)
    /\ done(q.stage, q.user)
    /\ faults' = faults + 1
    /\ disturbed' = [disturbed EXCEPT ![q.user] = TRUE]
    /\ req' = [req EXCEPT ![r] = Idle]
    /\ UNCHANGED << rows, created >>

\* The process restarts: every handler is gone, what was committed stays.
Crash ==
    /\ faults < MaxFaults                             \* bound
    /\ faults' = faults + 1
    /\ disturbed' = [u \in Users |-> disturbed[u] \/ \E r \in busy(u) : unrecorded(req[r])]
    /\ req' = [r \in Requests |-> Idle]
    /\ UNCHANGED << rows, effects, created >>

Step(r) ==
    \/ Query(r) \/ Insert(r) \/ InsertRefused(r) \/ Check(r) \/ Call(r)
    \/ CallRefused(r) \/ Link(r) \/ Save(r) \/ Respond(r)

Retry(u) == ~complete(rows[u]) /\ \E r \in Requests : Arrive(r, u)

Next ==
    \/ \E r \in Requests, u \in Users : Arrive(r, u)
    \/ \E r \in Requests : Step(r) \/ Fail(r) \/ AnswerLost(r)
    \/ Crash

Spec == Init /\ [][Next]_vars

\* Handler threads are scheduled, and the Clerk asks again for a user that is
\* not provisioned yet, as its answer (502) tells it to.
FairSpec ==
    /\ Spec
    /\ \A r \in Requests : WF_vars(Step(r))
    /\ \A u \in Users : SF_vars(Retry(u))

-----------------------------------------------------------------------------
At == {"idle", "query", "insert", "check", "call", "link", "save", "respond"}

Handler == [user : Users \cup {"nobody"}, at : At, stage : Stage,
            isNew : BOOLEAN, record : (SUBSET Stage) \cup {Expired}]

TypeOK ==
    /\ rows \in [Users -> (SUBSET Stage) \cup {NoRow}]
    /\ effects \in [Stage -> [Users -> Nat]]
    /\ req \in [Requests -> Handler]
    /\ created \in [Users -> Nat]
    /\ disturbed \in [Users -> BOOLEAN]
    /\ faults \in 0..MaxFaults

recorded(u, s) == s \in rows[u]

(***************************************************************************)
(* The database never claims more than the services did, and the stages    *)
(* keep their order whoever runs them: nobody is invited to Loomio before  *)
(* an SSO account is on record, or welcomed before a membership is.        *)
(***************************************************************************)
OnboardingInOrder ==
    \A u \in Users :
        /\ \A s \in Stage : recorded(u, s) => effects[s][u] > 0
        /\ effects["loomio"][u] > 0 => recorded(u, "authentik")
        /\ effects["mattermost"][u] > 0 => recorded(u, "loomio")

(***************************************************************************)
(* A user whose requests never overlapped and whose effects were all       *)
(* recorded is taken through each service at most once, however often a    *)
(* service refused and the Clerk retried.                                  *)
(***************************************************************************)
StepsNotRepeated ==
    \A u \in Users : ~disturbed[u] => \A s \in Stage : effects[s][u] <= 1

(***************************************************************************)
(* However many requests race to be the first for a username, at most one  *)
(* of them answers 201, and it answers only when all three stages are on   *)
(* record.                                                                 *)
(***************************************************************************)
CreatedOnce ==
    \A u \in Users :
        /\ created[u] <= 1
        /\ created[u] = 1 => complete(rows[u])

\* What the database, the services and the answers sent read as an onboarding.
recordOfUser(u) == IF rows[u] = NoRow THEN {} ELSE rows[u]

Promise == INSTANCE Onboarding WITH
    Person <- Users, System <- Stage, Exclusive <- {"authentik"},
    Before <- [s \in Stage |-> CASE s = "authentik"  -> {}
                                 [] s = "loomio"     -> {"authentik"}
                                 [] s = "mattermost" -> {"authentik", "loomio"}],
    known <- {u \in Users : rows[u] # NoRow},
    record <- [u \in Users |-> recordOfUser(u)],
    served <- effects, welcomed <- created

(***************************************************************************)
(* The handlers keep the promise of Onboarding, although each of them      *)
(* decides on a row it read before others wrote it: no service is called   *)
(* before its predecessors are on record, nothing goes on record that did  *)
(* not happen, and one request at most answers 201 (main.py:171-226).      *)
(***************************************************************************)
PromiseKept == Promise!Spec

\* The account exists, no record says so, and no handler is about to write it:
\* every later request is refused by Authentik.
stranded(u) ==
    /\ effects["authentik"][u] > 0
    /\ ~recorded(u, "authentik")
    /\ \A r \in busy(u) : ~unrecorded(req[r])

(***************************************************************************)
(* Retrying works: once the faults stop, a user on record is provisioned,  *)
(* unless its Authentik account was made and not recorded.                 *)
(***************************************************************************)
RetryCompletesOrStrands ==
    \A u \in Users : (rows[u] # NoRow) ~> (complete(rows[u]) \/ stranded(u))

(***************************************************************************)
(* What the answer of a failed step says (main.py:208, and                 *)
(* docs/operations/member-provisioning.md:139): "Partial state saved -     *)
(* retry is safe": a user on record is provisioned if the Clerk retries.   *)
(***************************************************************************)
RetryIsSafe ==
    \A u \in Users : (rows[u] # NoRow) ~> complete(rows[u])
=============================================================================
