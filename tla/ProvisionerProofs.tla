------------------------- MODULE ProvisionerProofs -------------------------
(***************************************************************************)
(* Theorems about Provisioner, for every set of usernames, every number of *)
(* handler threads and every number of faults.                             *)
(*                                                                         *)
(* The invariants say what a handler may rely on at each point of          *)
(* provision_member: HandlersBehindRows, what its session and its position *)
(* say about the row; EffectsExplained, where an unrecorded effect comes   *)
(* from when requests did not overlap; OneFirstRequest, who may still      *)
(* answer 201.                                                             *)
(***************************************************************************)
EXTENDS Provisioner, TLAPS

Running == {"check", "call", "link", "save", "respond"}

\* What a handler holds is part of the row of its user in R, and where it is
\* tells which stages that row has already.
BehindRow(q, R) ==
    /\ q.at # "idle" => q.user \in Users
    /\ q.record # Expired => q.record \subseteq R[q.user]
    /\ q.at \in Running => R[q.user] # NoRow
    /\ q.at \in Running /\ q.stage # "authentik" => "authentik" \in R[q.user]
    /\ q.at \in Running /\ q.stage = "mattermost" => "loomio" \in R[q.user]
    /\ q.at = "respond" => q.stage = "mattermost" /\ "mattermost" \in R[q.user]
    /\ q.at = "link" => q.stage = "authentik"
    /\ q.at \notin Running => q.record = Expired /\ ~q.isNew

HandlersBehindRows == \A r \in Requests : BehindRow(req[r], rows)

\* A handler about to record a stage has seen the service do it.
EffectsSeen ==
    \A r \in Requests :
        unrecorded(req[r]) => effects[req[r].stage][req[r].user] > 0

Inv == TypeOK /\ HandlersBehindRows

\* NoRow and Expired are no sets of stages.
LEMMA Distinct ==
    /\ NoRow \notin SUBSET Stage
    /\ Expired \notin SUBSET Stage
    /\ NoRow # Expired
    /\ NewRow \in SUBSET Stage
BY DEF NoRow, Expired, NewRow, Stage

\* The row of a handler that is under way is a set of stages, and so is what
\* the handler reads of it.
LEMMA RowRead ==
    ASSUME Inv, NEW r \in Requests, req[r].at \in Running
    PROVE  /\ req[r].user \in Users
           /\ rows[req[r].user] \in SUBSET Stage
           /\ recordOf(req[r]) \in SUBSET Stage
           /\ recordOf(req[r]) \subseteq rows[req[r].user]
<1>1. req[r] \in Handler /\ BehindRow(req[r], rows)
  BY DEF Inv, TypeOK, HandlersBehindRows
<1>2. req[r].user \in Users /\ rows[req[r].user] # NoRow
  BY <1>1 DEF BehindRow, Running
<1>3. rows[req[r].user] \in SUBSET Stage
  BY <1>2 DEF Inv, TypeOK
<1>4. req[r].record # Expired => req[r].record \subseteq rows[req[r].user]
  BY <1>1 DEF BehindRow
<1>5. QED
  BY <1>2, <1>3, <1>4 DEF recordOf

\* Moving a handler keeps it a handler.
LEMMA MoveType ==
    ASSUME NEW q \in Handler, NEW at \in At, NEW s \in Stage
    PROVE  moveTo(q, at, s) \in Handler
BY DEF moveTo, Handler

\* Loading a row into a session keeps the handler a handler.
LEMMA HoldType ==
    ASSUME NEW q \in Handler, NEW rec \in (SUBSET Stage) \cup {Expired}
    PROVE  hold(q, rec) \in Handler
BY DEF hold, Handler

\* Passing a stage keeps the handler a handler.
LEMMA AfterType ==
    ASSUME NEW q \in Handler
    PROVE  after(q) \in Handler
<1>1. q.stage \in Stage /\ {"check", "respond"} \subseteq At
  BY DEF Handler, At
<1>2. QED
  BY <1>1, MoveType DEF after, Stage

\* A thread without a request is a handler too.
LEMMA IdleType == Idle \in Handler
BY DEF Idle, Handler, At, Stage

\* An update of one thread keeps the threads well typed.
LEMMA ReqType ==
    ASSUME TypeOK, NEW r \in Requests, NEW q \in Handler,
           req' = [req EXCEPT ![r] = q]
    PROVE  req' \in [Requests -> Handler]
BY DEF TypeOK

-----------------------------------------------------------------------------
\* Every step keeps the types.
LEMMA HandlerTypeStep ==
    ASSUME Inv, NEW r \in Requests, Step(r) \/ Fail(r) \/ AnswerLost(r)
    PROVE  TypeOK'
<1> USE ProvisionerAssumption, Distinct
<1>q. req[r] \in Handler
  BY DEF Inv, TypeOK
<1>a. {"insert", "check", "call", "link", "save", "respond"} \subseteq At
  BY DEF At
<1>s. Stage \subseteq {"authentik", "loomio", "mattermost"} /\ "authentik" \in Stage
  BY DEF Stage
<1>t. req[r].at # "idle" => req[r].user \in Users
  BY DEF Inv, HandlersBehindRows, BehindRow
<1>1. CASE Query(r)
  <2>1. rows[req[r].user] \in (SUBSET Stage) \cup {NoRow}
    BY <1>1, <1>t DEF Query, Inv, TypeOK
  <2>2. rows[req[r].user] # NoRow => hold(req[r], rows[req[r].user]) \in Handler
    BY <2>1, <1>q, HoldType
  <2>3. /\ moveTo(req[r], "insert", "authentik") \in Handler
        /\ rows[req[r].user] # NoRow
              => moveTo(hold(req[r], rows[req[r].user]), "check", "authentik") \in Handler
    BY <2>2, <1>q, <1>a, <1>s, MoveType
  <2>4. req' \in [Requests -> Handler]
    BY <1>1, <2>3, IdleType DEF Query, Inv, TypeOK
  <2>5. QED
    BY <1>1, <2>4 DEF Query, Inv, TypeOK
<1>2. CASE Insert(r)
  <2>1. [user |-> req[r].user, at |-> "check", stage |-> "authentik",
         isNew |-> TRUE, record |-> Expired] \in Handler
    BY <1>q, <1>a, <1>s DEF Handler
  <2>2. req' \in [Requests -> Handler]
    BY <1>2, <2>1 DEF Insert, Inv, TypeOK
  <2>3. rows' \in [Users -> (SUBSET Stage) \cup {NoRow}]
    BY <1>2 DEF Insert, Inv, TypeOK
  <2>4. QED
    BY <1>2, <2>2, <2>3 DEF Insert, Inv, TypeOK
<1>3. CASE InsertRefused(r) \/ CallRefused(r)
  BY <1>3, IdleType DEF InsertRefused, CallRefused, Inv, TypeOK
<1>4. CASE Check(r)
  <2> DEFINE q == hold(req[r], recordOf(req[r]))
  <2>1. q \in Handler
    BY <1>4, <1>q, RowRead, HoldType DEF Check, Running
  <2>2. q.stage \in Stage
    BY <2>1 DEF Handler
  <2>3. after(q) \in Handler /\ moveTo(q, "call", q.stage) \in Handler
    BY <2>1, <2>2, <1>a, AfterType, MoveType
  <2>4. req' \in [Requests -> Handler]
    BY <1>4, <2>3 DEF Check, Inv, TypeOK
  <2>5. QED
    BY <1>4, <2>4 DEF Check, Inv, TypeOK
<1>d. ASSUME done(req[r].stage, req[r].user), req[r].at # "idle"
      PROVE  effects' \in [Stage -> [Users -> Nat]]
  <2>1. req[r].stage \in Stage /\ req[r].user \in Users
    BY <1>q, <1>t, <1>d DEF Handler
  <2>2. effects[req[r].stage] \in [Users -> Nat]
    BY <2>1 DEF Inv, TypeOK
  <2>3. effects[req[r].stage][req[r].user] + 1 \in Nat
    BY <2>1, <2>2
  <2>4. QED
    BY <1>d, <2>1, <2>2, <2>3 DEF done, Inv, TypeOK
<1>5. CASE Call(r)
  <2>1. moveTo(req[r], IF req[r].stage = "authentik" THEN "link" ELSE "save",
               req[r].stage) \in Handler
    BY <1>q, <1>a, MoveType DEF Handler
  <2>2. req' \in [Requests -> Handler]
    BY <1>5, <2>1 DEF Call, Inv, TypeOK
  <2>3. effects' \in [Stage -> [Users -> Nat]]
    BY <1>5, <1>d DEF Call
  <2>4. QED
    BY <1>5, <2>2, <2>3 DEF Call, Inv, TypeOK
<1>6. CASE Link(r)
  <2>1. req' \in [Requests -> Handler]
    BY <1>6, <1>q, <1>a, <1>s, MoveType DEF Link, Inv, TypeOK
  <2>2. QED
    BY <1>6, <2>1 DEF Link, Inv, TypeOK
<1>7. CASE Save(r)
  <2>1. hold(req[r], Expired) \in Handler
    BY <1>q, HoldType
  <2>2. req' \in [Requests -> Handler]
    BY <1>7, <2>1, AfterType DEF Save, Inv, TypeOK
  <2>3. rows[req[r].user] \cup {req[r].stage} \in SUBSET Stage
    BY <1>7, <1>q, RowRead DEF Save, Running, Handler
  <2>4. rows' \in [Users -> (SUBSET Stage) \cup {NoRow}]
    BY <1>7, <2>3 DEF Save, Inv, TypeOK
  <2>5. QED
    BY <1>7, <2>2, <2>4 DEF Save, Inv, TypeOK
<1>8. CASE Respond(r)
  <2>1. created' \in [Users -> Nat]
    BY <1>8, <1>t DEF Respond, Inv, TypeOK
  <2>2. QED
    BY <1>8, <2>1, IdleType DEF Respond, Inv, TypeOK
<1>9. CASE Fail(r)
  <2>1. disturbed' \in [Users -> BOOLEAN]
    BY <1>9 DEF Fail, Inv, TypeOK, unrecorded
  <2>2. faults' \in 0..MaxFaults
    BY <1>9 DEF Fail, Inv, TypeOK
  <2>3. QED
    BY <1>9, <2>1, <2>2, IdleType DEF Fail, Inv, TypeOK
<1>10. CASE AnswerLost(r)
  <2>1. effects' \in [Stage -> [Users -> Nat]]
    BY <1>10, <1>d DEF AnswerLost
  <2>2. faults' \in 0..MaxFaults
    BY <1>10 DEF AnswerLost, Inv, TypeOK
  <2>3. QED
    BY <1>10, <2>1, <2>2, IdleType DEF AnswerLost, Inv, TypeOK
<1>11. QED
  BY <1>1, <1>2, <1>3, <1>4, <1>5, <1>6, <1>7, <1>8, <1>9, <1>10 DEF Step

\* Every step of the service keeps the types.
LEMMA TypeStep ==
    ASSUME Inv, [Next]_vars
    PROVE  TypeOK'
<1> USE ProvisionerAssumption
<1>1. ASSUME NEW r \in Requests, NEW u \in Users, Arrive(r, u)
      PROVE  TypeOK'
  <2>1. [user |-> u, at |-> "query", stage |-> "authentik", isNew |-> FALSE,
         record |-> Expired] \in Handler
    BY DEF Handler, At, Stage
  <2>2. req' \in [Requests -> Handler]
    BY <1>1, <2>1 DEF Arrive, Inv, TypeOK
  <2>3. disturbed' \in [Users -> BOOLEAN]
    BY <1>1 DEF Arrive, Inv, TypeOK
  <2>4. QED
    BY <1>1, <2>2, <2>3 DEF Arrive, Inv, TypeOK
<1>2. CASE Crash
  <2>1. disturbed' \in [Users -> BOOLEAN]
    BY <1>2 DEF Crash, Inv, TypeOK
  <2>2. faults' \in 0..MaxFaults
    BY <1>2 DEF Crash, Inv, TypeOK
  <2>3. req' \in [Requests -> Handler]
    BY <1>2, IdleType DEF Crash
  <2>4. QED
    BY <1>2, <2>1, <2>2, <2>3 DEF Crash, Inv, TypeOK
<1>3. CASE UNCHANGED vars
  BY <1>3 DEF vars, Inv, TypeOK
<1>4. QED
  BY <1>1, <1>2, <1>3, HandlerTypeStep DEF Next

-----------------------------------------------------------------------------
\* Rows and effects only grow.
Grows(R, S) ==
    \A u \in Users : R[u] # NoRow => R[u] \subseteq S[u] /\ S[u] # NoRow

\* A row, once there, stays and only gains stages.
LEMMA RowsGrow ==
    ASSUME Inv, [Next]_vars
    PROVE  Grows(rows, rows')
<1>1. ASSUME NEW r \in Requests, Insert(r)
      PROVE  Grows(rows, rows')
  BY <1>1, Distinct DEF Insert, Grows, Inv, TypeOK
<1>2. ASSUME NEW r \in Requests, Save(r)
      PROVE  Grows(rows, rows')
  <2>1. rows[req[r].user] \cup {req[r].stage} \in SUBSET Stage
    BY <1>2, RowRead DEF Save, Running, Inv, TypeOK, Handler
  <2>2. QED
    BY <1>2, <2>1, Distinct DEF Save, Grows, Inv, TypeOK
<1>3. CASE UNCHANGED rows
  BY <1>3 DEF Grows
<1>4. QED
  <2>1. ASSUME NEW r \in Requests, Step(r)
        PROVE  Grows(rows, rows')
    BY <2>1, <1>1, <1>2, <1>3
       DEF Step, Query, InsertRefused, Check, Call, CallRefused, Link, Respond
  <2>2. ASSUME NEW r \in Requests, NEW u \in Users, Fail(r) \/ AnswerLost(r) \/ Arrive(r, u)
        PROVE  Grows(rows, rows')
    BY <2>2, <1>3 DEF Fail, AnswerLost, Arrive
  <2>3. ASSUME NEW r \in Requests, Fail(r) \/ AnswerLost(r)
        PROVE  Grows(rows, rows')
    BY <2>3, <1>3 DEF Fail, AnswerLost
  <2>4. CASE Crash \/ UNCHANGED vars
    BY <2>4, <1>3 DEF Crash, vars
  <2>5. QED
    BY <2>1, <2>2, <2>3, <2>4 DEF Next

\* A handler that is left alone stays behind the rows.
LEMMA StaysBehind ==
    ASSUME NEW R, NEW S, Grows(R, S), NEW q \in Handler, BehindRow(q, R)
    PROVE  BehindRow(q, S)
<1>1. CASE q.at \in Running
  <2>1. q.user \in Users
    BY <1>1 DEF BehindRow, Running
  <2>2. R[q.user] # NoRow /\ R[q.user] \subseteq S[q.user] /\ S[q.user] # NoRow
    BY <1>1, <2>1 DEF BehindRow, Grows
  <2>3. QED
    BY <1>1, <2>2 DEF BehindRow
<1>2. CASE q.at \notin Running
  BY <1>2 DEF BehindRow, Running
<1>3. QED
  BY <1>1, <1>2

\* An idle thread is behind any row.
LEMMA IdleBehind == \A R : BehindRow(Idle, R)
BY DEF BehindRow, Idle, Running

\* Passing a stage that is on record leaves the handler behind the row.
LEMMA AfterBehind ==
    ASSUME NEW R, NEW q \in Handler, BehindRow(q, R), q.at \in Running,
           q.stage \in R[q.user]
    PROVE  BehindRow(after(q), R)
<1>1. q.user \in Users
  BY DEF BehindRow, Running
<1>2. q.stage \in {"authentik", "loomio", "mattermost"}
  BY DEF Handler, Stage
<1>3. after(q).user = q.user /\ after(q).record = q.record
  BY <1>2 DEF after, moveTo
<1>4. /\ q.stage = "authentik" => after(q).at = "check" /\ after(q).stage = "loomio"
      /\ q.stage = "loomio" => after(q).at = "check" /\ after(q).stage = "mattermost"
      /\ q.stage = "mattermost" => after(q).at = "respond" /\ after(q).stage = "mattermost"
  BY <1>2 DEF after, moveTo
<1>5. QED
  BY <1>1, <1>2, <1>3, <1>4 DEF BehindRow, Running

\* The step of a handler leaves it behind the row.
LEMMA MovesBehind ==
    ASSUME Inv, NEW r \in Requests, Step(r) \/ Fail(r) \/ AnswerLost(r)
    PROVE  BehindRow(req'[r], rows')
<1>q. req[r] \in Handler /\ BehindRow(req[r], rows) /\ req \in [Requests -> Handler]
  BY DEF Inv, HandlersBehindRows, TypeOK
<1>u. req[r].at # "idle" => req[r].user \in Users
  BY <1>q DEF BehindRow
<1>1. CASE req'[r] = Idle
  BY <1>1, IdleBehind
<1>2. CASE Query(r) /\ req'[r] # Idle
  <2>1. CASE rows[req[r].user] = NoRow
    BY <1>2, <2>1, <1>q, <1>u DEF Query, moveTo, BehindRow, Running
  <2>2. CASE rows[req[r].user] # NoRow
    BY <1>2, <2>2, <1>q, <1>u DEF Query, moveTo, hold, BehindRow, Running
  <2>3. QED
    BY <2>1, <2>2
<1>3. CASE Insert(r)
  <2>1. rows'[req[r].user] = NewRow
    BY <1>3, <1>u DEF Insert, Inv, TypeOK
  <2>2. QED
    BY <1>3, <2>1, <1>q, <1>u, Distinct DEF Insert, BehindRow, Running
<1>4. CASE Check(r)
  <2> DEFINE q == hold(req[r], recordOf(req[r]))
  <2>1. /\ req[r].at \in Running /\ rows' = rows
        /\ recordOf(req[r]) \in SUBSET Stage
        /\ recordOf(req[r]) \subseteq rows[req[r].user]
    BY <1>4, RowRead DEF Check, Running
  <2>2. q \in Handler /\ q.at = "check" /\ q.user = req[r].user /\ q.stage = req[r].stage
    BY <1>4, <2>1, <1>q, HoldType DEF Check, hold
  <2>3. q.record = recordOf(req[r]) /\ q.isNew = req[r].isNew
    BY DEF hold
  <2>4. BehindRow(q, rows)
    BY <2>1, <2>2, <2>3, <1>q, <1>4 DEF BehindRow, Running, Check
  <2>5. CASE q.stage \in q.record
    <3>1. q.stage \in rows[q.user]
      BY <2>5, <2>1, <2>2, <2>3
    <3>2. BehindRow(after(q), rows)
      BY <3>1, <2>2, <2>4, AfterBehind DEF Running
    <3>3. QED
      BY <1>4, <2>5, <3>2, <2>1, <1>q DEF Check
  <2>6. CASE q.stage \notin q.record
    <3>1. BehindRow(moveTo(q, "call", q.stage), rows)
      BY <2>2, <2>4 DEF BehindRow, moveTo, Running
    <3>2. QED
      BY <1>4, <2>6, <3>1, <2>1, <1>q DEF Check
  <2>7. QED
    BY <2>5, <2>6
<1>5. CASE Call(r)
  BY <1>5, <1>q DEF Call, moveTo, BehindRow, Running
<1>6. CASE Link(r)
  <2>1. req[r].stage = "authentik"
    BY <1>6, <1>q DEF Link, BehindRow
  <2>2. QED
    BY <1>6, <2>1, <1>q DEF Link, moveTo, BehindRow, Running
<1>7. CASE Save(r)
  <2> DEFINE q == hold(req[r], Expired)
  <2>1. /\ req[r].at \in Running /\ req[r].user \in Users
        /\ rows[req[r].user] \cup {req[r].stage} \in SUBSET Stage
    BY <1>7, <1>q, RowRead DEF Save, Running, Handler
  <2>2. rows'[req[r].user] = rows[req[r].user] \cup {req[r].stage}
    BY <1>7, <2>1 DEF Save, Inv, TypeOK
  <2>3. q \in Handler /\ q.at = "save" /\ q.user = req[r].user /\ q.stage = req[r].stage
    BY <1>7, <1>q, HoldType DEF Save, hold
  <2>4. q.record = Expired
    BY DEF hold
  <2>5. BehindRow(q, rows')
    BY <2>1, <2>2, <2>3, <2>4, <1>q, <1>7, Distinct DEF BehindRow, Running, Save
  <2>6. q.stage \in rows'[q.user]
    BY <2>2, <2>3
  <2>7. BehindRow(after(q), rows')
    BY <2>3, <2>5, <2>6, AfterBehind DEF Running
  <2>8. QED
    BY <1>7, <2>7, <1>q DEF Save
<1>8. CASE InsertRefused(r) \/ CallRefused(r) \/ Respond(r) \/ Fail(r) \/ AnswerLost(r)
  BY <1>8, <1>1, <1>q DEF InsertRefused, CallRefused, Respond, Fail, AnswerLost
<1>9. QED
  BY <1>1, <1>2, <1>3, <1>4, <1>5, <1>6, <1>7, <1>8 DEF Step

\* A handler's step moves no other handler.
LEMMA OthersStay ==
    ASSUME Inv, NEW r \in Requests, NEW x \in Requests, x # r,
           \/ Step(r) \/ Fail(r) \/ AnswerLost(r)
           \/ \E u \in Users : Arrive(r, u)
    PROVE  req'[x] = req[x]
<1>1. req \in [Requests -> Handler]
  BY DEF Inv, TypeOK
<1>2. QED
  BY <1>1 DEF Step, Query, Insert, InsertRefused, Check, Call, CallRefused, Link, Save,
              Respond, Fail, AnswerLost, Arrive

\* Every step leaves every handler behind its row.
LEMMA HandlersStep ==
    ASSUME Inv, [Next]_vars
    PROVE  HandlersBehindRows'
<1> SUFFICES ASSUME NEW x \in Requests
             PROVE  BehindRow(req'[x], rows')
  BY DEF HandlersBehindRows
<1>1. req[x] \in Handler /\ BehindRow(req[x], rows) /\ req \in [Requests -> Handler]
  BY DEF Inv, HandlersBehindRows, TypeOK
<1>2. CASE req'[x] = req[x]
  BY <1>1, <1>2, RowsGrow, StaysBehind
<1>3. ASSUME NEW r \in Requests, Step(r) \/ Fail(r) \/ AnswerLost(r)
      PROVE  BehindRow(req'[x], rows')
  <2>1. CASE x = r
    BY <1>3, <2>1, MovesBehind
  <2>2. CASE x # r
    BY <1>2, <1>3, <2>2, OthersStay
  <2>3. QED
    BY <2>1, <2>2
<1>4. ASSUME NEW r \in Requests, NEW u \in Users, Arrive(r, u)
      PROVE  BehindRow(req'[x], rows')
  <2>1. CASE x = r
    BY <1>1, <1>4, <2>1 DEF Arrive, BehindRow, Running
  <2>2. CASE x # r
    BY <1>2, <1>4, <2>2, OthersStay
  <2>3. QED
    BY <2>1, <2>2
<1>5. CASE Crash
  BY <1>5, IdleBehind DEF Crash
<1>6. CASE UNCHANGED vars
  BY <1>2, <1>6 DEF vars
<1>7. QED
  BY <1>3, <1>4, <1>5, <1>6 DEF Next

\* Types and handlers together are an inductive invariant.
LEMMA InvInductive ==
    /\ Init => Inv
    /\ Inv /\ [Next]_vars => Inv'
<1>1. Init => TypeOK
  BY IdleType, ProvisionerAssumption DEF Init, TypeOK
<1>2. Init => HandlersBehindRows
  BY IdleBehind DEF Init, HandlersBehindRows
<1>3. QED
  BY <1>1, <1>2, TypeStep, HandlersStep DEF Inv

(***************************************************************************)
(* Rows, effects and handlers have their types in every reachable state:   *)
(* no commit writes a stage into a row that does not exist.                *)
(***************************************************************************)
THEOREM TypeCorrect == Spec => []TypeOK
<1>1. Inv => TypeOK
  BY DEF Inv
<1>2. QED
  BY <1>1, InvInductive, PTL DEF Spec

-----------------------------------------------------------------------------
\* One call counts one effect of its stage for its user, and no other.
LEMMA DoneCounts ==
    ASSUME TypeOK, NEW s \in Stage, NEW u \in Users, done(s, u)
    PROVE  \A t \in Stage, v \in Users :
               effects'[t][v] = IF t = s /\ v = u THEN effects[t][v] + 1 ELSE effects[t][v]
BY DEF TypeOK, done

\* What a step does to the effects: nothing, or one call of the handler that
\* was about to make it.
LEMMA EffectsChange ==
    ASSUME Inv, [Next]_vars
    PROVE  \/ effects' = effects
           \/ \E r \in Requests :
                 /\ Call(r) \/ AnswerLost(r)
                 /\ req[r].at = "call"
                 /\ req[r].stage \in Stage /\ req[r].user \in Users
                 /\ done(req[r].stage, req[r].user)
<1>1. ASSUME NEW r \in Requests, Call(r) \/ AnswerLost(r)
      PROVE  /\ req[r].at = "call"
             /\ req[r].stage \in Stage /\ req[r].user \in Users
             /\ done(req[r].stage, req[r].user)
  <2>1. req[r].at = "call" /\ done(req[r].stage, req[r].user)
    BY <1>1 DEF Call, AnswerLost
  <2>2. req[r].stage \in Stage
    BY DEF Inv, TypeOK, Handler
  <2>3. req[r].user \in Users
    BY <2>1, RowRead DEF Running
  <2>4. QED
    BY <2>1, <2>2, <2>3
<1>2. ASSUME NEW r \in Requests, Step(r), ~Call(r)
      PROVE  effects' = effects
  BY <1>2 DEF Step, Query, Insert, InsertRefused, Check, CallRefused, Link, Save, Respond
<1>3. ASSUME NEW r \in Requests, Fail(r) \/ \E u \in Users : Arrive(r, u)
      PROVE  effects' = effects
  BY <1>3 DEF Fail, Arrive
<1>4. CASE Crash \/ UNCHANGED vars
  BY <1>4 DEF Crash, vars
<1>5. QED
  BY <1>1, <1>2, <1>3, <1>4 DEF Next

\* No step takes an effect back.
LEMMA EffectsGrow ==
    ASSUME Inv, [Next]_vars, NEW s \in Stage, NEW u \in Users
    PROVE  /\ effects[s][u] \in Nat /\ effects'[s][u] \in Nat
           /\ effects[s][u] <= effects'[s][u]
<1>1. effects[s][u] \in Nat
  BY DEF Inv, TypeOK
<1>2. CASE effects' = effects
  BY <1>1, <1>2
<1>3. ASSUME NEW r \in Requests, req[r].stage \in Stage, req[r].user \in Users,
             done(req[r].stage, req[r].user)
      PROVE  effects'[s][u] \in Nat /\ effects[s][u] <= effects'[s][u]
  <2>1. effects'[s][u] = effects[s][u] + 1 \/ effects'[s][u] = effects[s][u]
    BY <1>3, DoneCounts DEF Inv
  <2>2. QED
    BY <1>1, <2>1
<1>4. QED
  BY <1>1, <1>2, <1>3, EffectsChange

\* A handler that is about to record an effect was so before, or has just had it.
LEMMA UnrecordedMoves ==
    ASSUME Inv, [Next]_vars, NEW x \in Requests, unrecorded(req'[x])
    PROVE  /\ req'[x] = req[x] \/ Call(x) \/ Link(x)
           /\ req'[x].user = req[x].user /\ req'[x].stage = req[x].stage
<1>t. req[x] \in Handler /\ BehindRow(req[x], rows) /\ req \in [Requests -> Handler]
  BY DEF Inv, TypeOK, HandlersBehindRows
<1>s. req[x].stage \in {"authentik", "loomio", "mattermost"}
  BY <1>t DEF Handler, Stage
<1>i. ~unrecorded(Idle)
  BY DEF Idle, unrecorded
<1>a. ASSUME NEW q, q.stage \in {"authentik", "loomio", "mattermost"}
      PROVE  after(q).at \in {"check", "respond"}
  BY <1>a DEF after, moveTo
<1>m. \A q, at, s : moveTo(q, at, s).at = at
  BY DEF moveTo
<1>1. CASE Call(x)
  BY <1>1, <1>t DEF Call, moveTo
<1>2. CASE Link(x)
  <2>1. req[x].stage = "authentik"
    BY <1>2, <1>t DEF Link, BehindRow
  <2>2. QED
    BY <1>2, <1>t, <2>1 DEF Link, moveTo
<1>3. CASE Query(x)
  BY <1>3, <1>t, <1>i, <1>m DEF Query, unrecorded
<1>4. CASE Check(x)
  <2> DEFINE q == hold(req[x], recordOf(req[x]))
  <2>1. q.stage = req[x].stage
    BY DEF hold
  <2>2. after(q).at \in {"check", "respond"} /\ moveTo(q, "call", q.stage).at = "call"
    BY <1>a, <1>m, <1>s, <2>1
  <2>3. req'[x].at \in {"check", "respond", "call"}
    BY <1>4, <1>t, <2>2 DEF Check
  <2>4. QED
    BY <2>3 DEF unrecorded
<1>5. CASE Save(x)
  <2>1. hold(req[x], Expired).stage = req[x].stage
    BY DEF hold
  <2>2. after(hold(req[x], Expired)).at \in {"check", "respond"}
    BY <1>a, <1>s, <2>1
  <2>3. req'[x].at \in {"check", "respond"}
    BY <1>5, <1>t, <2>2 DEF Save
  <2>4. QED
    BY <2>3 DEF unrecorded
<1>6. CASE \/ Insert(x) \/ Respond(x) \/ InsertRefused(x) \/ CallRefused(x)
           \/ Fail(x) \/ AnswerLost(x) \/ Crash
  BY <1>6, <1>t, <1>i
  DEF Insert, Respond, InsertRefused, CallRefused, Fail, AnswerLost, Crash, unrecorded
<1>7. CASE \E u \in Users : Arrive(x, u)
  BY <1>7, <1>t DEF Arrive, unrecorded
<1>8. ASSUME NEW r \in Requests, r # x,
             \/ Step(r) \/ Fail(r) \/ AnswerLost(r)
             \/ \E u \in Users : Arrive(r, u)
      PROVE  req'[x] = req[x]
  BY <1>8, OthersStay
<1>9. CASE UNCHANGED vars
  BY <1>9 DEF vars
<1>10. CASE Step(x)
  BY <1>10, <1>1, <1>2, <1>3, <1>4, <1>5, <1>6 DEF Step
<1>11. QED
  BY <1>6, <1>7, <1>8, <1>9, <1>10 DEF Next

\* Whoever is about to record an effect has seen it, from one step to the next.
LEMMA EffectsSeenStep ==
    ASSUME Inv, EffectsSeen, [Next]_vars
    PROVE  EffectsSeen'
<1> SUFFICES ASSUME NEW x \in Requests, unrecorded(req'[x])
             PROVE  effects'[req'[x].stage][req'[x].user] > 0
  BY DEF EffectsSeen, unrecorded
<1>1. /\ req'[x] = req[x] \/ Call(x) \/ Link(x)
      /\ req'[x].user = req[x].user /\ req'[x].stage = req[x].stage
  BY UnrecordedMoves
<1>2. req[x] \in Handler /\ BehindRow(req[x], rows)
  BY DEF Inv, TypeOK, HandlersBehindRows
<1>3. req[x].at # "idle"
  BY <1>1 DEF Call, Link, unrecorded
<1>4. req[x].stage \in Stage /\ req[x].user \in Users
  BY <1>2, <1>3 DEF Handler, BehindRow
<1>5. CASE req'[x] = req[x] \/ Link(x)
  <2>1. unrecorded(req[x])
    BY <1>5 DEF Link, unrecorded
  <2>2. effects[req[x].stage][req[x].user] > 0
    BY <2>1 DEF EffectsSeen
  <2>3. QED
    BY <1>1, <1>4, <2>2, EffectsGrow
<1>6. CASE Call(x)
  <2>1. effects'[req[x].stage][req[x].user] = effects[req[x].stage][req[x].user] + 1
    BY <1>4, <1>6, DoneCounts DEF Call, Inv
  <2>2. effects[req[x].stage][req[x].user] \in Nat
    BY <1>4 DEF Inv, TypeOK
  <2>3. QED
    BY <1>1, <2>1, <2>2
<1>7. QED
  BY <1>1, <1>5, <1>6

-----------------------------------------------------------------------------
\* What a step does to the rows: nothing, a new row, or one stage recorded.
LEMMA RowsChange ==
    ASSUME Inv, [Next]_vars, NEW u \in Users
    PROVE  \/ rows'[u] = rows[u]
           \/ rows'[u] = NewRow /\ rows[u] = NoRow
           \/ \E r \in Requests :
                 Save(r) /\ req[r].user = u /\ rows'[u] = rows[u] \cup {req[r].stage}
<1>t. rows \in [Users -> (SUBSET Stage) \cup {NoRow}]
  BY DEF Inv, TypeOK
<1>1. ASSUME NEW r \in Requests, Step(r), ~Insert(r), ~Save(r)
      PROVE  rows' = rows
  BY <1>1 DEF Step, Query, InsertRefused, Check, Call, CallRefused, Link, Respond
<1>2. ASSUME NEW r \in Requests, Insert(r)
      PROVE  rows'[u] = rows[u] \/ (rows'[u] = NewRow /\ rows[u] = NoRow)
  BY <1>2, <1>t DEF Insert
<1>3. ASSUME NEW r \in Requests, Save(r)
      PROVE  \/ rows'[u] = rows[u]
             \/ Save(r) /\ req[r].user = u /\ rows'[u] = rows[u] \cup {req[r].stage}
  BY <1>3, <1>t DEF Save
<1>4. ASSUME NEW r \in Requests, Fail(r) \/ AnswerLost(r) \/ \E v \in Users : Arrive(r, v)
      PROVE  rows' = rows
  BY <1>4 DEF Fail, AnswerLost, Arrive
<1>5. CASE Crash \/ UNCHANGED vars
  BY <1>5 DEF Crash, vars
<1>6. QED
  BY <1>1, <1>2, <1>3, <1>4, <1>5 DEF Next

\* A stage on record stays on record.
LEMMA RecordedStays ==
    ASSUME Inv, [Next]_vars, NEW u \in Users, NEW s \in Stage, recorded(u, s)
    PROVE  s \in rows'[u]
<1>1. rows[u] # NoRow
  BY DEF recorded, NoRow, Stage
<1>2. QED
  BY <1>1, RowsGrow DEF Grows, recorded

\* A stage on record was there before, or a handler that saw it done saves it.
LEMMA RecordedByEffect ==
    ASSUME Inv, EffectsSeen, [Next]_vars, NEW u \in Users, NEW s \in Stage,
           s \in rows'[u], ~recorded(u, s)
    PROVE  effects'[s][u] > 0
<1>1. s \notin NewRow
  BY DEF NewRow
<1>2. PICK r \in Requests :
         Save(r) /\ req[r].user = u /\ rows'[u] = rows[u] \cup {req[r].stage}
  BY <1>1, RowsChange DEF recorded
<1>3. s = req[r].stage
  BY <1>2 DEF recorded
<1>4. effects[s][u] > 0
  BY <1>2, <1>3 DEF Save, EffectsSeen, unrecorded
<1>5. QED
  BY <1>4, EffectsGrow

\* An effect is new only if a handler called its service.
LEMMA EffectByCall ==
    ASSUME Inv, [Next]_vars, NEW u \in Users, NEW s \in Stage,
           effects'[s][u] # effects[s][u]
    PROVE  \E r \in Requests :
              req[r].at = "call" /\ req[r].stage = s /\ req[r].user = u
<1>1. PICK r \in Requests :
         /\ req[r].at = "call"
         /\ req[r].stage \in Stage /\ req[r].user \in Users
         /\ done(req[r].stage, req[r].user)
  BY EffectsChange
<1>2. req[r].stage = s /\ req[r].user = u
  BY <1>1, DoneCounts DEF Inv
<1>3. QED
  BY <1>1, <1>2

\* Every step keeps the stages in order.
LEMMA OrderStep ==
    ASSUME Inv, EffectsSeen, OnboardingInOrder, [Next]_vars
    PROVE  OnboardingInOrder'
<1> SUFFICES ASSUME NEW u \in Users
             PROVE  /\ \A s \in Stage : s \in rows'[u] => effects'[s][u] > 0
                    /\ effects'["loomio"][u] > 0 => "authentik" \in rows'[u]
                    /\ effects'["mattermost"][u] > 0 => "loomio" \in rows'[u]
  BY DEF OnboardingInOrder, recorded
<1>s. {"authentik", "loomio", "mattermost"} \subseteq Stage
  BY DEF Stage
<1>1. ASSUME NEW s \in Stage, s \in rows'[u]
      PROVE  effects'[s][u] > 0
  <2>1. CASE recorded(u, s)
    <3>1. effects[s][u] > 0
      BY <2>1 DEF OnboardingInOrder
    <3>2. QED
      BY <3>1, EffectsGrow
  <2>2. CASE ~recorded(u, s)
    BY <1>1, <2>2, RecordedByEffect
  <2>3. QED
    BY <2>1, <2>2
<1>2. ASSUME NEW s \in Stage, NEW before \in Stage,
             effects[s][u] > 0 => recorded(u, before),
             \A r \in Requests :
                 req[r].at = "call" /\ req[r].stage = s /\ req[r].user = u
                     => recorded(u, before),
             effects'[s][u] > 0
      PROVE  before \in rows'[u]
  <2>1. recorded(u, before)
    BY <1>2, EffectByCall
  <2>2. QED
    BY <2>1, RecordedStays
<1>3. ASSUME NEW r \in Requests, req[r].at = "call", req[r].user = u
      PROVE  /\ req[r].stage = "loomio" => recorded(u, "authentik")
             /\ req[r].stage = "mattermost" => recorded(u, "loomio")
  BY <1>3 DEF Inv, HandlersBehindRows, BehindRow, Running, recorded
<1>4. effects'["loomio"][u] > 0 => "authentik" \in rows'[u]
  BY <1>2, <1>3, <1>s DEF OnboardingInOrder
<1>5. effects'["mattermost"][u] > 0 => "loomio" \in rows'[u]
  BY <1>2, <1>3, <1>s DEF OnboardingInOrder
<1>6. QED
  BY <1>1, <1>4, <1>5

(***************************************************************************)
(* No stage is on record that did not happen, and no stage happens before  *)
(* the one in front of it is on record, for any number of overlapping      *)
(* requests, failures and restarts.                                        *)
(***************************************************************************)
THEOREM StagesKeepOrder == Spec => []OnboardingInOrder
<1> DEFINE IInv == Inv /\ EffectsSeen /\ OnboardingInOrder
<1>1. ASSUME Init
      PROVE  EffectsSeen /\ OnboardingInOrder
  <2>1. \A r \in Requests : req[r].at = "idle"
    BY <1>1 DEF Init, Idle
  <2>2. EffectsSeen
    BY <2>1 DEF EffectsSeen, unrecorded
  <2>3. \A s \in Stage, u \in Users : effects[s][u] = 0 /\ ~recorded(u, s)
    BY <1>1 DEF Init, recorded, NoRow, Stage
  <2>4. OnboardingInOrder
    BY <2>3 DEF OnboardingInOrder, Stage
  <2>5. QED
    BY <2>2, <2>4
<1>2. Init => IInv
  BY <1>1, InvInductive
<1>3. IInv /\ [Next]_vars => IInv'
  BY InvInductive, EffectsSeenStep, OrderStep
<1>4. IInv => OnboardingInOrder
  OBVIOUS
<1>5. QED
  BY <1>2, <1>3, <1>4, PTL DEF Spec

-----------------------------------------------------------------------------
\* The request that inserted the row is the only one that may answer 201, and
\* it is gone once it has.
OneFirstRequest ==
    \A u \in Users :
        /\ rows[u] = NoRow => created[u] = 0
        /\ created[u] = 0 \/ created[u] = 1
        /\ created[u] = 1 => complete(rows[u])
        /\ created[u] = 1 => \A r \in Requests : req[r].user = u => ~req[r].isNew
        /\ \A r, s \in Requests :
              /\ req[r].isNew /\ req[r].user = u
              /\ req[s].isNew /\ req[s].user = u
              => r = s

\* Who is the first request changes only when one inserts the row, and stops
\* being so when it ends.
LEMMA FirstChanges ==
    ASSUME Inv, [Next]_vars, NEW x \in Requests, req'[x].isNew
    PROVE  \/ req[x].isNew /\ req'[x].user = req[x].user /\ ~Respond(x)
           \/ Insert(x) /\ req'[x].user = req[x].user
<1>t. req[x] \in Handler /\ BehindRow(req[x], rows) /\ req \in [Requests -> Handler]
  BY DEF Inv, TypeOK, HandlersBehindRows
<1>i. req'[x] # Idle
  BY DEF Idle
<1>r. ~Respond(x)
  BY <1>i, <1>t DEF Respond
<1>m. \A q, at, s : moveTo(q, at, s).isNew = q.isNew /\ moveTo(q, at, s).user = q.user
  BY DEF moveTo
<1>h. \A q, rec : /\ hold(q, rec).isNew = q.isNew /\ hold(q, rec).user = q.user
                  /\ hold(q, rec).stage = q.stage
  BY DEF hold
<1>a. ASSUME NEW q, q.stage \in Stage
      PROVE  after(q).isNew = q.isNew /\ after(q).user = q.user
  BY <1>a DEF after, moveTo, Stage
<1>s. req[x].stage \in Stage
  BY <1>t DEF Handler
<1>1. CASE Insert(x)
  BY <1>1, <1>t DEF Insert
<1>2. CASE Query(x)
  BY <1>2, <1>t, <1>i, <1>m, <1>h, <1>r DEF Query
<1>3. CASE Check(x)
  <2> DEFINE q == hold(req[x], recordOf(req[x]))
  <2>1. q.stage \in Stage /\ q.isNew = req[x].isNew /\ q.user = req[x].user
    BY <1>h, <1>s
  <2>2. /\ after(q).isNew = req[x].isNew /\ after(q).user = req[x].user
        /\ moveTo(q, "call", q.stage).isNew = req[x].isNew
        /\ moveTo(q, "call", q.stage).user = req[x].user
    BY <2>1, <1>a, <1>m
  <2>3. QED
    BY <1>3, <1>t, <1>r, <2>2 DEF Check
<1>4. CASE Save(x)
  <2> DEFINE q == hold(req[x], Expired)
  <2>1. q.stage \in Stage /\ q.isNew = req[x].isNew /\ q.user = req[x].user
    BY <1>h, <1>s
  <2>2. after(q).isNew = req[x].isNew /\ after(q).user = req[x].user
    BY <2>1, <1>a
  <2>3. QED
    BY <1>4, <1>t, <1>r, <2>2 DEF Save
<1>5. CASE Call(x) \/ Link(x)
  BY <1>5, <1>t, <1>m, <1>r DEF Call, Link
<1>6. CASE InsertRefused(x) \/ CallRefused(x) \/ Respond(x) \/ Fail(x) \/ AnswerLost(x)
  BY <1>6, <1>t, <1>i DEF InsertRefused, CallRefused, Respond, Fail, AnswerLost
<1>7. CASE \E u \in Users : Arrive(x, u)
  BY <1>7, <1>t DEF Arrive
<1>8. CASE Crash
  BY <1>8, <1>i DEF Crash
<1>9. CASE req'[x] = req[x]
  BY <1>9, <1>r
<1>10. ASSUME NEW r \in Requests, r # x,
              \/ Step(r) \/ Fail(r) \/ AnswerLost(r)
              \/ \E u \in Users : Arrive(r, u)
       PROVE  req'[x] = req[x]
  BY <1>10, OthersStay
<1>11. CASE UNCHANGED vars
  BY <1>9, <1>11 DEF vars
<1>12. CASE Step(x)
  BY <1>12, <1>1, <1>2, <1>3, <1>4, <1>5, <1>6 DEF Step
<1>13. QED
  BY <1>6, <1>7, <1>8, <1>9, <1>10, <1>11, <1>12 DEF Next

\* A 201 is the answer of a first request that has all stages on record.
LEMMA CreatedChanges ==
    ASSUME Inv, [Next]_vars, NEW u \in Users
    PROVE  \/ created'[u] = created[u]
           \/ \E r \in Requests :
                 /\ Respond(r) /\ req[r].isNew /\ req[r].user = u
                 /\ created'[u] = created[u] + 1
                 /\ rows' = rows /\ complete(rows[u])
<1>1. ASSUME NEW r \in Requests, Respond(r)
      PROVE  \/ created'[u] = created[u]
             \/ /\ Respond(r) /\ req[r].isNew /\ req[r].user = u
                /\ created'[u] = created[u] + 1
                /\ rows' = rows /\ complete(rows[u])
  <2>1. BehindRow(req[r], rows) /\ created \in [Users -> Nat]
    BY DEF Inv, HandlersBehindRows, TypeOK
  <2>2. req[r].user = u => complete(rows[u])
    BY <1>1, <2>1 DEF Respond, BehindRow, Running, complete, Stage
  <2>3. QED
    BY <1>1, <2>1, <2>2 DEF Respond
<1>2. ASSUME NEW r \in Requests, Step(r), ~Respond(r)
      PROVE  created' = created
  BY <1>2 DEF Step, Query, Insert, InsertRefused, Check, Call, CallRefused, Link, Save
<1>3. ASSUME NEW r \in Requests, Fail(r) \/ AnswerLost(r) \/ \E v \in Users : Arrive(r, v)
      PROVE  created' = created
  BY <1>3 DEF Fail, AnswerLost, Arrive
<1>4. CASE Crash \/ UNCHANGED vars
  BY <1>4 DEF Crash, vars
<1>5. QED
  BY <1>1, <1>2, <1>3, <1>4 DEF Next

\* Every step keeps at most one first request per username.
LEMMA FirstStep ==
    ASSUME Inv, OneFirstRequest, [Next]_vars
    PROVE  OneFirstRequest'
<1> SUFFICES ASSUME NEW u \in Users
             PROVE  /\ rows'[u] = NoRow => created'[u] = 0
                    /\ created'[u] = 0 \/ created'[u] = 1
                    /\ created'[u] = 1 => complete(rows'[u])
                    /\ created'[u] = 1 =>
                          \A r \in Requests : req'[r].user = u => ~req'[r].isNew
                    /\ \A r, s \in Requests :
                          /\ req'[r].isNew /\ req'[r].user = u
                          /\ req'[s].isNew /\ req'[s].user = u
                          => r = s
  BY DEF OneFirstRequest, complete
<1>b. ASSUME NEW r \in Requests, req[r].isNew
      PROVE  rows[req[r].user] # NoRow
  BY <1>b DEF Inv, HandlersBehindRows, BehindRow
<1>c. complete(rows[u]) => complete(rows'[u]) /\ rows[u] # NoRow
  <2>1. complete(rows[u]) => rows[u] # NoRow
    BY DEF complete, Stage, NoRow
  <2>2. QED
    BY <2>1, RowsGrow DEF complete, Grows
<1>n. rows'[u] = NoRow => rows[u] = NoRow
  BY RowsGrow DEF Grows
<1>i. ASSUME NEW r \in Requests, Insert(r), req[r].user = u
      PROVE  /\ rows[u] = NoRow /\ created' = created
             /\ \A x \in Requests : x # r => req'[x] = req[x]
  BY <1>i, OthersStay DEF Insert, Step
<1>1. /\ rows'[u] = NoRow => created'[u] = 0
      /\ created'[u] = 0 \/ created'[u] = 1
      /\ created'[u] = 1 => complete(rows'[u])
  <2>1. CASE created'[u] = created[u]
    BY <2>1, <1>c, <1>n DEF OneFirstRequest
  <2>2. ASSUME NEW r \in Requests, Respond(r), req[r].isNew, req[r].user = u,
               created'[u] = created[u] + 1, complete(rows[u])
        PROVE  created'[u] = 1 /\ complete(rows'[u]) /\ rows'[u] # NoRow
    <3>1. created[u] = 0
      BY <2>2 DEF OneFirstRequest
    <3>2. QED
      BY <2>2, <3>1, <1>c, <1>n
  <2>3. QED
    BY <2>1, <2>2, CreatedChanges
<1>2. ASSUME created'[u] = 1, NEW x \in Requests, req'[x].user = u, req'[x].isNew
      PROVE  FALSE
  <2>1. CASE Insert(x) /\ req'[x].user = req[x].user
    <3>1. rows[u] = NoRow /\ created'[u] = created[u]
      BY <1>2, <1>i, <2>1
    <3>2. created[u] = 0
      BY <3>1 DEF OneFirstRequest
    <3>3. QED
      BY <1>2, <3>1, <3>2
  <2>2. CASE req[x].isNew /\ req'[x].user = req[x].user /\ ~Respond(x)
    <3>1. created[u] # 1
      BY <1>2, <2>2 DEF OneFirstRequest
    <3>2. PICK r \in Requests : Respond(r) /\ req[r].isNew /\ req[r].user = u
      BY <1>2, <3>1, CreatedChanges
    <3>3. r = x
      BY <1>2, <2>2, <3>2 DEF OneFirstRequest
    <3>4. QED
      BY <2>2, <3>2, <3>3
  <2>3. QED
    BY <1>2, <2>1, <2>2, FirstChanges
<1>3. ASSUME NEW r \in Requests, NEW s \in Requests,
             req'[r].isNew, req'[r].user = u, req'[s].isNew, req'[s].user = u
      PROVE  r = s
  <2>1. CASE req[r].isNew /\ req'[r].user = req[r].user
             /\ req[s].isNew /\ req'[s].user = req[s].user
    BY <1>3, <2>1 DEF OneFirstRequest
  <2>2. ASSUME NEW x \in Requests, NEW y \in Requests, Insert(x), req[x].user = u,
               req'[y].isNew, req'[y].user = u
        PROVE  x = y
    <3>1. CASE x # y
      <4>1. rows[u] = NoRow /\ req'[y] = req[y]
        BY <2>2, <3>1, <1>i
      <4>2. QED
        BY <2>2, <4>1, <1>b
    <3>2. QED
      BY <3>1
  <2>3. QED
    BY <1>3, <2>1, <2>2, FirstChanges
<1>4. QED
  BY <1>1, <1>2, <1>3

(***************************************************************************)
(* Of all the requests for a username at most one answers 201, when its    *)
(* record is complete, for any number of handler threads.                  *)
(***************************************************************************)
THEOREM OneCreation == Spec => []CreatedOnce
<1> DEFINE IInv == Inv /\ OneFirstRequest
<1>1. Init => OneFirstRequest
  BY DEF Init, OneFirstRequest, Idle
<1>2. Init => IInv
  BY <1>1, InvInductive
<1>3. IInv /\ [Next]_vars => IInv'
  BY InvInductive, FirstStep
<1>4. IInv => CreatedOnce
  BY DEF OneFirstRequest, CreatedOnce
<1>5. QED
  BY <1>2, <1>3, <1>4, PTL DEF Spec

-----------------------------------------------------------------------------
\* While the requests of u never overlapped and all its effects were recorded:
\* its one handler knows the row, and an effect that is not on record is the
\* one that handler is about to save.
Undisturbed(u) ==
    /\ \A r, s \in busy(u) : r = s
    /\ \A r \in busy(u) : req[r].record = Expired \/ req[r].record = rows[u]
    /\ \A r \in busy(u) : req[r].at = "call" => ~recorded(u, req[r].stage)
    /\ \A s \in Stage : effects[s][u] <= 1
    /\ \A s \in Stage :
          effects[s][u] > 0 /\ ~recorded(u, s)
              => \E r \in busy(u) : unrecorded(req[r]) /\ req[r].stage = s

EffectsExplained == \A u \in Users : ~disturbed[u] => Undisturbed(u)

\* A step that leaves the handlers, the row and the effects of u alone.
LEMMA UndisturbedFrame ==
    ASSUME NEW u \in Users, Undisturbed(u),
           \A x \in Requests :
               /\ x \in busy(u) => req'[x] = req[x]
               /\ x \notin busy(u) => ~(req'[x].at # "idle" /\ req'[x].user = u),
           rows'[u] = rows[u],
           \A s \in Stage : effects'[s][u] = effects[s][u]
    PROVE  Undisturbed(u)'
<1>1. \A x : x \in busy(u)' <=> x \in busy(u)
  BY DEF busy
<1>2. \A x \in busy(u) : req'[x] = req[x]
  BY DEF busy
<1>3. QED
  BY <1>1, <1>2 DEF Undisturbed, recorded, unrecorded

\* What the only handler of u must leave behind.
LEMMA UndisturbedMove ==
    ASSUME NEW u \in Users, NEW r \in Requests, Undisturbed(u),
           \A x \in Requests : x # r => x \notin busy(u) /\ req'[x] = req[x],
           req'[r].at # "idle" => req'[r].record = Expired \/ req'[r].record = rows'[u],
           req'[r].at = "call" => req'[r].stage \notin rows'[u],
           \A s \in Stage : effects'[s][u] <= 1,
           \A s \in Stage :
               effects'[s][u] > 0 /\ s \notin rows'[u]
                   => req'[r].user = u /\ unrecorded(req'[r]) /\ req'[r].stage = s
    PROVE  Undisturbed(u)'
<1>1. \A x \in busy(u)' : x = r
  BY DEF busy
<1>2. req'[r].user = u /\ unrecorded(req'[r]) => r \in busy(u)'
  BY DEF busy, unrecorded
<1>3. \A x \in busy(u)' : req'[x].at # "idle"
  BY DEF busy
<1>4. QED
  BY <1>1, <1>2, <1>3 DEF Undisturbed, recorded, unrecorded

\* What is known when the only handler of u moves.
LEMMA OnlyHandler ==
    ASSUME Inv, NEW u \in Users, Undisturbed(u), NEW r \in busy(u)
    PROVE  /\ r \in Requests /\ req[r] \in Handler /\ req[r].user = u /\ req[r].at # "idle"
           /\ req \in [Requests -> Handler]
           /\ BehindRow(req[r], rows)
           /\ \A x \in Requests : x # r => x \notin busy(u)
           /\ req[r].record = Expired \/ req[r].record = rows[u]
           /\ req[r].at = "call" => ~recorded(u, req[r].stage)
           /\ \A s \in Stage : effects[s][u] \in Nat /\ effects[s][u] <= 1
           /\ \A s \in Stage : effects[s][u] > 0 /\ ~recorded(u, s)
                                  => unrecorded(req[r]) /\ req[r].stage = s
BY DEF Undisturbed, busy, Inv, TypeOK, HandlersBehindRows

\* The only handler of u goes on: no effect, no commit.
LEMMA UndisturbedQuiet ==
    ASSUME Inv, NEW u \in Users, Undisturbed(u), NEW r \in busy(u),
           ~unrecorded(req[r]),
           Query(r) \/ Insert(r) \/ InsertRefused(r) \/ Check(r) \/ CallRefused(r)
               \/ Respond(r) \/ Fail(r)
    PROVE  Undisturbed(u)'
<1>f. /\ r \in Requests /\ req[r] \in Handler /\ req[r].user = u /\ req[r].at # "idle"
      /\ req \in [Requests -> Handler]
      /\ \A x \in Requests : x # r => x \notin busy(u)
      /\ req[r].record = Expired \/ req[r].record = rows[u]
      /\ \A s \in Stage : effects[s][u] <= 1
      /\ \A s \in Stage : effects[s][u] > 0 => recorded(u, s)
  <2>1. \A s \in Stage : effects[s][u] > 0 /\ ~recorded(u, s) => unrecorded(req[r])
    BY OnlyHandler
  <2>2. QED
    BY <2>1, OnlyHandler
<1>e. effects' = effects
  BY DEF Query, Insert, InsertRefused, Check, CallRefused, Respond, Fail
<1>x. \A x \in Requests : x # r => req'[x] = req[x]
  BY <1>f, OthersStay DEF Step
<1>w. [Next]_vars
  BY <1>f DEF Next, Step
<1>s. \A s \in Stage : effects'[s][u] > 0 => s \in rows'[u]
  BY <1>e, <1>f, <1>w, RecordedStays
<1>1. CASE req'[r] = Idle
  <2>1. req'[r].at = "idle"
    BY <1>1 DEF Idle
  <2>2. QED
    BY <2>1, <1>e, <1>f, <1>s, <1>x, UndisturbedMove
<1>2. CASE Query(r) /\ req'[r] # Idle
  <2>1. rows' = rows /\ req'[r].at # "call"
    BY <1>2, <1>f DEF Query, moveTo
  <2>2. req'[r].record = req[r].record \/ req'[r].record = rows[u]
    BY <1>2, <1>f DEF Query, moveTo, hold
  <2>3. QED
    BY <2>1, <2>2, <1>e, <1>f, <1>s, <1>x, UndisturbedMove
<1>3. CASE Insert(r)
  <2>1. req'[r].record = Expired /\ req'[r].at = "check"
    BY <1>3, <1>f DEF Insert
  <2>2. QED
    BY <2>1, <1>e, <1>f, <1>s, <1>x, UndisturbedMove
<1>4. CASE Check(r)
  <2> DEFINE q == hold(req[r], rows[u])
  <2>1. recordOf(req[r]) = rows[u]
    BY <1>f DEF recordOf
  <2>2. rows' = rows
    BY <1>4 DEF Check
  <2>3. q.record = rows[u] /\ q.stage = req[r].stage /\ req[r].stage \in Stage
    BY <1>f DEF hold, Handler
  <2>4. CASE q.stage \in q.record
    <3>1. req'[r] = after(q)
      BY <1>4, <1>f, <2>1, <2>4 DEF Check
    <3>2. after(q).record = q.record /\ after(q).at \in {"check", "respond"}
      BY <2>3 DEF after, moveTo, Stage
    <3>3. QED
      BY <3>1, <3>2, <2>2, <2>3, <1>e, <1>f, <1>s, <1>x, UndisturbedMove
  <2>5. CASE q.stage \notin q.record
    <3>1. req'[r] = moveTo(q, "call", q.stage)
      BY <1>4, <1>f, <2>1, <2>5 DEF Check
    <3>2. req'[r].record = rows'[u] /\ req'[r].stage \notin rows'[u]
      BY <3>1, <2>2, <2>3, <2>5 DEF moveTo
    <3>3. QED
      BY <3>2, <1>e, <1>f, <1>s, <1>x, UndisturbedMove
  <2>6. QED
    BY <2>4, <2>5
<1>5. CASE InsertRefused(r) \/ CallRefused(r) \/ Respond(r) \/ Fail(r)
  BY <1>1, <1>5, <1>f DEF InsertRefused, CallRefused, Respond, Fail
<1>6. QED
  BY <1>1, <1>2, <1>3, <1>4, <1>5

\* The only handler of u has an effect, and records it.
LEMMA UndisturbedEffect ==
    ASSUME Inv, NEW u \in Users, Undisturbed(u), NEW r \in busy(u),
           Call(r) \/ Link(r) \/ Save(r)
    PROVE  Undisturbed(u)'
<1>f. /\ r \in Requests /\ req[r] \in Handler /\ req[r].user = u /\ req[r].at # "idle"
      /\ req \in [Requests -> Handler]
      /\ BehindRow(req[r], rows)
      /\ \A x \in Requests : x # r => x \notin busy(u)
      /\ req[r].record = Expired \/ req[r].record = rows[u]
      /\ req[r].at = "call" => ~recorded(u, req[r].stage)
      /\ \A s \in Stage : effects[s][u] \in Nat /\ effects[s][u] <= 1
      /\ \A s \in Stage : effects[s][u] > 0 /\ ~recorded(u, s)
                             => unrecorded(req[r]) /\ req[r].stage = s
  BY OnlyHandler
<1>g. req[r].stage \in Stage
  BY <1>f DEF Handler
<1>x. \A x \in Requests : x # r => req'[x] = req[x]
  BY <1>f, OthersStay DEF Step
<1>1. CASE Call(r)
  <2>1. rows' = rows /\ req[r].at = "call" /\ ~unrecorded(req[r])
    BY <1>1 DEF Call, unrecorded
  <2>2. \A s \in Stage : effects[s][u] > 0 => recorded(u, s)
    BY <1>f, <2>1
  <2>3. effects[req[r].stage][u] = 0
    BY <1>f, <1>g, <2>1, <2>2
  <2>4. \A s \in Stage :
           effects'[s][u] = IF s = req[r].stage THEN 1 ELSE effects[s][u]
    <3>1. done(req[r].stage, u)
      BY <1>1, <1>f DEF Call
    <3>2. \A s \in Stage :
             effects'[s][u] = IF s = req[r].stage THEN effects[s][u] + 1 ELSE effects[s][u]
      BY <3>1, <1>g, DoneCounts DEF Inv
    <3>3. QED
      BY <3>2, <2>3, <1>g
  <2>5. /\ req'[r].at \in {"link", "save"} /\ req'[r].stage = req[r].stage
        /\ req'[r].user = u /\ req'[r].record = req[r].record
    BY <1>1, <1>f DEF Call, moveTo
  <2>6. \A s \in Stage : effects'[s][u] <= 1
    BY <2>4, <1>f
  <2>7. \A s \in Stage : effects'[s][u] > 0 /\ s \notin rows'[u] => s = req[r].stage
    BY <2>1, <2>2, <2>4 DEF recorded
  <2>8. QED
    BY <2>1, <2>5, <2>6, <2>7, <1>f, <1>x, UndisturbedMove DEF unrecorded
<1>2. CASE Link(r)
  <2>1. rows' = rows /\ effects' = effects /\ req[r].at = "link"
    BY <1>2 DEF Link
  <2>2. /\ req'[r].at = "save" /\ req'[r].stage = "authentik"
        /\ req'[r].user = u /\ req'[r].record = req[r].record
    BY <1>2, <1>f DEF Link, moveTo
  <2>3. req[r].stage = "authentik"
    BY <2>1, <1>f DEF BehindRow
  <2>4. QED
    BY <2>1, <2>2, <2>3, <1>f, <1>x, UndisturbedMove DEF unrecorded, recorded
<1>3. CASE Save(r)
  <2> DEFINE q == hold(req[r], Expired)
  <2>1. effects' = effects /\ rows'[u] = rows[u] \cup {req[r].stage}
    BY <1>3, <1>f DEF Save, Inv, TypeOK
  <2>2. q.record = Expired /\ q.stage \in Stage
    BY <1>g DEF hold
  <2>3. after(q).record = Expired /\ after(q).at \in {"check", "respond"}
    BY <2>2 DEF after, moveTo, Stage
  <2>4. req'[r] = after(q)
    BY <1>3, <1>f DEF Save
  <2>5. \A s \in Stage : effects'[s][u] > 0 => s \in rows'[u]
    BY <2>1, <1>f DEF recorded
  <2>6. QED
    BY <2>1, <2>3, <2>4, <2>5, <1>f, <1>x, UndisturbedMove
<1>4. QED
  BY <1>1, <1>2, <1>3

\* A handler of another user, or of nobody.
LEMMA UndisturbedElsewhere ==
    ASSUME Inv, NEW u \in Users, Undisturbed(u), NEW r \in Requests, r \notin busy(u),
           Step(r) \/ Fail(r) \/ AnswerLost(r)
    PROVE  Undisturbed(u)'
<1>t. req[r] \in Handler /\ req \in [Requests -> Handler] /\ BehindRow(req[r], rows)
  BY DEF Inv, TypeOK, HandlersBehindRows
<1>1. req[r].at # "idle"
  BY DEF Step, Query, Insert, InsertRefused, Check, Call, CallRefused, Link, Save,
         Respond, Fail, AnswerLost
<1>2. req[r].user # u /\ req[r].user \in Users
  BY <1>1, <1>t DEF busy, BehindRow
<1>3. req'[r].at = "idle" \/ req'[r].user = req[r].user
  <2>1. \A q, at, s : moveTo(q, at, s).user = q.user
    BY DEF moveTo
  <2>2. \A q, rec : hold(q, rec).user = q.user /\ hold(q, rec).stage = q.stage
    BY DEF hold
  <2>3. ASSUME NEW q, q.stage \in Stage
        PROVE  after(q).user = q.user
    BY <2>3 DEF after, moveTo, Stage
  <2>4. req[r].stage \in Stage
    BY <1>t DEF Handler
  <2>5. Idle.at = "idle"
    BY DEF Idle
  <2>6. CASE Check(r)
    <3> DEFINE q == hold(req[r], recordOf(req[r]))
    <3>1. q.stage \in Stage /\ q.user = req[r].user
      BY <2>2, <2>4
    <3>2. after(q).user = req[r].user /\ moveTo(q, "call", q.stage).user = req[r].user
      BY <3>1, <2>1, <2>3
    <3>3. QED
      BY <2>6, <3>2, <1>t DEF Check
  <2>7. CASE Save(r)
    <3> DEFINE q == hold(req[r], Expired)
    <3>1. q.stage \in Stage /\ q.user = req[r].user
      BY <2>2, <2>4
    <3>2. after(q).user = req[r].user
      BY <3>1, <2>3
    <3>3. QED
      BY <2>7, <3>2, <1>t DEF Save
  <2>8. CASE Query(r)
    BY <2>8, <1>t, <2>1, <2>2, <2>5 DEF Query
  <2>9. CASE Insert(r)
    BY <2>9, <1>t DEF Insert
  <2>10. CASE Call(r) \/ Link(r)
    BY <2>10, <1>t, <2>1 DEF Call, Link
  <2>11. CASE InsertRefused(r) \/ CallRefused(r) \/ Respond(r) \/ Fail(r) \/ AnswerLost(r)
    BY <2>11, <1>t, <2>5 DEF InsertRefused, CallRefused, Respond, Fail, AnswerLost
  <2>12. QED
    BY <2>6, <2>7, <2>8, <2>9, <2>10, <2>11 DEF Step
<1>4. rows'[u] = rows[u]
  <2>1. rows \in [Users -> (SUBSET Stage) \cup {NoRow}]
    BY DEF Inv, TypeOK
  <2>2. CASE Insert(r) \/ Save(r)
    BY <2>1, <2>2, <1>2 DEF Insert, Save
  <2>3. CASE ~Insert(r) /\ ~Save(r)
    BY <2>3 DEF Step, Query, InsertRefused, Check, Call, CallRefused, Link, Respond,
                Fail, AnswerLost
  <2>4. QED
    BY <2>2, <2>3
<1>5. \A s \in Stage : effects'[s][u] = effects[s][u]
  <2>1. CASE effects' = effects
    BY <2>1
  <2>2. CASE done(req[r].stage, req[r].user)
    BY <2>2, <1>t, <1>2, DoneCounts DEF Inv, Handler
  <2>3. effects' = effects \/ done(req[r].stage, req[r].user)
    BY DEF Step, Query, Insert, InsertRefused, Check, Call, CallRefused, Link, Save,
           Respond, Fail, AnswerLost
  <2>4. QED
    BY <2>1, <2>2, <2>3
<1>6. \A x \in Requests :
         /\ x \in busy(u) => req'[x] = req[x]
         /\ x \notin busy(u) => ~(req'[x].at # "idle" /\ req'[x].user = u)
  <2> SUFFICES ASSUME NEW x \in Requests
               PROVE  /\ x \in busy(u) => req'[x] = req[x]
                      /\ x \notin busy(u) => ~(req'[x].at # "idle" /\ req'[x].user = u)
    OBVIOUS
  <2>1. CASE x = r
    BY <2>1, <1>2, <1>3
  <2>2. CASE x # r
    BY <2>2, OthersStay DEF busy
  <2>3. QED
    BY <2>1, <2>2
<1>7. QED
  BY <1>4, <1>5, <1>6, UndisturbedFrame

\* Every step keeps the effects of an undisturbed user explained.
LEMMA EffectsExplainedStep ==
    ASSUME Inv, EffectsExplained, [Next]_vars
    PROVE  EffectsExplained'
<1> SUFFICES ASSUME NEW u \in Users, ~disturbed'[u]
             PROVE  Undisturbed(u)'
  BY DEF EffectsExplained, Undisturbed, recorded, busy, unrecorded
<1>d. disturbed \in [Users -> BOOLEAN] /\ req \in [Requests -> Handler]
  BY DEF Inv, TypeOK
<1>r. ASSUME NEW r \in Requests, Step(r) \/ Fail(r) \/ AnswerLost(r)
      PROVE  Undisturbed(u)'
  <2>1. disturbed'[u] = disturbed[u] \/ disturbed[u] = FALSE
    BY <1>r, <1>d DEF Step, Query, Insert, InsertRefused, Check, Call, CallRefused, Link,
                      Save, Respond, Fail, AnswerLost
  <2>2. Undisturbed(u)
    BY <2>1 DEF EffectsExplained
  <2>3. CASE r \notin busy(u)
    BY <1>r, <2>2, <2>3, UndisturbedElsewhere
  <2>4. CASE r \in busy(u)
    <3>1. req[r].user = u
      BY <2>4 DEF busy
    <3>2. ~AnswerLost(r)
      BY <3>1, <1>d DEF AnswerLost
    <3>3. Fail(r) => ~unrecorded(req[r])
      BY <3>1, <1>d DEF Fail
    <3>4. CASE Call(r) \/ Link(r) \/ Save(r)
      BY <2>2, <2>4, <3>4, UndisturbedEffect
    <3>5. CASE \/ Query(r) \/ Insert(r) \/ InsertRefused(r) \/ Check(r) \/ CallRefused(r)
               \/ Respond(r)
      <4>1. ~unrecorded(req[r])
        BY <3>5 DEF Query, Insert, InsertRefused, Check, CallRefused, Respond, unrecorded
      <4>2. QED
        BY <2>2, <2>4, <3>5, <4>1, UndisturbedQuiet
    <3>6. CASE Fail(r)
      BY <2>2, <2>4, <3>3, <3>6, UndisturbedQuiet
    <3>7. QED
      BY <1>r, <3>2, <3>4, <3>5, <3>6 DEF Step
  <2>5. QED
    BY <2>3, <2>4
<1>1. ASSUME NEW r \in Requests, NEW v \in Users, Arrive(r, v)
      PROVE  Undisturbed(u)'
  <2>1. disturbed[u] = FALSE /\ (v = u => busy(u) = {})
    BY <1>1, <1>d DEF Arrive
  <2>2. Undisturbed(u)
    BY <2>1 DEF EffectsExplained
  <2>x. \A x \in Requests : x # r => req'[x] = req[x]
    BY <1>1, OthersStay
  <2>a. /\ rows' = rows /\ effects' = effects /\ req[r].at = "idle"
        /\ req'[r].user = v /\ req'[r].at = "query" /\ req'[r].record = Expired
    BY <1>1, <1>d DEF Arrive
  <2>3. CASE v = u
    <3>1. \A x \in Requests : x # r => x \notin busy(u) /\ req'[x] = req[x]
      BY <2>1, <2>3, <2>x
    <3>2. \A s \in Stage : effects'[s][u] <= 1
      BY <2>2, <2>a DEF Undisturbed
    <3>3. \A s \in Stage : effects[s][u] > 0 => recorded(u, s)
      BY <2>1, <2>2, <2>3 DEF Undisturbed
    <3>4. QED
      BY <2>2, <2>a, <3>1, <3>2, <3>3, UndisturbedMove DEF recorded
  <2>4. CASE v # u
    <3>1. r \notin busy(u)
      BY <2>a DEF busy
    <3>2. \A x \in Requests :
             /\ x \in busy(u) => req'[x] = req[x]
             /\ x \notin busy(u) => ~(req'[x].at # "idle" /\ req'[x].user = u)
      BY <2>4, <2>a, <2>x, <3>1 DEF busy
    <3>3. QED
      BY <2>2, <2>a, <3>2, UndisturbedFrame
  <2>5. QED
    BY <2>3, <2>4
<1>2. CASE Crash
  <2>1. ~disturbed[u] /\ \A r \in busy(u) : ~unrecorded(req[r])
    BY <1>2 DEF Crash
  <2>2. Undisturbed(u)
    BY <2>1 DEF EffectsExplained
  <2>3. \A r \in Requests : req'[r].at = "idle"
    BY <1>2 DEF Crash, Idle
  <2>4. \A s \in Stage : effects[s][u] > 0 => recorded(u, s)
    BY <2>1, <2>2 DEF Undisturbed
  <2>5. busy(u)' = {}
    BY <2>3 DEF busy
  <2>6. \A s \in Stage : effects'[s][u] <= 1 /\ (effects'[s][u] > 0 => recorded(u, s)')
    BY <1>2, <2>2, <2>4 DEF Crash, Undisturbed, recorded
  <2>7. QED
    BY <2>5, <2>6 DEF Undisturbed
<1>3. CASE UNCHANGED vars
  <2>1. Undisturbed(u)
    BY <1>3 DEF EffectsExplained, vars
  <2>2. QED
    BY <1>3, <2>1 DEF vars, Undisturbed, busy, recorded, unrecorded
<1>4. QED
  BY <1>r, <1>1, <1>2, <1>3 DEF Next

(***************************************************************************)
(* As long as the requests for a username do not overlap and each effect   *)
(* is recorded, no number of refusals, failures, restarts and retries      *)
(* takes a person through the same service twice.                          *)
(***************************************************************************)
THEOREM NothingRepeated == Spec => []StepsNotRepeated
<1> DEFINE IInv == Inv /\ EffectsExplained
<1>1. ASSUME Init
      PROVE  EffectsExplained
  <2> SUFFICES ASSUME NEW u \in Users
               PROVE  Undisturbed(u)
    BY DEF EffectsExplained
  <2>1. \A s \in Stage : effects[s][u] = 0
    BY <1>1 DEF Init
  <2>2. busy(u) = {}
    BY <1>1 DEF Init, Idle, busy
  <2>3. QED
    BY <2>1, <2>2 DEF Undisturbed
<1>2. Init => IInv
  BY <1>1, InvInductive
<1>3. IInv /\ [Next]_vars => IInv'
  BY InvInductive, EffectsExplainedStep
<1>4. IInv => StepsNotRepeated
  BY DEF EffectsExplained, Undisturbed, StepsNotRepeated
<1>5. QED
  BY <1>2, <1>3, <1>4, PTL DEF Spec

-----------------------------------------------------------------------------
(***************************************************************************)
(* The onboarding that the handlers implement.                             *)
(***************************************************************************)
Known == {u \in Users : rows[u] # NoRow}
Record == [u \in Users |-> recordOfUser(u)]

\* What must be on record before a stage.
Prior == [s \in Stage |-> CASE s = "authentik"  -> {}
                            [] s = "loomio"     -> {"authentik"}
                            [] s = "mattermost" -> {"authentik", "loomio"}]

\* A step that writes no row, calls no service and answers no 201 is none of it.
LEMMA PromiseStutter ==
    ASSUME rows' = rows, effects' = effects, created' = created
    PROVE  UNCHANGED Promise!vars
<1>1. UNCHANGED << Known, Record >>
  BY DEF Known, Record, recordOfUser
<1>2. QED
  BY <1>1 DEF Promise!vars, Known, Record

\* The row of a new user.
LEMMA PromiseEnrol ==
    ASSUME Inv, NEW r \in Requests, Insert(r), NEW u \in Users, req[r].user = u
    PROVE  Promise!Enrol(u)
<1>1. \A v \in Users : rows'[v] = IF v = u THEN {} ELSE rows[v]
  BY DEF Insert, Inv, TypeOK, NewRow
<1>2. rows[u] = NoRow /\ NoRow # {}
  BY DEF Insert, NoRow
<1>3. u \notin Known /\ Known' = Known \cup {u}
  BY <1>1, <1>2 DEF Known
<1>4. \A v \in Users : recordOfUser(v)' = recordOfUser(v)
  BY <1>1, <1>2 DEF recordOfUser
<1>5. Record' = Record
  BY <1>4 DEF Record
<1>6. effects' = effects /\ created' = created
  BY DEF Insert
<1>7. QED
  BY <1>3, <1>5, <1>6 DEF Promise!Enrol, Known, Record

\* A call, answered or not, of a service whose predecessors are on record.
LEMMA PromiseServe ==
    ASSUME Inv, NEW r \in Requests, Call(r) \/ AnswerLost(r)
    PROVE  req[r].user \in Users /\ req[r].stage \in Stage
           /\ Promise!Serve(req[r].stage, req[r].user)
<1> DEFINE u == req[r].user
           s == req[r].stage
<1>1. req[r] \in Handler /\ BehindRow(req[r], rows) /\ req[r].at = "call"
  BY DEF Inv, TypeOK, HandlersBehindRows, Call, AnswerLost
<1>2. u \in Users /\ s \in Stage /\ rows[u] # NoRow
  BY <1>1 DEF BehindRow, Running, Handler
<1>3. Prior[s] \subseteq rows[u]
  BY <1>1, <1>2 DEF Prior, BehindRow, Running, Stage
<1>4. u \in Known /\ Prior[s] \subseteq Record[u]
  BY <1>2, <1>3 DEF Known, Record, recordOfUser
<1>5. accepts(s, u) /\ done(s, u) /\ rows' = rows /\ created' = created
  BY DEF Call, AnswerLost
<1>6. s \in {"authentik"} => effects[s][u] = 0
  BY <1>5 DEF accepts
<1>7. effects' = [effects EXCEPT ![s] = [effects[s] EXCEPT ![u] = effects[s][u] + 1]]
  BY <1>5 DEF done
<1>8. UNCHANGED << Known, Record, created >>
  BY <1>5 DEF Known, Record, recordOfUser
<1>9. Promise!Serve(s, u)
  BY <1>4, <1>6, <1>7, <1>8 DEF Promise!Serve, Known, Record, Prior
<1>10. QED
  BY <1>2, <1>9

\* A commit that records what its handler saw done.
LEMMA PromiseNote ==
    ASSUME Inv, EffectsSeen, NEW r \in Requests, Save(r)
    PROVE  req[r].user \in Users /\ req[r].stage \in Stage
           /\ Promise!Note(req[r].stage, req[r].user)
<1> DEFINE u == req[r].user
           s == req[r].stage
<1>1. req[r] \in Handler /\ BehindRow(req[r], rows) /\ req[r].at = "save"
  BY DEF Inv, TypeOK, HandlersBehindRows, Save
<1>2. u \in Users /\ s \in Stage /\ rows[u] # NoRow
  BY <1>1 DEF BehindRow, Running, Handler
<1>3. effects[s][u] > 0
  BY <1>1 DEF EffectsSeen, unrecorded
<1>4. \A v \in Users : rows'[v] = IF v = u THEN rows[u] \cup {s} ELSE rows[v]
  BY <1>2 DEF Save, Inv, TypeOK
<1>5. rows[u] \cup {s} # NoRow
  BY <1>2, Distinct DEF Inv, TypeOK
<1>6. Known' = Known
  BY <1>2, <1>4, <1>5 DEF Known
<1>7. \A v \in Users : recordOfUser(v)' = IF v = u THEN Record[u] \cup {s} ELSE Record[v]
  BY <1>2, <1>4, <1>5 DEF recordOfUser, Record
<1>8. Record' = [Record EXCEPT ![u] = Record[u] \cup {s}]
  BY <1>7 DEF Record
<1>9. effects' = effects /\ created' = created
  BY DEF Save
<1>10. Promise!Note(s, u)
  BY <1>3, <1>6, <1>8, <1>9 DEF Promise!Note, Known, Record
<1>11. QED
  BY <1>2, <1>10

\* The answer 201 of a first request.
LEMMA PromiseWelcome ==
    ASSUME Inv, OneFirstRequest, NEW r \in Requests, Respond(r), req[r].isNew
    PROVE  req[r].user \in Users /\ Promise!Welcome(req[r].user)
<1> DEFINE u == req[r].user
<1>1. req[r] \in Handler /\ BehindRow(req[r], rows) /\ req[r].at = "respond"
  BY DEF Inv, TypeOK, HandlersBehindRows, Respond
<1>2. u \in Users /\ rows[u] # NoRow /\ Stage \subseteq rows[u]
  BY <1>1 DEF BehindRow, Running, Stage
<1>3. rows[u] = Stage
  BY <1>2 DEF Inv, TypeOK
<1>4. Record[u] = Stage
  BY <1>2, <1>3 DEF Record, recordOfUser
<1>5. created[u] = 0
  BY <1>2 DEF OneFirstRequest
<1>6. created' = [created EXCEPT ![u] = 1]
  BY <1>5 DEF Respond
<1>7. rows' = rows /\ effects' = effects
  BY DEF Respond
<1>8. UNCHANGED << Known, Record >>
  BY <1>7 DEF Known, Record, recordOfUser
<1>9. Promise!Welcome(u)
  BY <1>4, <1>5, <1>6, <1>7, <1>8 DEF Promise!Welcome, Known, Record
<1>10. QED
  BY <1>2, <1>9

\* Every step is one of the onboarding's, or none.
LEMMA PromiseStep ==
    ASSUME Inv, EffectsSeen, OneFirstRequest, [Next]_vars
    PROVE  [Promise!Next]_Promise!vars
<1>1. ASSUME NEW r \in Requests, Insert(r)
      PROVE  Promise!Next
  <2>1. req[r].user \in Users
    BY <1>1 DEF Inv, HandlersBehindRows, BehindRow, Insert
  <2>2. PICK u \in Users : req[r].user = u
    BY <2>1
  <2>3. Promise!Enrol(u)
    BY <1>1, <2>2, PromiseEnrol
  <2>4. QED
    BY <2>3 DEF Promise!Next
<1>2. ASSUME NEW r \in Requests, Call(r) \/ AnswerLost(r)
      PROVE  Promise!Next
  BY <1>2, PromiseServe DEF Promise!Next
<1>3. ASSUME NEW r \in Requests, Save(r)
      PROVE  Promise!Next
  BY <1>3, PromiseNote DEF Promise!Next
<1>4. ASSUME NEW r \in Requests, Respond(r), req[r].isNew
      PROVE  Promise!Next
  BY <1>4, PromiseWelcome DEF Promise!Next
<1>5. ASSUME NEW r \in Requests, Respond(r), ~req[r].isNew
      PROVE  UNCHANGED Promise!vars
  BY <1>5, PromiseStutter DEF Respond
<1>6. ASSUME NEW r \in Requests,
             Query(r) \/ InsertRefused(r) \/ Check(r) \/ CallRefused(r) \/ Link(r)
      PROVE  UNCHANGED Promise!vars
  BY <1>6, PromiseStutter DEF Query, InsertRefused, Check, CallRefused, Link
<1>7. ASSUME NEW r \in Requests, Fail(r) \/ \E u \in Users : Arrive(r, u)
      PROVE  UNCHANGED Promise!vars
  BY <1>7, PromiseStutter DEF Fail, Arrive
<1>8. CASE Crash \/ UNCHANGED vars
  BY <1>8, PromiseStutter DEF Crash, vars
<1>9. QED
  BY <1>1, <1>2, <1>3, <1>4, <1>5, <1>6, <1>7, <1>8 DEF Next, Step

(***************************************************************************)
(* The provisioner implements Onboarding, for any number of usernames,     *)
(* overlapping requests, failures, lost answers and restarts               *)
(* (services/provisioner/main.py).                                         *)
(***************************************************************************)
THEOREM OnboardingKept == Spec => PromiseKept
<1> DEFINE IInv == Inv /\ EffectsSeen /\ OneFirstRequest
<1>1. ASSUME Init
      PROVE  IInv /\ Promise!Init
  <2>1. \A r \in Requests : req[r].at = "idle" /\ ~req[r].isNew
    BY <1>1 DEF Init, Idle
  <2>2. EffectsSeen /\ OneFirstRequest
    BY <1>1, <2>1 DEF Init, EffectsSeen, unrecorded, OneFirstRequest
  <2>3. \A u \in Users : rows[u] = NoRow
    BY <1>1 DEF Init
  <2>4. Known = {} /\ Record = [u \in Users |-> {}]
    BY <2>3 DEF Known, Record, recordOfUser
  <2>5. Promise!Init
    BY <1>1, <2>4 DEF Init, Promise!Init, Known, Record
  <2>6. QED
    BY <1>1, <2>2, <2>5, InvInductive
<1>2. IInv /\ [Next]_vars => IInv'
  BY InvInductive, EffectsSeenStep, FirstStep
<1>3. IInv /\ [Next]_vars => [Promise!Next]_Promise!vars
  BY PromiseStep
<1>4. QED
  BY <1>1, <1>2, <1>3, PTL DEF Spec, PromiseKept, Promise!Spec

-----------------------------------------------------------------------------
(***************************************************************************)
(* What retries can do.                                                    *)
(***************************************************************************)
\* A user is stranded by a step that leaves its account unrecorded, and no
\* step of any handler changes that.
LEMMA StrandedStep ==
    ASSUME Inv, [Next]_vars, NEW u \in Users, stranded(u)
    PROVE  stranded(u)'
<1>a. "authentik" \in Stage
  BY DEF Stage
<1>1. effects'["authentik"][u] > 0
  BY <1>a, EffectsGrow DEF stranded
<1>2. "authentik" \notin rows'[u]
  <2>1. ASSUME NEW r \in Requests, Save(r), req[r].user = u
        PROVE  FALSE
    <3>1. r \in busy(u) /\ unrecorded(req[r])
      BY <2>1 DEF Save, busy, unrecorded
    <3>2. QED
      BY <3>1 DEF stranded
  <2>2. rows'[u] = rows[u] \/ rows'[u] = NewRow
    BY <2>1, RowsChange
  <2>3. QED
    BY <2>2 DEF stranded, recorded, NewRow
<1>3. ASSUME NEW x \in Requests, req'[x].user = u, unrecorded(req'[x])
      PROVE  FALSE
  <2>1. (req'[x] = req[x] \/ Call(x) \/ Link(x)) /\ req[x].user = u
    BY <1>3, UnrecordedMoves
  <2>2. ~unrecorded(req[x])
    BY <2>1 DEF stranded, busy, unrecorded
  <2>3. Call(x) /\ req[x].at = "call"
    BY <1>3, <2>1, <2>2 DEF Link, Call, unrecorded
  <2>4. req[x].stage = "authentik"
    BY <2>1, <2>3 DEF Inv, HandlersBehindRows, BehindRow, Running, stranded, recorded
  <2>5. effects["authentik"][u] = 0
    BY <2>1, <2>3, <2>4 DEF Call, accepts
  <2>6. QED
    BY <2>5 DEF stranded
<1>4. \A x \in busy(u)' : ~unrecorded(req'[x])
  BY <1>3 DEF busy
<1>5. QED
  BY <1>1, <1>2, <1>4 DEF stranded, recorded

(***************************************************************************)
(* "Retry is safe" (main.py:208) fails for good: a user whose account was  *)
(* made and not recorded never gets past Authentik again, whoever retries, *)
(* how often, and with how many requests at once.                          *)
(***************************************************************************)
THEOREM StrandedForGood ==
    Spec => [][\A u \in Users : stranded(u) => stranded(u)' /\ ~complete(rows'[u])]_vars
<1>1. Inv /\ [Next]_vars
        => [\A u \in Users : stranded(u) => stranded(u)' /\ ~complete(rows'[u])]_vars
  <2> SUFFICES ASSUME Inv, [Next]_vars, NEW u \in Users, stranded(u)
               PROVE  stranded(u)' /\ ~complete(rows'[u])
    OBVIOUS
  <2>1. stranded(u)'
    BY StrandedStep
  <2>2. "authentik" \notin rows'[u]
    BY <2>1 DEF stranded, recorded
  <2>3. QED
    BY <2>1, <2>2 DEF complete, Stage
<1>2. QED
  BY <1>1, InvInductive, PTL DEF Spec

\* The only request of a user that found no row still finds none when it inserts one.
InsertsFresh ==
    \A u \in Users : ~disturbed[u] =>
        \A r \in busy(u) : req[r].at = "insert" => rows[u] = NoRow

LEMMA InsertsFreshStep ==
    ASSUME Inv, EffectsExplained, InsertsFresh, [Next]_vars
    PROVE  InsertsFresh'
<1> SUFFICES ASSUME NEW u \in Users, ~disturbed'[u], NEW x \in Requests,
                    req'[x].at = "insert", req'[x].user = u
             PROVE  rows'[u] = NoRow
  BY DEF InsertsFresh, busy
<1>t. /\ req[x] \in Handler /\ BehindRow(req[x], rows) /\ req \in [Requests -> Handler]
      /\ disturbed \in [Users -> BOOLEAN] /\ rows \in [Users -> (SUBSET Stage) \cup {NoRow}]
  BY DEF Inv, TypeOK, HandlersBehindRows
<1>s. req[x].stage \in {"authentik", "loomio", "mattermost"}
  BY <1>t DEF Handler, Stage
<1>i. Idle.at = "idle"
  BY DEF Idle
<1>m. \A q, at, s : moveTo(q, at, s).at = at /\ moveTo(q, at, s).user = q.user
  BY DEF moveTo
<1>a. ASSUME NEW q, q.stage \in {"authentik", "loomio", "mattermost"}
      PROVE  after(q).at \in {"check", "respond"}
  BY <1>a DEF after, moveTo
<1>h. \A q, rec : hold(q, rec).stage = q.stage
  BY DEF hold
<1>1. ~disturbed[u]
  <2>1. ASSUME NEW r \in Requests, NEW v \in Users, Arrive(r, v)
        PROVE  ~disturbed[u]
    BY <1>t, <2>1 DEF Arrive
  <2>2. ASSUME NEW r \in Requests, Fail(r) \/ AnswerLost(r)
        PROVE  ~disturbed[u]
    BY <1>t, <2>2 DEF Fail, AnswerLost
  <2>3. ASSUME NEW r \in Requests, Step(r)
        PROVE  disturbed' = disturbed
    BY <2>3 DEF Step, Query, Insert, InsertRefused, Check, Call, CallRefused, Link, Save, Respond
  <2>4. CASE Crash \/ UNCHANGED vars
    BY <1>t, <2>4 DEF Crash, vars
  <2>5. QED
    BY <2>1, <2>2, <2>3, <2>4 DEF Next
<1>2. CASE Query(x)
  BY <1>2, <1>t, <1>i, <1>m DEF Query
<1>3. CASE req'[x] = req[x]
  <2>1. x \in busy(u) /\ req[x].at = "insert"
    BY <1>3 DEF busy
  <2>2. rows[u] = NoRow
    BY <1>1, <2>1 DEF InsertsFresh
  <2>3. ASSUME NEW r \in Requests, Save(r) \/ Insert(r), req[r].user = u
        PROVE  r = x
    <3>1. r \in busy(u)
      BY <2>3 DEF Save, Insert, busy
    <3>2. QED
      BY <1>1, <2>1, <3>1 DEF EffectsExplained, Undisturbed
  <2>4. ~Save(x)
    BY <2>1 DEF Save
  <2>5. ~Insert(x)
    BY <1>3, <1>t, <2>1 DEF Insert
  <2>6. ASSUME NEW r \in Requests, Save(r) \/ Insert(r)
        PROVE  rows'[u] = rows[u]
    <3>1. req[r].user # u
      BY <2>3, <2>4, <2>5, <2>6
    <3>2. QED
      BY <1>t, <2>6, <3>1 DEF Save, Insert
  <2>7. ASSUME NEW r \in Requests, Step(r), ~Save(r), ~Insert(r)
        PROVE  rows' = rows
    BY <2>7 DEF Step, Query, InsertRefused, Check, Call, CallRefused, Link, Respond
  <2>8. ASSUME NEW r \in Requests, Fail(r) \/ AnswerLost(r) \/ \E v \in Users : Arrive(r, v)
        PROVE  rows' = rows
    BY <2>8 DEF Fail, AnswerLost, Arrive
  <2>9. CASE Crash \/ UNCHANGED vars
    BY <2>2, <2>9 DEF Crash, vars
  <2>10. QED
    BY <2>2, <2>6, <2>7, <2>8, <2>9 DEF Next
<1>4. CASE Check(x)
  <2> DEFINE q == hold(req[x], recordOf(req[x]))
  <2>1. after(q).at \in {"check", "respond"} /\ moveTo(q, "call", q.stage).at = "call"
    BY <1>a, <1>h, <1>m, <1>s
  <2>2. QED
    BY <1>4, <1>t, <2>1 DEF Check
<1>5. CASE Save(x)
  <2>1. after(hold(req[x], Expired)).at \in {"check", "respond"}
    BY <1>a, <1>h, <1>s
  <2>2. QED
    BY <1>5, <1>t, <2>1 DEF Save
<1>6. CASE Call(x) \/ Link(x)
  BY <1>6, <1>t, <1>m DEF Call, Link
<1>7. CASE \/ Insert(x) \/ Respond(x) \/ InsertRefused(x) \/ CallRefused(x)
           \/ Fail(x) \/ AnswerLost(x) \/ Crash
  BY <1>7, <1>t, <1>i
  DEF Insert, Respond, InsertRefused, CallRefused, Fail, AnswerLost, Crash
<1>8. CASE \E v \in Users : Arrive(x, v)
  BY <1>8, <1>t DEF Arrive
<1>9. ASSUME NEW r \in Requests, r # x,
             \/ Step(r) \/ Fail(r) \/ AnswerLost(r)
             \/ \E v \in Users : Arrive(r, v)
      PROVE  req'[x] = req[x]
  BY <1>9, OthersStay
<1>10. CASE UNCHANGED vars
  BY <1>3, <1>10 DEF vars
<1>11. CASE Step(x)
  BY <1>11, <1>2, <1>4, <1>5, <1>6, <1>7 DEF Step
<1>12. QED
  BY <1>3, <1>7, <1>8, <1>9, <1>10, <1>11 DEF Next

(***************************************************************************)
(* Retrying is safe otherwise: neither the database nor Authentik refuses  *)
(* a request for a user whose requests never overlapped and whose effects  *)
(* were all recorded, however often its requests failed (main.py:188-208). *)
(***************************************************************************)
THEOREM RefusedOnlyWhenDisturbed ==
    Spec => [][\A r \in Requests :
                 InsertRefused(r) \/ CallRefused(r) => disturbed[req[r].user]]_vars
<1> DEFINE IInv == Inv /\ EffectsExplained /\ InsertsFresh
           Refusals == \A r \in Requests :
                         InsertRefused(r) \/ CallRefused(r) => disturbed[req[r].user]
<1>1. Init => IInv
  <2> SUFFICES ASSUME Init PROVE IInv
    OBVIOUS
  <2>1. \A u \in Users : busy(u) = {} /\ \A s \in Stage : effects[s][u] = 0
    BY DEF Init, Idle, busy
  <2>2. EffectsExplained
    BY <2>1 DEF EffectsExplained, Undisturbed
  <2>3. InsertsFresh
    BY <2>1 DEF InsertsFresh
  <2>4. QED
    BY <2>2, <2>3, InvInductive
<1>2. IInv /\ [Next]_vars => IInv'
  BY InvInductive, EffectsExplainedStep, InsertsFreshStep
<1>3. IInv /\ [Next]_vars => [Refusals]_vars
  <2> SUFFICES ASSUME IInv, NEW r \in Requests, InsertRefused(r) \/ CallRefused(r),
                      ~disturbed[req[r].user]
               PROVE  FALSE
    OBVIOUS
  <2> DEFINE u == req[r].user
  <2>1. req[r] \in Handler /\ BehindRow(req[r], rows) /\ req[r].at \in {"insert", "call"}
    BY DEF Inv, TypeOK, HandlersBehindRows, InsertRefused, CallRefused
  <2>2. u \in Users /\ req[r].stage \in Stage
    BY <2>1 DEF BehindRow, Handler
  <2>3. r \in busy(u)
    BY <2>1 DEF busy
  <2>4. Undisturbed(u)
    BY <2>2 DEF EffectsExplained
  <2>5. CASE InsertRefused(r)
    BY <2>2, <2>3, <2>5 DEF InsertRefused, InsertsFresh
  <2>6. CASE CallRefused(r)
    <3>1. req[r].stage = "authentik" /\ effects["authentik"][u] # 0 /\ req[r].at = "call"
      BY <2>6 DEF CallRefused, accepts
    <3>2. effects["authentik"][u] \in Nat /\ effects["authentik"][u] > 0
      BY <2>2, <3>1 DEF Inv, TypeOK
    <3>3. ~recorded(u, "authentik")
      BY <2>3, <2>4, <3>1 DEF Undisturbed
    <3>4. unrecorded(req[r])
      BY <2>2, <2>3, <2>4, <3>1, <3>2, <3>3, OnlyHandler
    <3>5. QED
      BY <3>1, <3>4 DEF unrecorded
  <2>7. QED
    BY <2>5, <2>6
<1>4. QED
  BY <1>1, <1>2, <1>3, PTL DEF Spec

-----------------------------------------------------------------------------
(***************************************************************************)
(* A handler's way to its end.                                             *)
(***************************************************************************)
Rank == [authentik |-> 12, loomio |-> 8, mattermost |-> 4]

\* At most how many steps a handler still takes.
left(q) ==
    CASE q.at = "idle"    -> 0
      [] q.at = "respond" -> 1
      [] q.at = "save"    -> Rank[q.stage] - 2
      [] q.at = "link"    -> Rank[q.stage] - 1
      [] q.at = "call"    -> Rank[q.stage]
      [] q.at = "check"   -> Rank[q.stage] + 1
      [] q.at = "insert"  -> 14
      [] q.at = "query"   -> 15

LEMMA LeftIsNat ==
    ASSUME NEW q \in Handler
    PROVE  left(q) \in 0..15
BY DEF left, Rank, Handler, At, Stage

\* Whatever passes a stage has less before it than whoever begins or ends it.
LEMMA AfterIsLess ==
    ASSUME NEW q \in Handler
    PROVE  left(after(q)) < Rank[q.stage] - 2
<1>1. q.stage \in {"authentik", "loomio", "mattermost"}
  BY DEF Handler, Stage
<1>2. QED
  BY <1>1 DEF after, moveTo, left, Rank

(***************************************************************************)
(* No handler goes round in circles: of its own steps each takes it nearer *)
(* to its answer, fifteen in all at most, and no step of another moves it. *)
(* With handler threads that are scheduled this is why a request ends.     *)
(***************************************************************************)
THEOREM HandlersEnd ==
    Spec => /\ [](\A r \in Requests : left(req[r]) \in 0..15)
            /\ [][\A r \in Requests : Step(r) =>
                    /\ left(req'[r]) < left(req[r])
                    /\ \A x \in Requests \ {r} : req'[x] = req[x]]_vars
<1> DEFINE Nearer == \A r \in Requests : Step(r) =>
                       /\ left(req'[r]) < left(req[r])
                       /\ \A x \in Requests \ {r} : req'[x] = req[x]
           Bounded == \A r \in Requests : left(req[r]) \in 0..15
<1>1. Inv => Bounded
  BY LeftIsNat DEF Inv, TypeOK
<1>2. Inv /\ [Next]_vars => [Nearer]_vars
  <2> SUFFICES ASSUME Inv, NEW r \in Requests, Step(r)
               PROVE  /\ left(req'[r]) < left(req[r])
                      /\ \A x \in Requests \ {r} : req'[x] = req[x]
    OBVIOUS
  <2>o. \A x \in Requests \ {r} : req'[x] = req[x]
    BY OthersStay
  <2>t. /\ req[r] \in Handler /\ req \in [Requests -> Handler]
        /\ req[r].stage \in {"authentik", "loomio", "mattermost"}
    BY DEF Inv, TypeOK, Handler, Stage
  <2>i. left(Idle) = 0
    BY DEF left, Idle
  <2>1. CASE InsertRefused(r) \/ CallRefused(r) \/ Respond(r)
    <3>1. req'[r] = Idle /\ req[r].at \in {"insert", "call", "respond"}
      BY <2>1, <2>t DEF InsertRefused, CallRefused, Respond
    <3>2. left(req[r]) > 0
      BY <2>t, <3>1 DEF left, Rank
    <3>3. QED
      BY <2>i, <2>o, <3>1, <3>2
  <2>2. CASE Query(r)
    <3>1. left(moveTo(req[r], "insert", "authentik")) = 14
      BY DEF left, moveTo
    <3>2. left(moveTo(hold(req[r], rows[req[r].user]), "check", "authentik")) = 13
      BY DEF left, moveTo, Rank
    <3>3. left(req[r]) = 15
      BY <2>2 DEF Query, left
    <3>4. QED
      BY <2>2, <2>i, <2>o, <2>t, <3>1, <3>2, <3>3 DEF Query
  <2>3. CASE Insert(r)
    <3>1. req'[r].at = "check" /\ req'[r].stage = "authentik" /\ req[r].at = "insert"
      BY <2>3, <2>t DEF Insert
    <3>2. left(req'[r]) = 13 /\ left(req[r]) = 14
      BY <3>1 DEF left, Rank
    <3>3. QED
      BY <2>o, <3>2
  <2>4. CASE Check(r)
    <3> DEFINE q == hold(req[r], recordOf(req[r]))
    <3>1. q \in Handler /\ q.stage = req[r].stage
      BY <2>4, <2>t, RowRead, HoldType DEF Check, Running, hold
    <3>2. left(after(q)) < Rank[q.stage] - 2 /\ left(after(q)) \in 0..15
      BY <3>1, AfterIsLess, AfterType, LeftIsNat
    <3>3. left(moveTo(q, "call", q.stage)) = Rank[q.stage]
      BY DEF left, moveTo
    <3>4. left(req[r]) = Rank[req[r].stage] + 1 /\ Rank[req[r].stage] \in Nat
      BY <2>4, <2>t DEF Check, left, Rank
    <3>5. req'[r] = after(q) \/ req'[r] = moveTo(q, "call", q.stage)
      BY <2>4, <2>t DEF Check
    <3> HIDE DEF q
    <3>6. QED
      BY <2>o, <3>1, <3>2, <3>3, <3>4, <3>5
  <2>5. CASE Call(r)
    <3>1. /\ req'[r].stage = req[r].stage /\ req'[r].at \in {"link", "save"}
          /\ req[r].at = "call"
      BY <2>5, <2>t DEF Call, moveTo
    <3>2. QED
      BY <2>o, <2>t, <3>1 DEF left, Rank
  <2>6. CASE Link(r)
    <3>1. req'[r].stage = "authentik" /\ req'[r].at = "save" /\ req[r].at = "link"
      BY <2>6, <2>t DEF Link, moveTo
    <3>2. req[r].stage = "authentik"
      BY <3>1 DEF Inv, HandlersBehindRows, BehindRow
    <3>3. QED
      BY <2>o, <3>1, <3>2 DEF left, Rank
  <2>7. CASE Save(r)
    <3> DEFINE q == hold(req[r], Expired)
    <3>1. q \in Handler /\ q.stage = req[r].stage
      BY <2>t, HoldType DEF hold
    <3>2. left(after(q)) < Rank[q.stage] - 2
      BY <3>1, AfterIsLess
    <3>3. req'[r] = after(q) /\ left(req[r]) = Rank[req[r].stage] - 2
      BY <2>7, <2>t DEF Save, left
    <3>4. QED
      BY <2>o, <3>1, <3>2, <3>3
  <2>8. QED
    BY <2>1, <2>2, <2>3, <2>4, <2>5, <2>6, <2>7 DEF Step
<1>3. QED
  BY <1>1, <1>2, InvInductive, PTL DEF Spec
=============================================================================
