------------------------------- MODULE Agents -------------------------------
(***************************************************************************)
(* openclaw: the gateway and the tool loops of its agents, composed with   *)
(* the decision recorder that keeps their audit trail, the Glass Box.      *)
(*                                                                         *)
(* A conversation is one call of an agent's run().  In each round the      *)
(* language model answers with text, which ends it, or with a sequence of  *)
(* tool calls, which the loop runs in their order.  What the model asks    *)
(* for is an arbitrary choice from the tools the instance offers it.       *)
(* The gateway's handler is an `async def' that calls the Clerk without    *)
(* awaiting, so one Clerk conversation runs at a time; the other agents'   *)
(* processes and the recorder's other callers run beside it.               *)
(***************************************************************************)
EXTENDS DecisionRecorder

CONSTANTS Convs,          \* conversations
          AgentOf,        \* agent of a conversation: "clerk", "steward" or "sentry"
          UserOf,         \* member (or scheduler) it is held with
          Offers,         \* tools its model may ask for in this instance
          Ahead,          \* days_ahead of the agenda's reviews
          MaxToolRounds,  \* 10 in the code
          MaxRunning,     \* bound on the conversations held at one time
          MaxBlocks       \* bound on the tool calls of one answer

VARIABLES conv,      \* state of each conversation's loop
          audit      \* its rows of table glass_box and its writes, counted for the properties

vars == <<recorderVars, conv, audit>>

-----------------------------------------------------------------------------
(* Tools.                                                                  *)

ClerkWrites == {"loomio_create_discussion", "mattermost_post_message", "provision_member",
                "dr_log_tension", "dr_update_tension", "dr_set_review_date",
                "dr_update_accountability", "log_labour"}
StewardWrites == {"steward_post_financial_digest"}
SentryWrites == {"sentry_post_ops_alert"}

Writes(c) == CASE AgentOf[c] = "clerk"   -> ClerkWrites
               [] AgentOf[c] = "steward" -> StewardWrites
               [] AgentOf[c] = "sentry"  -> SentryWrites

\* The other tools only read or format; their answers go to the model alone.
Tools(c) == Writes(c) \cup {"glass_box_log", "read"}

ASSUME AgentsAssumption ==
    /\ AgentOf \in [Convs -> {"clerk", "steward", "sentry"}]
    /\ \A c \in Convs : /\ AgentOf[c] = "clerk" => UserOf[c] \in Members
                        /\ Offers[c] \subseteq Tools(c)
    /\ MaxToolRounds \in Nat /\ MaxBlocks \in Nat /\ Ahead \in Nat

Answers(c) == UNION {[1..n -> Offers[c]] : n \in 1..MaxBlocks}

\* Of the confirmed entries of earlier rounds, those no round has written on; of the
\* round under way, its confirmed entries, those since its last write, its writes,
\* and whether it has tried to log at all.
Blank == [unused |-> 0, entered |-> 0, fresh |-> 0, wrote |-> 0, tried |-> FALSE]

Fresh == [pc |-> "idle", round |-> 0, blocks |-> <<>>, rejecting |-> FALSE, confirmed |-> FALSE]

TypeOK ==
    /\ RecorderTypeOK
    /\ DOMAIN conv = Convs
    /\ \A c \in Convs :
         /\ conv[c].pc \in {"idle", "asking", "tools"}
         /\ conv[c].round \in 0..MaxToolRounds
         /\ conv[c].pc = "tools" <=> conv[c].blocks # <<>>
         /\ \A i \in DOMAIN conv[c].blocks : conv[c].blocks[i] \in Tools(c)
         /\ conv[c].rejecting \in BOOLEAN
         /\ conv[c].confirmed \in BOOLEAN
    /\ audit \in [Convs -> [unused : Nat, entered : Nat, fresh : Nat, wrote : Nat, tried : BOOLEAN]]

Init ==
    /\ RecorderInit
    /\ conv = [c \in Convs |-> Fresh]
    /\ audit = [c \in Convs |-> Blank]

Running(c) == conv[c].pc \in {"asking", "tools"}

-----------------------------------------------------------------------------
(* The gateway and the rounds.                                             *)

\* A message of a member, or the scheduler's prompt, starts a loop.
Ask(c) ==
    /\ conv[c].pc = "idle"
    /\ Cardinality({d \in Convs : Running(d)}) < MaxRunning         \* bound
    /\ AgentOf[c] = "clerk" =>
         \A d \in Convs : AgentOf[d] = "clerk" => ~Running(d)
    /\ conv' = [conv EXCEPT ![c].pc = "asking"]
    /\ UNCHANGED <<recorderVars, audit>>

\* The loop returns and its state is gone; the next message starts afresh.
Finish(c) ==
    /\ conv' = [conv EXCEPT ![c] = Fresh]
    /\ audit' = [audit EXCEPT ![c] = Blank]

\* end_turn, another stop reason, MAX_TOOL_ROUNDS, an exception or a restart of
\* the process: every entry and effect stays.
Return(c) ==
    /\ Running(c)
    /\ Finish(c)
    /\ UNCHANGED recorderVars

\* Variant of Misordered that only asks whether the log is among the calls.
misorderedAnywhere(c, blocks) ==
    /\ \E i \in DOMAIN blocks : blocks[i] \in SentryWrites
    /\ \A i \in DOMAIN blocks : blocks[i] # "glass_box_log"

\* Sentry's _validate_response_ordering: a write without a log before it in the
\* same answer, by the first place each name has.
Misordered(c, blocks) ==
    \E i \in DOMAIN blocks :
        /\ blocks[i] \in SentryWrites
        /\ \A j \in 1..(i - 1) : blocks[j] # "glass_box_log"

\* Variant of Rejected that lets a write through beside its log in one answer.
rejectedUnlessLogged(c, blocks) ==
    IF AgentOf[c] = "sentry" THEN Misordered(c, blocks)
    ELSE /\ \E i \in DOMAIN blocks : blocks[i] \in Writes(c)
         /\ ~conv[c].confirmed
         /\ \A i \in DOMAIN blocks : blocks[i] # "glass_box_log"

\* Whether the writes of an answer are refused.  The Clerk and the Steward want
\* a log entry confirmed in an earlier round, Sentry one in the same answer.
Rejected(c, blocks) ==
    IF AgentOf[c] = "sentry" THEN Misordered(c, blocks)
    ELSE /\ \E i \in DOMAIN blocks : blocks[i] \in Writes(c)
         /\ ~conv[c].confirmed

\* A round begins: what the last one wrote on is used up.
Turn(a) == [Blank EXCEPT !.unused = IF a.wrote > 0 THEN a.fresh ELSE a.unused + a.fresh]

\* One answer of the model with tool calls in it.
Round(c) ==
    /\ conv[c].pc = "asking"
    /\ conv[c].round < MaxToolRounds
    /\ \E blocks \in Answers(c) :
         conv' = [conv EXCEPT ![c].pc = "tools", ![c].round = @ + 1,
                              ![c].blocks = blocks, ![c].rejecting = Rejected(c, blocks)]
    /\ audit' = [audit EXCEPT ![c] = Turn(@)]
    /\ UNCHANGED recorderVars

-----------------------------------------------------------------------------
(* _execute_tool, one call of an answer after the other.                   *)

Call(c) == Head(conv[c].blocks)

\* Variant of Advance that leaves a round only with its first call.
advanceStaying(c, confirmed) ==
    conv' = [conv EXCEPT ![c].blocks = Tail(@), ![c].confirmed = confirmed]

\* The call is over; confirmed is the flag after it.
Advance(c, confirmed) ==
    LET rest == Tail(conv[c].blocks)
    IN conv' = [conv EXCEPT ![c].blocks = rest,
                            ![c].pc = IF rest = <<>> THEN "asking" ELSE "tools",
                            ![c].confirmed = confirmed]

\* POST /log commits a row; here, one that is confirmed to the agent.
Enter(a) == [a EXCEPT !.entered = @ + 1, !.fresh = @ + 1, !.tried = TRUE]

RejectWrite(c) ==
    /\ conv[c].pc = "tools"
    /\ Call(c) \in Writes(c)
    /\ conv[c].rejecting
    /\ Advance(c, conv[c].confirmed)
    /\ UNCHANGED <<recorderVars, audit>>

Read(c) ==
    /\ conv[c].pc = "tools"
    /\ Call(c) = "read"
    /\ Advance(c, conv[c].confirmed)
    /\ UNCHANGED <<recorderVars, audit>>

\* glass_box_log: the entry is stored and confirmed; or the call fails, and whether
\* there is an entry nobody knows.
Log(c) ==
    /\ conv[c].pc = "tools"
    /\ Call(c) = "glass_box_log"
    /\ \/ /\ audit' = [audit EXCEPT ![c] = Enter(@)]
          /\ Advance(c, AgentOf[c] # "sentry")
       \/ /\ audit' = [audit EXCEPT ![c].tried = TRUE]
          /\ Advance(c, conv[c].confirmed)
    /\ UNCHANGED recorderVars

\* The writing tools, with the arguments the model chose.  The actor is injected
\* for tensions and discussions only; an accountability update and a labour record
\* carry whatever member the model names.
dr_log_tension(c) == PostTension(UserOf[c])

\* Variant of dr_update_tension that takes the member from the model's arguments.
updateAsNamed(c) == \E t \in DOMAIN tensions, status \in TensionStatuses, m \in Members :
                        PatchTension(t, m, status)

dr_update_tension(c) == \E t \in DOMAIN tensions, status \in TensionStatuses :
                            PatchTension(t, UserOf[c], status)

dr_set_review_date(c) == \E d \in DOMAIN decisions, on \in Future : PatchReview(d, on)

dr_update_accountability(c) ==
    \E d \in DOMAIN decisions, status \in Statuses, on \in Future \cup {0} :
        PatchAccountability(d, status, on)

log_labour(c) == \E m \in Members : PostLabour(m)

\* Discussions, posts and onboarding change other services, not these tables.
Elsewhere(c) == UNCHANGED recorderVars

Effect(c) ==
    CASE Call(c) = "dr_log_tension"           -> dr_log_tension(c)
      [] Call(c) = "dr_update_tension"        -> dr_update_tension(c)
      [] Call(c) = "dr_set_review_date"       -> dr_set_review_date(c)
      [] Call(c) = "dr_update_accountability" -> dr_update_accountability(c)
      [] Call(c) = "log_labour"               -> log_labour(c)
      [] OTHER                                -> Elsewhere(c)

\* A write that runs, with its effect, or fails, with or without it; either way the
\* confirmation is used up, and an entry with the outcome is tried, which nobody
\* relies on.  The flag is not looked at again between two calls of one answer.
Write(c) ==
    /\ conv[c].pc = "tools"
    /\ Call(c) \in Writes(c)
    /\ ~conv[c].rejecting
    /\ Effect(c) \/ UNCHANGED recorderVars
    /\ audit' = [audit EXCEPT ![c].wrote = @ + 1, ![c].fresh = 0]
    /\ Advance(c, FALSE)

ConvStep(c) == \/ Ask(c)
               \/ Round(c)
               \/ RejectWrite(c)
               \/ Read(c)
               \/ Log(c)
               \/ Write(c)
               \/ Return(c)

Next == \/ RecorderStep /\ UNCHANGED <<conv, audit>>
        \/ \E c \in Convs : ConvStep(c)

\* Loomio keeps delivering an outcome until it is answered with 202, and the
\* webhook, once begun, runs to its end or to a crash.
Fairness == /\ \A p \in Polls : WF_vars(Webhook(p) /\ UNCHANGED <<conv, audit>>)
            /\ WF_vars(Pin /\ UNCHANGED <<conv, audit>>)

Spec == Init /\ [][Next]_vars /\ Fairness

-----------------------------------------------------------------------------
(* Properties.                                                             *)

(***************************************************************************)
(* What the loops make sure of before a write, however the model spreads   *)
(* its calls over answers and whichever of them fail.                      *)
(* Clerk and Steward: an entry was confirmed in an earlier round, and no   *)
(* round since has written on it.                                          *)
(* Sentry: a log was called earlier in the same answer.  That is all its   *)
(* _validate_response_ordering looks at: the call may have failed, and the *)
(* entry that sentry/agent.py:11-12 and :46-51 ask for, one that succeeded *)
(* in a separate round, is not what the code asks for.                     *)
(***************************************************************************)
WritesAreLogged ==
    \A c \in Convs : audit[c].wrote > 0 =>
        IF AgentOf[c] = "sentry" THEN audit[c].tried ELSE audit[c].unused > 0

(***************************************************************************)
(* What the comment on the Clerk's flag says: every distinct write action  *)
(* has a preceding log entry of its own.                                   *)
(***************************************************************************)
OneEntryPerWrite ==
    \A c \in Convs : AgentOf[c] = "clerk" =>
        audit[c].wrote <= audit[c].unused + audit[c].entered

(***************************************************************************)
(* A tension changes its status only in a conversation of the member who   *)
(* logged it (issue #63), whatever arguments the model makes up.           *)
(***************************************************************************)
OwnTensionsOnly ==
    [][\A t \in DOMAIN tensions : tensions'[t] # tensions[t] =>
         \E c \in Convs : UserOf[c] = tensions[t].logged_by /\ audit'[c] # audit[c]]_vars

\* The sections of the agenda the Clerk prepares for a meeting.
prepare_meeting_agenda ==
    [reviews   |-> list_due_reviews(Ahead),
     tensions  |-> DOMAIN tensions,
     decisions |-> {d \in DOMAIN decisions : d > Len(decisions) - 5}]

(***************************************************************************)
(* An agreement due for review stays on the agenda, also when its date has *)
(* passed, until it gets a later date.                                     *)
(***************************************************************************)
ReviewNotForgotten ==
    [][\A d \in prepare_meeting_agenda.reviews :
         \/ d \in (prepare_meeting_agenda.reviews)'
         \/ decisions'[d].review_date > decisions[d].review_date]_vars

(***************************************************************************)
(* Every outcome Loomio has to deliver is in the table at last, also when  *)
(* IPFS is down, the recorder restarts or answers get lost.                *)
(***************************************************************************)
OutcomeRecorded ==
    \A p \in Polls : <>(\E d \in DOMAIN decisions : decisions[d].poll = p)
=============================================================================
