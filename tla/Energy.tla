------------------------------- MODULE Energy -------------------------------
(***************************************************************************)
(* legacy/backend/energy and routers/power.py: the sensor's three levels,  *)
(* the execution policy of each, the gate before a call, the deferred      *)
(* tasks, and the flag of the power daemon that the agents' nodes poll.    *)
(***************************************************************************)
EXTENDS LangGraph

CONSTANTS Task,              \* deferred tasks (an entry's identifier is unique)
          RequireSigned      \* energy_require_signed_telemetry

VARIABLES paused,            \* agents_paused of the daemon's last report
          battery,           \* what psutil reports: charge and mains
          pending,           \* the heap of TaskQueuer
          done               \* tasks that ran without raising, in order

energyVars == <<paused, battery, pending, done>>

ASSUME EnergyAssumption == RequireSigned \in BOOLEAN

LOCAL INSTANCE SequencesExt

RED == 0
YELLOW == 1
GREEN == 2

\* No signed telemetry exists yet: every reading is unverified.
_read_battery == battery @@ [is_verified |-> FALSE]

\* The reading of a machine without a battery, or without psutil, is that of one on mains.
Reading == [percent : {10, 20, 80, 90}, power_plugged : BOOLEAN]

_compute_level(b) ==
    LET raw == IF b.power_plugged \/ b.percent > 80 THEN GREEN
               ELSE IF b.percent < 20 THEN RED ELSE YELLOW
    IN  IF raw = GREEN /\ ~b.is_verified /\ RequireSigned THEN YELLOW ELSE raw

get_state == _compute_level(_read_battery)

\* "*" lets every agent run.
get_policy(level) ==
    CASE level = GREEN  -> [allowed_agents |-> {"*"}, inference_allowed |-> TRUE]
      [] level = YELLOW -> [allowed_agents |-> {"secretary", "treasurer", "steward"},
                            inference_allowed |-> TRUE]
      [] OTHER          -> [allowed_agents |-> {"heartbeat"}, inference_allowed |-> FALSE]

\* The decorator's check; an empty agent_id is not looked up.
_check_gate(min_level, agent_id) ==
    /\ get_state >= min_level
    /\ \/ agent_id = "" \/ get_state = GREEN
       \/ get_policy(get_state).allowed_agents \cap {"*", agent_id} # {}

-----------------------------------------------------------------------------
agents_are_paused == paused

receive_power_state ==
    /\ Touch("power")
    /\ \E p \in BOOLEAN : paused' = p
    /\ UNCHANGED <<thread, battery, pending, done>>

sense ==
    /\ Touch("energy")
    /\ battery' \in Reading
    /\ UNCHANGED <<thread, paused, pending, done>>

Entries == {e.task : e \in pending} \cup {done[i].task : i \in DOMAIN done}

enqueue(task) ==
    /\ Touch("energy")
    /\ task \notin Entries
    /\ \E priority \in 1..2, critical \in BOOLEAN :
         pending' = pending \cup {[task |-> task, priority |-> priority, critical |-> critical]}
    /\ UNCHANGED <<thread, paused, battery, done>>

\* The level is read once, for the whole drain.
can_run(entry) == get_state = GREEN \/ (get_state = YELLOW /\ entry.critical)

\* What a min-heap may yield: equal priorities come in any order.
Drains(entries) ==
    {s \in SetToSeqs(entries) : \A i, j \in DOMAIN s : i < j => s[i].priority <= s[j].priority}

\* A task that raises is logged and gone.
process_queue ==
    LET entries == {e \in pending : can_run(e)} IN
    /\ entries # {}
    /\ \E order \in Drains(entries), raised \in SUBSET entries :
         /\ pending' = pending \ entries
         /\ done' = done \o SelectSeq(order, LAMBDA e : e \notin raised)
    /\ UNCHANGED <<graphVars, paused, battery>>

flush ==
    /\ pending # {} /\ pending' = {}
    /\ UNCHANGED <<graphVars, paused, battery, done>>

\* A call behind the decorator, as a task that runs at once or is refused.
energy_gated_execution(task) ==
    /\ Touch("energy")
    /\ task \notin Entries
    /\ \E agent_id \in {"", "steward", "heartbeat"}, min_level \in {RED, YELLOW, GREEN} :
         _check_gate(min_level, agent_id)
    /\ done' = Append(done, [task |-> task, priority |-> 1, critical |-> TRUE])
    /\ UNCHANGED <<thread, paused, battery, pending>>

EnergyInit ==
    /\ paused = FALSE
    /\ battery = [percent |-> 90, power_plugged |-> TRUE]
    /\ pending = {}
    /\ done = <<>>

EnergyNext ==
    \/ receive_power_state \/ sense \/ process_queue \/ flush
    \/ \E task \in Task : enqueue(task) \/ energy_gated_execution(task)
=============================================================================
