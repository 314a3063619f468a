---------------------------- MODULE AgentsProofs ----------------------------
(***************************************************************************)
(* Theorems about Agents and the DecisionRecorder behind its tools, for    *)
(* every set of members, polls and conversations, every offer of tools and *)
(* every number of rounds, calls and faults.                               *)
(***************************************************************************)
EXTENDS Agents, FiniteSetTheorems, TLAPS

-----------------------------------------------------------------------------
(* The tables.                                                             *)

\* A row of a table that is a sequence is replaced by another.
LEMMA RowReplaced ==
    ASSUME NEW T, NEW s \in Seq(T), NEW i \in DOMAIN s, NEW x \in T
    PROVE  /\ [s EXCEPT ![i] = x] \in Seq(T) /\ Len([s EXCEPT ![i] = x]) = Len(s)
           /\ DOMAIN [s EXCEPT ![i] = x] = DOMAIN s
           /\ \A j \in DOMAIN s : [s EXCEPT ![i] = x][j] = IF j = i THEN x ELSE s[j]
OBVIOUS

\* A row is added at the end of a table.
LEMMA RowAdded ==
    ASSUME NEW T, NEW s \in Seq(T), NEW x \in T
    PROVE  /\ Append(s, x) \in Seq(T) /\ Len(s) \in Nat /\ Len(Append(s, x)) = Len(s) + 1
           /\ DOMAIN s = 1..Len(s) /\ DOMAIN Append(s, x) = 1..(Len(s) + 1)
           /\ \A j \in DOMAIN s : Append(s, x)[j] = s[j]
           /\ Append(s, x)[Len(s) + 1] = x
<1> DEFINE more == Append(s, x)
<1>1. more \in Seq(T) /\ Len(s) \in Nat /\ Len(more) = Len(s) + 1
  OBVIOUS
<1>2. \A j \in 1..Len(s) : more[j] = s[j] /\ s[j] \in T
  OBVIOUS
<1>3. more[Len(s) + 1] = x
  OBVIOUS
<1>4. DOMAIN s = 1..Len(s) /\ DOMAIN more = 1..Len(more)
  BY <1>1
<1>5. QED
  BY <1>1, <1>2, <1>3, <1>4

\* No date of a review is forgotten: it stays, or becomes one still to come.
DatesKept ==
    /\ today <= today'
    /\ \A d \in DOMAIN decisions :
         /\ d \in DOMAIN decisions'
         /\ \/ decisions'[d].review_date = decisions[d].review_date
            \/ decisions'[d].review_date > today'

\* Nobody but m changes a tension of theirs.
TensionsKept(m) == \A t \in DOMAIN tensions : tensions'[t] # tensions[t] => tensions[t].logged_by = m

TablesKept == RecorderTypeOK' /\ DatesKept /\ UNCHANGED tensions

\* One decision is written again, under a date that stays or is still to come.
LEMMA DecisionStep ==
    ASSUME RecorderTypeOK, NEW d \in DOMAIN decisions, NEW new \in Decision,
           decisions' = [decisions EXCEPT ![d] = new],
           new.review_date = decisions[d].review_date \/ new.review_date > today,
           hook' \in {0, hook}, outbox' \subseteq outbox, faults' \in 0..MaxFaults,
           UNCHANGED <<tensions, labour, today>>
    PROVE  TablesKept
<1>1. /\ decisions \in Seq(Decision) /\ tensions \in Seq(Tension) /\ labour \in Seq(Members)
      /\ today \in 1..MaxDay /\ hook \in 0..Len(decisions) /\ outbox \subseteq Polls
  BY DEF RecorderTypeOK
<1>2. /\ decisions' \in Seq(Decision) /\ Len(decisions') = Len(decisions)
      /\ DOMAIN decisions' = DOMAIN decisions
      /\ \A e \in DOMAIN decisions : decisions'[e] = IF e = d THEN new ELSE decisions[e]
  BY <1>1, RowReplaced
<1>3. Len(decisions) \in Nat
  BY <1>1
<1>4. RecorderTypeOK'
  BY <1>1, <1>2, <1>3 DEF RecorderTypeOK
<1>5. DatesKept
  <2>1. today <= today' /\ today' = today
    BY <1>1, RecorderAssumption
  <2>2. \A e \in DOMAIN decisions :
          /\ e \in DOMAIN decisions'
          /\ \/ decisions'[e].review_date = decisions[e].review_date
             \/ decisions'[e].review_date > today'
    BY <1>2, <2>1
  <2>3. QED
    BY <2>1, <2>2 DEF DatesKept
<1>6. QED
  BY <1>4, <1>5 DEF TablesKept

\* No decision is written.
LEMMA DecisionsStill ==
    ASSUME RecorderTypeOK, UNCHANGED decisions, today' \in today..MaxDay, hook' \in {0, hook}, outbox' = outbox,
           faults' \in 0..MaxFaults
    PROVE  DatesKept /\ (tensions' \in Seq(Tension) /\ labour' \in Seq(Members) => RecorderTypeOK')
<1>1. /\ decisions \in Seq(Decision) /\ today \in 1..MaxDay /\ hook \in 0..Len(decisions)
      /\ outbox \subseteq Polls /\ Len(decisions) \in Nat
  BY DEF RecorderTypeOK
<1>2. today <= today' /\ today' \in 1..MaxDay
  BY <1>1, RecorderAssumption
<1>3. DatesKept
  BY <1>2 DEF DatesKept
<1>4. QED
  BY <1>1, <1>2, <1>3 DEF RecorderTypeOK

\* The recorder's own steps.
LEMMA RecorderKeeps ==
    ASSUME RecorderTypeOK, RecorderStep
    PROVE  TablesKept
<1>1. /\ decisions \in Seq(Decision) /\ tensions \in Seq(Tension) /\ labour \in Seq(Members)
      /\ today \in 1..MaxDay /\ hook \in 0..Len(decisions) /\ outbox \subseteq Polls
      /\ faults \in 0..MaxFaults /\ MaxDay \in Nat \ {0} /\ MaxFaults \in Nat /\ Len(decisions) \in Nat
      /\ DOMAIN decisions = 1..Len(decisions)
  BY RecorderAssumption DEF RecorderTypeOK
<1>2. ASSUME NEW p \in Polls, Webhook(p)
      PROVE  TablesKept
  <2> DEFINE new == [poll |-> p, ipfs_cid |-> FALSE, review_date |-> 0,
                     accountability_status |-> "not_started", accountability_review_date |-> 0]
  <2>1. new \in Decision
    BY <1>1 DEF Decision, Dates, Statuses
  <2>2. /\ decisions' = Append(decisions, new) /\ hook' = Len(decisions')
        /\ UNCHANGED <<tensions, labour, today, outbox, faults>>
    BY <1>2 DEF Webhook
  <2> HIDE DEF new
  <2>3. /\ decisions' \in Seq(Decision) /\ Len(decisions') = Len(decisions) + 1
        /\ DOMAIN decisions' = 1..(Len(decisions) + 1)
        /\ \A d \in DOMAIN decisions : decisions'[d] = decisions[d]
    BY <1>1, <2>1, <2>2, RowAdded
  <2>4. RecorderTypeOK'
    BY <1>1, <2>2, <2>3 DEF RecorderTypeOK
  <2>5. DatesKept
    BY <1>1, <2>2, <2>3 DEF DatesKept
  <2>6. QED
    BY <2>2, <2>4, <2>5 DEF TablesKept
<1>3. CASE Pin
  <2>1. PICK pinned \in BOOLEAN : decisions' = [decisions EXCEPT ![hook].ipfs_cid = pinned]
    BY <1>3 DEF Pin
  <2> DEFINE new == [decisions[hook] EXCEPT !.ipfs_cid = pinned]
  <2>2. /\ hook \in DOMAIN decisions /\ hook' = 0 /\ outbox' \subseteq outbox
        /\ UNCHANGED <<tensions, labour, today>>
    BY <1>1, <1>3 DEF Pin
  <2>3. faults' \in 0..MaxFaults
    BY <1>1, <1>3 DEF Pin
  <2>4. decisions[hook] \in Decision
    BY <1>1, <2>2
  <2>5. new \in Decision /\ new.review_date = decisions[hook].review_date
    BY <2>4 DEF Decision
  <2>6. decisions' = [decisions EXCEPT ![hook] = new]
    BY <2>1
  <2> HIDE DEF new
  <2>7. QED
    BY <2>2, <2>3, <2>5, <2>6, DecisionStep
<1>4. CASE RecorderCrash
  <2>1. /\ hook' = 0 /\ faults' \in 0..MaxFaults /\ today' \in today..MaxDay
        /\ UNCHANGED <<decisions, tensions, labour, outbox>>
    BY <1>1, <1>4 DEF RecorderCrash
  <2>2. QED
    BY <1>1, <2>1, DecisionsStill DEF TablesKept
<1>5. CASE NextDay
  <2>1. /\ hook' = hook /\ faults' \in 0..MaxFaults /\ today' \in today..MaxDay
        /\ UNCHANGED <<decisions, tensions, labour, outbox>>
    BY <1>1, <1>5 DEF NextDay
  <2>2. QED
    BY <1>1, <2>1, DecisionsStill DEF TablesKept
<1>6. QED
  BY <1>2, <1>3, <1>4, <1>5 DEF RecorderStep

\* A tool of a conversation with m writes no tension of anybody else.
LEMMA ToolKeeps ==
    ASSUME RecorderTypeOK, NEW c \in Convs, UserOf[c] \in Members,
           \/ dr_log_tension(c) \/ dr_update_tension(c) \/ dr_set_review_date(c)
           \/ dr_update_accountability(c) \/ log_labour(c)
    PROVE  RecorderTypeOK' /\ DatesKept /\ TensionsKept(UserOf[c])
<1>1. /\ decisions \in Seq(Decision) /\ tensions \in Seq(Tension) /\ labour \in Seq(Members)
      /\ today \in 1..MaxDay /\ hook \in 0..Len(decisions) /\ outbox \subseteq Polls
      /\ faults \in 0..MaxFaults /\ MaxDay \in Nat \ {0} /\ MaxFaults \in Nat
      /\ today \in today..MaxDay
  BY RecorderAssumption DEF RecorderTypeOK
<1>2. UNCHANGED tensions => TensionsKept(UserOf[c])
  BY DEF TensionsKept
<1>3. CASE dr_log_tension(c)
  <2> DEFINE new == [logged_by |-> UserOf[c], status |-> "open", resolved_at |-> FALSE]
  <2>1. new \in Tension
    BY DEF Tension, TensionStatuses
  <2>2. tensions' = Append(tensions, new) /\ UNCHANGED <<decisions, labour, today, hook, outbox, faults>>
    BY <1>3 DEF dr_log_tension, PostTension
  <2> HIDE DEF new
  <2>3. tensions' \in Seq(Tension) /\ \A t \in DOMAIN tensions : tensions'[t] = tensions[t]
    BY <1>1, <2>1, <2>2, RowAdded
  <2>4. QED
    BY <1>1, <2>2, <2>3, DecisionsStill DEF TensionsKept
<1>4. CASE dr_update_tension(c)
  <2>1. PICK t \in DOMAIN tensions, status \in TensionStatuses : PatchTension(t, UserOf[c], status)
    BY <1>4 DEF dr_update_tension
  <2> DEFINE new == [tensions[t] EXCEPT !.status = status, !.resolved_at = @ \/ status = "resolved"]
  <2>2. /\ tensions[t] \in Tension /\ tensions[t].logged_by = UserOf[c]
        /\ UNCHANGED <<decisions, labour, today, hook, outbox, faults>>
    BY <1>1, <2>1 DEF PatchTension
  <2>3. new \in Tension
    BY <2>2 DEF Tension
  <2>4. tensions' = [tensions EXCEPT ![t] = new]
    BY <1>1, <2>1 DEF PatchTension
  <2> HIDE DEF new
  <2>5. tensions' \in Seq(Tension) /\ \A u \in DOMAIN tensions : tensions'[u] # tensions[u] => u = t
    BY <1>1, <2>3, <2>4, RowReplaced
  <2>6. QED
    BY <1>1, <2>2, <2>5, DecisionsStill DEF TensionsKept
<1>5. CASE dr_set_review_date(c)
  <2>1. PICK d \in DOMAIN decisions, on \in Future : PatchReview(d, on)
    BY <1>5 DEF dr_set_review_date
  <2> DEFINE new == [decisions[d] EXCEPT !.review_date = on]
  <2>2. on \in Dates /\ on > today
    BY <1>1 DEF Future, Dates
  <2>3. new \in Decision /\ new.review_date = on
    <3>1. decisions[d] \in Decision
      BY <1>1
    <3>2. QED
      BY <2>2, <3>1 DEF Decision
  <2>4. decisions' = [decisions EXCEPT ![d] = new] /\ UNCHANGED <<tensions, labour, today, hook, outbox, faults>>
    BY <2>1 DEF PatchReview
  <2> HIDE DEF new
  <2>5. TablesKept
    BY <1>1, <2>2, <2>3, <2>4, DecisionStep
  <2>6. QED
    BY <1>2, <2>5 DEF TablesKept
<1>6. CASE dr_update_accountability(c)
  <2>1. PICK d \in DOMAIN decisions, status \in Statuses, on \in Future \cup {0} : PatchAccountability(d, status, on)
    BY <1>6 DEF dr_update_accountability
  <2> DEFINE next == IF on = 0 THEN decisions[d].accountability_review_date ELSE on
             new == [decisions[d] EXCEPT !.accountability_status = status, !.accountability_review_date = next]
  <2>2. decisions[d] \in Decision
    BY <1>1
  <2>3. next \in Dates
    BY <1>1, <2>2 DEF Future, Dates, Decision
  <2>4. decisions' = [decisions EXCEPT ![d] = new] /\ UNCHANGED <<tensions, labour, today, hook, outbox, faults>>
    BY <1>1, <2>1 DEF PatchAccountability
  <2> HIDE DEF next
  <2>5. new \in Decision /\ new.review_date = decisions[d].review_date
    BY <2>2, <2>3 DEF Decision
  <2> HIDE DEF new
  <2>6. TablesKept
    BY <1>1, <2>4, <2>5, DecisionStep
  <2>7. QED
    BY <1>2, <2>6 DEF TablesKept
<1>7. CASE log_labour(c)
  <2>1. PICK m \in Members : labour' = Append(labour, m) /\ UNCHANGED <<decisions, tensions, today, hook, outbox, faults>>
    BY <1>7 DEF log_labour, PostLabour
  <2>2. labour' \in Seq(Members)
    BY <1>1, <2>1
  <2>3. QED
    BY <1>1, <1>2, <2>1, <2>2, DecisionsStill
<1>8. QED
  BY <1>3, <1>4, <1>5, <1>6, <1>7

-----------------------------------------------------------------------------
(* One conversation: k is the state of its loop, a its book of entries.    *)

LoopFits(c, k) ==
    /\ k = [pc |-> k.pc, round |-> k.round, blocks |-> k.blocks,
            rejecting |-> k.rejecting, confirmed |-> k.confirmed]
    /\ k.pc \in {"idle", "asking", "tools"} /\ k.round \in 0..MaxToolRounds
    /\ k.blocks \in Seq(Tools(c)) /\ (k.pc = "tools" <=> k.blocks # <<>>)
    /\ k.rejecting \in BOOLEAN /\ k.confirmed \in BOOLEAN

BookFits(a) == a \in [unused : Nat, entered : Nat, fresh : Nat, wrote : Nat, tried : BOOLEAN]

\* The entries a write of the next round may stand on.
Credit(a) == IF a.wrote > 0 THEN a.fresh ELSE a.unused + a.fresh

MayWrite(k) == k.pc = "tools" /\ ~k.rejecting

(***************************************************************************)
(* Why a write finds its entry.  Clerk and Steward: a confirmation stands  *)
(* for an entry not yet written on, and an answer whose writes are not     *)
(* refused began with one.  Sentry: before each write still to come there  *)
(* is a call of the log, or there was one.                                 *)
(***************************************************************************)
EntryStands(c, k, a) ==
    /\ k.confirmed => Credit(a) > 0
    /\ MayWrite(k) /\ (\E i \in DOMAIN k.blocks : k.blocks[i] \in Writes(c)) => a.unused > 0
    /\ a.wrote > 0 => a.unused > 0

LogComesFirst(k, a) ==
    /\ MayWrite(k) => \A i \in DOMAIN k.blocks : k.blocks[i] \in SentryWrites =>
                        a.tried \/ \E j \in 1..(i - 1) : k.blocks[j] = "glass_box_log"
    /\ a.wrote > 0 => a.tried

WritesStand(c, k, a) == IF AgentOf[c] = "sentry" THEN LogComesFirst(k, a) ELSE EntryStands(c, k, a)

\* The loop after one of its calls.
Advanced(k, confirmed) ==
    [pc |-> IF Tail(k.blocks) = <<>> THEN "asking" ELSE "tools", round |-> k.round,
     blocks |-> Tail(k.blocks), rejecting |-> k.rejecting, confirmed |-> confirmed]

\* What is left of an answer after its first call.
LEMMA RestOfAnswer ==
    ASSUME NEW c, NEW k, LoopFits(c, k), k.pc = "tools"
    PROVE  /\ Tail(k.blocks) \in Seq(Tools(c)) /\ 1 \in DOMAIN k.blocks /\ Head(k.blocks) = k.blocks[1]
           /\ \A i \in DOMAIN Tail(k.blocks) : /\ i \in Nat \ {0} /\ i + 1 \in DOMAIN k.blocks
                                               /\ Tail(k.blocks)[i] = k.blocks[i + 1]
<1> DEFINE s == k.blocks
<1>1. s \in Seq(Tools(c)) /\ s # <<>>
  BY DEF LoopFits
<1> HIDE DEF s
<1>2. /\ Len(s) \in Nat \ {0} /\ DOMAIN s = 1..Len(s) /\ Head(s) = s[1]
      /\ Tail(s) \in Seq(Tools(c)) /\ Len(Tail(s)) = Len(s) - 1 /\ DOMAIN Tail(s) = 1..(Len(s) - 1)
  BY <1>1
<1>3. \A i \in 1..(Len(s) - 1) : Tail(s)[i] = s[i + 1]
  BY <1>1
<1>4. QED
  BY <1>2, <1>3 DEF s

LEMMA AdvanceFits ==
    ASSUME NEW c, NEW k, LoopFits(c, k), k.pc = "tools", NEW confirmed \in BOOLEAN
    PROVE  LoopFits(c, Advanced(k, confirmed))
<1> DEFINE n == Advanced(k, confirmed)
<1>1. /\ n.pc = (IF Tail(k.blocks) = <<>> THEN "asking" ELSE "tools") /\ n.round = k.round
      /\ n.blocks = Tail(k.blocks)
  BY DEF Advanced
<1>2. n.rejecting = k.rejecting /\ n.confirmed = confirmed
  BY Zenon DEF Advanced
<1>3. n = [pc |-> n.pc, round |-> n.round, blocks |-> n.blocks, rejecting |-> n.rejecting, confirmed |-> n.confirmed]
  BY DEF Advanced
<1> HIDE DEF n
<1>4. k.round \in 0..MaxToolRounds /\ Tail(k.blocks) \in Seq(Tools(c)) /\ k.rejecting \in BOOLEAN
  BY RestOfAnswer DEF LoopFits
<1>5. QED
  BY <1>1, <1>2, <1>3, <1>4 DEF LoopFits, n

\* A call that is over leaves every write to come with its entry, when the books agree.
LEMMA AdvanceStands ==
    ASSUME NEW c, NEW k, LoopFits(c, k), k.pc = "tools", NEW a, WritesStand(c, k, a), NEW confirmed, NEW b,
           b.unused = a.unused, a.tried => b.tried, Head(k.blocks) = "glass_box_log" => b.tried,
           AgentOf[c] # "sentry" /\ confirmed => Credit(b) > 0,
           b.wrote > 0 => IF AgentOf[c] = "sentry" THEN b.tried ELSE b.unused > 0
    PROVE  WritesStand(c, Advanced(k, confirmed), b)
<1> DEFINE n == Advanced(k, confirmed)
<1>1. n.blocks = Tail(k.blocks) /\ n.rejecting = k.rejecting /\ n.confirmed = confirmed
  BY Zenon DEF Advanced
<1> HIDE DEF n
<1>2. MayWrite(n) => MayWrite(k)
  BY <1>1 DEF MayWrite
<1>3. CASE AgentOf[c] = "sentry"
  <2>1. LogComesFirst(k, a)
    BY <1>3 DEF WritesStand
  <2>2. ASSUME MayWrite(n), NEW i \in DOMAIN n.blocks, n.blocks[i] \in SentryWrites
        PROVE  b.tried \/ \E j \in 1..(i - 1) : n.blocks[j] = "glass_box_log"
    <3>1. /\ i \in Nat \ {0} /\ i + 1 \in DOMAIN k.blocks /\ n.blocks[i] = k.blocks[i + 1]
          /\ Head(k.blocks) = k.blocks[1]
          /\ \A j \in DOMAIN n.blocks : n.blocks[j] = k.blocks[j + 1]
      BY <1>1, <2>2, RestOfAnswer
    <3>2. a.tried \/ \E j \in 1..((i + 1) - 1) : k.blocks[j] = "glass_box_log"
      BY <1>2, <2>1, <2>2, <3>1 DEF LogComesFirst
    <3>3. CASE a.tried
      BY <3>3
    <3>4. ASSUME NEW j \in 1..((i + 1) - 1), k.blocks[j] = "glass_box_log"
          PROVE  b.tried \/ \E l \in 1..(i - 1) : n.blocks[l] = "glass_box_log"
      <4>1. CASE j = 1
        BY <3>1, <3>4, <4>1
      <4>2. CASE j # 1
        <5>1. j - 1 \in 1..(i - 1) /\ j - 1 \in DOMAIN n.blocks /\ (j - 1) + 1 = j
          <6>1. n.blocks \in Seq(Tools(c))
            BY <1>1, RestOfAnswer
          <6>2. DOMAIN n.blocks = 1..Len(n.blocks) /\ Len(n.blocks) \in Nat
            BY <6>1
          <6>3. QED
            BY <2>2, <3>1, <4>2, <6>2
        <5>2. n.blocks[j - 1] = "glass_box_log"
          BY <3>1, <3>4, <5>1
        <5>3. QED
          BY <5>1, <5>2
      <4>3. QED
        BY <4>1, <4>2
    <3>5. QED
      BY <3>2, <3>3, <3>4
  <2>3. LogComesFirst(n, b)
    BY <1>3, <2>2 DEF LogComesFirst
  <2>4. QED
    BY <1>3, <2>3 DEF WritesStand, n
<1>4. CASE AgentOf[c] # "sentry"
  <2>1. EntryStands(c, k, a)
    BY <1>4 DEF WritesStand
  <2>2. MayWrite(n) /\ (\E i \in DOMAIN n.blocks : n.blocks[i] \in Writes(c)) => b.unused > 0
    <3> SUFFICES ASSUME MayWrite(n), NEW i \in DOMAIN n.blocks, n.blocks[i] \in Writes(c)
                 PROVE  b.unused > 0
      OBVIOUS
    <3>1. i + 1 \in DOMAIN k.blocks /\ n.blocks[i] = k.blocks[i + 1]
      BY <1>1, RestOfAnswer
    <3>2. QED
      BY <1>2, <2>1, <3>1 DEF EntryStands
  <2>3. EntryStands(c, n, b)
    BY <1>1, <1>4, <2>2 DEF EntryStands
  <2>4. QED
    BY <1>4, <2>3 DEF WritesStand, n
<1>5. QED
  BY <1>3, <1>4

-----------------------------------------------------------------------------
(* All conversations.                                                      *)

ConvsKept ==
    /\ conv = [c \in Convs |-> conv[c]] /\ audit = [c \in Convs |-> audit[c]]
    /\ \A c \in Convs : LoopFits(c, conv[c]) /\ BookFits(audit[c]) /\ WritesStand(c, conv[c], audit[c])

\* A step of one conversation leaves the others alone.
LEMMA OneMoves ==
    ASSUME ConvsKept, NEW c \in Convs, NEW k, NEW a,
           conv' = [conv EXCEPT ![c] = k], audit' = [audit EXCEPT ![c] = a],
           LoopFits(c, k), BookFits(a), WritesStand(c, k, a)
    PROVE  ConvsKept'
<1>1. /\ conv' = [d \in Convs |-> conv'[d]] /\ audit' = [d \in Convs |-> audit'[d]]
      /\ \A d \in Convs : conv'[d] = IF d = c THEN k ELSE conv[d]
      /\ \A d \in Convs : audit'[d] = IF d = c THEN a ELSE audit[d]
  BY DEF ConvsKept
<1>2. \A d \in Convs : LoopFits(d, conv'[d]) /\ BookFits(audit'[d]) /\ WritesStand(d, conv'[d], audit'[d])
  BY <1>1 DEF ConvsKept
<1>3. QED
  BY <1>1, <1>2 DEF ConvsKept

LEMMA AdvanceMoves ==
    ASSUME ConvsKept, NEW c \in Convs, NEW confirmed, Advance(c, confirmed)
    PROVE  conv' = [conv EXCEPT ![c] = Advanced(conv[c], confirmed)]
<1> DEFINE rest == Tail(conv[c].blocks)
           pc == IF rest = <<>> THEN "asking" ELSE "tools"
           k1 == [conv[c] EXCEPT !.blocks = rest]
           k2 == [k1 EXCEPT !.pc = pc]
           k3 == [k2 EXCEPT !.confirmed = confirmed]
           f1 == [conv EXCEPT ![c] = k1]
           f2 == [f1 EXCEPT ![c] = k2]
           f3 == [f2 EXCEPT ![c] = k3]
<1>1. conv' = [conv EXCEPT ![c].blocks = rest, ![c].pc = pc, ![c].confirmed = confirmed]
  BY DEF Advance
<1>2. conv = [d \in Convs |-> conv[d]] /\ DOMAIN conv = Convs
  BY DEF ConvsKept
<1> HIDE DEF rest, pc
<1>3. f1 = [conv EXCEPT ![c].blocks = rest] /\ f1[c] = k1 /\ DOMAIN f1 = Convs
  BY <1>2
<1> HIDE DEF k1
<1>4. f2 = [f1 EXCEPT ![c].pc = pc] /\ f2[c] = k2 /\ DOMAIN f2 = Convs
  BY <1>3
<1> HIDE DEF k2
<1>5. f3 = [f2 EXCEPT ![c].confirmed = confirmed]
  BY <1>4
<1>6. conv' = f3
  BY <1>1, <1>3, <1>4, <1>5, Zenon
<1>7. f3 = [conv EXCEPT ![c] = k3]
  BY <1>2
<1>8. k3 = Advanced(conv[c], confirmed)
  <2>1. LoopFits(c, conv[c])
    BY DEF ConvsKept
  <2> DEFINE k == conv[c]
  <2>2. k = [pc |-> k.pc, round |-> k.round, blocks |-> k.blocks, rejecting |-> k.rejecting, confirmed |-> k.confirmed]
    BY <2>1 DEF LoopFits
  <2>3. k1 = [pc |-> k.pc, round |-> k.round, blocks |-> rest, rejecting |-> k.rejecting, confirmed |-> k.confirmed]
    BY <2>2 DEF k1
  <2>4. k2 = [pc |-> pc, round |-> k.round, blocks |-> rest, rejecting |-> k.rejecting, confirmed |-> k.confirmed]
    BY <2>3 DEF k2
  <2>5. k3 = [pc |-> pc, round |-> k.round, blocks |-> rest, rejecting |-> k.rejecting, confirmed |-> confirmed]
    BY <2>4
  <2>6. QED
    BY <2>5, Zenon DEF Advanced, rest, pc
<1>9. QED
  BY <1>6, <1>7, <1>8, Zenon

\* The fields of a book that some call changed.
LEMMA BookFields ==
    ASSUME NEW a, BookFits(a)
    PROVE  /\ a.unused \in Nat /\ a.entered \in Nat /\ a.fresh \in Nat /\ a.wrote \in Nat
           /\ Credit(a) \in Nat
           /\ BookFits(Blank) /\ Blank.wrote = 0 /\ Blank.unused = 0
BY DEF BookFits, Credit, Blank

\* The book after a write.
Spent(a) == [a EXCEPT !.wrote = @ + 1, !.fresh = 0]

\* An entry, and a write, in the book.
LEMMA BookChanges ==
    ASSUME NEW a, BookFits(a), NEW b
    PROVE  /\ b = Enter(a) => /\ b.unused = a.unused /\ b.wrote = a.wrote /\ b.fresh = a.fresh + 1
                              /\ b.tried = TRUE /\ BookFits(b)
           /\ b = Spent(a)
                => /\ b.unused = a.unused /\ b.wrote = a.wrote + 1 /\ b.fresh = 0
                   /\ b.tried = a.tried /\ BookFits(b)
<1>1. a = [unused |-> a.unused, entered |-> a.entered, fresh |-> a.fresh, wrote |-> a.wrote, tried |-> a.tried]
  BY DEF BookFits
<1>2. /\ a.unused \in Nat /\ a.entered + 1 \in Nat /\ a.fresh + 1 \in Nat /\ a.wrote \in Nat
      /\ a.wrote + 1 \in Nat /\ a.entered \in Nat /\ a.tried \in BOOLEAN
  BY DEF BookFits
<1>3. ASSUME b = Enter(a)
      PROVE  /\ b.unused = a.unused /\ b.wrote = a.wrote /\ b.fresh = a.fresh + 1
             /\ b.tried = TRUE /\ BookFits(b)
  <2>1. b = [unused |-> a.unused, entered |-> a.entered + 1, fresh |-> a.fresh + 1, wrote |-> a.wrote, tried |-> TRUE]
    BY <1>1, <1>3 DEF Enter
  <2>2. b.unused = a.unused /\ b.wrote = a.wrote /\ b.fresh = a.fresh + 1 /\ b.tried = TRUE
    BY <2>1, Zenon
  <2>3. BookFits(b)
    BY <1>2, <2>1 DEF BookFits
  <2>4. QED
    BY <2>2, <2>3
<1>4. ASSUME b = Spent(a)
      PROVE  /\ b.unused = a.unused /\ b.wrote = a.wrote + 1 /\ b.fresh = 0
             /\ b.tried = a.tried /\ BookFits(b)
  <2>1. b = [unused |-> a.unused, entered |-> a.entered, fresh |-> 0, wrote |-> a.wrote + 1, tried |-> a.tried]
    BY <1>1, <1>4 DEF Spent
  <2>2. b.unused = a.unused /\ b.wrote = a.wrote + 1 /\ b.fresh = 0 /\ b.tried = a.tried
    BY <2>1, Zenon
  <2>3. BookFits(b)
    BY <1>2, <2>1 DEF BookFits
  <2>4. QED
    BY <2>2, <2>3
<1>5. QED
  BY <1>3, <1>4

LEMMA AskKeeps ==
    ASSUME ConvsKept, NEW c \in Convs, Ask(c)
    PROVE  ConvsKept'
<1> DEFINE k == conv[c]
           n == [k EXCEPT !.pc = "asking"]
<1>1. LoopFits(c, k) /\ BookFits(audit[c]) /\ WritesStand(c, k, audit[c]) /\ k.pc = "idle"
  BY DEF ConvsKept, Ask
<1>2. conv' = [conv EXCEPT ![c] = n] /\ audit' = [audit EXCEPT ![c] = audit[c]]
  BY DEF Ask, ConvsKept
<1>3. n = [pc |-> "asking", round |-> k.round, blocks |-> k.blocks,
           rejecting |-> k.rejecting, confirmed |-> k.confirmed]
  BY <1>1 DEF LoopFits
<1> HIDE DEF n, k
<1>4. n.pc = "asking" /\ n.round = k.round /\ n.blocks = k.blocks /\ n.rejecting = k.rejecting /\ n.confirmed = k.confirmed
  BY <1>3, Zenon
<1>5. n = [pc |-> n.pc, round |-> n.round, blocks |-> n.blocks, rejecting |-> n.rejecting, confirmed |-> n.confirmed]
  BY <1>3, <1>4, Zenon
<1>6. LoopFits(c, n)
  BY <1>1, <1>4, <1>5 DEF LoopFits
<1>7. WritesStand(c, n, audit[c])
  BY <1>1, <1>4 DEF WritesStand, EntryStands, LogComesFirst, MayWrite
<1>8. QED
  BY <1>1, <1>2, <1>6, <1>7, OneMoves

\* A loop that has not begun, and an empty book.
LEMMA FreshFits ==
    ASSUME NEW c \in Convs
    PROVE  LoopFits(c, Fresh) /\ BookFits(Blank) /\ WritesStand(c, Fresh, Blank)
<1>1. Fresh.pc = "idle" /\ Fresh.round = 0 /\ Fresh.blocks = <<>> /\ Fresh.rejecting = FALSE /\ Fresh.confirmed = FALSE
  BY Zenon DEF Fresh
<1>2. Fresh = [pc |-> Fresh.pc, round |-> Fresh.round, blocks |-> Fresh.blocks,
               rejecting |-> Fresh.rejecting, confirmed |-> Fresh.confirmed]
  BY DEF Fresh
<1>3. <<>> \in Seq(Tools(c)) /\ 0 \in 0..MaxToolRounds
  BY AgentsAssumption
<1>4. LoopFits(c, Fresh)
  BY <1>1, <1>2, <1>3 DEF LoopFits
<1>5. BookFits(Blank) /\ ~(Blank.wrote > 0)
  BY DEF BookFits, Blank
<1>6. WritesStand(c, Fresh, Blank)
  BY <1>1, <1>5 DEF WritesStand, EntryStands, LogComesFirst, MayWrite
<1>7. QED
  BY <1>4, <1>5, <1>6

LEMMA ReturnKeeps ==
    ASSUME ConvsKept, NEW c \in Convs, Return(c)
    PROVE  ConvsKept'
<1>1. conv' = [conv EXCEPT ![c] = Fresh] /\ audit' = [audit EXCEPT ![c] = Blank]
  BY DEF Return, Finish
<1>2. QED
  BY <1>1, FreshFits, OneMoves

\* A round refuses the writes of its answer, or each has its entry.
LEMMA RoundKeeps ==
    ASSUME ConvsKept, NEW c \in Convs, Round(c)
    PROVE  ConvsKept'
<1> DEFINE k == conv[c]
           a == audit[c]
           b == Turn(a)
<1>1. LoopFits(c, k) /\ BookFits(a) /\ WritesStand(c, k, a) /\ k.pc = "asking" /\ k.round < MaxToolRounds
  BY DEF ConvsKept, Round
<1>2. PICK blocks \in Answers(c) :
        conv' = [conv EXCEPT ![c].pc = "tools", ![c].round = @ + 1,
                             ![c].blocks = blocks, ![c].rejecting = Rejected(c, blocks)]
  BY DEF Round
<1>3. blocks \in Seq(Tools(c)) /\ blocks # <<>>
  <2>1. PICK n \in 1..MaxBlocks : blocks \in [1..n -> Offers[c]]
    BY DEF Answers
  <2>2. Offers[c] \subseteq Tools(c) /\ n \in Nat \ {0}
    BY AgentsAssumption
  <2>3. blocks \in [1..n -> Tools(c)]
    BY <2>1, <2>2
  <2>4. blocks \in Seq(Tools(c)) /\ Len(blocks) = n
    BY <2>2, <2>3
  <2>5. QED
    BY <2>2, <2>4
<1> DEFINE n == [pc |-> "tools", round |-> k.round + 1, blocks |-> blocks,
                 rejecting |-> Rejected(c, blocks), confirmed |-> k.confirmed]
<1>4. conv' = [conv EXCEPT ![c] = n]
  <2> DEFINE no == Rejected(c, blocks)
             k1 == [k EXCEPT !.pc = "tools"]
             k2 == [k1 EXCEPT !.round = @ + 1]
             k3 == [k2 EXCEPT !.blocks = blocks]
             k4 == [k3 EXCEPT !.rejecting = no]
             f1 == [conv EXCEPT ![c] = k1]
             f2 == [f1 EXCEPT ![c] = k2]
             f3 == [f2 EXCEPT ![c] = k3]
             f4 == [f3 EXCEPT ![c] = k4]
  <2>1. conv = [d \in Convs |-> conv[d]] /\ DOMAIN conv = Convs
    BY DEF ConvsKept
  <2>2. conv' = [conv EXCEPT ![c].pc = "tools", ![c].round = @ + 1, ![c].blocks = blocks, ![c].rejecting = no]
    BY <1>2
  <2>3. k = [pc |-> k.pc, round |-> k.round, blocks |-> k.blocks, rejecting |-> k.rejecting, confirmed |-> k.confirmed]
    BY <1>1 DEF LoopFits
  <2> HIDE DEF no
  <2>4. f1 = [conv EXCEPT ![c].pc = "tools"] /\ f1[c] = k1 /\ DOMAIN f1 = Convs
    BY <2>1
  <2>5. k1 = [pc |-> "tools", round |-> k.round, blocks |-> k.blocks, rejecting |-> k.rejecting, confirmed |-> k.confirmed]
    BY <2>3
  <2> HIDE DEF k1, f1
  <2>6. f2 = [f1 EXCEPT ![c].round = @ + 1] /\ f2[c] = k2 /\ DOMAIN f2 = Convs
    BY <2>4
  <2>7. k2 = [pc |-> "tools", round |-> k.round + 1, blocks |-> k.blocks, rejecting |-> k.rejecting, confirmed |-> k.confirmed]
    BY <2>5
  <2> HIDE DEF k2, f2
  <2>8. f3 = [f2 EXCEPT ![c].blocks = blocks] /\ f3[c] = k3 /\ DOMAIN f3 = Convs
    BY <2>6
  <2>9. k3 = [pc |-> "tools", round |-> k.round + 1, blocks |-> blocks, rejecting |-> k.rejecting, confirmed |-> k.confirmed]
    BY <2>7
  <2> HIDE DEF k3, f3
  <2>10. f4 = [f3 EXCEPT ![c].rejecting = no]
    BY <2>8
  <2>11. k4 = [pc |-> "tools", round |-> k.round + 1, blocks |-> blocks, rejecting |-> no, confirmed |-> k.confirmed]
    BY <2>9
  <2> HIDE DEF k4, f4
  <2>12. conv' = f4
    <3>1. conv' = [f1 EXCEPT ![c].round = @ + 1, ![c].blocks = blocks, ![c].rejecting = no]
      BY <2>2, <2>4, Zenon
    <3>2. conv' = [f2 EXCEPT ![c].blocks = blocks, ![c].rejecting = no]
      BY <2>6, <3>1, Zenon
    <3>3. conv' = [f3 EXCEPT ![c].rejecting = no]
      BY <2>8, <3>2, Zenon
    <3>4. QED
      BY <2>10, <3>3, Zenon
  <2>13. f4 = [conv EXCEPT ![c] = k4]
    BY <2>1 DEF f1, f2, f3, f4
  <2>14. k4 = n
    BY <2>11 DEF no
  <2>15. QED
    BY <2>12, <2>13, <2>14, Zenon
<1>5. audit' = [audit EXCEPT ![c] = b]
  BY DEF Round
<1>6. n.pc = "tools" /\ n.round = k.round + 1 /\ n.blocks = blocks /\ n.rejecting = Rejected(c, blocks) /\ n.confirmed = k.confirmed
  BY Zenon
<1>7. n = [pc |-> n.pc, round |-> n.round, blocks |-> n.blocks, rejecting |-> n.rejecting, confirmed |-> n.confirmed]
  BY Zenon
<1>8. Rejected(c, blocks) \in BOOLEAN
  BY Zenon DEF Rejected, Misordered
<1>9. b = [unused |-> Credit(a), entered |-> 0, fresh |-> 0, wrote |-> 0, tried |-> FALSE]
  <2>1. b = [Blank EXCEPT !.unused = Credit(a)]
    BY Zenon DEF Turn, Credit
  <2> HIDE DEF b
  <2>2. QED
    BY <2>1 DEF Blank
<1>10. BookFits(b) /\ b.unused = Credit(a) /\ ~(b.wrote > 0) /\ Credit(b) = Credit(a)
  <2>1. Credit(a) \in Nat
    BY <1>1, BookFields
  <2>2. b.unused = Credit(a) /\ b.wrote = 0 /\ b.fresh = 0
    BY <1>9
  <2>3. BookFits(b)
    BY <1>9, <2>1 DEF BookFits
  <2>4. QED
    BY <2>1, <2>2, <2>3 DEF Credit
<1> HIDE DEF n, b
<1>11. LoopFits(c, n)
  <2>1. k.round + 1 \in 0..MaxToolRounds
    BY <1>1, AgentsAssumption DEF LoopFits
  <2>2. k.confirmed \in BOOLEAN
    BY <1>1 DEF LoopFits
  <2>3. QED
    BY <1>3, <1>6, <1>7, <1>8, <2>1, <2>2 DEF LoopFits
<1>12. WritesStand(c, n, b)
  <2>1. CASE AgentOf[c] = "sentry"
    BY <1>6, <1>10, <2>1 DEF WritesStand, LogComesFirst, MayWrite, Rejected, Misordered
  <2>2. CASE AgentOf[c] # "sentry"
    <3>1. k.confirmed => Credit(a) > 0
      BY <1>1, <2>2 DEF WritesStand, EntryStands
    <3>2. ~n.rejecting /\ (\E i \in DOMAIN n.blocks : n.blocks[i] \in Writes(c)) => k.confirmed
      BY <1>6, <2>2 DEF Rejected
    <3>3. QED
      BY <1>6, <1>10, <2>2, <3>1, <3>2 DEF WritesStand, EntryStands, MayWrite
  <2>3. QED
    BY <2>1, <2>2
<1>13. QED
  BY <1>4, <1>5, <1>10, <1>11, <1>12, OneMoves

\* A call that is over, with the book it leaves.
LEMMA CallKeeps ==
    ASSUME ConvsKept, NEW c \in Convs, conv[c].pc = "tools", NEW confirmed \in BOOLEAN, Advance(c, confirmed),
           NEW b, audit' = [audit EXCEPT ![c] = b], BookFits(b),
           b.unused = audit[c].unused, audit[c].tried => b.tried, Call(c) = "glass_box_log" => b.tried,
           AgentOf[c] # "sentry" /\ confirmed => Credit(b) > 0,
           b.wrote > 0 => IF AgentOf[c] = "sentry" THEN b.tried ELSE b.unused > 0
    PROVE  ConvsKept'
<1> DEFINE n == Advanced(conv[c], confirmed)
<1>1. LoopFits(c, conv[c]) /\ WritesStand(c, conv[c], audit[c]) /\ Call(c) = Head(conv[c].blocks)
  BY DEF ConvsKept, Call
<1>2. LoopFits(c, n)
  BY <1>1, AdvanceFits
<1>3. WritesStand(c, n, b)
  BY <1>1, AdvanceStands
<1>4. conv' = [conv EXCEPT ![c] = n]
  BY AdvanceMoves
<1> HIDE DEF n
<1>5. QED
  BY <1>2, <1>3, <1>4, OneMoves

\* What the books say of a call that changes none.
LEMMA QuietCallKeeps ==
    ASSUME ConvsKept, NEW c \in Convs, conv[c].pc = "tools", Call(c) # "glass_box_log",
           Advance(c, conv[c].confirmed), UNCHANGED audit
    PROVE  ConvsKept'
<1> DEFINE b == audit[c]
<1>1. LoopFits(c, conv[c]) /\ WritesStand(c, conv[c], b) /\ BookFits(b) /\ audit' = [audit EXCEPT ![c] = b]
  BY DEF ConvsKept
<1>2. conv[c].confirmed \in BOOLEAN
  BY <1>1 DEF LoopFits
<1>3. /\ AgentOf[c] # "sentry" /\ conv[c].confirmed => Credit(b) > 0
      /\ b.wrote > 0 => IF AgentOf[c] = "sentry" THEN b.tried ELSE b.unused > 0
  BY <1>1, Zenon DEF WritesStand, EntryStands, LogComesFirst
<1> HIDE DEF b
<1>4. b = audit[c]
  BY DEF b
<1>5. QED
  BY <1>1, <1>2, <1>3, <1>4, CallKeeps

LEMMA LogKeeps ==
    ASSUME ConvsKept, NEW c \in Convs, Log(c)
    PROVE  ConvsKept'
<1> DEFINE a == audit[c]
<1>1. /\ LoopFits(c, conv[c]) /\ WritesStand(c, conv[c], a) /\ BookFits(a)
      /\ conv[c].pc = "tools" /\ Call(c) = "glass_box_log"
  BY DEF ConvsKept, Log
<1>2. conv[c].confirmed \in BOOLEAN
  BY <1>1 DEF LoopFits
<1>3. /\ AgentOf[c] # "sentry" /\ conv[c].confirmed => Credit(a) > 0
      /\ a.wrote > 0 /\ AgentOf[c] # "sentry" => a.unused > 0
  BY <1>1, Zenon DEF WritesStand, EntryStands
<1>4. CASE audit' = [audit EXCEPT ![c] = Enter(@)] /\ Advance(c, AgentOf[c] # "sentry")
  <2> DEFINE b == Enter(a)
  <2>1. /\ b.unused = a.unused /\ b.wrote = a.wrote /\ b.fresh = a.fresh + 1 /\ b.tried = TRUE /\ BookFits(b)
    BY <1>1, BookChanges
  <2>2. audit' = [audit EXCEPT ![c] = b]
    BY <1>4
  <2> HIDE DEF b
  <2>3. Credit(b) > 0
    BY <1>1, <2>1 DEF Credit, BookFits
  <2>4. (AgentOf[c] # "sentry") \in BOOLEAN
    OBVIOUS
  <2>5. b.wrote > 0 => IF AgentOf[c] = "sentry" THEN b.tried ELSE b.unused > 0
    BY <1>3, <2>1
  <2>6. QED
    BY <1>1, <1>4, <2>1, <2>2, <2>3, <2>4, <2>5, CallKeeps
<1>5. CASE audit' = [audit EXCEPT ![c].tried = TRUE] /\ Advance(c, conv[c].confirmed)
  <2> DEFINE b == [a EXCEPT !.tried = TRUE]
  <2>1. /\ b.unused = a.unused /\ b.wrote = a.wrote /\ b.fresh = a.fresh /\ b.tried = TRUE /\ BookFits(b)
    BY <1>1 DEF BookFits
  <2>2. audit' = [audit EXCEPT ![c] = b]
    BY <1>5
  <2> HIDE DEF b
  <2>3. Credit(b) = Credit(a)
    BY <2>1 DEF Credit
  <2>4. b.wrote > 0 => IF AgentOf[c] = "sentry" THEN b.tried ELSE b.unused > 0
    BY <1>3, <2>1
  <2>5. QED
    BY <1>1, <1>2, <1>3, <1>5, <2>1, <2>2, <2>3, <2>4, CallKeeps
<1>6. QED
  BY <1>4, <1>5 DEF Log

\* A write uses its entry up, and it had one.
LEMMA WriteKeeps ==
    ASSUME ConvsKept, NEW c \in Convs, Write(c)
    PROVE  ConvsKept' /\ audit'[c] # audit[c]
<1> DEFINE a == audit[c]
           b == [a EXCEPT !.wrote = @ + 1, !.fresh = 0]
<1>1. /\ LoopFits(c, conv[c]) /\ WritesStand(c, conv[c], a) /\ BookFits(a)
      /\ conv[c].pc = "tools" /\ Call(c) \in Writes(c) /\ Advance(c, FALSE) /\ MayWrite(conv[c])
  BY DEF ConvsKept, Write, MayWrite
<1>2. audit' = [audit EXCEPT ![c] = b]
  <2> DEFINE half == [a EXCEPT !.wrote = @ + 1]
             f1 == [audit EXCEPT ![c] = half]
  <2>1. audit' = [audit EXCEPT ![c].wrote = @ + 1, ![c].fresh = 0]
    BY DEF Write
  <2>2. audit = [d \in Convs |-> audit[d]] /\ DOMAIN audit = Convs
    BY DEF ConvsKept
  <2>3. f1 = [audit EXCEPT ![c].wrote = @ + 1] /\ f1[c] = half /\ DOMAIN f1 = Convs
    BY <2>2
  <2>4. b = [half EXCEPT !.fresh = 0]
    BY Zenon
  <2> HIDE DEF half, f1, b
  <2>5. audit' = [f1 EXCEPT ![c].fresh = 0]
    BY <2>1, <2>3, Zenon
  <2>6. audit' = [f1 EXCEPT ![c] = b]
    BY <2>3, <2>4, <2>5
  <2>7. QED
    BY <2>2, <2>6 DEF f1
<1>3. b.unused = a.unused /\ b.wrote = a.wrote + 1 /\ b.fresh = 0 /\ b.tried = a.tried /\ BookFits(b)
  <2>1. BookFits(a) /\ b = Spent(a)
    BY <1>1 DEF Spent
  <2> HIDE DEF a, b
  <2>2. QED
    BY <2>1, BookChanges
<1> HIDE DEF b
<1>4. /\ Call(c) = conv[c].blocks[1] /\ 1 \in DOMAIN conv[c].blocks /\ 1..(1 - 1) = {}
  BY <1>1, RestOfAnswer DEF Call
<1>5. IF AgentOf[c] = "sentry" THEN b.tried ELSE b.unused > 0
  <2>1. CASE AgentOf[c] = "sentry"
    <3>1. LogComesFirst(conv[c], a) /\ Writes(c) = SentryWrites
      BY <1>1, <2>1 DEF WritesStand, Writes
    <3>2. a.tried
      BY <1>1, <1>4, <3>1 DEF LogComesFirst
    <3>3. QED
      BY <1>3, <2>1, <3>2
  <2>2. CASE AgentOf[c] # "sentry"
    <3>1. EntryStands(c, conv[c], a)
      BY <1>1, <2>2 DEF WritesStand
    <3>2. a.unused > 0
      BY <1>1, <1>4, <3>1 DEF EntryStands
    <3>3. QED
      BY <1>3, <2>2, <3>2
  <2>3. QED
    BY <2>1, <2>2
<1>6. Call(c) # "glass_box_log"
  BY <1>1, AgentsAssumption DEF Writes, ClerkWrites, StewardWrites, SentryWrites
<1>7. ConvsKept'
  BY <1>1, <1>2, <1>3, <1>5, <1>6, CallKeeps
<1>8. audit'[c] = b /\ b # a
  <2>1. audit'[c] = b
    BY <1>2 DEF ConvsKept
  <2>2. a.wrote \in Nat
    BY <1>1, BookFields
  <2>3. QED
    BY <1>3, <2>1, <2>2
<1>9. QED
  BY <1>7, <1>8

\* What a write may do to the tables.
LEMMA EffectKeeps ==
    ASSUME RecorderTypeOK, NEW c \in Convs, Write(c)
    PROVE  RecorderTypeOK' /\ DatesKept /\ TensionsKept(UserOf[c])
<1>1. CASE UNCHANGED recorderVars
  BY <1>1 DEF recorderVars, RecorderTypeOK, DatesKept, TensionsKept
<1>2. CASE \/ dr_log_tension(c) \/ dr_update_tension(c) \/ dr_set_review_date(c)
           \/ dr_update_accountability(c) \/ log_labour(c)
  <2>1. CASE AgentOf[c] = "clerk"
    BY <1>2, <2>1, AgentsAssumption, ToolKeeps
  <2>2. CASE AgentOf[c] # "clerk"
    <3>1. Call(c) \in {"steward_post_financial_digest", "sentry_post_ops_alert"}
      BY <2>2, AgentsAssumption DEF Write, Writes, StewardWrites, SentryWrites
    <3>2. UNCHANGED recorderVars
      BY <3>1 DEF Write, Effect, Elsewhere
    <3>3. QED
      BY <1>1, <3>2
  <2>3. QED
    BY <2>1, <2>2
<1>3. QED
  BY <1>1, <1>2 DEF Write, Effect, Elsewhere

-----------------------------------------------------------------------------
(* The theorems.                                                           *)

\* Who changes a tension holds a conversation in which something was just written.
WriterOwns ==
    \A t \in DOMAIN tensions : tensions'[t] # tensions[t] =>
      \E c \in Convs : UserOf[c] = tensions[t].logged_by /\ audit'[c] # audit[c]

\* What any step of the recorder and the agents preserves.
LEMMA AgentsStep ==
    ASSUME RecorderTypeOK, ConvsKept, [Next]_vars
    PROVE  RecorderTypeOK' /\ ConvsKept' /\ DatesKept /\ WriterOwns
<1>1. ASSUME UNCHANGED recorderVars
      PROVE  RecorderTypeOK' /\ DatesKept /\ WriterOwns
  BY <1>1 DEF recorderVars, RecorderTypeOK, DatesKept, WriterOwns
<1>2. CASE UNCHANGED vars
  BY <1>1, <1>2 DEF vars, ConvsKept
<1>3. CASE RecorderStep /\ UNCHANGED <<conv, audit>>
  <2>1. TablesKept
    BY <1>3, RecorderKeeps
  <2>2. QED
    BY <1>3, <2>1 DEF TablesKept, ConvsKept, WriterOwns
<1>4. ASSUME NEW c \in Convs, ConvStep(c)
      PROVE  RecorderTypeOK' /\ ConvsKept' /\ DatesKept /\ WriterOwns
  <2>1. CASE Ask(c) \/ Round(c) \/ Return(c)
    <3>1. ConvsKept'
      BY <2>1, AskKeeps, RoundKeeps, ReturnKeeps
    <3>2. UNCHANGED recorderVars
      BY <2>1 DEF Ask, Round, Return
    <3>3. QED
      BY <1>1, <3>1, <3>2
  <2>2. CASE RejectWrite(c) \/ Read(c)
    <3>1. /\ conv[c].pc = "tools" /\ Advance(c, conv[c].confirmed) /\ UNCHANGED <<recorderVars, audit>>
          /\ Call(c) \in Writes(c) \cup {"read"}
      BY <2>2 DEF RejectWrite, Read
    <3>2. Call(c) # "glass_box_log"
      BY <3>1, AgentsAssumption DEF Writes, ClerkWrites, StewardWrites, SentryWrites
    <3>3. ConvsKept'
      BY <3>1, <3>2, QuietCallKeeps
    <3>4. QED
      BY <1>1, <3>1, <3>3
  <2>3. CASE Log(c)
    <3>1. UNCHANGED recorderVars
      BY <2>3 DEF Log
    <3>2. QED
      BY <1>1, <2>3, <3>1, LogKeeps
  <2>4. CASE Write(c)
    <3>1. RecorderTypeOK' /\ DatesKept /\ TensionsKept(UserOf[c])
      BY <2>4, EffectKeeps
    <3>2. ConvsKept' /\ audit'[c] # audit[c]
      BY <2>4, WriteKeeps
    <3>3. WriterOwns
      BY <3>1, <3>2 DEF TensionsKept, WriterOwns
    <3>4. QED
      BY <3>1, <3>2, <3>3
  <2>5. QED
    BY <1>4, <2>1, <2>2, <2>3, <2>4 DEF ConvStep
<1>5. QED
  BY <1>2, <1>3, <1>4 DEF Next

LEMMA AgentsBegin ==
    ASSUME Init
    PROVE  RecorderTypeOK /\ ConvsKept
<1>1. RecorderTypeOK
  BY RecorderAssumption DEF Init, RecorderInit, RecorderTypeOK
<1>2. conv = [c \in Convs |-> Fresh] /\ audit = [c \in Convs |-> Blank]
  BY DEF Init
<1>3. ASSUME NEW c \in Convs
      PROVE  LoopFits(c, Fresh) /\ BookFits(Blank) /\ WritesStand(c, Fresh, Blank)
  BY FreshFits
<1>4. QED
  BY <1>1, <1>2, <1>3 DEF ConvsKept

\* In every reachable state of the agents and the recorder the tables hold rows of their
\* shape, and each loop and book is what the other says (main.py, agent.py).
THEOREM BooksAgree == Spec => [](RecorderTypeOK /\ ConvsKept)
<1>1. Init => RecorderTypeOK /\ ConvsKept
  BY AgentsBegin
<1>2. RecorderTypeOK /\ ConvsKept /\ [Next]_vars => (RecorderTypeOK /\ ConvsKept)'
  BY AgentsStep
<1>3. QED
  BY <1>1, <1>2, PTL DEF Spec

\* Every reachable state of the agents and the recorder is well typed, however the
\* model's calls fall and whatever is restarted or lost.
THEOREM AgentsTyped == Spec => []TypeOK
<1>1. RecorderTypeOK /\ ConvsKept => TypeOK
  <2> SUFFICES ASSUME RecorderTypeOK, ConvsKept
               PROVE  TypeOK
    OBVIOUS
  <2>1. DOMAIN conv = Convs /\ audit \in [Convs -> [unused : Nat, entered : Nat, fresh : Nat, wrote : Nat, tried : BOOLEAN]]
    BY DEF ConvsKept, BookFits
  <2>2. ASSUME NEW c \in Convs
        PROVE  /\ conv[c].pc \in {"idle", "asking", "tools"}
               /\ conv[c].round \in 0..MaxToolRounds
               /\ conv[c].pc = "tools" <=> conv[c].blocks # <<>>
               /\ \A i \in DOMAIN conv[c].blocks : conv[c].blocks[i] \in Tools(c)
               /\ conv[c].rejecting \in BOOLEAN
               /\ conv[c].confirmed \in BOOLEAN
    <3>1. LoopFits(c, conv[c])
      BY DEF ConvsKept
    <3>2. \A i \in DOMAIN conv[c].blocks : conv[c].blocks[i] \in Tools(c)
      BY <3>1 DEF LoopFits
    <3>3. QED
      BY <3>1, <3>2 DEF LoopFits
  <2>3. QED
    BY <2>1, <2>2 DEF TypeOK
<1>2. QED
  BY <1>1, BooksAgree, PTL

\* A write of the Clerk or the Steward stands on an entry confirmed in an earlier round, and
\* an alert of Sentry comes after a log called in its own answer, confirmed or not, however
\* the model spreads its calls over answers and whichever of them fail (agent.py of each).
THEOREM WritesLogged == Spec => []WritesAreLogged
<1>1. ConvsKept => WritesAreLogged
  <2> SUFFICES ASSUME ConvsKept, NEW c \in Convs, audit[c].wrote > 0
               PROVE  IF AgentOf[c] = "sentry" THEN audit[c].tried ELSE audit[c].unused > 0
    BY DEF WritesAreLogged
  <2>1. WritesStand(c, conv[c], audit[c])
    BY DEF ConvsKept
  <2>2. QED
    BY <2>1 DEF WritesStand, LogComesFirst, EntryStands
<1>2. QED
  BY <1>1, BooksAgree, PTL

\* A tension changes only in a conversation of the member who logged it.
THEOREM OwnTensions == Spec => OwnTensionsOnly
<1>1. RecorderTypeOK /\ ConvsKept /\ [Next]_vars => WriterOwns
  BY AgentsStep
<1>2. QED
  BY <1>1, BooksAgree, PTL DEF Spec, OwnTensionsOnly, WriterOwns

\* An agreement due for review stays on the agenda until it gets a later date.
THEOREM ReviewsStay == Spec => ReviewNotForgotten
<1>1. RecorderTypeOK /\ ConvsKept /\ [Next]_vars
        => \A d \in prepare_meeting_agenda.reviews :
             \/ d \in (prepare_meeting_agenda.reviews)'
             \/ decisions'[d].review_date > decisions[d].review_date
  <2> SUFFICES ASSUME RecorderTypeOK, ConvsKept, [Next]_vars, NEW d \in list_due_reviews(Ahead),
                      ~(decisions'[d].review_date > decisions[d].review_date)
               PROVE  d \in list_due_reviews(Ahead)'
    BY DEF prepare_meeting_agenda
  <2>1. RecorderTypeOK' /\ DatesKept
    BY AgentsStep
  <2>2. /\ d \in DOMAIN decisions /\ decisions[d].review_date \in Nat
        /\ decisions[d].review_date # 0 /\ decisions[d].review_date <= today + Ahead
        /\ today \in Nat /\ Ahead \in Nat
    <3>1. d \in DOMAIN decisions /\ decisions \in Seq(Decision) /\ today \in 1..MaxDay
      BY DEF list_due_reviews, RecorderTypeOK
    <3>2. decisions[d] \in Decision
      BY <3>1
    <3>3. decisions[d].review_date \in Nat /\ today \in Nat
      BY <3>1, <3>2, RecorderAssumption DEF Decision, Dates
    <3>4. QED
      BY <3>1, <3>3, AgentsAssumption DEF list_due_reviews
  <2>3. d \in DOMAIN decisions' /\ decisions'[d].review_date \in Nat /\ today' \in Nat
    <3>1. d \in DOMAIN decisions' /\ decisions' \in Seq(Decision) /\ today' \in 1..MaxDay
      BY <2>1, <2>2 DEF DatesKept, RecorderTypeOK
    <3>2. decisions'[d] \in Decision
      BY <3>1
    <3>3. QED
      BY <3>1, <3>2, RecorderAssumption DEF Decision, Dates
  <2>4. decisions'[d].review_date # 0 /\ decisions'[d].review_date <= today' + Ahead
    BY <2>1, <2>2, <2>3 DEF DatesKept
  <2>5. QED
    BY <2>3, <2>4 DEF list_due_reviews
<1>2. QED
  BY <1>1, BooksAgree, PTL DEF Spec, ReviewNotForgotten
-----------------------------------------------------------------------------
(* Deliveries of Loomio.                                                   *)

\* The rows that record the outcome of p.
RowsOf(p) == {d \in DOMAIN decisions : decisions[d].poll = p}

\* The outcome of p is answered for, or its webhook is between its two commits.
Taken(p) == p \notin outbox \/ (hook # 0 /\ decisions[hook].poll = p)

(***************************************************************************)
(* Why no more rows than faults are superfluous: a delivery that ended     *)
(* without its answer, and may come again, has cost a fault.               *)
(***************************************************************************)
DeliveryOf(p) ==
    /\ p \notin outbox => RowsOf(p) # {}
    /\ Cardinality(RowsOf(p)) <= faults + (IF Taken(p) THEN 1 ELSE 0)

\* Every outcome answered for is in the table, and each fault made at most one row twice.
OutcomesStored ==
    \A p \in Polls : /\ p \notin outbox => RowsOf(p) # {}
                     /\ Cardinality(RowsOf(p)) <= 1 + faults

\* Rows are only ever added, and each stays the record of its poll.
PollsKept ==
    \A d \in DOMAIN decisions : d \in DOMAIN decisions' /\ decisions'[d].poll = decisions[d].poll

OutcomesStand == [][PollsKept]_vars

SamePolls == DOMAIN decisions' = DOMAIN decisions /\ PollsKept

\* A decision written again stays the record of its poll.
LEMMA RewriteSamePolls ==
    ASSUME RecorderTypeOK, NEW d \in DOMAIN decisions, NEW new, new.poll = decisions[d].poll,
           decisions' = [decisions EXCEPT ![d] = new]
    PROVE  SamePolls
BY DEF RecorderTypeOK, SamePolls, PollsKept

\* No tool of an agent adds a decision, gives it to another poll or touches deliveries.
LEMMA WriteSamePolls ==
    ASSUME RecorderTypeOK, NEW c \in Convs, Write(c)
    PROVE  SamePolls /\ UNCHANGED <<hook, outbox, faults>>
<1>1. \A d \in DOMAIN decisions : decisions[d] \in Decision
  BY DEF RecorderTypeOK
<1>2. CASE UNCHANGED recorderVars \/ dr_log_tension(c) \/ dr_update_tension(c) \/ log_labour(c)
  BY <1>2 DEF recorderVars, dr_log_tension, PostTension, dr_update_tension, PatchTension,
              log_labour, PostLabour, SamePolls, PollsKept
<1>3. CASE dr_set_review_date(c)
  <2>1. PICK d \in DOMAIN decisions, on \in Future : PatchReview(d, on)
    BY <1>3 DEF dr_set_review_date
  <2> DEFINE new == [decisions[d] EXCEPT !.review_date = on]
  <2>2. new.poll = decisions[d].poll
    BY <1>1, <2>1 DEF Decision
  <2>3. decisions' = [decisions EXCEPT ![d] = new] /\ UNCHANGED <<hook, outbox, faults>>
    BY <2>1 DEF PatchReview
  <2> HIDE DEF new
  <2>4. QED
    BY <2>2, <2>3, RewriteSamePolls
<1>4. CASE dr_update_accountability(c)
  <2>1. PICK d \in DOMAIN decisions, status \in Statuses, on \in Future \cup {0} :
          PatchAccountability(d, status, on)
    BY <1>4 DEF dr_update_accountability
  <2> DEFINE next == IF on = 0 THEN decisions[d].accountability_review_date ELSE on
             new == [decisions[d] EXCEPT !.accountability_status = status,
                                         !.accountability_review_date = next]
  <2>2. decisions' = [decisions EXCEPT ![d] = new] /\ UNCHANGED <<hook, outbox, faults>>
    BY <1>1, <2>1 DEF PatchAccountability, RecorderTypeOK
  <2> HIDE DEF next
  <2>3. new.poll = decisions[d].poll
    BY <1>1 DEF Decision
  <2> HIDE DEF new
  <2>4. QED
    BY <2>2, <2>3, RewriteSamePolls
<1>5. QED
  BY <1>2, <1>3, <1>4 DEF Write, Effect, Elsewhere

\* Where the same decisions are on record, the same rows are.
LEMMA RowsStay ==
    ASSUME SamePolls, NEW p
    PROVE  RowsOf(p)' = RowsOf(p)
BY DEF SamePolls, PollsKept, RowsOf

\* The rows of a table are finitely many.
LEMMA RowsFinite ==
    ASSUME RecorderTypeOK, NEW p
    PROVE  IsFiniteSet(RowsOf(p)) /\ Cardinality(RowsOf(p)) \in Nat
<1>1. DOMAIN decisions = 1..Len(decisions) /\ Len(decisions) \in Nat
  BY DEF RecorderTypeOK
<1>2. IsFiniteSet(1..Len(decisions))
  BY <1>1, FS_Interval
<1>3. QED
  BY <1>1, <1>2, FS_Subset, FS_CardinalityType DEF RowsOf

\* The first commit of a webhook.
LEMMA WebhookDelivers ==
    ASSUME RecorderTypeOK, NEW q \in Polls, Webhook(q), NEW p \in Polls, DeliveryOf(p)
    PROVE  PollsKept /\ DeliveryOf(p)'
<1> DEFINE new == [poll |-> q, ipfs_cid |-> FALSE, review_date |-> 0,
                   accountability_status |-> "not_started", accountability_review_date |-> 0]
           n == Len(decisions) + 1
<1>1. new \in Decision /\ new.poll = q
  BY RecorderAssumption DEF Decision, Dates, Statuses
<1>2. /\ decisions' = Append(decisions, new) /\ hook' = Len(decisions') /\ hook = 0 /\ q \in outbox
      /\ UNCHANGED <<outbox, faults>>
  BY DEF Webhook
<1> HIDE DEF new
<1>3. decisions \in Seq(Decision)
  BY DEF RecorderTypeOK
<1>4. /\ DOMAIN decisions = 1..Len(decisions) /\ DOMAIN decisions' = 1..n /\ Len(decisions) \in Nat
      /\ \A d \in DOMAIN decisions : decisions'[d] = decisions[d]
      /\ decisions'[n] = new /\ hook' = n
  BY <1>1, <1>2, <1>3, RowAdded
<1>5. PollsKept
  BY <1>4 DEF PollsKept
<1>6. IsFiniteSet(RowsOf(p)) /\ Cardinality(RowsOf(p)) \in Nat /\ n \notin RowsOf(p)
  <2>1. n \notin RowsOf(p)
    BY <1>4 DEF RowsOf
  <2>2. QED
    BY <2>1, RowsFinite
<1>7. faults \in Nat
  BY RecorderAssumption DEF RecorderTypeOK
<1>8. CASE p = q
  <2>1. RowsOf(p)' = RowsOf(p) \cup {n}
    BY <1>1, <1>4, <1>8 DEF RowsOf
  <2>2. Cardinality(RowsOf(p)') = Cardinality(RowsOf(p)) + 1
    BY <1>6, <2>1, FS_AddElement
  <2>3. ~Taken(p) /\ Taken(p)'
    BY <1>1, <1>2, <1>4, <1>8 DEF Taken
  <2>4. QED
    BY <1>2, <1>5, <1>6, <1>7, <1>8, <2>2, <2>3 DEF DeliveryOf
<1>9. CASE p # q
  <2>1. RowsOf(p)' = RowsOf(p)
    BY <1>1, <1>4, <1>9 DEF RowsOf
  <2>2. Taken(p)' = Taken(p)
    BY <1>1, <1>2, <1>4, <1>9 DEF Taken
  <2>3. QED
    BY <1>2, <1>5, <2>1, <2>2 DEF DeliveryOf
<1>10. QED
  BY <1>8, <1>9

\* The second commit and its answer.
LEMMA PinDelivers ==
    ASSUME RecorderTypeOK, Pin, NEW p \in Polls, DeliveryOf(p)
    PROVE  PollsKept /\ DeliveryOf(p)'
<1>1. hook \in DOMAIN decisions /\ decisions[hook] \in Decision /\ hook' = 0 /\ faults \in Nat
  BY RecorderAssumption DEF RecorderTypeOK, Pin
<1>2. PICK pinned \in BOOLEAN : decisions' = [decisions EXCEPT ![hook].ipfs_cid = pinned]
  BY DEF Pin
<1> DEFINE new == [decisions[hook] EXCEPT !.ipfs_cid = pinned]
<1>3. new.poll = decisions[hook].poll
  BY <1>1 DEF Decision
<1>4. decisions' = [decisions EXCEPT ![hook] = new]
  BY <1>2
<1> HIDE DEF new
<1>5. SamePolls
  BY <1>1, <1>3, <1>4, RewriteSamePolls
<1>6. RowsOf(p)' = RowsOf(p) /\ Cardinality(RowsOf(p)) \in Nat
  BY <1>5, RowsStay, RowsFinite
<1>7. hook # 0
  BY DEF Pin
<1>8. CASE outbox' = outbox \ {decisions[hook].poll} /\ UNCHANGED faults
  <2>1. p \notin outbox' => RowsOf(p) # {}
    BY <1>1, <1>8 DEF DeliveryOf, RowsOf
  <2>2. Taken(p)' = Taken(p)
    BY <1>1, <1>7, <1>8 DEF Taken
  <2>3. QED
    BY <1>5, <1>6, <1>8, <2>1, <2>2 DEF DeliveryOf, SamePolls
<1>9. CASE faults' = faults + 1 /\ UNCHANGED outbox
  BY <1>1, <1>5, <1>6, <1>9 DEF DeliveryOf, SamePolls
<1>10. QED
  BY <1>8, <1>9 DEF Pin

\* A restart of the recorder.
LEMMA CrashDelivers ==
    ASSUME RecorderTypeOK, RecorderCrash, NEW p \in Polls, DeliveryOf(p)
    PROVE  PollsKept /\ DeliveryOf(p)'
<1>1. faults \in Nat /\ faults' = faults + 1 /\ UNCHANGED <<decisions, outbox>>
  BY RecorderAssumption DEF RecorderTypeOK, RecorderCrash
<1>2. RowsOf(p)' = RowsOf(p) /\ Cardinality(RowsOf(p)) \in Nat /\ PollsKept
  BY <1>1, RowsFinite DEF RowsOf, PollsKept
<1>3. QED
  BY <1>1, <1>2 DEF DeliveryOf

\* A step that leaves deliveries alone and every decision its poll.
LEMMA StillDelivers ==
    ASSUME RecorderTypeOK, SamePolls, UNCHANGED <<hook, outbox, faults>>,
           NEW p \in Polls, DeliveryOf(p)
    PROVE  PollsKept /\ DeliveryOf(p)'
<1>1. RowsOf(p)' = RowsOf(p) /\ PollsKept
  BY RowsStay DEF SamePolls
<1>2. Taken(p)' = Taken(p)
  <2>1. hook # 0 => hook \in DOMAIN decisions
    BY DEF RecorderTypeOK
  <2>2. QED
    BY <1>1, <2>1 DEF Taken, PollsKept
<1>3. QED
  BY <1>1, <1>2 DEF DeliveryOf

LEMMA DeliveryStep ==
    ASSUME RecorderTypeOK, [Next]_vars, NEW p \in Polls, DeliveryOf(p)
    PROVE  PollsKept /\ DeliveryOf(p)'
<1>1. CASE \/ UNCHANGED recorderVars
           \/ NextDay
  BY <1>1, StillDelivers DEF recorderVars, NextDay, SamePolls, PollsKept
<1>2. CASE RecorderStep
  BY <1>1, <1>2, WebhookDelivers, PinDelivers, CrashDelivers DEF RecorderStep
<1>3. ASSUME NEW c \in Convs, ConvStep(c)
      PROVE  PollsKept /\ DeliveryOf(p)'
  <2>1. CASE Write(c)
    BY <2>1, WriteSamePolls, StillDelivers
  <2>2. CASE ~Write(c)
    <3>1. UNCHANGED recorderVars
      BY <1>3, <2>2 DEF ConvStep, Ask, Round, RejectWrite, Read, Log, Return
    <3>2. QED
      BY <1>1, <3>1
  <2>3. QED
    BY <2>1, <2>2
<1>4. QED
  BY <1>1, <1>2, <1>3 DEF Next, vars

\* A decision on record names a poll, and whatever happens to that poll's
\* deliveries it is on record afterwards.
LEMMA PollsStep ==
    ASSUME RecorderTypeOK, [Next]_vars, \A p \in Polls : DeliveryOf(p)
    PROVE  PollsKept
<1>1. CASE Polls = {}
  <2>1. \A d \in DOMAIN decisions : decisions[d] \in Decision
    BY DEF RecorderTypeOK
  <2>2. \A d \in DOMAIN decisions : decisions[d].poll \in Polls
    BY <2>1 DEF Decision
  <2>3. QED
    BY <1>1, <2>2 DEF PollsKept
<1>2. CASE Polls # {}
  BY <1>2, DeliveryStep
<1>3. QED
  BY <1>1, <1>2

(***************************************************************************)
(* The safety half of OutcomeRecorded, for any number of polls and faults: *)
(* Loomio never gets its 202 for an outcome that is not in the table, and  *)
(* a second row of the same poll is always the price of a restart or of a  *)
(* lost answer (webhook of main.py, which commits before it pins).  And a  *)
(* row once stored stays the record of its poll, whatever is patched.      *)
(***************************************************************************)
THEOREM OutcomesAccountedFor == Spec => []OutcomesStored /\ OutcomesStand
<1>1. Init => \A p \in Polls : DeliveryOf(p)
  <2> SUFFICES ASSUME Init, NEW p \in Polls
               PROVE  DeliveryOf(p)
    OBVIOUS
  <2>1. RowsOf(p) = {} /\ faults = 0 /\ p \in outbox /\ hook = 0
    BY DEF Init, RecorderInit, RowsOf
  <2>2. Cardinality(RowsOf(p)) = 0
    BY <2>1, FS_EmptySet
  <2>3. QED
    BY <2>1, <2>2 DEF DeliveryOf, Taken
<1>2. RecorderTypeOK /\ (\A p \in Polls : DeliveryOf(p)) /\ [Next]_vars
        => (\A p \in Polls : DeliveryOf(p))'
  BY DeliveryStep
<1>3. RecorderTypeOK /\ (\A p \in Polls : DeliveryOf(p)) => OutcomesStored
  <2> SUFFICES ASSUME RecorderTypeOK, NEW p \in Polls, DeliveryOf(p)
               PROVE  /\ p \notin outbox => RowsOf(p) # {}
                      /\ Cardinality(RowsOf(p)) <= 1 + faults
    BY DEF OutcomesStored
  <2>1. faults \in Nat /\ Cardinality(RowsOf(p)) \in Nat
    BY RowsFinite, RecorderAssumption DEF RecorderTypeOK
  <2>2. QED
    BY <2>1 DEF DeliveryOf
<1>4. RecorderTypeOK /\ (\A p \in Polls : DeliveryOf(p)) /\ [Next]_vars => [PollsKept]_vars
  BY PollsStep
<1>5. QED
  BY <1>1, <1>2, <1>3, <1>4, BooksAgree, PTL DEF Spec, OutcomesStand
=============================================================================
