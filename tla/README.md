# A verification project for Iskander

Iskander is a platform for worker and solidarity cooperatives: smart contracts
for membership, trade, arbitration, delegation, pay and voting; small Python
services for onboarding, decision records and treasury data; chat agents that
act through those services; and an earlier backend of agents and routers, now
under `legacy/`, whose parts are being carried over. This directory holds TLA+
modules translated from that code, TLC configurations that model-check them, and
proofs that the TLA+ proof system (`tlapm`) checks.

Paths are relative to the repository; `contracts/`, `services/`, `openclaw/` and
`legacy/` stand for `src/IskanderOS/contracts/src/`, `src/IskanderOS/services/`,
`src/IskanderOS/openclaw/` and `src/IskanderOS/legacy/backend/` below `src/`.
`PROJECT.json` lists the components, the lines each definition translates, the
runs, the variants, the findings, the hazards and the theorems.

## 1. The system

| Part | State it keeps | Operations | Talks to |
|---|---|---|---|
| `CoopIdentity.sol` | one soulbound token per member, its record (active, trust score), owner and balance maps, steward, registry | attest, revoke, slashTrust, restoreTrust, setters, transferSteward | BrightID verifier |
| `IskanderEscrow.sol` | escrows with a status, one ERC-20 balance per token | createEscrow, confirmDelivery, raiseDispute, claimExpiry, executeVerdict | ERC-20 tokens |
| `ArbitrationRegistry.sol` | cases, the map from escrows to cases | openCase, recordVerdict, restoreTrust | the two above |
| `governance/StewardshipLedger.sol` | delegations and counts, scores, breaker, oracle and its successor, vetoes | delegate, revoke, emergencyVeto, the oracle's functions | reads CoopIdentity |
| `InternalPayroll.sol` | register of base pay, the lowest of it, the ratio | register, update, deregister, pay, setRatio | reads CoopIdentity, ERC-20 |
| `governance/MACIVoting.sol` | ballots with windows and status, sign-ups, messages | createProposal, signUp, publishMessage, beginProcessing, processMessages | reads CoopIdentity, verifier |
| `governance/ForeignReputation.sol` | foreign scores with the time of their last change, tiers, half-life, oracle | register, recordTransaction, quarantine, thresholds, half-life | reads CoopIdentity |
| `governance/TrustRegistry.sol` | issuers' keys, the list of all ever registered, a count of the active | registerIssuer, revokeIssuer | reads CoopIdentity |
| `services/provisioner` | one row per username with three stage flags | `POST /members` | Authentik, Loomio, Mattermost |
| `services/decision-recorder` | decisions, tensions, labour, the Glass Box log | webhook, log, tensions, reviews, accountability, labour | Loomio, IPFS |
| `openclaw` | conversations and the flags of their tool loops | the loops of Clerk, Steward and Sentry | a language model, the services |
| `legacy/agents`, `routers` | checkpoints of agent graphs, stores beside them | requests that start, resume or vote on a graph | each other through thread identifiers, the power daemon, the stores |
| `legacy/boundary`, `federation`, `mesh`, `finance`, `governance` | the causal buffer, penalties, outbox, anchors, batches, the manifest | ingest, sync, anchor, draft, settle | foreign actors, the chain |

What is not in this table, and why, is in section 8.

### What is hard about it

* **One transaction, three contracts.** `recordVerdict` marks the case, makes the
  escrow pay, and slashes two scores in a third contract. Two contracts keep books
  of the same event.
* **Races for the same money.** After a deadline a confirmation, an expiry claim
  and a dispute are all possible on one escrow, whose funds sit in a balance
  shared with every other.
* **State kept twice.** Memberships in four maps; delegation counts beside the
  delegations; the lowest pay beside the register; a count of keys beside the
  list that keeps revoked ones; a buffer's counters beside the buffer; balances
  beside a ledger. Five contracts read memberships and are told of no revocation.
* **Windows and notices.** An oracle changes after 48 hours, and the candidate can
  be replaced meanwhile; a ballot is open, closed, tallied and decided in turn.
* **Integer decay.** Scores halve by shifts and interpolate in between, twice: in
  Solidity and in Python.
* **Overlapping requests and partial failure.** The provisioner's handlers run in a
  thread pool and take a person through three services that may succeed without
  saying so. The recorder commits an outcome before it pins it. The Clerk and
  Loomio both retry.
* **Arbitrary callers.** What a language model asks for is anything; the loops
  around it are what keeps a write behind its audit entry.
* **Suspended graphs.** A legacy handler starts, suspends or resumes a graph at a
  checkpoint that any request naming the thread can move again.
* **Awaits.** A stance is checked, recorded, counted and acted on in separate awaits.
* **Messages out of order.** An activity may arrive before the one it answers, be
  held, expire, or arrive twice.

## 2. The modules

### Contracts

A transaction is one action, a revert a disabled action. Functions keep their
names and take the sender first.

| Module | Models |
|---|---|
| `Chain` | addresses, `block.timestamp` |
| `CoopIdentity` | `CoopIdentity.sol`. Slashing and restoring are operators on the map of records, because the court applies two slashes in one transaction |
| `IskanderEscrow` | `IskanderEscrow.sol` and its tokens; `ledger` is the tokens' balances, the vault the contract's own |
| `ArbitrationRegistry` | `ArbitrationRegistry.sol` composed with the two above: `recordVerdict` conjoins the nested calls in their order |
| `EscrowPromise` | nothing: the abstract specification of trade. Lock once, settle once, contested deals pay only by a ruling of the arbiter of that moment that splits the whole. Anybody may appoint an arbiter, at any time (`Appoint`), as in the code |
| `StewardshipLedger` | its contract; `uint256` is `0..MaxUint`, `*` reverts above it and `-=` below zero |
| `InternalPayroll`, `MACIVoting`, `ForeignReputation`, `TrustRegistry` | their contracts, each with the steps of CoopIdentity it depends on |
| `ScoreDecay` | the decay of a score by half-lives, used by `ForeignReputation` and by `Diplomacy` |
| `MemberContracts` | the composition of those four and the ledger over one block and one register of members |

`operator`, the steward and the first oracle are the Safe that
`script/Deploy.s.sol` passes to every constructor. `Init` is the state after the
constructor calls; the wiring calls that follow are ordinary actions, so the
properties hold before, between and after them.

### Services and agents

| Module | Models |
|---|---|
| `Provisioner` | `services/provisioner`. A handler is a record: where in `provision_member` it stands, at which stage, whether it inserted the row, and what its SQLAlchemy session holds. A commit expires what the session holds; without one in between the handler decides on what it read first |
| `Onboarding` | nothing: the abstract specification of onboarding. A person is served by a system only when those before it are on record, on record only after being served, and welcomed once, at the end |
| `DecisionRecorder` | `services/decision-recorder`: the tables and the handlers. The webhook has two commits with the pin between them, and may die in between; the others commit once |
| `Agents` | `openclaw` composed with the recorder. A conversation is one call of `run()`: rounds of a model's answer, each a sequence of tool calls, run under the agent's rule about audit entries. `audit` is a history variable the properties read |

### The legacy backend

| Module | Models |
|---|---|
| `LangGraph` | checkpoints: `invoke`, `update_state(as_node)`, `invoke(None)` as the routers use them |
| `Energy` | sensor, policies, gate, deferred tasks, the pause flag the other agents' nodes poll |
| `CoopFinance` | governance, treasury, fiat, procurement, credits |
| `CoopCommons` | the knowledge registry, Break-Glass, the curators' debate, contributions, stewardship scores |
| `CoopAudit` | vetting, prediction, escrow, outcomes |
| `Diplomacy` | reputation of foreign co-ops, the sandbox, credentials, peer review; registers what it admits in `CoopCommons` |
| `Apps` | the app store and the agent spawner |
| `Deliberation` | stances, closing, outcomes, reactions, seats, tasks and the agents' queue; a request is a process with a step per await. Any statement may fail, carried out or not (`request_fails`), and the process may go down (`restart`); `missed` is a history of the proposals whose draft or outcome was lost that way or refused by a full queue |
| `Resolution` | nothing: the abstract specification of deliberations. A proposal opens once and closes once; its outcome is drafted and stated only then, under its own process. Drafts may be forgotten, all at once (`Forget`) |
| `Settlement` | the manifest's rules, read from the default file (`load_manifest_file`) or put in force by a boot, batches of payments, content, causal events, anchors |
| `Genesis` | both kinds of boot; writes the manifest that `Settlement` obeys |
| `Federation` | trust, translation, verification, the causal buffer with its two link fields, the inbox, sync, notices and votes, arbitration. An object that is an IRI makes the handling raise in the translator or in the buffer (`Untranslatable`, `Unlinkable`); `raised` and `dropped` are histories of that |
| `CoopAgents` | the composition of all of these, with the properties |

A handler of these routers is an `async def` that calls `graph.invoke` without
awaiting, so the event loop runs nothing else until the graph ends, is suspended
or raises: a request is one step and the race is for the checkpoint in between.
A node is an operator from a state to the set of states it may return.
`Deliberation` is the exception: its handlers await the database and a thread.
The checkpoints are `MemorySaver` objects and most stores dictionaries; of these a
restart leaves nothing and is a new behaviour. The tables of the deliberations are in
PostgreSQL and survive one, while the requests in progress, the agents' queue and its
results do not: `Deliberation!restart` is an action.

`MCCourt`, `MCStewardship`, `MCProvisioner`, `MCAgents` and `MCCoopAgents` give
the constants their values. `CourtProofs`, `IdentityProofs`,
`StewardshipProofs`, `MemberProofs`, `AgentsProofs`, `ProvisionerProofs` and
`LegacyProofs` hold the theorems, `DataLemmas` the lemmas about numbers and sums
that no component owns.

Definitions called "Variant of ..." are deliberate mistakes. Each stands beside
the definition it misquotes and shows that a property notices: with the variant
in its place the named run fails.

## 3. The runs

`tlc -config X.cfg M`, in this directory.

| Run | Module | Checks |
|---|---|---|
| `court_payments` | `MCCourt` | `VaultBacked`, `VerdictsMatchEscrows`, `DisputeNeverStranded`, `PromiseKept` |
| `court_membership` | `MCCourt` | `TypeOK`, `MembershipAgrees`, `TrustFallsOnlyByVerdict` |
| `court_rehabilitation` | `MCCourt` | `RehabilitationAvailable`, violated |
| `stewardship` | `MCStewardship` | `TypeOK`, `DelegationsCounted`, `RevokeAlwaysExecutable`, `EmergencyStopWorks`, `OracleChangesOnNotice`, `PayWithinRatio`, `BallotSealed`, `TrustIsEarned`, `ActiveIssuersFit` |
| `stewardship_emergency` | `MCStewardship` | `EmergencyHolds`, violated |
| `provisioner` | `MCProvisioner` | `TypeOK`, `OnboardingInOrder`, `StepsNotRepeated`, `PromiseKept`, `RetryCompletesOrStrands` |
| `provisioner_retry` | `MCProvisioner` | `RetryIsSafe`, violated |
| `agents` | `MCAgents` | `TypeOK`, `WritesAreLogged`, `OwnTensionsOnly`, `ReviewNotForgotten`, `OutcomeRecorded` |
| `agents_entries` | `MCAgents` | `OneEntryPerWrite`, violated |
| `coop` | `MCCoopAgents` | `TypeOK`, `BalancesMatchLedger`, `DecisionIsFinal`, `CommonsFrozen`, `VettingFlagsFailures`, `DecayNeverRaises`, `RevokedKeyHasNoAttestation`, `ClosedIsDrafted`, `RegulatoryFloor`, `BatchWasCompliant`, `AnchoredInItsBatch`, `NothingVanishes`, `HeldAwaitsPredecessor`, `CountsMatchBuffer` |
| `coop_block` | `MCCoopAgents` | `BlockIsHeard`, violated |
| `coop_recipient` | `MCCoopAgents` | `ProcessedForItsRecipient`, violated |

What they show:

* **Court.** Two trades of one token, with and without dispute, expiry and
  verdict, while the court or a party is appointed as the escrow's registry, in turn:
  the vault holds exactly what unsettled trades locked; a case is executed exactly when
  the court itself ruled, with the split that was paid; a dispute can be decided
  whenever the court is the registry; the contracts implement `EscrowPromise`. Nothing
  promises that it is the court that rules (section 7). Memberships given, lost and given again around a
  trade: the maps agree, scores fall only by the verdict on a party.
* **Member contracts.** Delegations are counted exactly and can always be taken
  back; the breaker stops them, also at the overflow; an oracle gets its full
  notice. Nobody is paid above the ratio times the lowest registered pay. From
  the close of a ballot its sign-ups and messages stand, and a ballot decided after it
  was created keeps its result; one that was processed before is overwritten (section 7). A foreign score never rises by waiting, nor through a
  quarantine. The list of trusted keys has as many as are counted.
* **Provisioner.** Two threads, two faults anywhere: the stages keep their order,
  nothing is repeated without an overlap or a lost record, the handlers implement
  `Onboarding`; retrying completes unless the account was made and not recorded.
* **Agents.** Whatever the models ask for, a write of the Clerk and the Steward
  rests on an entry confirmed in an earlier round; Sentry calls its log earlier in the
  same answer, whatever becomes of it (section 7); nobody's tension is changed for another, an agreement due for review stays on
  the agenda, and every outcome Loomio delivers is recorded at last.
* **Legacy.** Balances are what the ledger adds up to; decisions, verdicts and
  settled batches are final; nothing of the commons moves while Break-Glass is
  active; no failed candidate is vetted through; scores only decay; no attestation
  outlives the key that signed it; a closed proposal has its outcome stated or its
  draft waiting, running or ended, unless a full queue, a failing statement or a
  restart lost it, and no interleaving does; the manifest in force is the file's, or a
  reviewed boot's with the rules of its jurisdiction; a batch complied with each rule of
  the manifest it was drafted under and pays nobody outside without a human, but for two
  ways of stating the sum (section 7); an event is anchored once, in the batch it was
  promised; an activity is refused, held or processed once, unless its own handling
  raises or it expires in one that does; it is not held once what it waits for was let
  through; and the counters that ration the buffer are those of its content.

### Bounds and why they are enough

* **Court.** Two members: a function involves at most two parties, which may be the
  same. `MaxEscrows` 2 with one token puts one trade's money beside another's;
  `MaxCases` 2 gives each its case. `court_membership` has one trade and three tokens,
  so a coop can be revoked and attested again while the other is a member.
  `Appointable` is the court and a party in `court_payments`, and the court alone where
  the properties are not about who rules. `Wealth` is all that a coop can lock. `FullTrust` stands for 1000; `Points` lie
  below, at and above what is left of a score. `MaxTime` leaves a time before, at
  and after a deadline.
* **Member contracts.** They share memberships and time and do not call each other, so
  a behaviour calls one of them (`called`), and time goes as far as that one needs
  (`Horizon`); otherwise the states would be the product of five unrelated ones.
  `MaxUint` 7, `Bps` 2 and a factor of 4 put the reserve product below, at and
  beyond the overflow. Base pays of 1 and 2 with ratios of 1, 3/2 and 2 make caps
  of 1 to 4, one of them rounded. Two ballots, and tallies that meet the quorum,
  miss it and are empty. Four blocks hold up to three half-lives of 1, one and a half
  of 2 and two thirds of 3, and `DeadAfter` 3 (13 in the code) brings a score of
  7 to nothing. Two keys make an order in the list.
* **Provisioner.** One fault leaves an effect unrecorded, the second strikes the
  retry. Two threads are what an overlap needs; users share nothing but threads.
* **Agents.** Three rounds of two calls: an entry, a write and another write can fall
  into one, two or three answers in any order. The tools a model may ask for differ by
  conversation (`Offers`) to keep the answers few. One conversation runs at a time
  (`MaxRunning`); the loops share only the recorder's tables.
* **Legacy.** `Mixes` are the parts one behaviour uses: those that share state, and
  each with the power daemon where its nodes poll the pause flag. Parts in no common mix
  have no common state. One checkpoint is one thread identifier; two assets and
  their dependents, three deliveries, three foreign actors and a buffer of two, of
  which one per actor, are the least that fill, overtake and expire. The activities carry
  either link field or both, and an object or an IRI; the payments state their sum under
  one or two of its three names; the default file's rules are those of the repository's. `Ticks` are
  times within, at and past a half-life and past thirteen of them.
* Guards with a comment `bound` keep counters finite. They are why the contract, agent
  and legacy runs may stop, hence `CHECK_DEADLOCK FALSE` there. The provisioner's
  runs check deadlock.

### Fairness

The contract and legacy modules state none: nothing obliges anybody to send a
transaction or a request. What must stay possible (`DisputeNeverStranded`,
`RevokeAlwaysExecutable`, `EmergencyStopWorks`) is stated with `ENABLED`.

`Provisioner!FairSpec` assumes that a running handler takes its next step (WF: threads
are scheduled, HTTP calls time out after 30 s) and that the Clerk asks again for a
user that is not provisioned whenever a thread is free infinitely often (SF: the
502 tells it that retrying is safe, and a person waits).

`Agents!Fairness` assumes that Loomio goes on delivering an outcome until it is
answered (WF of the webhook per poll) and that a webhook once begun goes on to its second
commit unless the process dies (WF of the pin). Nothing is assumed of conversations.

Faults need no fairness and end at `MaxFaults`: liveness is a promise for the
time after they stop.

## 4. What is proved

For every value of the constants that meets the named assumptions. `tlapm M.tla`
checks a proof module. 35 of the 40 properties of the passing runs are proved, every
invariant and action property that does not speak of `ENABLED`, and both refinements
the runs check. A third refinement (`ResolutionsKept`) and what is left of the promises
that section 6 refutes are proved beyond the runs.

**Data** (`DataLemmas`). The installed provers cannot instantiate an induction
theorem, so what needs induction goes by a smallest counterexample (`LeastNat`,
`SmallestBad`). On it rest integer division and halving (`Halving`, `Interpolation`,
`Decay`: what is left of a score never grows with the time passed, across the seams
between half-lives) and sums over finite sets: a fold is some table of partial sums
(`SumIsTable`), any two tables agree (`TablesAgree`), so a sum changes by the one
term that changes (`SumTake`, `SumNew`, `SumSame`).

**Court** (`CourtProofs`, `IdentityProofs`). `TypeCorrect`: the types are
inductive, since each subtraction is guarded by the check the code makes.
`Membership`: `MembershipAgrees` is inductive given the types; the burden is
`attest` after `revoke`, where dead tokens keep records. `VerdictsAgree`: contains
that cases are numbered without gaps and that the map from escrows is the
inverse of the case's own field, without which a second case for one escrow
could not be excluded. It says so of the rulings the court itself gave (`byCourt`): an
account appointed in its place pays without a case, and its escrow's case, if one is
open, is never executed, since the escrow is no longer disputed. `VaultIsBacked`: the sum of what unsettled escrows owe in a
token gains a term when one is created and loses it in the transaction that settles
it. `DisputesCanBeRuled`: of a disputed escrow with a case, each
refusal `recordVerdict` could meet on a dismissal is excluded; the vault covers the
single escrow because it covers the sum. `TrustGuarded` uses `MembershipAgrees`: a
slash reaches its party's token, so its owner is the party. `CourtKeepsPromise`: the
refinement; its mapping takes a payout the court ruled from the court's case and not
from the escrow, so it needs `VerdictsMatchEscrows` before and after each step; the
arbiter is whoever is the registry. `RehabilitationFreezes`
says what finding 1 would cost to repair by wiring: the court can give a score back only
while it is itself the steward, and from then on no membership, no wiring and no
steward changes any more, since its one call as steward is that one.

**Stewardship** (`StewardshipProofs`). `CountsExact`:
`receivedDelegations[s] = Cardinality({m : delegation[m] = s})` is inductive with the
types; `RepointCounts` computes what pointing one member elsewhere does to the
cardinalities, with old = new steward and delegation to oneself.
`RevokeNeverUnderflows` follows. `EmergencyStops`: tripping the breaker multiplies
nothing that a delegation does not, so it can be tripped wherever one could pass, and
none passes after. It assumes `Bps > 1` (10000 in the code): with 1 the factor would not
differ from the reserve's own. `OracleRotates` strengthens by `CandidateOnNotice`: while
somebody is pending, the clock is that candidate's.

**Members** (`MemberProofs`). `RegisterKept`: `RegisterAgrees` (the array is the
register; the lowest pay beside it is somebody's on it, and below nobody's; 0 with an
empty one) is
inductive; `RatioHolds`: the cap computed with the division the contract makes is within
the ratio. `SignUpsCounted`: `BallotsCounted` is inductive, the counter is the
cardinality of the signed up, and windows are ordered. `Sealing` follows: what could
add to a ballot needs its window open or a status it has left. An id that is not given
out has the zero struct's status and deadline and goes through the same steps; the
result it may reach is what `createProposal` overwrites, hence the condition
`b < nextProposalId`. `DecayOnly` combines the
lemmas on decay with `ScoresKept`: no profile is dated in the future and none has a
score below zero. `IssuersFit`: `KeysKept` is inductive; each key ever known has exactly
one place in the list, so trusting a revoked key anew gives its old place back.
`EachRuns`: every behaviour of `MemberContracts` is one of each contract's own
specification, since no contract writes what is another's. `MembersAreSafe` carries
the properties above, and those of the ledger, over to the composition.

**Agents** (`AgentsProofs`). `BooksAgree`: the recorder's tables are well
typed and each conversation's loop, history and place in its answer fit one another
(`LoopFits`, `BookFits`, `WritesStand`), also when a webhook dies between its commits.
`AgentsTyped` and `WritesLogged` follow: the flag that lets a write of the Clerk or the
Steward pass is taken from an entry confirmed in an earlier round and is cleared by the
round that uses it; of Sentry it says what its code ensures, a log called earlier in
the same answer (section 7).
`OwnTensions`: a writer acts with the key of its own conversation. `ReviewsStay`:
only a later review date takes an agreement off the agenda. `OutcomesAccountedFor` is
the safety half of `OutcomeRecorded`: Loomio gets no 202 for an outcome that is not in the
table, and a poll has at most one row more than there were faults. It goes by
`DeliveryOf`: a delivery that may come again although its row is stored was cut off,
which used up a fault.

**Provisioner** (`ProvisionerProofs`). `TypeCorrect` needs `HandlersBehindRows`: what a
session holds is part of the row. `StagesKeepOrder` adds `EffectsSeen`: a handler
about to save has seen the effect. `OneCreation` adds `OneFirstRequest`: at most one handler
has `is_new` for a username, it is gone after its 201, and a missing row means no 201
yet. `NothingRepeated` adds `EffectsExplained`: while requests of a user have not
overlapped and nothing was lost, an effect that is not on record is the one the only
handler is about to save. `OnboardingKept`: the refinement. Its mapping reads the
row, the services' effects and the 201s; a handler acts on an old row, and the step is
still one of `Onboarding` because rows only gain stages and because what the handler saw
is part of the row. `StrandedForGood`: `stranded` lasts whatever else happens, which is
finding 3 for any number of requests. `RefusedOnlyWhenDisturbed` is its other side: neither
Authentik nor the unique index refuses anybody without an overlap or a lost record.
`HandlersEnd`: each step of a handler lowers a measure from 15 and no other request moves
it, which is the safety half of `RetryCompletesOrStrands`.

**Legacy** (`LegacyProofs`). The frame lemmas say that each store is written by one
part of `CoopAgents`, so each theorem is about that part.

* `Anchoring`: `AnchorsKept` is inductive. Content is stored before it is recorded or
  anchored, so what arrives is in no batch and on no record yet, and the batch named is
  the one being filled, whether or not the submission flushes it.
* `Compliance`: each draft keeps the policies it was checked under (`DraftsKept`), and
  only its status changes later. It reads a rule as what it asks of a payment (`Meets`)
  and what is paid as what the batch has the Safe pay (`Paid`), and names the two ways of
  stating a sum that the engine overlooks (`ApprovedOutside`).
* `KeysRevoked`: revoking rewrites every attestation of the key in the step that revokes it.
* `Frozen`: every step of manager, curators and embassy is an `AssetStep`, which adds an
  asset or changes one status that `update_status` permits at that moment, whatever the
  debate saw when it began.
* `Finality`: each step of each part is a `ThreadStep`, which starts a thread from an
  unborn identifier or resumes one that is not decided; deployments, cases and batches
  are written by one part each.
* `Regulated`: the manifest is written by the genesis or read from the file, and by
  `RouteCharters` a boot that is suspended without an error has its founders and its
  template's rules; founders are a finite set.
* `Drafting`: `DraftsOnTheWay` says where a draft can be, at each point where handlers
  and the worker interleave: with the request that closed the proposal, in the queue,
  with the worker, or among what was finished; and that whatever loses it, a full queue,
  a statement or a restart, adds the proposal to `missed`.
* `ResolutionsKept`: the deliberations implement `Resolution`. A request writes on what it
  read awaits ago; `RequestsFit` keeps what of it still holds when it writes: once it has
  closed a proposal, that is closed, because statuses only go forward (`Forward`). The
  mapping takes a draft from the queue, the worker and what was finished; a restart is
  the `Forget` of all of them. The refinement is in no configuration, `coop` checks
  `ClosedIsDrafted` instead.
* `CountedBlocksAreHeard`: whatever the outcome agent found, it found by the tally it was
  given, so a consent outcome that passed had no block in it. What finding 5 shows lies in
  the tally. Assumes a finite set of voters.
* `Balanced`: `LedgerKept` adds that every entry has its parties and its amount; the
  sums of a member's entries gain the one that a mint, burn or transfer appends. Uses
  that the source of a mint (`None`) is no member.
* `DecaysOnly`: `ProfilesKept` keeps scores, clocks and half-lives where `Decay` applies.
* `VettingsAreFlagged`: each node of the graph, from any state it can be started in,
  leaves a report that flags whatever fails by the scores it leaves.
* `ArrivalsAreKept`, `HeldForReason`, `BufferIsCounted`: parts of `InboxKept`, which is
  inductive with the log of arrivals, the buffer's bound, and `SeenKept`: whatever was let
  through is noted under each of its link fields, and nothing is held for what is noted,
  unless it was noted by an activity that raised right after. A step is followed
  through arrival, the raises, eviction by age, and the release of what waited for the
  arrival.
* `StraysWereHeld`, from `InboxKept`: only a verdict or an audit response, the types that
  wait for a predecessor, is ever processed for another than its recipient, and then for
  the recipient of a later request. It bounds finding 6.
* `LegacyTyped`: `TypesKept`, from the other invariants of this list: a deployment's shape
  comes from its thread, a draft's from the queue, a penalty's bound from its guard.

### Only model-checked

* `DisputeNeverStranded`, `RevokeAlwaysExecutable`, `EmergencyStopWorks`: they say
  `ENABLED`, which the prover does not expand. `DisputesCanBeRuled`,
  `RevokeNeverUnderflows` and `EmergencyStops` prove the guards those actions have.
* `RetryCompletesOrStrands`, `OutcomeRecorded`: liveness. `HandlersEnd`, `StrandedForGood`
  and `OutcomesAccountedFor` prove the safety they rest on.

## 5. Assumptions about what is not in the repository

* ERC-20 tokens do what the standard says, call nobody back and take no fee.
* The registry of the identity contract is only ever set to the deployed
  `ArbitrationRegistry`, or never, as `Deploy.s.sol` does; its setter is the steward's. The
  escrow's is not assumed: anybody may set it, at any time.
* The BrightID verifier vouches for a fixed set of addresses (`Vouched`); the verifier
  of tallies answers what it likes.
* Authentik refuses a username it has; Loomio and Mattermost accept any number of calls.
  IPFS pins or fails. A language model answers anything its tools allow; banks, chains
  and oracles answer anything their clients accept.
* langgraph keeps checkpoints, suspends before the nodes it is told to, and resumes
  from the successor of `as_node`, as `LangGraph` says.
* Rationales, CIDs, hashes, names, e-mails, prompts and links are left out or are model
  values.

## 6. Findings

1. `court_rehabilitation`: `ArbitrationRegistry.restoreTrust` (line 249) calls
   `CoopIdentity.restoreTrust`, which accepts its `steward` only. The steward is the
   Safe, so the registry's function always reverts. Its doc (line 237) presents it
   as the court's way to rehabilitate. `RehabilitationFreezes` proves that naming the
   registry as steward would end every other change of membership.
2. `stewardship_emergency`: `triggerEmergencyCircuitBreaker` "Blocks all new
   delegations until reset" (`StewardshipLedger.sol:296`), yet the check is skipped
   while `fiatReserveValue` is 0, as after deployment. That is what the run shows; by the
   code an ordinary `updateTotalEscrow` after the trip lifts the emergency as well.
3. `provisioner_retry`: `create_user` and `get_recovery_link` share one `try`, and the
   flag is committed after both (`main.py:197-203`). When the account exists and the
   flag does not say so, each retry is answered 502 for good. The answer claims
   "Partial state saved — retry is safe." `StrandedForGood` proves it for every number of
   retries, `RefusedOnlyWhenDisturbed` that without an overlap or a lost record Authentik
   refuses nobody.
4. `agents_entries`: "every distinct write action requires its own preceding log
   entry" (`openclaw/agents/clerk/agent.py:114`), yet the confirmation is looked at once
   per answer, so two writes in one answer both run on one entry.
5. `coop_block`: a consent proposal is "rejected" if anybody blocks
   (`agents/library/outcome.py:67`). Between the read of the stances and the close
   another request records a block; the outcome is drafted as passed. By
   `CountedBlocksAreHeard` a block is missed only in this way.
6. `coop_recipient`: the causal buffer returns activities with the local actor of each
   (`causal_buffer.py:88`). The boundary drops it, and an activity released by
   another is processed for that one's recipient. `StraysWereHeld` proves that nothing
   else goes astray.

## 7. Other observations

Met while translating; the models follow the code in each.

* `IskanderEscrow.setArbitrationRegistry` takes any non-zero address from any caller,
  again and again ("In production: gate this", line 151), so `executeVerdict` is "Only
  callable by the ArbitrationRegistry contract" (line 264) in the sense only of whoever
  was appointed last. An escrow ruled that way leaves a case, if there is one, that can
  never be executed. What still holds, whoever rules, is `EscrowPromise`, `VaultBacked` and
  `VerdictsMatchEscrows`; `DisputeNeverStranded` is about the times when the court is the
  registry.
* `MACIVoting`: an id that is not given out reads as an active ballot with its deadline in
  the past. `beginProcessing` and `processMessages` take it to a result, and
  `createProposal` overwrites it with a new, active ballot later.
* `MACIVoting`: the quorum is taken of `_totalVotes`, which the coordinator declares
  (line 417), where the comments (96, 414) speak of sign-ups. Without a verifier every
  proof passes.
* `InternalPayroll`: a revoked member stays on the register, where its base pay still
  sets the cap. A payee need not be on it.
* `ForeignReputation`: a longer half-life acts on the time already elapsed, which raises
  scores; `TrustIsEarned` allows it as the oracle's act. The comment near line 353 gives
  0.354 at one and a half half-lives where the interpolation gives 0.375.
* Provisioner: a retry with another e-mail creates the account under its own body's.
* Sentry: its module and prompt ask for a log that succeeded in a separate round before the
  alert (`openclaw/agents/sentry/agent.py:11-12`, "must be preceded by glass_box_log in a
  separate tool-use round"; lines 46-51, "Only AFTER glass_box_log succeeds"), and
  `openclaw/main.py:9-10` says of every write that it is logged before execution. The
  check in its loop (`_validate_response_ordering`) demands the log in the same answer,
  refuses an alert that comes in a round of its own, and does not look at what the log
  returned: after a log that failed the alert is still posted. `WritesAreLogged` states for
  Sentry what this ensures and no more.
* Payments: the core rule on money that leaves without a human looks at `amount` and then
  `value_wei`, while a drafted batch pays `value_wei` or else `value`
  (`tx_orchestrator.py:123`). An external payment that states `value` alone, or a negative
  `amount` beside its `value_wei`, is drafted without approval; a cap on `amount` says
  nothing of the other two. `BatchWasCompliant` names both exceptions.
* Manifest: "Manifest loaded at startup" (`policy_engine.py:19-20`), but nothing in the
  repository calls `load_manifest` without a dictionary; only a boot does
  (`initializer_agent.py:406`, `434`). Until then every check raises. The default file
  (`config.py:311`), read by a call without one, holds no jurisdiction's rules and replaces
  whatever is in force; the model has that call as a step.
* Genesis: founders' confirmations come after the manifest is compiled and never reach
  it.
* Deliberation: a full queue announces that it refused the draft of an outcome, and the
  caller logs it; nothing is kept and nothing retries. A restart empties the queue while
  the closed proposal stays in its table, and a failed insertion of an outcome leaves the
  proposal closed without one.
* Federation: an activity whose object is an IRI is answered 500
  when a field is looked for in it (`ontology_translator.py:205`, `causal_buffer.py:103`).
  In the buffer the expired entries have been taken out by then (line 95) and are lost,
  where the module says they are released (lines 11-13), and the predecessor may
  have been noted as seen without releasing what waits for it (lines 8-9). What is seen
  is read from either link field, what is released from the type's own only.
* Federation: the outcome of a buffered activity is counted twice for its sender; each
  denial adds to the penalty of the denied; a second vote overwrites the first.
* Arbitration and the app store: a verdict or an approval starts the graph at its entry
  point again, so the remedy, or the deployment, is not reached.
* `POST /knowledge/curate`, the record of a trade's outcome, and the invocation of a
  spawned agent always answer 500.

## 8. What is not modelled, and why

* `Constitution.sol` has two immutables and no operation. `CoopFiatToken.sol` checks its
  caller around OpenZeppelin's mint and burn and compares with no reserve: a property
  would restate a guard or test the library. `Deploy.s.sol` runs once; the initial
  states are its result.
* `services/steward-data` only reads.
* Rate limiters (provisioner, recorder, gateway) refuse requests before anything modelled
  here; the lists they keep are not shared with anything else.
* The gateway's tools for other services are one step of a conversation without effect,
  except those of the recorder. `provision_member` is `Provisioner`'s request.
* Of the legacy backend: signatures, tokens and zero-knowledge proofs (`auth/`, `crypto/`,
  `http_signatures`, `did_resolver`), arithmetic out of TLC's reach; prompts, parsing and
  model files, which an arbitrary answer stands for; reports, summaries, documents and
  chat (`inventory`, `secretary`, `constitution`, `matrix/`), which keep no state a later
  call reads; clients of Docker, banks and oracles; notices to browsers; the frontends.
* Endpoints of modelled routers that only read, and the ones the components' notes name.
* Helm, Ansible, shell and `verify/` are configuration and checklists for external tools.
* Gas, reordering by block producers, and hash collisions.

## 9. What could follow

* The rate limiters with their threads.
