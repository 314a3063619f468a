---------------------------- MODULE MemberProofs ----------------------------
(***************************************************************************)
(* Theorems about the contracts that gate on a membership: InternalPayroll,*)
(* MACIVoting and the two embassies, for every finite set of members,      *)
(* every pay and ratio, every choice of windows, tallies and quorum, every *)
(* score and every number of keys.                                         *)
(***************************************************************************)
EXTENDS MemberContracts, StewardshipProofs, DataLemmas

-----------------------------------------------------------------------------
(* InternalPayroll.                                                        *)

(***************************************************************************)
(* What pay() relies on and does not look at: the list names exactly those *)
(* on the register, and the number kept beside it is the lowest of their   *)
(* base pays, and zero when there is nobody.                               *)
(***************************************************************************)
RegisterAgrees ==
    /\ payRegistry \in [Coops -> Nat]
    /\ payMembers = {a \in Coops : registered(a)}
    /\ lowestBasePay \in Nat
    /\ payMembers = {} => lowestBasePay = 0
    /\ \A m \in payMembers : lowestBasePay <= payRegistry[m]
    /\ payMembers # {} => \E m \in payMembers : lowestBasePay = payRegistry[m]
    /\ maxRatioScaled \in Nat
    /\ wages \in [Coops -> Nat]

\* What _recalculateLowest returns: zero without members, otherwise the base pay of
\* one of them that is above no other's.
LEMMA LowestIsLeast ==
    ASSUME NEW members \in SUBSET Coops, NEW registry \in [Coops -> Nat]
    PROVE  /\ recalculateLowest(members, registry) \in Nat
           /\ members = {} => recalculateLowest(members, registry) = 0
           /\ \A m \in members : recalculateLowest(members, registry) <= registry[m]
           /\ members # {} => \E m \in members : recalculateLowest(members, registry) = registry[m]
<1>1. CASE members = {}
  BY <1>1 DEF recalculateLowest
<1>2. CASE members # {}
  <2> DEFINE bases == {registry[m] : m \in members}
             least(b) == b \in bases /\ \A m \in members : b <= registry[m]
  <2>1. bases \in SUBSET Nat /\ bases # {}
    BY <1>2
  <2>2. PICK b \in bases : \A c \in bases : b <= c
    BY <2>1, LeastNat, Zenon
  <2>3. \E c \in bases : \A m \in members : c <= registry[m]
    BY <2>2
  <2>4. recalculateLowest(members, registry) = CHOOSE c \in bases : \A m \in members : c <= registry[m]
    BY <1>2 DEF recalculateLowest
  <2>5. /\ recalculateLowest(members, registry) \in bases
        /\ \A m \in members : recalculateLowest(members, registry) <= registry[m]
    BY <2>3, <2>4, Zenon
  <2>6. QED
    BY <1>2, <2>1, <2>5
<1>3. QED
  BY <1>1, <1>2

\* The steps that change the register end in _recalculateLowest, on a list that still
\* names exactly those on the register.
LEMMA RegisterChanges ==
    ASSUME RegisterAgrees, NEW sender, NEW m \in Coops,
           \/ deregisterMember(sender, m)
           \/ \E b \in BasePays : registerPay(sender, m, b)
    PROVE  RegisterAgrees'
<1> USE PayrollAssumption DEF registered
<1> DEFINE Changed ==
      /\ payRegistry' \in [Coops -> Nat]
      /\ payMembers' = {a \in Coops : payRegistry'[a] # 0}
      /\ lowestBasePay' = recalculateLowest(payMembers', payRegistry')
      /\ maxRatioScaled' = maxRatioScaled /\ wages' = wages
<1>1. Changed
  <2>1. CASE deregisterMember(sender, m)
    BY <2>1 DEF deregisterMember, RegisterAgrees
  <2>2. ASSUME NEW b \in BasePays, registerPay(sender, m, b)
        PROVE  Changed
    BY <2>2 DEF registerPay, RegisterAgrees
  <2>3. QED
    BY <2>1, <2>2
<1>2. /\ lowestBasePay' \in Nat
      /\ payMembers' = {} => lowestBasePay' = 0
      /\ \A a \in payMembers' : lowestBasePay' <= payRegistry'[a]
      /\ payMembers' # {} => \E a \in payMembers' : lowestBasePay' = payRegistry'[a]
  BY <1>1, LowestIsLeast
<1>3. QED
  BY <1>1, <1>2 DEF RegisterAgrees

\* Every step keeps the register and the number beside it in agreement.
LEMMA RegisterStep ==
    ASSUME RegisterAgrees, [PayNext]_payVars
    PROVE  RegisterAgrees'
<1> USE PayrollAssumption
<1>1. CASE UNCHANGED payrollVars
  BY <1>1 DEF payrollVars, RegisterAgrees, registered
<1>2. ASSUME NEW sender \in Accounts, PayrollNext(sender)
      PROVE  RegisterAgrees'
  <2>1. ASSUME NEW m \in Coops, deregisterMember(sender, m) \/ \E b \in BasePays : registerPay(sender, m, b)
        PROVE  RegisterAgrees'
    BY <2>1, RegisterChanges
  <2>2. ASSUME NEW m \in Coops, NEW x \in Amounts, pay(sender, m, x)
        PROVE  RegisterAgrees'
    BY <2>2 DEF pay, RegisterAgrees, registered
  <2>3. ASSUME NEW r \in Ratios, updateMaxRatio(sender, r)
        PROVE  RegisterAgrees'
    BY <2>3 DEF updateMaxRatio, RegisterAgrees, registered
  <2>4. ASSUME NEW s \in Safes, transferPaymaster(sender, s)
        PROVE  RegisterAgrees'
    BY <2>4 DEF transferPaymaster, RegisterAgrees, registered
  <2>5. QED
    BY <1>2, <2>1, <2>2, <2>3, <2>4 DEF PayrollNext
<1>3. QED
  BY <1>1, <1>2 DEF PayNext, payVars

\* An amount below the rounded cap is within the ratio of every base pay.
LEMMA CapIsWithinRatio ==
    ASSUME NEW lowest \in Nat, NEW ratio \in Nat, NEW scale \in Nat \ {0}, NEW base \in Nat,
           NEW x \in Nat, lowest <= base, x <= (lowest * ratio) \div scale
    PROVE  x * scale <= base * ratio
<1>1. x * scale <= lowest * ratio
  OBVIOUS
<1>2. lowest * ratio <= base * ratio
  OBVIOUS
<1>3. lowest * ratio \in Nat /\ base * ratio \in Nat /\ x * scale \in Nat
  OBVIOUS
<1>4. QED
  BY <1>1, <1>2, <1>3

\* Only pay moves wages, and what it moves is below the cap.
LEMMA PayStep ==
    ASSUME RegisterAgrees, [PayNext]_payVars, NEW m \in Coops, wages'[m] # wages[m]
    PROVE  /\ \E a \in Coops : registered(a)
           /\ \A a \in Coops : registered(a) =>
                (wages'[m] - wages[m]) * RatioScale <= payRegistry[a] * maxRatioScaled
<1> USE PayrollAssumption
<1>1. PICK sender \in Accounts, n \in Coops, x \in Amounts : pay(sender, n, x)
  <2>1. ~UNCHANGED wages
    OBVIOUS
  <2>2. PICK sender \in Accounts : PayrollNext(sender)
    BY <2>1 DEF PayNext, payVars, payrollVars
  <2>3. \E n \in Coops, x \in Amounts : pay(sender, n, x)
    BY <2>1, <2>2 DEF PayrollNext, registerPay, deregisterMember, updateMaxRatio, transferPaymaster
  <2>4. QED
    BY <2>3
<1>2. wages'[m] - wages[m] = x /\ x \in Nat
  BY <1>1 DEF pay, RegisterAgrees
<1>3. x <= (lowestBasePay * maxRatioScaled) \div RatioScale /\ lowestBasePay # 0
  BY <1>1 DEF pay, maxAllowed
<1>4. \E a \in Coops : registered(a)
  BY <1>3 DEF RegisterAgrees
<1>5. ASSUME NEW a \in Coops, registered(a)
      PROVE  x * RatioScale <= payRegistry[a] * maxRatioScaled
  <2>1. lowestBasePay <= payRegistry[a] /\ payRegistry[a] \in Nat
        /\ lowestBasePay \in Nat /\ maxRatioScaled \in Nat
    BY <1>5 DEF RegisterAgrees
  <2>2. QED
    BY <1>2, <1>3, <2>1, CapIsWithinRatio
<1>6. QED
  BY <1>2, <1>4, <1>5

(***************************************************************************)
(* The register and its list agree in every state, and the number kept     *)
(* beside them is a base pay on the register that none there is below.     *)
(***************************************************************************)
THEOREM RegisterKept == PaySpec => []RegisterAgrees
<1>1. PayInit => RegisterAgrees
  BY PayrollAssumption DEF PayInit, PayrollInit, RegisterAgrees, registered
<1>2. RegisterAgrees /\ [PayNext]_payVars => RegisterAgrees'
  BY RegisterStep
<1>3. QED
  BY <1>1, <1>2, PTL DEF PaySpec

(***************************************************************************)
(* The pay ratio: no payment is above the ratio times the base pay of      *)
(* anybody on the register.                                                *)
(***************************************************************************)
THEOREM RatioHolds == PaySpec => PayWithinRatio
<1> DEFINE Within == \A m \in Coops : wages'[m] # wages[m] =>
         /\ \E a \in Coops : registered(a)
         /\ \A a \in Coops : registered(a) =>
              (wages'[m] - wages[m]) * RatioScale <= payRegistry[a] * maxRatioScaled
<1>1. RegisterAgrees /\ [PayNext]_payVars => [Within]_payVars
  BY PayStep
<1>2. QED
  BY <1>1, RegisterKept, PTL DEF PaySpec, PayWithinRatio

-----------------------------------------------------------------------------
(* MACIVoting.                                                             *)

Ballot == [status : {"Active", "Processing", "Finalized", "Rejected"},
           signUpDeadline : Nat, voteDeadline : Nat, totalSignUps : Nat, quorumMet : BOOLEAN]

(***************************************************************************)
(* Who signed up is counted, once, and a window for sign-ups never closes  *)
(* after the one for votes.  An id that was not given out has neither: its *)
(* deadlines read 0, before any block.                                     *)
(***************************************************************************)
BallotsCounted ==
    /\ now \in Nat \ {0}
    /\ nextProposalId \in Nat
    /\ ballots \in [BallotId -> Ballot]
    /\ signedUp \in [BallotId -> SUBSET Coops]
    /\ \A b \in BallotId :
         /\ ballots[b].signUpDeadline <= ballots[b].voteDeadline
         /\ ballots[b].totalSignUps = Cardinality(signedUp[b])
         /\ ~(b < nextProposalId) => ballots[b].voteDeadline = 0 /\ signedUp[b] = {}

\* A ballot is created with windows in order and nobody signed up.
LEMMA CreateStep ==
    ASSUME BallotsCounted, NEW sender, NEW d \in Durations, NEW e \in Durations,
           createProposal(sender, d, e)
    PROVE  BallotsCounted'
<1> USE VotingAssumption
<1> DEFINE new == [status |-> "Active", signUpDeadline |-> now + d, voteDeadline |-> now + d + e,
                   totalSignUps |-> 0, quorumMet |-> FALSE]
<1>1. new \in Ballot /\ new.signUpDeadline <= new.voteDeadline
  BY DEF BallotsCounted, Ballot
<1>2. PICK b \in BallotId : b = nextProposalId
  BY DEF createProposal
<1>3. ballots' = [ballots EXCEPT ![b] = new] /\ UNCHANGED <<now, signedUp>>
      /\ nextProposalId' = nextProposalId + 1 /\ nextProposalId \in Nat /\ b \in Nat
  BY <1>2 DEF createProposal, BallotsCounted
<1>4. new.totalSignUps = Cardinality(signedUp[b])
  <2>1. signedUp[b] = {}
    BY <1>2, <1>3 DEF BallotsCounted
  <2>2. QED
    BY <2>1, FS_EmptySet
<1> HIDE DEF new
<1>5. \A c \in BallotId : ~(c < nextProposalId') => c # b /\ ~(c < nextProposalId)
  BY <1>2, <1>3 DEF BallotId
<1>6. QED
  BY <1>1, <1>2, <1>3, <1>4, <1>5 DEF BallotsCounted

\* A sign-up or a message is for a ballot that was proposed.
LEMMA OpenIsProposed ==
    ASSUME BallotsCounted, NEW b \in BallotId, now <= ballots[b].voteDeadline
    PROVE  b < nextProposalId
<1>1. ~(ballots[b].voteDeadline = 0)
  BY DEF BallotsCounted
<1>2. QED
  BY <1>1 DEF BallotsCounted

\* A sign-up adds one member that was not counted.
LEMMA SignUpStep ==
    ASSUME BallotsCounted, NEW sender \in Coops, NEW b \in BallotId, signUp(sender, b)
    PROVE  BallotsCounted'
<1> USE VotingAssumption
<1>1. /\ ballots' = [ballots EXCEPT ![b].totalSignUps = @ + 1]
      /\ signedUp' = [signedUp EXCEPT ![b] = @ \cup {sender}]
      /\ sender \notin signedUp[b] /\ now' = now /\ nextProposalId' = nextProposalId
  BY DEF signUp
<1>a. b < nextProposalId
  <2>1. now <= ballots[b].signUpDeadline
    BY DEF signUp
  <2>2. now <= ballots[b].voteDeadline
    BY <2>1 DEF BallotsCounted, Ballot
  <2>3. QED
    BY <2>2, OpenIsProposed
<1>2. IsFiniteSet(signedUp[b])
  BY FS_Subset DEF BallotsCounted
<1>3. Cardinality(signedUp[b] \cup {sender}) = Cardinality(signedUp[b]) + 1
  BY <1>1, <1>2, FS_AddElement
<1>4. ballots' \in [BallotId -> Ballot] /\ signedUp' \in [BallotId -> SUBSET Coops]
  BY <1>1 DEF BallotsCounted, Ballot
<1>5. ASSUME NEW c \in BallotId
      PROVE  /\ ballots'[c].signUpDeadline <= ballots'[c].voteDeadline
             /\ ballots'[c].totalSignUps = Cardinality(signedUp'[c])
             /\ ~(c < nextProposalId') => ballots'[c].voteDeadline = 0 /\ signedUp'[c] = {}
  <2>1. CASE c = b
    BY <1>1, <1>a, <1>3, <2>1 DEF BallotsCounted, Ballot
  <2>2. CASE c # b
    BY <1>1, <2>2 DEF BallotsCounted
  <2>3. QED
    BY <2>1, <2>2
<1>6. QED
  BY <1>1, <1>4, <1>5 DEF BallotsCounted

\* The coordinator's steps leave the windows and the count of the ballot they decide.
LEMMA DecidedBallot ==
    ASSUME BallotsCounted, NEW sender, NEW b \in BallotId,
           \/ beginProcessing(sender, b)
           \/ \E t \in Tallies, v \in BOOLEAN : processMessages(sender, b, t, v)
    PROVE  \E r \in Ballot :
             /\ ballots' = [ballots EXCEPT ![b] = r]
             /\ r.signUpDeadline = ballots[b].signUpDeadline
             /\ r.voteDeadline = ballots[b].voteDeadline
             /\ r.totalSignUps = ballots[b].totalSignUps
<1> USE VotingAssumption
<1> DEFINE decided(status, met) ==
      [status |-> status, signUpDeadline |-> ballots[b].signUpDeadline,
       voteDeadline |-> ballots[b].voteDeadline,
       totalSignUps |-> ballots[b].totalSignUps, quorumMet |-> met]
<1>0. ballots \in [BallotId -> Ballot] /\ ballots[b] \in Ballot
  BY DEF BallotsCounted
<1>1. ASSUME NEW status \in {"Processing", "Finalized", "Rejected"}, NEW met \in BOOLEAN
      PROVE  decided(status, met) \in Ballot
  BY <1>0 DEF Ballot
<1>2. CASE beginProcessing(sender, b)
  <2>1. ballots' = [ballots EXCEPT ![b] = [ballots[b] EXCEPT !.status = "Processing"]]
    BY <1>0, <1>2 DEF beginProcessing
  <2>2. [ballots[b] EXCEPT !.status = "Processing"] = decided("Processing", ballots[b].quorumMet)
    BY <1>0 DEF Ballot
  <2>3. ballots[b].quorumMet \in BOOLEAN
    BY <1>0 DEF Ballot
  <2>4. decided("Processing", ballots[b].quorumMet) \in Ballot
    BY <1>1, <2>3
  <2>5. QED
    BY <2>1, <2>2, <2>4
<1>3. ASSUME NEW t \in Tallies, NEW v \in BOOLEAN, processMessages(sender, b, t, v)
      PROVE  \E status \in {"Processing", "Finalized", "Rejected"}, met \in BOOLEAN :
               ballots' = [ballots EXCEPT ![b] = decided(status, met)]
  <2>1. ballots[b].quorumMet \in BOOLEAN /\ meetsQuorum(t) \in BOOLEAN
    BY <1>0 DEF Ballot, meetsQuorum
  <2>2. PICK status \in {"Processing", "Finalized", "Rejected"}, met \in BOOLEAN :
          ballots' = [ballots EXCEPT ![b].status = status, ![b].quorumMet = met]
    <3>1. CASE VerifierSet /\ ~v
      BY <1>3, <2>1, <3>1 DEF processMessages
    <3>2. CASE ~(VerifierSet /\ ~v)
      BY <1>3, <2>1, <3>2 DEF processMessages
    <3>3. QED
      BY <3>1, <3>2
  <2>3. ballots' = [ballots EXCEPT ![b] =
                      [[ballots[b] EXCEPT !.status = status] EXCEPT !.quorumMet = met]]
    BY <1>0, <2>2
  <2>4. [[ballots[b] EXCEPT !.status = status] EXCEPT !.quorumMet = met] = decided(status, met)
    <3>1. [ballots[b] EXCEPT !.status = status] = decided(status, ballots[b].quorumMet)
      BY <1>0 DEF Ballot
    <3>2. [decided(status, ballots[b].quorumMet) EXCEPT !.quorumMet = met] = decided(status, met)
      OBVIOUS
    <3>3. QED
      BY <3>1, <3>2
  <2>5. QED
    BY <2>3, <2>4
<1>4. QED
  BY <1>1, <1>2, <1>3

\* The coordinator's steps change the status and the result of a ballot, proposed or not.
LEMMA DecideStep ==
    ASSUME BallotsCounted, NEW sender, NEW b \in BallotId,
           \/ beginProcessing(sender, b)
           \/ \E t \in Tallies, v \in BOOLEAN : processMessages(sender, b, t, v)
    PROVE  BallotsCounted'
<1> USE VotingAssumption
<1>1. UNCHANGED <<now, nextProposalId, signedUp>>
  BY DEF beginProcessing, processMessages
<1>2. PICK r \in Ballot :
        /\ ballots' = [ballots EXCEPT ![b] = r]
        /\ r.signUpDeadline = ballots[b].signUpDeadline
        /\ r.voteDeadline = ballots[b].voteDeadline
        /\ r.totalSignUps = ballots[b].totalSignUps
  BY DecidedBallot
<1>3. ballots' \in [BallotId -> Ballot]
  BY <1>2 DEF BallotsCounted
<1>4. ASSUME NEW c \in BallotId
      PROVE  /\ ballots'[c].signUpDeadline <= ballots'[c].voteDeadline
             /\ ballots'[c].totalSignUps = Cardinality(signedUp'[c])
             /\ ~(c < nextProposalId') => ballots'[c].voteDeadline = 0 /\ signedUp'[c] = {}
  <2>1. CASE c = b
    BY <1>1, <1>2, <2>1 DEF BallotsCounted
  <2>2. CASE c # b
    BY <1>1, <1>2, <2>2 DEF BallotsCounted
  <2>3. QED
    BY <2>1, <2>2
<1>5. QED
  BY <1>1, <1>3, <1>4 DEF BallotsCounted

\* Every step keeps the count.
LEMMA BallotsStep ==
    ASSUME BallotsCounted, [VoteNext]_voteVars
    PROVE  BallotsCounted'
<1>1. CASE UNCHANGED votingVars /\ now' \in Nat \ {0}
  BY <1>1 DEF votingVars, BallotsCounted
<1>2. CASE Tick /\ UNCHANGED << identityVars, votingVars >>
  BY <1>1, <1>2 DEF Tick, BallotsCounted
<1>3. ASSUME NEW sender \in Accounts, VotingNext(sender)
      PROVE  BallotsCounted'
  <2>1. ASSUME NEW s \in Safes, rotateCoordinator(sender, s)
        PROVE  BallotsCounted'
    BY <2>1 DEF rotateCoordinator, BallotsCounted
  <2>2. ASSUME NEW b \in BallotId, publishMessage(sender, b)
        PROVE  BallotsCounted'
    BY <2>2 DEF publishMessage, BallotsCounted
  <2>3. QED
    BY <1>3, <2>1, <2>2, CreateStep, SignUpStep, DecideStep DEF VotingNext
<1>4. now \in Nat \ {0}
  BY DEF BallotsCounted
<1>5. QED
  BY <1>1, <1>2, <1>3, <1>4 DEF VoteNext, voteVars

\* What one step may do to a ballot.
LEMMA SealStep ==
    ASSUME BallotsCounted, [VoteNext]_voteVars, NEW b \in BallotId
    PROVE  /\ now > ballots[b].voteDeadline =>
                /\ signedUp'[b] = signedUp[b] /\ messages'[b] = messages[b]
                /\ ballots'[b].totalSignUps = Cardinality(signedUp[b])
           /\ b < nextProposalId /\ ballots[b].status \in {"Finalized", "Rejected"} =>
                ballots'[b] = ballots[b]
<1> DEFINE Sealed ==
      /\ now > ballots[b].voteDeadline =>
           /\ signedUp'[b] = signedUp[b] /\ messages'[b] = messages[b]
           /\ ballots'[b].totalSignUps = Cardinality(signedUp[b])
      /\ b < nextProposalId /\ ballots[b].status \in {"Finalized", "Rejected"} =>
                ballots'[b] = ballots[b]
<1>0. /\ ballots[b].totalSignUps = Cardinality(signedUp[b])
      /\ ballots[b].signUpDeadline <= ballots[b].voteDeadline
      /\ ballots[b].signUpDeadline \in Nat /\ ballots[b].voteDeadline \in Nat /\ now \in Nat
  BY DEF BallotsCounted, Ballot
<1>1. CASE UNCHANGED votingVars
  BY <1>0, <1>1 DEF votingVars
<1>2. ASSUME NEW sender \in Accounts, VotingNext(sender)
      PROVE  Sealed
  <2>1. ASSUME NEW s \in Safes, rotateCoordinator(sender, s)
        PROVE  Sealed
    BY <1>0, <2>1 DEF rotateCoordinator
  <2>2. ASSUME NEW d \in Durations, NEW e \in Durations, createProposal(sender, d, e)
        PROVE  Sealed
    <3>1. UNCHANGED <<signedUp, messages>> /\ (b # nextProposalId => ballots'[b] = ballots[b])
      BY <2>2 DEF createProposal, BallotsCounted
    <3>2. CASE b # nextProposalId
      BY <1>0, <3>1, <3>2
    <3>3. CASE b = nextProposalId
      <4>1. ~(b < nextProposalId)
        BY <3>3 DEF BallotsCounted
      <4>2. BallotsCounted'
        BY <2>2, CreateStep
      <4>3. ballots'[b].totalSignUps = Cardinality(signedUp'[b])
        BY <4>2 DEF BallotsCounted
      <4>4. QED
        BY <3>1, <4>1, <4>3
    <3>4. QED
      BY <3>2, <3>3
  <2>3. ASSUME NEW c \in BallotId, signUp(sender, c)
        PROVE  Sealed
    <3>1. CASE c # b
      BY <1>0, <2>3, <3>1 DEF signUp, BallotsCounted
    <3>2. CASE c = b
      <4>1. ~(now > ballots[b].voteDeadline) /\ ballots[b].status = "Active"
        BY <1>0, <2>3, <3>2 DEF signUp, proposalActive
      <4>2. QED
        BY <4>1
    <3>3. QED
      BY <3>1, <3>2
  <2>4. ASSUME NEW c \in BallotId, publishMessage(sender, c)
        PROVE  Sealed
    <3>1. CASE c # b
      BY <1>0, <2>4, <3>1 DEF publishMessage
    <3>2. CASE c = b
      <4>1. ~(now > ballots[b].voteDeadline) /\ ballots'[b] = ballots[b]
        BY <1>0, <2>4, <3>2 DEF publishMessage
      <4>2. QED
        BY <4>1
    <3>3. QED
      BY <3>1, <3>2
  <2>5. ASSUME NEW c \in BallotId,
               \/ beginProcessing(sender, c)
               \/ \E t \in Tallies, v \in BOOLEAN : processMessages(sender, c, t, v)
        PROVE  Sealed
    <3>1. UNCHANGED <<signedUp, messages>> /\ ballots[c].status \in {"Active", "Processing"}
      BY <2>5 DEF beginProcessing, processMessages, MayTally
    <3>2. PICK r \in Ballot : /\ ballots' = [ballots EXCEPT ![c] = r]
                              /\ r.totalSignUps = ballots[c].totalSignUps
      BY <2>5, DecidedBallot
    <3>3. ballots'[b].totalSignUps = ballots[b].totalSignUps /\ (c # b => ballots'[b] = ballots[b])
      BY <3>2 DEF BallotsCounted
    <3>4. QED
      BY <1>0, <3>1, <3>3
  <2>6. QED
    BY <1>2, <2>1, <2>2, <2>3, <2>4, <2>5 DEF VotingNext
<1>3. QED
  BY <1>1, <1>2 DEF VoteNext, voteVars

(***************************************************************************)
(* The sign-ups of every ballot are counted in every state.                *)
(***************************************************************************)
THEOREM SignUpsCounted == VoteSpec => []BallotsCounted
<1>1. VoteInit => BallotsCounted
  BY FS_EmptySet DEF VoteInit, ChainInit, VotingInit, NoBallot, BallotsCounted, Ballot
<1>2. BallotsCounted /\ [VoteNext]_voteVars => BallotsCounted'
  BY BallotsStep
<1>3. QED
  BY <1>1, <1>2, PTL DEF VoteSpec

(***************************************************************************)
(* A ballot is sealed when its window closes and, once proposed, decided   *)
(* once.                                                                   *)
(***************************************************************************)
THEOREM Sealing == VoteSpec => BallotSealed
<1> DEFINE Sealed == \A b \in BallotId :
         /\ now > ballots[b].voteDeadline =>
              /\ signedUp'[b] = signedUp[b] /\ messages'[b] = messages[b]
              /\ ballots'[b].totalSignUps = Cardinality(signedUp[b])
         /\ b < nextProposalId /\ ballots[b].status \in {"Finalized", "Rejected"} =>
              ballots'[b] = ballots[b]
<1>1. BallotsCounted /\ [VoteNext]_voteVars => [Sealed]_voteVars
  BY SealStep
<1>2. QED
  BY <1>1, SignUpsCounted, PTL DEF VoteSpec, BallotSealed

-----------------------------------------------------------------------------
(* ForeignReputation.                                                      *)

\* What the decay is computed from makes sense: no update lies in the future.
ScoresKept ==
    /\ now \in Nat
    /\ decayHalfLife \in Nat \ {0}
    /\ tiers \in Nat \X Nat \X Nat
    /\ profiles \in [Sdcs -> [rawScore : Nat, lastUpdated : Nat,
                              registered : BOOLEAN, forceQuarantined : BOOLEAN]]
    /\ \A d \in Sdcs : profiles[d].lastUpdated <= now

\* The score of a profile that makes sense.
LEMMA ScoreIsNat ==
    ASSUME ScoresKept, NEW d \in Sdcs
    PROVE  getCurrentScore(d) \in Nat
<1>1. profiles[d].rawScore \in Nat /\ now - profiles[d].lastUpdated \in Nat
  BY DEF ScoresKept
<1>2. now - profiles[d].lastUpdated <= now - profiles[d].lastUpdated
  BY <1>1
<1>3. QED
  BY <1>1, <1>2, Decay, ReputationAssumption DEF ScoresKept, getCurrentScore, computeDecayedScore

\* While nobody touches a profile, time lowers its score or leaves it.
LEMMA ScoreFalls ==
    ASSUME ScoresKept, NEW d \in Sdcs, now' \in Nat, now <= now',
           profiles'[d].rawScore = profiles[d].rawScore,
           profiles'[d].lastUpdated = profiles[d].lastUpdated,
           decayHalfLife' = decayHalfLife
    PROVE  ~(getCurrentScore(d)' > getCurrentScore(d))
<1> DEFINE e == now - profiles[d].lastUpdated
           e2 == now' - profiles[d].lastUpdated
<1>1. profiles[d].rawScore \in Nat /\ e \in Nat /\ e2 \in Nat /\ e <= e2
  BY DEF ScoresKept
<1>2. /\ decayedScore(profiles[d].rawScore, e, decayHalfLife, DeadAfter) \in Nat
      /\ decayedScore(profiles[d].rawScore, e2, decayHalfLife, DeadAfter)
           <= decayedScore(profiles[d].rawScore, e, decayHalfLife, DeadAfter)
  BY <1>1, Decay, ReputationAssumption DEF ScoresKept
<1>3. decayedScore(profiles[d].rawScore, e2, decayHalfLife, DeadAfter) \in Nat
  <2>1. e2 <= e2
    BY <1>1
  <2>2. QED
    BY <1>1, <2>1, Decay, ReputationAssumption DEF ScoresKept
<1>4. /\ getCurrentScore(d) = decayedScore(profiles[d].rawScore, e, decayHalfLife, DeadAfter)
      /\ getCurrentScore(d)' = decayedScore(profiles[d].rawScore, e2, decayHalfLife, DeadAfter)
  BY DEF getCurrentScore, computeDecayedScore
<1>5. QED
  BY <1>2, <1>3, <1>4

\* A tier rises only where TrustIsEarned lets it.
LEMMA TierFollows ==
    ASSUME ScoresKept, ScoresKept', NEW d \in Sdcs
    PROVE  getCurrentTier(d)' > getCurrentTier(d) =>
              /\ ~profiles'[d].forceQuarantined
              /\ \/ getCurrentScore(d)' > getCurrentScore(d)
                 \/ tiers' # tiers
                 \/ profiles[d].forceQuarantined
<1>1. getCurrentScore(d) \in Nat
  BY ScoreIsNat
<1>2. getCurrentScore(d)' \in Nat
  <2>1. profiles'[d].rawScore \in Nat /\ now' - profiles'[d].lastUpdated \in Nat
    BY DEF ScoresKept
  <2>2. now' - profiles'[d].lastUpdated <= now' - profiles'[d].lastUpdated
    BY <2>1
  <2>3. QED
    BY <2>1, <2>2, Decay, ReputationAssumption DEF ScoresKept, getCurrentScore, computeDecayedScore
<1>3. /\ tiers[1] \in Nat /\ tiers[2] \in Nat /\ tiers[3] \in Nat
      /\ profiles[d].forceQuarantined \in BOOLEAN /\ profiles'[d].forceQuarantined \in BOOLEAN
  BY DEF ScoresKept
<1>4. getCurrentTier(d) \in 0..3
  BY <1>1, <1>3 DEF getCurrentTier, scoreTier
<1>5. CASE profiles'[d].forceQuarantined
  BY <1>4, <1>5 DEF getCurrentTier, scoreTier
<1>6. CASE ~profiles'[d].forceQuarantined /\ tiers' = tiers /\ ~profiles[d].forceQuarantined
  <2>1. CASE getCurrentScore(d)' > getCurrentScore(d)
    BY <1>6, <2>1
  <2>2. CASE getCurrentScore(d)' <= getCurrentScore(d)
    BY <1>1, <1>2, <1>3, <1>6, <2>2 DEF getCurrentTier, scoreTier
  <2>3. QED
    BY <1>1, <1>2, <2>1, <2>2
<1>7. QED
  BY <1>5, <1>6

\* A transaction stores a natural number, computed at the time it is dated with.
LEMMA Clamped ==
    ASSUME NEW s \in Int
    PROVE  clamped(s) \in Nat
BY ReputationAssumption DEF clamped

\* A profile that is put in place of another keeps the scores in order.
LEMMA NewProfile ==
    ASSUME ScoresKept, NEW c \in Sdcs, now' = now, tiers' = tiers, decayHalfLife' = decayHalfLife,
           NEW p \in [rawScore : Nat, lastUpdated : Nat,
                      registered : BOOLEAN, forceQuarantined : BOOLEAN],
           p.lastUpdated <= now, profiles' = [profiles EXCEPT ![c] = p]
    PROVE  /\ ScoresKept'
           /\ profiles'[c] = p
           /\ \A d \in Sdcs \ {c} : profiles'[d] = profiles[d]
BY DEF ScoresKept

\* Whether a profile was left alone as far as its score goes, or is dated now.
Settled(d) ==
    \/ profiles'[d].lastUpdated = now /\ now' = now
    \/ decayHalfLife' # decayHalfLife
    \/ ~profiles[d].registered
    \/ /\ now <= now'
       /\ profiles'[d].rawScore = profiles[d].rawScore
       /\ profiles'[d].lastUpdated = profiles[d].lastUpdated
       /\ decayHalfLife' = decayHalfLife

\* A call changes one profile, dated now, or none.
LEMMA ProfileStep ==
    ASSUME ScoresKept, NEW sender \in Accounts, NEW c \in Sdcs,
           \/ \E score \in InitialScores : registerSDC(sender, c, score)
           \/ \E delta \in Deltas : recordTransaction(sender, c, delta)
           \/ forceQuarantine(sender, c)
           \/ liftQuarantine(sender, c)
    PROVE  ScoresKept' /\ \A d \in Sdcs : Settled(d)
<1> USE ReputationAssumption
<1> DEFINE Profile == [rawScore : Nat, lastUpdated : Nat,
                       registered : BOOLEAN, forceQuarantined : BOOLEAN]
<1>1. /\ now \in Nat /\ now <= now /\ profiles[c] \in Profile
      /\ profiles[c].lastUpdated <= now
  BY DEF ScoresKept
<1>2. now' = now /\ tiers' = tiers /\ decayHalfLife' = decayHalfLife
  BY DEF registerSDC, recordTransaction, forceQuarantine, liftQuarantine
<1>3. SUFFICES \E p \in Profile :
        /\ p.lastUpdated <= now /\ profiles' = [profiles EXCEPT ![c] = p]
        /\ \/ p.lastUpdated = now
           \/ ~profiles[c].registered
           \/ p.rawScore = profiles[c].rawScore /\ p.lastUpdated = profiles[c].lastUpdated
  <2>1. PICK p \in Profile :
          /\ p.lastUpdated <= now /\ profiles' = [profiles EXCEPT ![c] = p]
          /\ \/ p.lastUpdated = now
             \/ ~profiles[c].registered
             \/ p.rawScore = profiles[c].rawScore /\ p.lastUpdated = profiles[c].lastUpdated
    BY <1>3
  <2>2. /\ ScoresKept' /\ profiles'[c] = p
        /\ \A d \in Sdcs \ {c} : profiles'[d] = profiles[d]
    BY <1>2, <2>1, NewProfile
  <2>3. QED
    BY <1>1, <1>2, <2>1, <2>2 DEF Settled
<1>4. ASSUME NEW score \in InitialScores, registerSDC(sender, c, score)
      PROVE  profiles' = [profiles EXCEPT ![c] =
               [rawScore |-> score, lastUpdated |-> now, registered |-> TRUE, forceQuarantined |-> FALSE]]
  BY <1>4 DEF registerSDC
<1>5. CASE \E score \in InitialScores : registerSDC(sender, c, score)
  <2>1. PICK score \in InitialScores : registerSDC(sender, c, score)
    BY <1>5
  <2> DEFINE p == [rawScore |-> score, lastUpdated |-> now, registered |-> TRUE, forceQuarantined |-> FALSE]
  <2>2. p \in Profile
    BY <1>1
  <2>3. QED
    BY <1>1, <1>4, <2>1, <2>2
<1>6. ASSUME NEW delta \in Deltas, recordTransaction(sender, c, delta)
      PROVE  \E p \in Profile : p.lastUpdated = now /\ profiles' = [profiles EXCEPT ![c] = p]
  <2> DEFINE left == clamped(getCurrentScore(c) + delta)
             p == [rawScore |-> left, lastUpdated |-> now, registered |-> profiles[c].registered,
                   forceQuarantined |-> profiles[c].forceQuarantined]
  <2>1. left \in Nat
    <3>1. getCurrentScore(c) + delta \in Int
      BY ScoreIsNat
    <3>2. QED
      BY <3>1, Clamped
  <2>2. profiles' = [profiles EXCEPT ![c] =
                       [[profiles[c] EXCEPT !.rawScore = left] EXCEPT !.lastUpdated = now]]
    BY <1>6 DEF recordTransaction, ScoresKept
  <2> HIDE DEF left
  <2>3. [profiles[c] EXCEPT !.rawScore = left] =
          [rawScore |-> left, lastUpdated |-> profiles[c].lastUpdated,
           registered |-> profiles[c].registered, forceQuarantined |-> profiles[c].forceQuarantined]
    BY <1>1
  <2>4. [[profiles[c] EXCEPT !.rawScore = left] EXCEPT !.lastUpdated = now] = p
    <3>1. ASSUME NEW q \in Profile
          PROVE  [q EXCEPT !.lastUpdated = now] =
                   [rawScore |-> q.rawScore, lastUpdated |-> now,
                    registered |-> q.registered, forceQuarantined |-> q.forceQuarantined]
      OBVIOUS
    <3> DEFINE q == [profiles[c] EXCEPT !.rawScore = left]
    <3>2. /\ q \in Profile /\ q.rawScore = left
          /\ q.registered = profiles[c].registered
          /\ q.forceQuarantined = profiles[c].forceQuarantined
      BY <1>1, <2>1
    <3> HIDE DEF q
    <3>3. [q EXCEPT !.lastUpdated = now] = p
      BY <3>1, <3>2
    <3>4. QED
      BY <3>3 DEF q
  <2>5. p \in Profile
    BY <1>1, <2>1
  <2>6. QED
    BY <2>2, <2>4, <2>5
<1>7. CASE forceQuarantine(sender, c) \/ liftQuarantine(sender, c)
  <2>1. PICK forced \in BOOLEAN : profiles' = [profiles EXCEPT ![c].forceQuarantined = forced]
    BY <1>7 DEF forceQuarantine, liftQuarantine
  <2> DEFINE p == [rawScore |-> profiles[c].rawScore, lastUpdated |-> profiles[c].lastUpdated,
                   registered |-> profiles[c].registered, forceQuarantined |-> forced]
  <2>2. profiles' = [profiles EXCEPT ![c] = [profiles[c] EXCEPT !.forceQuarantined = forced]]
    BY <2>1 DEF ScoresKept
  <2>3. [profiles[c] EXCEPT !.forceQuarantined = forced] = p
    BY <1>1
  <2>4. p \in Profile
    BY <1>1
  <2>5. QED
    BY <1>1, <2>2, <2>3, <2>4
<1>8. QED
  BY <1>1, <1>5, <1>6, <1>7

\* Every step keeps the scores in order, and changes them as it may.
LEMMA ReputationStep ==
    ASSUME ScoresKept, [FrsNext]_frsVars
    PROVE  ScoresKept' /\ \A d \in Sdcs : Settled(d)
<1> USE ReputationAssumption
<1>1. now \in Nat /\ now <= now
  BY DEF ScoresKept
<1>2. CASE UNCHANGED << now, reputationVars >>
  BY <1>1, <1>2 DEF reputationVars, ScoresKept, Settled
<1>3. CASE Tick /\ UNCHANGED reputationVars
  <2>1. now' \in Nat /\ now <= now' /\ \A d \in Sdcs : profiles[d].lastUpdated <= now'
    BY <1>1, <1>3 DEF Tick, ScoresKept
  <2>2. QED
    BY <1>3, <2>1 DEF reputationVars, ScoresKept, Settled
<1>4. ASSUME NEW sender \in Accounts, ReputationNext(sender)
      PROVE  ScoresKept' /\ \A d \in Sdcs : Settled(d)
  <2>1. CASE \/ \E s \in Safes : proposeFrsOracle(sender, s)
             \/ acceptFrsOracle(sender)
    <3>1. UNCHANGED << now, profiles, tiers, decayHalfLife >>
      BY <2>1 DEF proposeFrsOracle, acceptFrsOracle
    <3>2. QED
      BY <1>1, <3>1 DEF ScoresKept, Settled
  <2>2. CASE \E t \in TierThresholds : setTierThresholds(sender, t)
    <3>1. UNCHANGED << now, profiles, decayHalfLife >> /\ tiers' \in Nat \X Nat \X Nat
      BY <2>2 DEF setTierThresholds
    <3>2. QED
      BY <1>1, <3>1 DEF ScoresKept, Settled
  <2>3. CASE \E h \in HalfLives : setDecayHalfLife(sender, h)
    <3>1. UNCHANGED << now, profiles, tiers >> /\ decayHalfLife' \in Nat \ {0}
      BY <2>3 DEF setDecayHalfLife
    <3>2. QED
      BY <1>1, <3>1 DEF ScoresKept, Settled
  <2>4. QED
    BY <1>4, <2>1, <2>2, <2>3, ProfileStep DEF ReputationNext
<1>5. QED
  BY <1>2, <1>3, <1>4 DEF FrsNext, frsVars

(***************************************************************************)
(* Trust is earned: no score and no tier rises by waiting, for any scores, *)
(* half-lives and thresholds, and none through a quarantine.               *)
(***************************************************************************)
THEOREM DecayOnly == FrsSpec => TrustIsEarned
<1> USE ReputationAssumption
<1> DEFINE Earned == \A d \in Sdcs : profiles[d].registered =>
         /\ getCurrentScore(d)' > getCurrentScore(d) =>
              \/ now' = now /\ profiles'[d].lastUpdated = now
              \/ decayHalfLife' # decayHalfLife
         /\ getCurrentTier(d)' > getCurrentTier(d) =>
              /\ ~profiles'[d].forceQuarantined
              /\ \/ getCurrentScore(d)' > getCurrentScore(d)
                 \/ tiers' # tiers
                 \/ profiles[d].forceQuarantined
<1>1. FrsInit => ScoresKept
  BY DEF FrsInit, ChainInit, ReputationInit, Unregistered, ScoresKept
<1>2. ScoresKept /\ [FrsNext]_frsVars => ScoresKept'
  BY ReputationStep
<1>3. ScoresKept /\ [FrsNext]_frsVars => Earned
  <2>1. SUFFICES ASSUME ScoresKept, [FrsNext]_frsVars, ScoresKept',
                        NEW d \in Sdcs, profiles[d].registered
                 PROVE  getCurrentScore(d)' > getCurrentScore(d) =>
                          \/ now' = now /\ profiles'[d].lastUpdated = now
                          \/ decayHalfLife' # decayHalfLife
    BY <1>2, TierFollows
  <2>2. Settled(d) /\ now' \in Nat
    BY <2>1, ReputationStep DEF ScoresKept
  <2>3. QED
    BY <2>1, <2>2, ScoreFalls DEF Settled
<1>4. QED
  BY <1>1, <1>2, <1>3, PTL DEF FrsSpec, TrustIsEarned

-----------------------------------------------------------------------------
(* The list of trusted keys.                                               *)

\* Every key known has one place in the list, and the places that hold an
\* active one are those counted.
KeysKept ==
    /\ issuers \in [Fingerprints -> {Unknown, "active", "revoked"}]
    /\ allFingerprints \in Seq(Fingerprints)
    /\ \A k \in Fingerprints :
         issuers[k] # Unknown <=> \E i \in DOMAIN allFingerprints : allFingerprints[i] = k
    /\ \A i, j \in DOMAIN allFingerprints : allFingerprints[i] = allFingerprints[j] => i = j
    /\ ActiveIssuersFit

\* The places are finitely many.
LEMMA ListedFinite ==
    ASSUME KeysKept
    PROVE  IsFiniteSet(Listed) /\ Cardinality(Listed) \in Nat
<1>1. DOMAIN allFingerprints = 1..Len(allFingerprints) /\ Len(allFingerprints) \in Nat
  BY DEF KeysKept
<1>2. IsFiniteSet(DOMAIN allFingerprints)
  BY <1>1, FS_Interval
<1>3. Listed \subseteq DOMAIN allFingerprints
  BY DEF Listed
<1>4. QED
  BY <1>2, <1>3, FS_Subset, FS_CardinalityType

\* A key registered adds one place to those that hold an active key: a new one
\* at the end, or the one a revoked key has had all along.
LEMMA RegisterKey ==
    ASSUME KeysKept, NEW sender, NEW k \in Fingerprints, registerIssuer(sender, k)
    PROVE  KeysKept'
<1> DEFINE n == Len(allFingerprints)
<1>1. /\ issuers[k] # "active"
      /\ issuers' = [issuers EXCEPT ![k] = "active"]
      /\ activeCount' = activeCount + 1
      /\ allFingerprints' = IF issuers[k] = Unknown THEN Append(allFingerprints, k)
                            ELSE allFingerprints
  BY DEF registerIssuer, isNew
<1>2. /\ issuers' \in [Fingerprints -> {Unknown, "active", "revoked"}]
      /\ issuers'[k] = "active"
      /\ \A l \in Fingerprints \ {k} : issuers'[l] = issuers[l]
  BY <1>1 DEF KeysKept, Unknown
<1>3. n \in Nat /\ DOMAIN allFingerprints = 1..n
  BY DEF KeysKept
<1> DEFINE Placed ==
             /\ allFingerprints' \in Seq(Fingerprints)
             /\ \A l \in Fingerprints :
                  issuers'[l] # Unknown <=> \E j \in DOMAIN allFingerprints' : allFingerprints'[j] = l
             /\ \A h, j \in DOMAIN allFingerprints' : allFingerprints'[h] = allFingerprints'[j] => h = j
<1>4. Placed /\ \E i : i \notin Listed /\ Listed' = Listed \cup {i}
  <2>1. CASE issuers[k] = Unknown
    <3>1. /\ allFingerprints' \in Seq(Fingerprints) /\ DOMAIN allFingerprints' = 1..(n + 1)
          /\ allFingerprints'[n + 1] = k
          /\ \A j \in 1..n : allFingerprints'[j] = allFingerprints[j]
      BY <1>1, <2>1 DEF KeysKept
    <3>2. \A j \in 1..n : allFingerprints[j] \in Fingerprints \ {k}
      BY <1>3, <2>1 DEF KeysKept
    <3>3. \A j \in 1..(n + 1) : j \in 1..n \/ j = n + 1
      BY <1>3
    <3>4. n + 1 \notin Listed /\ Listed' = Listed \cup {n + 1}
      BY <1>2, <1>3, <3>1, <3>2, <3>3 DEF Listed
    <3>5. \A l \in Fingerprints :
            issuers'[l] # Unknown <=> \E j \in 1..(n + 1) : allFingerprints'[j] = l
      BY <1>2, <1>3, <3>1, <3>2, <3>3 DEF KeysKept, Unknown
    <3>6. \A h, j \in 1..(n + 1) : allFingerprints'[h] = allFingerprints'[j] => h = j
      BY <1>3, <3>1, <3>2, <3>3 DEF KeysKept
    <3>7. QED
      BY <3>1, <3>4, <3>5, <3>6
  <2>2. CASE issuers[k] # Unknown
    <3>1. PICK i \in DOMAIN allFingerprints : allFingerprints[i] = k
      BY <2>2 DEF KeysKept
    <3>2. allFingerprints' = allFingerprints
      BY <1>1, <2>2
    <3>3. i \notin Listed /\ Listed' = Listed \cup {i}
      BY <1>1, <1>2, <3>1, <3>2 DEF Listed, KeysKept
    <3>4. QED
      BY <1>2, <2>2, <3>2, <3>3 DEF KeysKept, Unknown
  <2>3. QED
    BY <2>1, <2>2
<1>5. ActiveIssuersFit'
  <2>1. PICK i : i \notin Listed /\ Listed' = Listed \cup {i}
    BY <1>4
  <2>2. activeCount = Cardinality(Listed)
    BY DEF KeysKept, ActiveIssuersFit
  <2>3. Cardinality(Listed \cup {i}) = Cardinality(Listed) + 1
    BY <2>1, ListedFinite, FS_AddElement
  <2>4. activeCount' = Cardinality(Listed')
    BY <1>1, <2>1, <2>2, <2>3
  <2>5. QED
    BY <2>4 DEF ActiveIssuersFit
<1>6. QED
  BY <1>2, <1>4, <1>5 DEF KeysKept, Unknown

\* A key revoked keeps its place, which is one less to hold an active key.
LEMMA RevokeKey ==
    ASSUME KeysKept, NEW sender, NEW k \in Fingerprints, revokeIssuer(sender, k)
    PROVE  KeysKept'
<1>1. /\ issuers[k] = "active" /\ issuers' = [issuers EXCEPT ![k] = "revoked"]
      /\ activeCount' = activeCount - 1 /\ allFingerprints' = allFingerprints
  BY DEF revokeIssuer
<1>2. /\ issuers' \in [Fingerprints -> {Unknown, "active", "revoked"}]
      /\ issuers'[k] = "revoked"
      /\ \A l \in Fingerprints \ {k} : issuers'[l] = issuers[l]
  BY <1>1 DEF KeysKept, Unknown
<1>3. PICK i \in DOMAIN allFingerprints : allFingerprints[i] = k
  BY <1>1 DEF KeysKept, Unknown
<1>4. i \in Listed /\ Listed' = Listed \ {i}
  BY <1>1, <1>2, <1>3 DEF Listed, KeysKept
<1>5. activeCount' = Cardinality(Listed')
  BY <1>1, <1>4, ListedFinite, FS_RemoveElement DEF KeysKept, ActiveIssuersFit
<1>6. QED
  BY <1>1, <1>2, <1>5 DEF KeysKept, ActiveIssuersFit, Unknown

(***************************************************************************)
(* The answer of getActiveIssuers fits its array, for any keys, any        *)
(* members and any order of registering, revoking and trusting anew.       *)
(***************************************************************************)
THEOREM IssuersFit == TrustSpec => []ActiveIssuersFit
<1>1. TrustInit => KeysKept
  <2>1. SUFFICES ASSUME TrustInit PROVE KeysKept
    OBVIOUS
  <2>2. /\ issuers = [k \in Fingerprints |-> Unknown]
        /\ allFingerprints = << >> /\ activeCount = 0
    BY <2>1 DEF TrustInit, RegistryInit
  <2>3. Listed = {}
    BY <2>2 DEF Listed
  <2>4. QED
    BY <2>2, <2>3, FS_EmptySet DEF KeysKept, ActiveIssuersFit, Unknown
<1>2. KeysKept /\ [TrustNext]_trustVars => KeysKept'
  <2>1. SUFFICES ASSUME KeysKept, [TrustNext]_trustVars PROVE KeysKept'
    OBVIOUS
  <2>2. CASE UNCHANGED registryVars
    BY <2>1, <2>2 DEF registryVars, KeysKept, ActiveIssuersFit, Listed
  <2>3. ASSUME NEW sender \in Accounts, RegistryNext(sender) PROVE KeysKept'
    BY <2>1, <2>3, RegisterKey, RevokeKey DEF RegistryNext
  <2>4. QED
    BY <2>1, <2>2, <2>3 DEF TrustNext, trustVars
<1>3. KeysKept => ActiveIssuersFit
  BY DEF KeysKept
<1>4. QED
  BY <1>1, <1>2, <1>3, PTL DEF TrustSpec

-----------------------------------------------------------------------------
(* The contracts together.                                                 *)

\* No contract that reads the register of members changes it, nor the block.
LEMMA RegisterIsRead ==
    ASSUME NEW sender
    PROVE  OracleNext(sender) \/ MemberNext(sender) \/ PayrollNext(sender) \/ VotingNext(sender)
             \/ ReputationNext(sender) \/ RegistryNext(sender)
           => UNCHANGED << now, identityVars >>
<1>1. OracleNext(sender) => UNCHANGED << now, identityVars >>
  BY DEF OracleNext, updateImpactScores, updateFiatReserve, updateTotalEscrow, registerMember, setThreshold,
         proposeOracle, acceptOracle, triggerEmergencyCircuitBreaker, resetEmergencyCircuitBreaker
<1>2. MemberNext(sender) => UNCHANGED << now, identityVars >>
  BY DEF MemberNext, delegate, revokeDelegation, emergencyVeto
<1>3. PayrollNext(sender) => UNCHANGED << now, identityVars >>
  BY DEF PayrollNext, registerPay, deregisterMember, pay, updateMaxRatio, transferPaymaster
<1>4. VotingNext(sender) => UNCHANGED << now, identityVars >>
  BY DEF VotingNext, rotateCoordinator, createProposal, signUp, publishMessage, beginProcessing, processMessages
<1>5. ReputationNext(sender) => UNCHANGED << now, identityVars >>
  BY DEF ReputationNext, registerSDC, recordTransaction, forceQuarantine, liftQuarantine, proposeFrsOracle,
         acceptFrsOracle, setTierThresholds, setDecayHalfLife
<1>6. RegistryNext(sender) => UNCHANGED << now, identityVars >>
  BY DEF RegistryNext, registerIssuer, revokeIssuer
<1>7. QED
  BY <1>1, <1>2, <1>3, <1>4, <1>5, <1>6

\* A step of the contracts together is a step of each of them or leaves it alone.
LEMMA StepOfEach ==
    ASSUME [MemberContractsNext]_memberVars
    PROVE  /\ [Next]_vars /\ [PayNext]_payVars /\ [VoteNext]_voteVars
           /\ [FrsNext]_frsVars /\ [TrustNext]_trustVars
<1> DEFINE ledgerStill == UNCHANGED ledgerVars
           payStill == UNCHANGED payrollVars
           voteStill == UNCHANGED votingVars
           frsStill == UNCHANGED reputationVars
           trustStill == UNCHANGED registryVars
           memberStill == UNCHANGED << now, identityVars >>
<1>1. CASE UNCHANGED memberVars
  BY <1>1 DEF memberVars, vars, payVars, voteVars, frsVars, trustVars
<1>2. CASE Tick /\ UNCHANGED << identityVars, ledgerVars, payrollVars, votingVars, reputationVars, registryVars >>
  BY <1>2 DEF Next, PayNext, VoteNext, FrsNext, TrustNext
<1>3. CASE MembershipNext /\ UNCHANGED << now, ledgerVars, payrollVars, votingVars, reputationVars, registryVars >>
  BY <1>3 DEF Next, PayNext, VoteNext, FrsNext, TrustNext, MembershipNext
<1>4. CASE /\ \/ \E sender \in Accounts : OracleNext(sender)
              \/ \E sender \in Coops : MemberNext(sender)
           /\ UNCHANGED << payrollVars, votingVars, reputationVars, registryVars >>
  <2>1. UNCHANGED << now, identityVars >>
    BY <1>4, RegisterIsRead
  <2>2. Next
    BY <1>4 DEF Next
  <2>3. QED
    BY <1>4, <2>1, <2>2 DEF payVars, voteVars, frsVars, trustVars
<1>5. CASE /\ \E sender \in Accounts : PayrollNext(sender)
           /\ UNCHANGED << ledgerVars, votingVars, reputationVars, registryVars >>
  <2>1. UNCHANGED << now, identityVars >>
    BY <1>5, RegisterIsRead
  <2>2. PayNext
    BY <1>5 DEF PayNext
  <2>3. QED
    BY <1>5, <2>1, <2>2 DEF vars, voteVars, frsVars, trustVars
<1>6. CASE /\ \E sender \in Accounts : VotingNext(sender)
           /\ UNCHANGED << ledgerVars, payrollVars, reputationVars, registryVars >>
  <2>1. UNCHANGED << now, identityVars >>
    BY <1>6, RegisterIsRead
  <2>2. VoteNext
    BY <1>6 DEF VoteNext
  <2>3. QED
    BY <1>6, <2>1, <2>2 DEF vars, payVars, frsVars, trustVars
<1>7. CASE /\ \E sender \in Accounts : ReputationNext(sender)
           /\ UNCHANGED << ledgerVars, payrollVars, votingVars, registryVars >>
  <2>1. UNCHANGED << now, identityVars >>
    BY <1>7, RegisterIsRead
  <2>2. FrsNext
    BY <1>7 DEF FrsNext
  <2>3. QED
    BY <1>7, <2>1, <2>2 DEF vars, payVars, voteVars, trustVars
<1>8. CASE /\ \E sender \in Accounts : RegistryNext(sender)
           /\ UNCHANGED << ledgerVars, payrollVars, votingVars, reputationVars >>
  <2>1. UNCHANGED << now, identityVars >>
    BY <1>8, RegisterIsRead
  <2>2. TrustNext
    BY <1>8 DEF TrustNext
  <2>3. QED
    BY <1>8, <2>1, <2>2 DEF vars, payVars, voteVars, frsVars
<1>9. QED
  BY <1>1, <1>2, <1>3, <1>4, <1>5, <1>6, <1>7, <1>8 DEF MemberContractsNext

\* The contracts together implement each of them: what is proved of one alone holds
\* beside the others, whatever the steward does to the register that they share.
THEOREM EachRuns == MemberSpec => Spec /\ PaySpec /\ VoteSpec /\ FrsSpec /\ TrustSpec
<1>1. MemberInit => Init /\ PayInit /\ VoteInit /\ FrsInit /\ TrustInit
  BY DEF MemberInit, Init, PayInit, VoteInit, FrsInit, TrustInit
<1>2. [MemberContractsNext]_memberVars
        => /\ [Next]_vars /\ [PayNext]_payVars /\ [VoteNext]_voteVars
           /\ [FrsNext]_frsVars /\ [TrustNext]_trustVars
  BY StepOfEach
<1>3. QED
  BY <1>1, <1>2, PTL DEF MemberSpec, Spec, PaySpec, VoteSpec, FrsSpec, TrustSpec

\* What the deployed contracts guarantee side by side (StewardshipLedger.sol,
\* InternalPayroll.sol, MACIVoting.sol, ForeignReputation.sol, TrustRegistry.sol).
THEOREM MembersAreSafe ==
    MemberSpec => /\ [](TypeOK /\ DelegationsCounted /\ ActiveIssuersFit)
                  /\ OracleChangesOnNotice /\ PayWithinRatio /\ BallotSealed /\ TrustIsEarned
<1>1. QED
  BY EachRuns, TypeCorrect, CountsExact, OracleRotates, RatioHolds, Sealing, DecayOnly, IssuersFit, PTL
=============================================================================
