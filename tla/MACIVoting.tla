----------------------------- MODULE MACIVoting -----------------------------
(***************************************************************************)
(* contracts/src/governance/MACIVoting.sol: ballots with encrypted         *)
(* messages and a tally whose proof is verified on chain.  It reads        *)
(* membership from CoopIdentity (balanceOf) at sign-up only.               *)
(*                                                                         *)
(* Keys and texts are left out, and a message is its place in the list.    *)
(* What the coordinator declares of a tally is any of Tallies; whether its *)
(* proof verifies is the verifier's answer (external).                     *)
(***************************************************************************)
EXTENDS CoopIdentity, FiniteSets

CONSTANTS
    Durations,       \* values given for the windows of a ballot
    Tallies,         \* <<yesVotes, totalVotes>> the coordinator may declare
    VerifierSet,     \* whether snarkVerifier is set: without one every proof passes
    QuorumBps,       \* quorumBps, in parts of VoteBps
    VoteBps,         \* 10000
    MaxBallots,      \* bound: ballots ever created
    MaxMessages      \* bound: messages of one ballot

ASSUME VotingAssumption ==
    /\ IsFiniteSet(Coops)
    /\ Durations \subseteq Nat /\ Tallies \subseteq Nat \X Nat
    /\ VerifierSet \in BOOLEAN
    /\ QuorumBps \in Nat /\ VoteBps \in Nat
    /\ MaxBallots \in Nat /\ MaxMessages \in Nat

BallotId == 1..MaxBallots

VARIABLES
    coordinator,
    nextProposalId,  \* _nextProposalId
    ballots,         \* proposals: status, deadlines, totalSignUps, quorumMet
    signedUp,        \* _signedUp: id -> members
    messages         \* _messages: id -> how many

votingVars == << coordinator, nextProposalId, ballots, signedUp, messages >>
voteVars == << now, identityVars, votingVars >>

\* An id never given out: the zero struct, Active and with its window closed.
NoBallot == [status |-> "Active", signUpDeadline |-> 0, voteDeadline |-> 0,
             totalSignUps |-> 0, quorumMet |-> FALSE]

VotingInit ==
    /\ coordinator = StewardSafe
    /\ nextProposalId = 1
    /\ ballots = [b \in BallotId |-> NoBallot]
    /\ signedUp = [b \in BallotId |-> {}]
    /\ messages = [b \in BallotId |-> 0]

onlyCoordinator(sender) == sender = coordinator

rotateCoordinator(sender, new) ==
    /\ onlyCoordinator(sender)
    /\ new # ZeroAddress
    /\ coordinator' = new
    /\ UNCHANGED << now, identityVars, nextProposalId, ballots, signedUp, messages >>

\* The struct of the id is written whole, whatever was done to it before.
createProposal(sender, signUpDuration, voteDuration) ==
    /\ onlyCoordinator(sender)
    /\ nextProposalId \in BallotId                            \* bound
    /\ nextProposalId' = nextProposalId + 1
    /\ ballots' = [ballots EXCEPT ![nextProposalId] =
                     [status |-> "Active", signUpDeadline |-> now + signUpDuration,
                      voteDeadline |-> now + signUpDuration + voteDuration,
                      totalSignUps |-> 0, quorumMet |-> FALSE]]
    /\ UNCHANGED << now, identityVars, coordinator, signedUp, messages >>

proposalActive(b) == ballots[b].status = "Active"

signUp(sender, b) ==
    /\ proposalActive(b)
    /\ balances[sender] # 0
    /\ now <= ballots[b].signUpDeadline
    /\ sender \notin signedUp[b]
    /\ signedUp' = [signedUp EXCEPT ![b] = @ \cup {sender}]
    /\ ballots' = [ballots EXCEPT ![b].totalSignUps = @ + 1]
    /\ UNCHANGED << now, identityVars, coordinator, nextProposalId, messages >>

\* Anyone may publish, signed up or not: the coordinator drops what does not count.
publishMessage(sender, b) ==
    /\ proposalActive(b)
    /\ now <= ballots[b].voteDeadline
    /\ messages[b] < MaxMessages                              \* bound
    /\ messages' = [messages EXCEPT ![b] = @ + 1]
    /\ UNCHANGED << now, identityVars, coordinator, nextProposalId, ballots, signedUp >>

\* Whether the id was given out is not asked.
beginProcessing(sender, b) ==
    /\ onlyCoordinator(sender)
    /\ ballots[b].status = "Active"
    /\ now > ballots[b].voteDeadline
    /\ ballots' = [ballots EXCEPT ![b].status = "Processing"]
    /\ UNCHANGED << now, identityVars, coordinator, nextProposalId, signedUp, messages >>

\* The quorum is taken of the total the coordinator declares.
meetsQuorum(tally) ==
    tally[2] > 0 /\ (tally[1] * VoteBps) \div tally[2] >= QuorumBps

\* Variant of MayTally that lets a decided ballot be tallied again.
mayTallyAgain(b) == ballots[b].status # "Active"

MayTally(b) == ballots[b].status = "Processing"

processMessages(sender, b, tally, proofValid) ==
    /\ onlyCoordinator(sender)
    /\ MayTally(b)
    /\ ballots' = [ballots EXCEPT
         ![b].status = IF VerifierSet /\ ~proofValid THEN "Rejected" ELSE "Finalized",
         ![b].quorumMet = IF VerifierSet /\ ~proofValid THEN @ ELSE meetsQuorum(tally)]
    /\ UNCHANGED << now, identityVars, coordinator, nextProposalId, signedUp, messages >>

\* What the Safe asks before a transaction that needs the vote.
verifyTally(b) == ballots[b].status = "Finalized" /\ ballots[b].quorumMet

VotingNext(sender) ==
    \/ \E s \in Safes : rotateCoordinator(sender, s)
    \/ \E d, e \in Durations : createProposal(sender, d, e)
    \/ \E b \in BallotId : \/ sender \in Coops /\ signUp(sender, b)
                           \/ publishMessage(sender, b)
                           \/ beginProcessing(sender, b)
                           \/ \E t \in Tallies, v \in BOOLEAN : processMessages(sender, b, t, v)

VoteInit == ChainInit /\ IdentityInit /\ VotingInit

VoteNext ==
    \/ Tick /\ UNCHANGED << identityVars, votingVars >>
    \/ /\ \E sender \in Accounts, a \in Coops : attest(sender, a) \/ revoke(sender, a)
       /\ UNCHANGED << now, votingVars >>
    \/ \E sender \in Accounts : VotingNext(sender)

VoteSpec == VoteInit /\ [][VoteNext]_voteVars

-----------------------------------------------------------------------------
(***************************************************************************)
(* A ballot is decided once, on what was there when its window closed:     *)
(* from then on no sign-up and no message is added, by whichever           *)
(* coordinator, and once it was proposed its result, which opens or shuts  *)
(* the Safe's gate, is never replaced.  (What was made of its id before    *)
(* is: createProposal writes over it.)                                     *)
(***************************************************************************)
BallotSealed ==
    [][\A b \in BallotId :
         /\ now > ballots[b].voteDeadline =>
              /\ signedUp'[b] = signedUp[b] /\ messages'[b] = messages[b]
              /\ ballots'[b].totalSignUps = Cardinality(signedUp[b])
         /\ b < nextProposalId /\ ballots[b].status \in {"Finalized", "Rejected"} =>
              ballots'[b] = ballots[b]]_voteVars
=============================================================================
