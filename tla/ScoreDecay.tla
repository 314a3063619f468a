----------------------------- MODULE ScoreDecay -----------------------------
(***************************************************************************)
(* How a reputation falls by half in every half-life: the arithmetic of    *)
(* _computeDecayedScore in contracts/src/governance/ForeignReputation.sol, *)
(* which frs_client.py of the legacy backend mirrors.                      *)
(***************************************************************************)
EXTENDS Integers

\* rawScore >> n is rawScore \div Power2[n + 1].
Power2 == << 1, 2, 4, 8, 16, 32, 64, 128, 256, 512, 1024, 2048, 4096 >>

\* Variant of interpolated that climbs from the next full half-life.
interpolatedUpwards(decayed, remainder, halfLife) ==
    IF remainder = 0 THEN decayed
    ELSE decayed \div 2 + ((decayed - decayed \div 2) * remainder) \div halfLife

\* In a straight line from one full half-life to the next.
interpolated(decayed, remainder, halfLife) ==
    decayed - ((decayed - decayed \div 2) * remainder) \div halfLife

decayedScore(rawScore, elapsed, halfLife, deadAfter) ==
    LET fullHalfLives == elapsed \div halfLife IN
    IF fullHalfLives >= deadAfter THEN 0
    ELSE interpolated(rawScore \div Power2[fullHalfLives + 1], elapsed % halfLife, halfLife)
=============================================================================
