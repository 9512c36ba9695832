----------------------------- MODULE Confidence -----------------------------
(***************************************************************************)
(* ConfidenceService and the arithmetic of ReputationService: how far a    *)
(* price report is trusted, as a function of its author's reputation, the  *)
(* distance and the age of the report, the last official price, the photo  *)
(* and the votes.                                                          *)
(*                                                                         *)
(* Decimals are integers.  A confidence is in ten-thousandths, the four    *)
(* decimals that toFixed(4) keeps; before the rounding it is counted in    *)
(* twenty-millionths, in which every product of the factors is exact.  A   *)
(* tie of the rounding goes up here, where the program leaves it to the    *)
(* binary value.  Prices are integers, of any unit.  Time is in units of   *)
(* ten minutes.                                                            *)
(***************************************************************************)
EXTENDS Integers

REPUTATION_MIN == 0
REPUTATION_MAX == 100
REPUTATION_INITIAL == 50
AUTO_ACCEPT_CONFIDENCE_THRESHOLD == 5000
MAX_EFFECTIVE_VOTE_CONTRIBUTION == 5
NoPrice == 0

Distance == {"near", "plausible", "far", "unknown"}
Certainty == 0..10000

Hour == 6
One == 20000000

AtMost(n, most) == IF n > most THEN most ELSE n
AtLeast(n, least) == IF n < least THEN least ELSE n

\* A faulty clampScore: the lower bound is forgotten.
clampScoreAbove(score) == AtMost(score, REPUTATION_MAX)

clampScore(score) == AtLeast(AtMost(score, REPUTATION_MAX), REPUTATION_MIN)

\* 0.3 + score/100 * 0.4, in thousandths
reputationToBaseConfidence(score) == 300 + 4 * clampScore(score)

\* The multipliers are in hundredths.
distanceMultiplier(distance) ==
  [near |-> 100, plausible |-> 85, far |-> 60, unknown |-> 75][distance]

ageMultiplier(age) ==
  IF age <= 2 * Hour THEN 100
  ELSE IF age <= 8 * Hour THEN 90
  ELSE IF age <= 24 * Hour THEN 75 ELSE 50

\* The prices differ by more than half of the official one.
isAnomaly(price, official) ==
  /\ official # NoPrice
  /\ \/ 2 * (price - official) > official
     \/ 2 * (official - price) > official

\* in hundredths: 0.04 for each vote, up to five of each kind
computeVoteAdjustment(confirms, disputes) ==
  4 * (  AtMost(confirms, MAX_EFFECTIVE_VOTE_CONTRIBUTION)
       - AtMost(disputes, MAX_EFFECTIVE_VOTE_CONTRIBUTION))

\* toFixed(4) and the bounds 0 and 1
clampConfidence(exact) ==
  AtLeast(AtMost((exact + 1000) \div 2000, 10000), 0)

product(score, distance, age) ==
  reputationToBaseConfidence(score) * distanceMultiplier(distance)
    * ageMultiplier(age)

\* A faulty computeInitialConfidence: the photo is counted before the anomaly.
ConfidenceUnhalved(score, distance, age, anomaly, photo, confirms, disputes) ==
  clampConfidence(
      (IF anomaly /\ ~photo THEN 1 ELSE 2) * product(score, distance, age)
    + (IF photo THEN One \div 20 ELSE 0)
    + (One \div 100) * computeVoteAdjustment(confirms, disputes))

computeInitialConfidence(score, distance, age, anomaly, photo, confirms, disputes) ==
  clampConfidence(
      (IF anomaly THEN 1 ELSE 2) * product(score, distance, age)
    + (IF photo THEN One \div 20 ELSE 0)
    + (One \div 100) * computeVoteAdjustment(confirms, disputes))
=============================================================================
