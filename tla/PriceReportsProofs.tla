------------------------- MODULE PriceReportsProofs -------------------------
(***************************************************************************)
(* Proofs about PriceReports for any set of accounts, calls, prices and    *)
(* bounds.  What a call has read is used statements later, so the          *)
(* inductive invariant says which of the things it knows are still true:   *)
(* rows and observations are never removed, prices never change, and a     *)
(* report never loses its observation.  What a call that meets another one *)
(* can break is proved of PriceReportsHistory: nothing else breaks it.     *)
(***************************************************************************)
EXTENDS PriceReportsHistory, OrderingProofs

-----------------------------------------------------------------------------
(* The confidence of a report, for every reputation, distance, age and     *)
(* number of votes.                                                        *)

LEMMA ClampScoreBounds ==
  ASSUME NEW rep \in Int
  PROVE  clampScore(rep) \in REPUTATION_MIN..REPUTATION_MAX
  BY DEF clampScore, AtMost, AtLeast, REPUTATION_MIN, REPUTATION_MAX

\* The factors are bounded, whatever the distance and the age are; their
\* product is at most 0.7.
Base == 300..700
DistanceFactor == {60, 75, 85, 100}
AgeFactor == {50, 75, 90, 100}
IsProduct(x) == x \in Int /\ 0 <= x /\ x <= 7000000

LEMMA BaseBounds ==
  ASSUME NEW rep \in Int
  PROVE  reputationToBaseConfidence(rep) \in Base
  BY ClampScoreBounds DEF reputationToBaseConfidence, Base, REPUTATION_MIN, REPUTATION_MAX

LEMMA DistanceBounds ==
  ASSUME NEW distance \in Distance
  PROVE  distanceMultiplier(distance) \in DistanceFactor
  BY DEF distanceMultiplier, Distance, DistanceFactor

LEMMA AgeBounds ==
  ASSUME NEW age \in Int
  PROVE  ageMultiplier(age) \in AgeFactor
  BY DEF ageMultiplier, Hour, AgeFactor

LEMMA ThreeFactors ==
  ASSUME NEW b \in Base, NEW d \in DistanceFactor, NEW a \in AgeFactor
  PROVE  IsProduct(b * d * a)
<1>1. b * d \in Int /\ 0 <= b * d /\ b * d <= 70000
  BY SMT DEF Base, DistanceFactor
<1>2. \A x \in Int : 0 <= x /\ x <= 70000
                    => x * a \in Int /\ 0 <= x * a /\ x * a <= 7000000
  BY SMT DEF AgeFactor
<1> QED BY <1>1, <1>2, SMT DEF IsProduct

LEMMA ProductBounds ==
  ASSUME NEW rep \in Int, NEW distance \in Distance, NEW age \in Int
  PROVE  IsProduct(product(rep, distance, age))
<1>1. reputationToBaseConfidence(rep) \in Base
  BY BaseBounds
<1>2. distanceMultiplier(distance) \in DistanceFactor
  BY DistanceBounds
<1>3. ageMultiplier(age) \in AgeFactor
  BY AgeBounds
<1> QED BY <1>1, <1>2, <1>3, ThreeFactors, Zenon DEF product

LEMMA VoteBounds ==
  ASSUME NEW confirms \in Nat, NEW disputes \in Nat
  PROVE  /\ computeVoteAdjustment(confirms, disputes) \in Int
         /\ computeVoteAdjustment(confirms, disputes) <= 20
         /\ computeVoteAdjustment(confirms, disputes) > 12 => confirms >= disputes + 4
  BY DEF computeVoteAdjustment, AtMost, MAX_EFFECTIVE_VOTE_CONTRIBUTION

LEMMA ClampConfidenceBounds ==
  ASSUME NEW exact \in Int
  PROVE  /\ clampConfidence(exact) \in Certainty
         /\ clampConfidence(exact) >= AUTO_ACCEPT_CONFIDENCE_THRESHOLD => exact >= 9999000
  BY SMT DEF clampConfidence, AtMost, AtLeast, Certainty, AUTO_ACCEPT_CONFIDENCE_THRESHOLD

(***************************************************************************)
(* A confidence is a number from 0 to 1 with four decimals, whatever goes  *)
(* into it.                                                                *)
(***************************************************************************)
THEOREM ConfidenceBounds ==
  ASSUME NEW rep \in Int, NEW distance \in Distance, NEW age \in Int, NEW anomaly \in BOOLEAN,
         NEW photo \in BOOLEAN, NEW confirms \in Nat, NEW disputes \in Nat
  PROVE  computeInitialConfidence(rep, distance, age, anomaly, photo, confirms, disputes)
           \in Certainty
<1> DEFINE p == product(rep, distance, age)
           v == computeVoteAdjustment(confirms, disputes)
<1>1. p \in Int /\ v \in Int
  BY ProductBounds, VoteBounds, SMT DEF IsProduct
<1> HIDE DEF p, v
<1> DEFINE exact == (IF anomaly THEN 1 ELSE 2) * p + (IF photo THEN One \div 20 ELSE 0)
                    + (One \div 100) * v
<1>2. exact \in Int
  <2>1. (IF anomaly THEN 1 ELSE 2) * p \in Int
    BY <1>1, SMT
  <2>2. (IF photo THEN One \div 20 ELSE 0) \in Int /\ (One \div 100) * v \in Int
    BY <1>1, SMT DEF One
  <2> QED BY <2>1, <2>2, SMT
<1>3. computeInitialConfidence(rep, distance, age, anomaly, photo, confirms, disputes)
        = clampConfidence(exact)
  BY SMT DEF computeInitialConfidence, p, v
<1> HIDE DEF exact
<1> QED BY <1>2, <1>3, ClampConfidenceBounds, SMT

LEMMA AnomalyArithmetic ==
  ASSUME NEW p \in Int, NEW boost \in Int, NEW v \in Int,
         p <= 7000000, v <= 20, boost \in {0, 1000000},
         clampConfidence(p + boost + 200000 * v) >= AUTO_ACCEPT_CONFIDENCE_THRESHOLD
  PROVE  v > 0 /\ (boost # 0 \/ v > 12)
<1>1. p + boost + 200000 * v \in Int
  BY SMT
<1>2. p + boost + 200000 * v >= 9999000
  BY <1>1, ClampConfidenceBounds, SMT
<1> QED BY <1>2, SMT

(***************************************************************************)
(* A price that is far from the official one is never accepted without     *)
(* votes, with or without a photo, and without a photo only when           *)
(* confirmations exceed disputes by four (docs/crowdsourcing.md: a photo   *)
(* "does not bypass anomaly or reputation checks").                        *)
(***************************************************************************)
THEOREM AnomalyIsNotAccepted ==
  ASSUME NEW rep \in Int, NEW distance \in Distance, NEW age \in Int,
         NEW anomaly \in BOOLEAN, NEW photo \in BOOLEAN,
         NEW confirms \in Nat, NEW disputes \in Nat
  PROVE  /\ anomaly = TRUE
         /\ computeInitialConfidence(rep, distance, age, anomaly, photo, confirms, disputes)
              >= AUTO_ACCEPT_CONFIDENCE_THRESHOLD
         => confirms > 0 /\ (photo = TRUE \/ confirms >= disputes + 4)
<1> DEFINE p == product(rep, distance, age)
           v == computeVoteAdjustment(confirms, disputes)
<1>1. IsProduct(p) /\ v \in Int /\ v <= 20
  BY ProductBounds, VoteBounds, Zenon
<1>2. (v > 12 => confirms >= disputes + 4) /\ (v > 0 => confirms > 0)
  BY VoteBounds DEF computeVoteAdjustment, AtMost, MAX_EFFECTIVE_VOTE_CONTRIBUTION
<1> DEFINE boost == IF photo THEN One \div 20 ELSE 0
           half == IF anomaly THEN 1 ELSE 2
           exact == half * p + boost + (One \div 100) * v
<1>3. computeInitialConfidence(rep, distance, age, anomaly, photo, confirms, disputes)
        = clampConfidence(exact)
  BY SMT DEF computeInitialConfidence
<1>4. boost \in {0, 1000000} /\ One \div 100 = 200000
  BY SMT DEF One
<1>8. boost # 0 => photo = TRUE
  OBVIOUS
<1>5. anomaly = TRUE => half = 1
  OBVIOUS
<1> HIDE DEF p, v, boost, half
<1>6. half = 1 => exact = p + boost + 200000 * v
  BY <1>1, <1>4, SMT DEF IsProduct
<1> HIDE DEF exact
<1>7. half = 1 /\ clampConfidence(exact) >= AUTO_ACCEPT_CONFIDENCE_THRESHOLD
      => v > 0 /\ (boost # 0 \/ v > 12)
  BY <1>1, <1>4, <1>6, AnomalyArithmetic, SMT DEF IsProduct
<1> QED BY <1>2, <1>3, <1>5, <1>7, <1>8, Zenon

-----------------------------------------------------------------------------
(* The calls.                                                              *)

(* The rows carry a price, and there are finitely many votes.              *)
RowsAreReports ==
  /\ IsFiniteSet(votes)
  /\ \A r \in Ids : reports[r].price \in Price

(* A submission works for a user, on a draft with a price.                 *)
DraftIsSound(step, r) ==
  step \in CreateStep =>
    /\ r.user \in User
    /\ r.draft.price \in Price /\ r.draft.obs = 0

(* The report a submission is about to corroborate shows the price of its  *)
(* draft.                                                                  *)
TwinIsSound(step, r) ==
  /\ step \in {"assessing", "matching"} => r.target = 0
  /\ step \in {"inserting", "weighing", "locking", "saving"} /\ r.target # 0 =>
       /\ r.target \in Ids
       /\ r.read.obs \in 1..Len(observations)
       /\ observations[r.read.obs] = r.draft.price

(* The report voted on exists; the row the call has read may be out of     *)
(* date, but its price is right and its observation, if any, still there.  *)
ReadIsSound(step, r) ==
  /\ step \in VoteStep => r.user \in User /\ r.target \in Ids
  /\ step \in {"counting", "deciding", "updating"} =>
       /\ r.read.price = reports[r.target].price
       /\ r.read.obs # 0 => reports[r.target].obs # 0

(* The points about to be added are somebody's.                            *)
RewardIsSound(step, r) == step = "rewarding" => r.author \in User

CallIsSound(step, r) ==
  /\ DraftIsSound(step, r) /\ TwinIsSound(step, r)
  /\ ReadIsSound(step, r) /\ RewardIsSound(step, r)

CallsAreSound == \A q \in Request : CallIsSound(phase[q], req[q])

IInv ==
  /\ TypeOK /\ RowsAreReports /\ AcceptedIsBacked /\ BackedByOwnPrice
  /\ CallsAreSound

-----------------------------------------------------------------------------
(* What the handlers compute.                                              *)

LEMMA CountIsNat ==
  ASSUME IsFiniteSet(votes), NEW r, NEW vote
  PROVE  Count(r, vote) \in Nat
<1> DEFINE counted == {v \in votes : v.report = r /\ v.vote = vote}
<1>1. counted \subseteq votes
  OBVIOUS
<1>2. IsFiniteSet(counted)
  BY <1>1, FS_Subset
<1> QED BY <1>2, FS_CardinalityType DEF Count

LEMMA ScoreIsInt ==
  ASSUME TypeOK, NEW u \in User \cup {NoUser}
  PROVE  ScoreOf(u) \in Int
<1>1. CASE u = NoUser
  BY <1>1 DEF ScoreOf, REPUTATION_INITIAL
<1>2. CASE u # NoUser
  <2>1. score[u] \in REPUTATION_MIN..REPUTATION_MAX
    BY <1>2 DEF TypeOK
  <2>2. \A n \in REPUTATION_MIN..REPUTATION_MAX : n \in Int
    BY DEF REPUTATION_MIN, REPUTATION_MAX
  <2> QED BY <1>2, <2>1, <2>2, Zenon DEF ScoreOf
<1> QED BY <1>1, <1>2

LEMMA AnomalyIsBoolean ==
  ASSUME NEW price, NEW reference
  PROVE  isAnomaly(price, reference) \in BOOLEAN
  BY DEF isAnomaly

LEMMA ConfidenceIsCertainty ==
  ASSUME TypeOK, NEW row \in RowType, NEW reference, NEW photo \in BOOLEAN,
         NEW confirms \in Nat, NEW disputes \in Nat
  PROVE  ConfidenceOf(row, reference, photo, confirms, disputes) \in Certainty
<1>1. ScoreOf(row.author) \in Int
  BY ScoreIsInt DEF RowType
<1>2. row.distance \in Distance /\ now - row.reportedAt \in Int
  BY DEF RowType, TypeOK
<1>3. isAnomaly(row.price, reference) \in BOOLEAN
  BY AnomalyIsBoolean
<1> QED BY <1>1, <1>2, <1>3, ConfidenceBounds, Zenon DEF ConfidenceOf

LEMMA RecordKeepsTypes ==
  ASSUME TypeOK, NEW u \in User, NEW points \in Int, NEW seen \in Int,
         Record(u, points, seen)
  PROVE  /\ score' \in [User -> REPUTATION_MIN..REPUTATION_MAX]
         /\ events' \in [User -> Seq(Int)]
<1>1. clampScore(seen + points) \in REPUTATION_MIN..REPUTATION_MAX
  BY ClampScoreBounds
<1>2. score' \in [User -> REPUTATION_MIN..REPUTATION_MAX]
  BY <1>1 DEF Record, TypeOK
<1>3. Append(events[u], points) \in Seq(Int)
  BY AppendProperties DEF TypeOK
<1> QED BY <1>2, <1>3 DEF Record, TypeOK

(* A step of one call leaves what the others know alone.                   *)
LEMMA GoMovesOne ==
  ASSUME TypeOK, NEW q \in Request, NEW step \in Phase, NEW r \in RequestType,
         Go(q, step, r)
  PROVE  /\ phase' \in [Request -> Phase] /\ req' \in [Request -> RequestType]
         /\ phase'[q] = step /\ req'[q] = r
         /\ \A p \in Request \ {q} : phase'[p] = phase[p] /\ req'[p] = req[p]
  BY DEF Go, TypeOK

LEMMA NoRequestTyped == NoRow \in RowType /\ NoRequest \in RequestType
<1>1. 0 \in Certainty
  BY SMT DEF Certainty
<1>2. NoRow \in RowType
  BY <1>1 DEF NoRow, RowType, Distance, Status
<1> QED BY <1>1, <1>2 DEF NoRequest, RequestType, Ballot, Status

LEMMA FinishEnds ==
  ASSUME TypeOK, NEW q \in Request, Finish(q)
  PROVE  /\ phase' \in [Request -> Phase] /\ req' \in [Request -> RequestType]
         /\ phase'[q] = "idle"
         /\ \A p \in Request \ {q} : phase'[p] = phase[p] /\ req'[p] = req[p]
  BY GoMovesOne, NoRequestTyped DEF Finish, Phase

-----------------------------------------------------------------------------
(* What is known of the tables stays true while they grow.                 *)

Grows ==
  /\ Len(reports) <= Len(reports')
  /\ \A r \in Ids : /\ reports'[r].price = reports[r].price
                    /\ reports[r].obs # 0 => reports'[r].obs # 0
  /\ Len(observations) <= Len(observations')
  /\ \A o \in 1..Len(observations) : observations'[o] = observations[o]

LEMMA SoundStays ==
  ASSUME TypeOK, TypeOK', Grows, NEW p \in Request,
         phase'[p] = phase[p], req'[p] = req[p], CallIsSound(phase[p], req[p])
  PROVE  CallIsSound(phase[p], req[p])'
<1>1. /\ Len(reports) \in Nat /\ Len(reports') \in Nat
      /\ Len(observations) \in Nat /\ Len(observations') \in Nat
  BY LenProperties DEF TypeOK
<1>2. Ids \subseteq Ids' /\ 1..Len(observations) \subseteq 1..Len(observations')
  BY <1>1 DEF Grows, Ids
<1>3. DraftIsSound(phase[p], req[p])' /\ RewardIsSound(phase[p], req[p])'
  BY DEF CallIsSound, DraftIsSound, RewardIsSound
<1>4. TwinIsSound(phase[p], req[p])'
  BY <1>2 DEF CallIsSound, TwinIsSound, Grows
<1>5. ReadIsSound(phase[p], req[p])'
  BY <1>2 DEF CallIsSound, ReadIsSound, Grows, VoteStep
<1> QED BY <1>3, <1>4, <1>5 DEF CallIsSound

LEMMA UnmovedGrows ==
  ASSUME TypeOK, UNCHANGED <<reports, observations>>
  PROVE  Grows
<1>1. Len(reports) \in Nat /\ Len(observations) \in Nat
  BY LenProperties DEF TypeOK
<1> QED BY <1>1 DEF Grows

(* A step that moves one call and leaves the tables alone.                 *)
LEMMA QuietStep ==
  ASSUME IInv, NEW q \in Request, NEW step \in Phase, NEW r \in RequestType,
         Go(q, step, r), CallIsSound(step, r), UNCHANGED <<now, tables>>,
         official' \in Official \cup {NoPrice},
         score' \in [User -> REPUTATION_MIN..REPUTATION_MAX],
         events' \in [User -> Seq(Int)], calls' \in Nat, failures' \in Nat
  PROVE  IInv'
<1>1. /\ phase' \in [Request -> Phase] /\ req' \in [Request -> RequestType]
      /\ phase'[q] = step /\ req'[q] = r
      /\ \A p \in Request \ {q} : phase'[p] = phase[p] /\ req'[p] = req[p]
  BY GoMovesOne DEF IInv
<1>2. TypeOK'
  BY <1>1 DEF IInv, TypeOK, tables, Ids
<1>3. RowsAreReports' /\ AcceptedIsBacked' /\ BackedByOwnPrice'
  BY DEF IInv, RowsAreReports, AcceptedIsBacked, BackedByOwnPrice, tables, Ids
<1>4. CallIsSound(phase[q], req[q])'
  BY <1>1
     DEF CallIsSound, DraftIsSound, TwinIsSound, ReadIsSound, RewardIsSound,
         tables, Ids
<1>5. ASSUME NEW p \in Request \ {q}  PROVE CallIsSound(phase[p], req[p])'
  BY <1>1, <1>2, SoundStays, UnmovedGrows DEF IInv, CallsAreSound, tables
<1> QED BY <1>2, <1>3, <1>4, <1>5 DEF IInv, CallsAreSound

(* A step that writes to the tables and ends the call, or leaves it with   *)
(* rewards to give.                                                        *)
LEMMA WritingStep ==
  ASSUME IInv, NEW q \in Request, NEW step \in {"idle", "awarding"},
         NEW r \in RequestType, Go(q, step, r), Grows,
         TypeOK', RowsAreReports', AcceptedIsBacked', BackedByOwnPrice'
  PROVE  IInv'
<1>1. step \in Phase
  BY DEF Phase, AwardStep
<1>2. /\ phase'[q] = step
      /\ \A p \in Request \ {q} : phase'[p] = phase[p] /\ req'[p] = req[p]
  BY <1>1, GoMovesOne DEF IInv
<1>3. CallIsSound(phase[q], req[q])'
  BY <1>2
     DEF CallIsSound, DraftIsSound, TwinIsSound, ReadIsSound, RewardIsSound,
         CreateStep, VoteStep
<1>4. ASSUME NEW p \in Request \ {q}  PROVE CallIsSound(phase[p], req[p])'
  BY <1>2, SoundStays DEF IInv, CallsAreSound
<1> QED BY <1>3, <1>4 DEF IInv, CallsAreSound

(* Nothing is known of a call that does not run.                           *)
LEMMA IdleIsSound ==
  ASSUME NEW step \in {"idle", "reconciling", "awarding"}, NEW r
  PROVE  CallIsSound(step, r)
  BY DEF CallIsSound, DraftIsSound, TwinIsSound, ReadIsSound, RewardIsSound,
         CreateStep, VoteStep

-----------------------------------------------------------------------------
(* The initial states, and the steps of a submission.                      *)

LEMMA InitHolds == Init => IInv
<1> SUFFICES ASSUME Init PROVE IInv
  OBVIOUS
<1>1. Len(reports) = 0 /\ Ids = {}
  BY DEF Init, Ids
<1>2. IsFiniteSet(votes)
  BY FS_EmptySet DEF Init
<1>3. RowsAreReports /\ AcceptedIsBacked /\ BackedByOwnPrice
  BY <1>1, <1>2 DEF RowsAreReports, AcceptedIsBacked, BackedByOwnPrice
<1>4. req \in [Request -> RequestType] /\ phase \in [Request -> Phase]
  BY NoRequestTyped DEF Init, Phase
<1>5. TypeOK
  BY <1>1, <1>4, PriceReportsAssumption, EmptySeq DEF Init, TypeOK
<1>6. CallsAreSound
  BY IdleIsSound DEF Init, CallsAreSound
<1> QED BY <1>3, <1>5, <1>6 DEF IInv

(* What a step that only moves a call need not say.                        *)
LEMMA UntouchedKeepsTypes ==
  ASSUME TypeOK, UNCHANGED <<world, tables, reputation>>
  PROVE  /\ UNCHANGED <<now, tables>>
         /\ official' \in Official \cup {NoPrice}
         /\ score' \in [User -> REPUTATION_MIN..REPUTATION_MAX]
         /\ events' \in [User -> Seq(Int)]
  BY DEF TypeOK, world, reputation

LEMMA SubmitReportStep ==
  ASSUME IInv, NEW q \in Request, SubmitReport(q)
  PROVE  IInv'
<1>1. PICK u \in accounts, p \in Price, back \in BackDate, d \in Place,
           photo \in Photo :
        Go(q, "assessing",
           [NoRequest EXCEPT !.user = u,
              !.draft = [NoRow EXCEPT !.author = u, !.price = p, !.distance = d,
                           !.reportedAt = now - back, !.createdAt = now,
                           !.photo = photo]])
  BY DEF SubmitReport
<1> DEFINE draft == [NoRow EXCEPT !.author = u, !.price = p, !.distance = d,
                       !.reportedAt = now - back, !.createdAt = now, !.photo = photo]
           r == [NoRequest EXCEPT !.user = u, !.draft = draft]
<1>2. u \in User /\ d \in Distance /\ photo \in BOOLEAN /\ now \in Int /\ now - back \in Int
  <2>1. \A n \in 0..(24 * Hour) : n \in Int
    BY DEF Hour
  <2>2. back \in Int /\ d \in Distance /\ photo \in BOOLEAN
    BY <2>1, PriceReportsAssumption, Zenon
  <2>3. now \in Int /\ u \in User
    BY DEF IInv, TypeOK
  <2> QED BY <2>2, <2>3
<1>3. draft \in RowType /\ draft.price = p /\ draft.obs = 0
  BY <1>2, NoRequestTyped DEF RowType, NoRow
<1> HIDE DEF draft
<1>4. r \in RequestType /\ r.user = u /\ r.draft = draft /\ r.target = 0
  BY <1>2, <1>3, NoRequestTyped DEF RequestType, NoRequest
<1>5. CallIsSound("assessing", r)
  BY <1>2, <1>3, <1>4
     DEF CallIsSound, DraftIsSound, TwinIsSound, ReadIsSound, RewardIsSound,
         VoteStep
<1>6. calls' \in Nat /\ failures' \in Nat /\ "assessing" \in Phase
  BY DEF SubmitReport, IInv, TypeOK, Phase, CreateStep
<1>7. Go(q, "assessing", r)
  BY <1>1 DEF draft
<1> HIDE DEF r
<1> QED BY <1>4, <1>5, <1>6, <1>7, QuietStep, UntouchedKeepsTypes DEF SubmitReport, IInv

LEMMA AssessStep ==
  ASSUME IInv, NEW q \in Request, Assess(q)
  PROVE  IInv'
<1> DEFINE draft == req[q].draft
           c == ConfidenceOf(draft, official, draft.photo, 0, 0)
           s == IF c >= AUTO_ACCEPT_CONFIDENCE_THRESHOLD THEN "accepted" ELSE "pending"
           judged == [draft EXCEPT !.confidence = c, !.status = s]
           r == [req[q] EXCEPT !.draft = judged]
<1>1. req[q] \in RequestType /\ draft \in RowType /\ draft.photo \in BOOLEAN
  BY DEF IInv, TypeOK, RequestType, RowType
<1>2. c \in Certainty
  BY <1>1, ConfidenceIsCertainty DEF IInv
<1>3. s \in Status
  BY DEF Status
<1>4. Go(q, "matching", r)
  BY DEF Assess
<1>5. CallIsSound("assessing", req[q])
  BY DEF Assess, IInv, CallsAreSound
<1> HIDE DEF c, s
<1>6. /\ judged \in RowType /\ judged.price = draft.price
      /\ judged.obs = draft.obs
  BY <1>1, <1>2, <1>3 DEF RowType
<1> HIDE DEF judged
<1>7. /\ r \in RequestType /\ r.draft = judged /\ r.user = req[q].user
  BY <1>1, <1>6 DEF RequestType
<1>8. CallIsSound("matching", r)
  BY <1>5, <1>6, <1>7
     DEF CallIsSound, DraftIsSound, TwinIsSound, ReadIsSound, RewardIsSound,
         VoteStep, CreateStep
<1>9. calls' \in Nat /\ failures' \in Nat /\ "matching" \in Phase
  BY DEF Assess, bounds, IInv, TypeOK, Phase, CreateStep
<1> HIDE DEF r
<1> QED BY <1>4, <1>7, <1>8, <1>9, QuietStep, UntouchedKeepsTypes DEF Assess, IInv

LEMMA FindCorroboratingStep ==
  ASSUME IInv, NEW q \in Request, FindCorroborating(q)
  PROVE  IInv'
<1>1. req[q] \in RequestType /\ reports \in Seq(RowType)
  BY DEF IInv, TypeOK
<1>2. CallIsSound("matching", req[q])
  BY DEF FindCorroborating, IInv, CallsAreSound
<1>3. /\ calls' \in Nat /\ failures' \in Nat /\ "inserting" \in Phase
      /\ UNCHANGED <<world, tables, reputation>>
  BY DEF FindCorroborating, bounds, IInv, TypeOK, Phase, CreateStep
<1>4. CASE Go(q, "inserting", req[q]) /\ CorroboratingReport(req[q].draft) = {}
  <2>1. CallIsSound("inserting", req[q])
    BY <1>2
       DEF CallIsSound, DraftIsSound, TwinIsSound, ReadIsSound, RewardIsSound,
           VoteStep, CreateStep
  <2> QED BY <1>1, <1>3, <1>4, <2>1, QuietStep, UntouchedKeepsTypes DEF IInv
<1>5. CASE \E t \in CorroboratingReport(req[q].draft) :
             Go(q, "inserting", [req[q] EXCEPT !.target = t, !.read = reports[t]])
  <2>1. PICK t \in CorroboratingReport(req[q].draft) :
          Go(q, "inserting", [req[q] EXCEPT !.target = t, !.read = reports[t]])
    BY <1>5
  <2> DEFINE r == [req[q] EXCEPT !.target = t, !.read = reports[t]]
  <2>2. t \in Ids /\ Corroborates(t, req[q].draft)
    BY DEF CorroboratingReport
  <2>3. t \in Nat \ {0} /\ reports[t] \in RowType
    BY <1>1, <2>2, LenProperties, ElementOfSeq DEF Ids
  <2>4. /\ r \in RequestType /\ r.target = t /\ r.read = reports[t]
        /\ r.draft = req[q].draft /\ r.user = req[q].user
    BY <1>1, <2>3 DEF RequestType
  <2>5. /\ reports[t].obs \in 1..Len(observations)
        /\ observations[reports[t].obs] = reports[t].price
        /\ reports[t].price = req[q].draft.price
    <3>1. reports[t].obs \in 0..Len(observations) /\ reports[t].obs # 0
      BY <2>2 DEF Corroborates, IInv, TypeOK
    <3>2. Len(observations) \in Nat
      BY LenProperties DEF IInv, TypeOK
    <3> QED BY <2>2, <3>1, <3>2 DEF Corroborates, IInv, BackedByOwnPrice
  <2> HIDE DEF r
  <2>6. CallIsSound("inserting", r)
    BY <1>2, <2>2, <2>4, <2>5
       DEF CallIsSound, DraftIsSound, TwinIsSound, ReadIsSound, RewardIsSound,
           VoteStep, CreateStep
  <2>7. Go(q, "inserting", r)
    BY <2>1 DEF r
  <2> QED BY <1>3, <2>4, <2>6, <2>7, QuietStep, UntouchedKeepsTypes DEF IInv
<1> QED BY <1>4, <1>5 DEF FindCorroborating

(* Both kinds of submission read the score of their author last.           *)
LEMMA SeenBeforeSaving ==
  ASSUME IInv, NEW q \in Request, CallIsSound("inserting", req[q]),
         Go(q, "saving", [req[q] EXCEPT !.seen = score[req[q].user]]),
         UNCHANGED <<world, tables, reputation>>, calls' \in Nat, failures' \in Nat
  PROVE  IInv'
<1> DEFINE r == [req[q] EXCEPT !.seen = score[req[q].user]]
<1>1. req[q] \in RequestType /\ req[q].user \in User
  BY DEF IInv, TypeOK, CallIsSound, DraftIsSound, CreateStep
<1>2. score[req[q].user] \in Int
  BY <1>1, ScoreIsInt, PriceReportsAssumption DEF ScoreOf, IInv
<1>3. /\ r \in RequestType /\ r.target = req[q].target /\ r.read = req[q].read
      /\ r.draft = req[q].draft /\ r.user = req[q].user
  BY <1>1, <1>2 DEF RequestType
<1> HIDE DEF r
<1>4. CallIsSound("saving", r)
  BY <1>3
     DEF CallIsSound, DraftIsSound, TwinIsSound, ReadIsSound, RewardIsSound,
         VoteStep, CreateStep
<1>5. "saving" \in Phase /\ Go(q, "saving", r)
  BY DEF Phase, CreateStep, r
<1> QED BY <1>3, <1>4, <1>5, QuietStep, UntouchedKeepsTypes DEF IInv

LEMMA BeginInsertStep ==
  ASSUME IInv, NEW q \in Request, BeginInsert(q)
  PROVE  IInv'
<1>1. req[q] \in RequestType /\ CallIsSound("inserting", req[q])
  BY DEF BeginInsert, IInv, TypeOK, CallsAreSound
<1>2. /\ calls' \in Nat /\ failures' \in Nat /\ {"saving", "weighing"} \subseteq Phase
      /\ UNCHANGED <<world, tables, reputation>>
  BY DEF BeginInsert, bounds, IInv, TypeOK, Phase, CreateStep
<1>3. CASE Go(q, "weighing", req[q])
  <2>1. CallIsSound("weighing", req[q])
    BY <1>1
       DEF CallIsSound, DraftIsSound, TwinIsSound, ReadIsSound, RewardIsSound,
           VoteStep, CreateStep
  <2> QED BY <1>1, <1>2, <1>3, <2>1, QuietStep, UntouchedKeepsTypes DEF IInv
<1>4. CASE Go(q, "saving", [req[q] EXCEPT !.seen = score[req[q].user]])
  BY <1>1, <1>2, <1>4, SeenBeforeSaving
<1> QED BY <1>3, <1>4 DEF BeginInsert

LEMMA WeighTwinStep ==
  ASSUME IInv, NEW q \in Request, WeighTwin(q)
  PROVE  IInv'
<1> DEFINE t == req[q].target
           c == ConfidenceOf(req[q].read, NoPrice, FALSE,
                             Count(t, "confirm") + 1, Count(t, "dispute"))
           r == [req[q] EXCEPT !.confidence = c]
<1>1. req[q] \in RequestType /\ CallIsSound("weighing", req[q])
  BY DEF WeighTwin, IInv, TypeOK, CallsAreSound
<1>2. Count(t, "confirm") + 1 \in Nat /\ Count(t, "dispute") \in Nat
  BY CountIsNat DEF IInv, RowsAreReports
<1>3. req[q].read \in RowType
  BY <1>1 DEF RequestType
<1>4. c \in Certainty
  BY <1>2, <1>3, ConfidenceIsCertainty DEF IInv
<1>5. Go(q, "locking", r)
  BY DEF WeighTwin
<1> HIDE DEF c
<1>6. /\ r \in RequestType /\ r.target = t /\ r.read = req[q].read
      /\ r.draft = req[q].draft /\ r.user = req[q].user
  BY <1>1, <1>4 DEF RequestType
<1>7. CallIsSound("locking", r)
  BY <1>1, <1>6
     DEF CallIsSound, DraftIsSound, TwinIsSound, ReadIsSound, RewardIsSound,
         VoteStep, CreateStep
<1>8. calls' \in Nat /\ failures' \in Nat /\ "locking" \in Phase
  BY DEF WeighTwin, bounds, IInv, TypeOK, Phase, CreateStep
<1> HIDE DEF r
<1> QED BY <1>5, <1>6, <1>7, <1>8, QuietStep, UntouchedKeepsTypes DEF WeighTwin, IInv

LEMMA LockTwinStep ==
  ASSUME IInv, NEW q \in Request, LockTwin(q)
  PROVE  IInv'
<1>1. req[q] \in RequestType /\ CallIsSound("locking", req[q])
  BY DEF LockTwin, IInv, TypeOK, CallsAreSound
<1>2. CallIsSound("inserting", req[q])
  BY <1>1
     DEF CallIsSound, DraftIsSound, TwinIsSound, ReadIsSound, RewardIsSound,
         VoteStep, CreateStep
<1> QED BY <1>1, <1>2, SeenBeforeSaving DEF LockTwin, IInv, TypeOK, bounds

-----------------------------------------------------------------------------
(* The steps that write to the tables.                                     *)

(* What the invariant says of one row, given the observations.             *)
RowIsSound(row, obs) ==
  /\ row.price \in Price /\ row.obs \in 0..Len(obs)
  /\ row.status = "accepted" => row.obs # 0
  /\ row.obs # 0 => obs[row.obs] = row.price

LEMMA RowsAreSound ==
  ASSUME IInv
  PROVE  \A r \in Ids : RowIsSound(reports[r], observations)
  BY DEF IInv, TypeOK, RowsAreReports, AcceptedIsBacked, BackedByOwnPrice, RowIsSound

LEMMA SoundRowsSuffice ==
  ASSUME IsFiniteSet(votes'), \A r \in Ids' : RowIsSound(reports'[r], observations')
  PROVE  /\ \A r \in Ids' : reports'[r].obs \in 0..Len(observations')
         /\ RowsAreReports' /\ AcceptedIsBacked' /\ BackedByOwnPrice'
  BY DEF RowsAreReports, AcceptedIsBacked, BackedByOwnPrice, RowIsSound

LEMMA Appending ==
  ASSUME NEW S, NEW s \in Seq(S), NEW x \in S
  PROVE  /\ Append(s, x) \in Seq(S) /\ Len(s) \in Nat
         /\ Len(Append(s, x)) = Len(s) + 1
         /\ 1..Len(Append(s, x)) = 1..Len(s) \cup {Len(s) + 1}
         /\ \A i \in 1..Len(s) : Append(s, x)[i] = s[i]
         /\ Append(s, x)[Len(s) + 1] = x
<1>1. Len(s) \in Nat
  BY LenProperties
<1>2. /\ Append(s, x) \in Seq(S) /\ Len(Append(s, x)) = Len(s) + 1
      /\ \A i \in 1..Len(s) : Append(s, x)[i] = s[i]
      /\ Append(s, x)[Len(s) + 1] = x
  BY AppendProperties
<1> QED BY <1>1, <1>2

LEMMA Replacing ==
  ASSUME NEW S, NEW s \in Seq(S), NEW x \in S, NEW i \in 1..Len(s)
  PROVE  /\ [s EXCEPT ![i] = x] \in Seq(S)
         /\ Len([s EXCEPT ![i] = x]) = Len(s)
         /\ [s EXCEPT ![i] = x][i] = x
         /\ \A j \in 1..Len(s) \ {i} : [s EXCEPT ![i] = x][j] = s[j]
  BY ExceptSeq

LEMMA RowStaysSound ==
  ASSUME NEW row, NEW old \in Seq(Price), NEW p \in Price, RowIsSound(row, old)
  PROVE  RowIsSound(row, Append(old, p))
<1>1. /\ Len(old) \in Nat /\ Len(Append(old, p)) = Len(old) + 1
      /\ \A o \in 1..Len(old) : Append(old, p)[o] = old[o]
  BY Appending
<1>2. row.obs \in 0..Len(old) /\ (row.obs # 0 => row.obs \in 1..Len(old))
  BY <1>1 DEF RowIsSound
<1> QED BY <1>1, <1>2 DEF RowIsSound

LEMMA RowAppended ==
  ASSUME NEW rows \in Seq(RowType), NEW row \in RowType, reports' = Append(rows, row)
  PROVE  /\ reports' \in Seq(RowType) /\ Len(rows) \in Nat
         /\ Len(reports') = Len(rows) + 1
         /\ Ids' = 1..Len(rows) \cup {Len(rows) + 1}
         /\ \A r \in 1..Len(rows) : reports'[r] = rows[r]
         /\ reports'[Len(rows) + 1] = row
<1>1. /\ Append(rows, row) \in Seq(RowType) /\ Len(rows) \in Nat
      /\ Len(Append(rows, row)) = Len(rows) + 1
      /\ 1..Len(Append(rows, row)) = 1..Len(rows) \cup {Len(rows) + 1}
      /\ \A r \in 1..Len(rows) : Append(rows, row)[r] = rows[r]
      /\ Append(rows, row)[Len(rows) + 1] = row
  BY Appending
<1> QED BY <1>1, Zenon DEF Ids

LEMMA RowReplaced ==
  ASSUME reports \in Seq(RowType), NEW t \in Ids, NEW row \in RowType,
         NEW rows, rows = [reports EXCEPT ![t] = row]
  PROVE  /\ rows \in Seq(RowType) /\ Len(rows) = Len(reports) /\ 1..Len(rows) = Ids
         /\ rows[t] = row
         /\ \A r \in Ids \ {t} : rows[r] = reports[r]
<1>1. /\ [reports EXCEPT ![t] = row] \in Seq(RowType)
      /\ Len([reports EXCEPT ![t] = row]) = Len(reports)
      /\ [reports EXCEPT ![t] = row][t] = row
      /\ \A r \in 1..Len(reports) \ {t} : [reports EXCEPT ![t] = row][r] = reports[r]
  BY Replacing DEF Ids
<1> QED BY <1>1, Zenon DEF Ids

(* A step that writes sound rows, and at most one observation more.        *)
LEMMA RowsAreWritten ==
  ASSUME IInv, NEW q \in Request, NEW step \in {"idle", "awarding"},
         NEW known \in RequestType, Go(q, step, known),
         \/ observations' = observations
         \/ \E p \in Price : observations' = Append(observations, p),
         reports' \in Seq(RowType), Len(reports) <= Len(reports'),
         \A r \in Ids : /\ reports'[r].price = reports[r].price
                        /\ reports[r].obs # 0 => reports'[r].obs # 0,
         \A r \in Ids' : RowIsSound(reports'[r], observations'),
         UNCHANGED <<world, accounts, votes>>, evidence' \subseteq Ids',
         score' \in [User -> REPUTATION_MIN..REPUTATION_MAX],
         events' \in [User -> Seq(Int)], UNCHANGED bounds
  PROVE  IInv'
<1>1. /\ observations' \in Seq(Price) /\ Len(observations) <= Len(observations')
      /\ \A o \in 1..Len(observations) : observations'[o] = observations[o]
  <2>1. observations \in Seq(Price)
    BY DEF IInv, TypeOK
  <2>2. CASE observations' = observations
    BY <2>1, <2>2, LenProperties
  <2>3. ASSUME NEW p \in Price, observations' = Append(observations, p)
        PROVE  /\ observations' \in Seq(Price)
               /\ Len(observations) <= Len(observations')
               /\ \A o \in 1..Len(observations) : observations'[o] = observations[o]
    <3>1. /\ Append(observations, p) \in Seq(Price) /\ Len(observations) \in Nat
          /\ Len(Append(observations, p)) = Len(observations) + 1
          /\ \A o \in 1..Len(observations) : Append(observations, p)[o] = observations[o]
      BY <2>1, Appending
    <3>2. Len(observations) <= Len(Append(observations, p))
      BY <3>1
    <3> QED BY <2>3, <3>1, <3>2, Zenon
  <2> QED BY <2>2, <2>3
<1>2. Grows
  BY <1>1, Zenon DEF Grows
<1>3. IsFiniteSet(votes')
  BY DEF IInv, RowsAreReports
<1>4. /\ \A r \in Ids' : reports'[r].obs \in 0..Len(observations')
      /\ RowsAreReports' /\ AcceptedIsBacked' /\ BackedByOwnPrice'
  BY <1>3, SoundRowsSuffice
<1>5. step \in Phase
  BY DEF Phase, AwardStep
<1>6. phase' \in [Request -> Phase] /\ req' \in [Request -> RequestType]
  BY <1>5, GoMovesOne DEF IInv
<1>7. TypeOK'
  BY <1>1, <1>4, <1>6 DEF IInv, TypeOK, world, bounds
<1> QED BY <1>2, <1>4, <1>7, WritingStep

LEMMA SavePendingStep ==
  ASSUME IInv, NEW q \in Request, SavePending(q)
  PROVE  IInv'
<1> DEFINE row == req[q].draft
<1>1. req[q] \in RequestType /\ CallIsSound("saving", req[q]) /\ row.status = "pending"
  BY DEF SavePending, IInv, TypeOK, CallsAreSound
<1>2. row \in RowType /\ row.price \in Price /\ row.obs = 0
  BY <1>1 DEF RequestType, CallIsSound, DraftIsSound, CreateStep
<1>3. /\ reports' = Append(reports, row) /\ reports \in Seq(RowType)
      /\ observations' = observations /\ Len(observations) \in Nat
  BY LenProperties DEF SavePending, IInv, TypeOK
<1>4. RowIsSound(row, observations)
  BY <1>1, <1>2, <1>3 DEF RowIsSound
<1> HIDE DEF row
<1>5. /\ reports' \in Seq(RowType) /\ Len(reports) \in Nat /\ Len(reports') = Len(reports) + 1
      /\ Ids' = Ids \cup {Len(reports) + 1}
      /\ \A r \in Ids : reports'[r] = reports[r]
      /\ reports'[Len(reports) + 1] = row
  BY <1>2, <1>3, RowAppended, Zenon DEF Ids
<1>6. \A r \in Ids' : RowIsSound(reports'[r], observations')
  BY <1>3, <1>4, <1>5, RowsAreSound
<1>7. Len(reports) <= Len(reports')
  BY <1>5
<1>8. evidence' \subseteq Ids'
  BY <1>5 DEF SavePending, LinkPhoto, IInv, TypeOK
<1> QED BY <1>3, <1>5, <1>6, <1>7, <1>8, RowsAreWritten, NoRequestTyped
        DEF SavePending, Finish, IInv, TypeOK, reputation

LEMMA SaveAcceptedStep ==
  ASSUME IInv, NEW q \in Request, SaveAccepted(q)
  PROVE  IInv'
<1> DEFINE draft == req[q].draft
           row == [draft EXCEPT !.obs = Len(observations) + 1]
<1>1. req[q] \in RequestType /\ CallIsSound("saving", req[q])
  BY DEF SaveAccepted, IInv, TypeOK, CallsAreSound
<1>2. draft \in RowType /\ draft.price \in Price /\ req[q].user \in User /\ req[q].seen \in Int
  BY <1>1 DEF RequestType, CallIsSound, DraftIsSound, CreateStep
<1>3. /\ reports' = Append(reports, row) /\ reports \in Seq(RowType)
      /\ observations' = Append(observations, draft.price) /\ observations \in Seq(Price)
  BY DEF SaveAccepted, IInv, TypeOK
<1> HIDE DEF draft
<1>4. /\ Len(observations) \in Nat
      /\ Len(observations') = Len(observations) + 1
      /\ observations'[Len(observations) + 1] = draft.price
  BY <1>2, <1>3, Appending
<1>5. row \in RowType /\ row.price = draft.price /\ row.obs = Len(observations) + 1
  BY <1>2, <1>4 DEF RowType
<1> HIDE DEF row
<1>6. RowIsSound(row, observations')
  BY <1>2, <1>4, <1>5 DEF RowIsSound
<1>7. /\ reports' \in Seq(RowType) /\ Len(reports) \in Nat /\ Len(reports') = Len(reports) + 1
      /\ Ids' = Ids \cup {Len(reports) + 1}
      /\ \A r \in Ids : reports'[r] = reports[r]
      /\ reports'[Len(reports) + 1] = row
  BY <1>3, <1>5, RowAppended, Zenon DEF Ids
<1>8. \A r \in Ids : RowIsSound(reports'[r], observations')
  <2>1. \A r \in Ids : RowIsSound(reports[r], observations)
    BY RowsAreSound
  <2> QED BY <1>2, <1>3, <1>7, <2>1, RowStaysSound, Zenon
<1>9. \A r \in Ids' : RowIsSound(reports'[r], observations')
  BY <1>6, <1>7, <1>8
<1>10. Len(reports) <= Len(reports')
  BY <1>7
<1>11. evidence' \subseteq Ids'
  BY <1>7 DEF SaveAccepted, LinkPhoto, IInv, TypeOK
<1>12. /\ score' \in [User -> REPUTATION_MIN..REPUTATION_MAX]
       /\ events' \in [User -> Seq(Int)]
  BY <1>2, RecordKeepsTypes DEF SaveAccepted, IInv, reportSubmitted
<1>13. \A r \in Ids : /\ reports'[r].price = reports[r].price
                      /\ reports[r].obs # 0 => reports'[r].obs # 0
  BY <1>7
<1>14. \E p \in Price : observations' = Append(observations, p)
  BY <1>2, <1>3
<1> QED BY <1>7, <1>9, <1>10, <1>11, <1>12, <1>13, <1>14, RowsAreWritten, NoRequestTyped
        DEF SaveAccepted, Finish

LEMMA SaveCorroboratingStep ==
  ASSUME IInv, NEW q \in Request, SaveCorroborating(q)
  PROVE  IInv'
<1> DEFINE t == req[q].target
           draft == req[q].draft
           twin == [reports[t] EXCEPT !.confidence = req[q].confidence]
           rows == [reports EXCEPT ![t] = twin]
           row == [draft EXCEPT !.obs = req[q].read.obs]
<1>1. req[q] \in RequestType /\ CallIsSound("saving", req[q]) /\ t # 0
  BY DEF SaveCorroborating, IInv, TypeOK, CallsAreSound
<1>2. /\ draft \in RowType /\ draft.price \in Price /\ req[q].user \in User
      /\ req[q].seen \in Int /\ req[q].confidence \in Certainty /\ req[q].read.obs \in Nat
  BY <1>1 DEF RequestType, RowType, CallIsSound, DraftIsSound, CreateStep
<1>3. /\ t \in Ids /\ req[q].read.obs \in 1..Len(observations)
      /\ observations[req[q].read.obs] = draft.price
  BY <1>1 DEF CallIsSound, TwinIsSound
<1>4. /\ reports \in Seq(RowType) /\ Len(reports) \in Nat
      /\ observations' = observations /\ Len(observations) \in Nat
      /\ reports' = Append(rows, row)
  BY LenProperties DEF SaveCorroborating, IInv, TypeOK
<1>5. reports[t] \in RowType
  BY <1>3, <1>4, ElementOfSeq DEF Ids
<1>6. /\ twin \in RowType /\ twin.price = reports[t].price
      /\ twin.obs = reports[t].obs /\ twin.status = reports[t].status
  BY <1>2, <1>5 DEF RowType
<1>7. row \in RowType /\ row.price = draft.price /\ row.obs = req[q].read.obs
  BY <1>2 DEF RowType
<1> HIDE DEF draft, t, twin
<1>8. /\ rows \in Seq(RowType) /\ Len(rows) = Len(reports) /\ 1..Len(rows) = Ids
      /\ rows[t] = twin
      /\ \A r \in Ids \ {t} : rows[r] = reports[r]
  BY <1>3, <1>4, <1>6, RowReplaced
<1> HIDE DEF rows, row
<1>9. /\ reports' \in Seq(RowType) /\ Len(reports') = Len(reports) + 1
      /\ Ids' = Ids \cup {Len(reports) + 1}
      /\ \A r \in Ids : reports'[r] = rows[r]
      /\ reports'[Len(reports) + 1] = row
  BY <1>4, <1>7, <1>8, RowAppended
<1>10. RowIsSound(row, observations)
  BY <1>2, <1>3, <1>4, <1>7 DEF RowIsSound
<1>11. RowIsSound(twin, observations)
  BY <1>3, <1>6, RowsAreSound DEF RowIsSound
<1>12. \A r \in Ids' : RowIsSound(reports'[r], observations')
  BY <1>4, <1>8, <1>9, <1>10, <1>11, RowsAreSound
<1>13. \A r \in Ids : /\ reports'[r].price = reports[r].price
                      /\ reports[r].obs # 0 => reports'[r].obs # 0
  BY <1>6, <1>8, <1>9
<1>14. Len(reports) <= Len(reports')
  BY <1>4, <1>9
<1>15. evidence' \subseteq Ids'
  BY <1>9 DEF SaveCorroborating, IInv, TypeOK
<1>16. /\ score' \in [User -> REPUTATION_MIN..REPUTATION_MAX]
       /\ events' \in [User -> Seq(Int)]
  BY <1>2, RecordKeepsTypes DEF SaveCorroborating, IInv, reportSubmitted
<1> QED BY <1>4, <1>9, <1>12, <1>13, <1>14, <1>15, <1>16, RowsAreWritten, NoRequestTyped
        DEF SaveCorroborating, Finish

(* The end of a vote, with the points that are due or none.                *)
LEMMA AfterUpdateGoes ==
  ASSUME IInv, NEW q \in Request, AfterUpdate(q)
  PROVE  \E step \in {"idle", "awarding"}, r \in RequestType : Go(q, step, r)
<1>1. req[q] \in RequestType
  BY DEF IInv, TypeOK
<1>2. Points[req[q].vote] \in Int
  BY <1>1 DEF RequestType, Ballot, Points
<1>3. Owed(q) \subseteq Reward
  BY <1>1, <1>2 DEF Owed, Reward, RequestType
<1>4. [NoRequest EXCEPT !.due = Owed(q)] \in RequestType
  BY <1>3, NoRequestTyped DEF RequestType
<1> QED BY <1>4, NoRequestTyped DEF AfterUpdate, Finish

LEMMA KeepReportStep ==
  ASSUME IInv, NEW q \in Request, KeepReport(q)
  PROVE  IInv'
<1> DEFINE t == req[q].target
           row == [reports[t] EXCEPT !.status = req[q].status,
                                     !.confidence = req[q].confidence]
<1>1. req[q] \in RequestType /\ CallIsSound("updating", req[q])
  BY DEF KeepReport, IInv, TypeOK, CallsAreSound
<1>2. /\ t \in Ids /\ (req[q].read.obs # 0 => reports[t].obs # 0)
      /\ req[q].status \in Status /\ req[q].confidence \in Certainty
  BY <1>1 DEF RequestType, CallIsSound, ReadIsSound, VoteStep
<1>3. /\ reports \in Seq(RowType) /\ observations' = observations
      /\ reports' = [reports EXCEPT ![t] = row] /\ Len(reports) \in Nat
  BY LenProperties DEF KeepReport, IInv, TypeOK
<1>4. reports[t] \in RowType
  BY <1>2, <1>3, ElementOfSeq DEF Ids
<1>5. /\ row \in RowType /\ row.price = reports[t].price
      /\ row.obs = reports[t].obs /\ row.status = req[q].status
  BY <1>2, <1>4 DEF RowType
<1>6. req[q].status = "accepted" => req[q].read.obs # 0
  BY DEF KeepReport, Promotes
<1> HIDE DEF t, row
<1>7. RowIsSound(row, observations)
  BY <1>2, <1>5, <1>6, RowsAreSound DEF RowIsSound
<1>8. /\ reports' \in Seq(RowType) /\ Len(reports') = Len(reports) /\ Ids' = Ids
      /\ reports'[t] = row
      /\ \A r \in Ids \ {t} : reports'[r] = reports[r]
  <2>1. /\ reports' \in Seq(RowType) /\ Len(reports') = Len(reports)
        /\ reports'[t] = row
        /\ \A r \in Ids \ {t} : reports'[r] = reports[r]
    BY <1>2, <1>3, <1>5, RowReplaced
  <2> QED BY <2>1 DEF Ids
<1>9. \A r \in Ids' : RowIsSound(reports'[r], observations')
  BY <1>3, <1>7, <1>8, RowsAreSound
<1>10. \A r \in Ids : /\ reports'[r].price = reports[r].price
                      /\ reports[r].obs # 0 => reports'[r].obs # 0
  BY <1>5, <1>8
<1>11. Len(reports) <= Len(reports')
  BY <1>3, <1>8
<1>12. evidence' \subseteq Ids'
  BY <1>8 DEF KeepReport, IInv, TypeOK
<1>13. PICK step \in {"idle", "awarding"}, r \in RequestType : Go(q, step, r)
  BY AfterUpdateGoes DEF KeepReport
<1> QED BY <1>3, <1>8, <1>9, <1>10, <1>11, <1>12, <1>13, RowsAreWritten
        DEF KeepReport, IInv, TypeOK, reputation

LEMMA PromoteReportStep ==
  ASSUME IInv, NEW q \in Request, PromoteReport(q)
  PROVE  IInv'
<1> DEFINE t == req[q].target
           price == req[q].read.price
           row == [reports[t] EXCEPT !.status = req[q].status,
                                     !.confidence = req[q].confidence,
                                     !.obs = Len(observations) + 1]
<1>1. req[q] \in RequestType /\ CallIsSound("updating", req[q])
  BY DEF PromoteReport, IInv, TypeOK, CallsAreSound
<1>2. /\ t \in Ids /\ price = reports[t].price /\ req[q].seen \in Int
      /\ req[q].status \in Status /\ req[q].confidence \in Certainty
      /\ req[q].read.author \in User \cup {NoUser}
  BY <1>1 DEF RequestType, RowType, CallIsSound, ReadIsSound, VoteStep
<1>3. /\ reports \in Seq(RowType) /\ observations \in Seq(Price)
      /\ observations' = Append(observations, price)
      /\ reports' = [reports EXCEPT ![t] = row] /\ Len(reports) \in Nat
  BY LenProperties DEF PromoteReport, IInv, TypeOK
<1>4. reports[t] \in RowType /\ price \in Price
  BY <1>2, <1>3, ElementOfSeq DEF Ids, IInv, RowsAreReports
<1> HIDE DEF price
<1>5. /\ Len(observations) \in Nat
      /\ Len(observations') = Len(observations) + 1
      /\ observations'[Len(observations) + 1] = price
  BY <1>3, <1>4, Appending
<1>6. row \in RowType /\ row.price = reports[t].price /\ row.obs = Len(observations) + 1
  <2> DEFINE next == Len(observations) + 1
  <2>1. next \in Nat
    BY <1>5
  <2> HIDE DEF next
  <2>2. [reports[t] EXCEPT !.status = req[q].status, !.confidence = req[q].confidence,
                           !.obs = next] \in RowType
    BY <1>2, <1>4, <2>1 DEF RowType
  <2>3. row \in RowType
    BY <2>2 DEF next
  <2> QED BY <1>4, <2>3 DEF RowType
<1> HIDE DEF t, row
<1>7. RowIsSound(row, observations')
  BY <1>2, <1>4, <1>5, <1>6 DEF RowIsSound
<1>8. /\ reports' \in Seq(RowType) /\ Len(reports') = Len(reports) /\ Ids' = Ids
      /\ reports'[t] = row
      /\ \A r \in Ids \ {t} : reports'[r] = reports[r]
  <2>1. /\ reports' \in Seq(RowType) /\ Len(reports') = Len(reports)
        /\ reports'[t] = row
        /\ \A r \in Ids \ {t} : reports'[r] = reports[r]
    BY <1>2, <1>3, <1>6, RowReplaced
  <2> QED BY <2>1 DEF Ids
<1>9. \A r \in Ids \ {t} : RowIsSound(reports'[r], observations')
  <2>1. \A r \in Ids : RowIsSound(reports[r], observations)
    BY RowsAreSound
  <2> QED BY <1>3, <1>4, <1>8, <2>1, RowStaysSound, Zenon
<1>10. \A r \in Ids' : RowIsSound(reports'[r], observations')
  BY <1>7, <1>8, <1>9
<1>11. \A r \in Ids : /\ reports'[r].price = reports[r].price
                      /\ reports[r].obs # 0 => reports'[r].obs # 0
  BY <1>5, <1>6, <1>8
<1>12. Len(reports) <= Len(reports')
  BY <1>3, <1>8
<1>13. evidence' \subseteq Ids'
  BY <1>8 DEF PromoteReport, IInv, TypeOK
<1>14. /\ score' \in [User -> REPUTATION_MIN..REPUTATION_MAX]
       /\ events' \in [User -> Seq(Int)]
  <2>1. CASE req[q].read.author = NoUser
    BY <2>1 DEF PromoteReport, IInv, TypeOK, reputation
  <2>2. CASE req[q].read.author # NoUser
    <3>1. Record(req[q].read.author, reportSubmitted, req[q].seen)
      BY <2>2 DEF PromoteReport
    <3>2. req[q].read.author \in User /\ reportSubmitted \in Int
      BY <1>2, <2>2 DEF reportSubmitted
    <3> QED BY <1>2, <3>1, <3>2, RecordKeepsTypes DEF IInv
  <2> QED BY <2>1, <2>2
<1>15. PICK step \in {"idle", "awarding"}, r \in RequestType : Go(q, step, r)
  BY AfterUpdateGoes DEF PromoteReport
<1>16. \E p \in Price : observations' = Append(observations, p)
  BY <1>3, <1>4
<1> QED BY <1>8, <1>10, <1>11, <1>12, <1>13, <1>14, <1>15, <1>16, RowsAreWritten
        DEF PromoteReport

-----------------------------------------------------------------------------
(* The steps of a vote, of the rewards, and of everybody else.             *)

LEMMA BeginVoteStep ==
  ASSUME IInv, NEW q \in Request, BeginVote(q)
  PROVE  IInv'
<1>1. PICK u \in accounts, t \in Ids, vote \in Ballot :
        Go(q, "voting", [NoRequest EXCEPT !.user = u, !.target = t, !.vote = vote,
                                          !.author = reports[t].author])
  BY DEF BeginVote
<1> DEFINE r == [NoRequest EXCEPT !.user = u, !.target = t, !.vote = vote,
                                  !.author = reports[t].author]
<1>2. reports \in Seq(RowType) /\ Len(reports) \in Nat /\ u \in User
  BY LenProperties DEF IInv, TypeOK
<1>3. reports[t] \in RowType /\ t \in Nat
  BY <1>2, ElementOfSeq DEF Ids
<1>4. reports[t].author \in User \cup {NoUser}
  BY <1>3 DEF RowType
<1>5. r \in RequestType /\ r.user = u /\ r.target = t
  BY <1>2, <1>3, <1>4, NoRequestTyped DEF RequestType, NoRequest
<1> HIDE DEF r
<1>6. CallIsSound("voting", r)
  BY <1>2, <1>5
     DEF CallIsSound, DraftIsSound, TwinIsSound, ReadIsSound, RewardIsSound,
         CreateStep
<1>7. calls' \in Nat /\ failures' \in Nat /\ "voting" \in Phase
  BY DEF BeginVote, IInv, TypeOK, Phase, VoteStep
<1>8. Go(q, "voting", r)
  BY <1>1 DEF r
<1> QED BY <1>5, <1>6, <1>7, <1>8, QuietStep, UntouchedKeepsTypes DEF BeginVote, IInv

LEMMA CastVoteStep ==
  ASSUME IInv, NEW q \in Request, CastVote(q)
  PROVE  IInv'
<1> DEFINE cast == [report |-> req[q].target, voter |-> req[q].user, vote |-> req[q].vote]
           others == {v \in votes : v.report # cast.report \/ v.voter # cast.voter}
<1>1. req[q] \in RequestType /\ CallIsSound("voting", req[q])
  BY DEF CastVote, IInv, TypeOK, CallsAreSound
<1>2. req[q].user \in User /\ req[q].target \in Ids
  BY <1>1 DEF CallIsSound, ReadIsSound, VoteStep
<1>3. cast \in VoteType
  BY <1>1, <1>2 DEF VoteType, RequestType
<1>4. votes' = others \cup {cast}
  BY DEF CastVote
<1>5. others \subseteq votes
  OBVIOUS
<1> HIDE DEF cast, others
<1>6. votes' \subseteq VoteType
  BY <1>3, <1>4, <1>5 DEF IInv, TypeOK
<1>7. IsFiniteSet(votes')
  <2>1. IsFiniteSet(others)
    BY <1>5, FS_Subset DEF IInv, RowsAreReports
  <2> QED BY <1>4, <2>1, FS_AddElement
<1>8. Go(q, "reading", req[q]) /\ "reading" \in Phase
  BY DEF CastVote, Phase, VoteStep
<1>9. /\ phase' \in [Request -> Phase] /\ req' \in [Request -> RequestType]
      /\ phase'[q] = "reading" /\ req'[q] = req[q]
      /\ \A p \in Request \ {q} : phase'[p] = phase[p] /\ req'[p] = req[p]
  BY <1>1, <1>8, GoMovesOne DEF IInv
<1>10. TypeOK'
  BY <1>6, <1>9 DEF CastVote, IInv, TypeOK, world, reputation, bounds, Ids
<1>11. RowsAreReports' /\ AcceptedIsBacked' /\ BackedByOwnPrice'
  BY <1>7 DEF CastVote, IInv, RowsAreReports, AcceptedIsBacked, BackedByOwnPrice, Ids
<1>12. CallIsSound(phase[q], req[q])'
  BY <1>2, <1>9
     DEF CallIsSound, DraftIsSound, TwinIsSound, ReadIsSound, RewardIsSound,
         CreateStep, CastVote, Ids
<1>13. ASSUME NEW p \in Request \ {q}  PROVE CallIsSound(phase[p], req[p])'
  BY <1>9, <1>10, SoundStays, UnmovedGrows DEF CastVote, IInv, CallsAreSound
<1> QED BY <1>10, <1>11, <1>12, <1>13 DEF IInv, CallsAreSound

LEMMA ReadReportStep ==
  ASSUME IInv, NEW q \in Request, ReadReport(q)
  PROVE  IInv'
<1> DEFINE t == req[q].target
           r == [req[q] EXCEPT !.read = reports[t]]
<1>1. req[q] \in RequestType /\ CallIsSound("reading", req[q])
  BY DEF ReadReport, IInv, TypeOK, CallsAreSound
<1>2. req[q].user \in User /\ t \in Ids
  BY <1>1 DEF CallIsSound, ReadIsSound, VoteStep
<1>3. reports[t] \in RowType
  BY <1>2, ElementOfSeq DEF Ids, IInv, TypeOK
<1>4. /\ r \in RequestType /\ r.user = req[q].user /\ r.target = t
      /\ r.read = reports[t]
  BY <1>1, <1>3 DEF RequestType
<1>5. Go(q, "counting", r)
  BY DEF ReadReport
<1> HIDE DEF r
<1>6. CallIsSound("counting", r)
  BY <1>2, <1>4
     DEF CallIsSound, DraftIsSound, TwinIsSound, ReadIsSound, RewardIsSound,
         CreateStep
<1>7. calls' \in Nat /\ failures' \in Nat /\ "counting" \in Phase
  BY DEF ReadReport, bounds, IInv, TypeOK, Phase, VoteStep
<1> QED BY <1>4, <1>5, <1>6, <1>7, QuietStep, UntouchedKeepsTypes DEF ReadReport, IInv

LEMMA CountVotesStep ==
  ASSUME IInv, NEW q \in Request, CountVotes(q)
  PROVE  IInv'
<1> DEFINE t == req[q].target
           row == req[q].read
           c == ConfidenceOf(row, official, FALSE, Count(t, "confirm"), Count(t, "dispute"))
           s == Judge(row.status, c, Count(t, "confirm"), Count(t, "dispute"))
           r == [req[q] EXCEPT !.confidence = c, !.status = s]
<1>1. req[q] \in RequestType /\ CallIsSound("counting", req[q])
  BY DEF CountVotes, IInv, TypeOK, CallsAreSound
<1>2. row \in RowType
  BY <1>1 DEF RequestType
<1>3. Count(t, "confirm") \in Nat /\ Count(t, "dispute") \in Nat
  BY CountIsNat DEF IInv, RowsAreReports
<1>4. c \in Certainty
  BY <1>2, <1>3, ConfidenceIsCertainty DEF IInv
<1>5. s \in Status
  <2>1. row.status \in Status
    BY <1>2 DEF RowType
  <2> QED BY <2>1 DEF Judge, Status
<1>6. Go(q, "deciding", r)
  BY DEF CountVotes
<1> HIDE DEF c, s
<1>7. /\ r \in RequestType /\ r.user = req[q].user /\ r.target = t
      /\ r.read = row
  BY <1>1, <1>4, <1>5 DEF RequestType
<1> HIDE DEF r
<1>8. CallIsSound("deciding", r)
  BY <1>1, <1>7
     DEF CallIsSound, DraftIsSound, TwinIsSound, ReadIsSound, RewardIsSound,
         CreateStep, VoteStep
<1>9. calls' \in Nat /\ failures' \in Nat /\ "deciding" \in Phase
  BY DEF CountVotes, bounds, IInv, TypeOK, Phase, VoteStep
<1> QED BY <1>6, <1>7, <1>8, <1>9, QuietStep, UntouchedKeepsTypes DEF CountVotes, IInv

LEMMA BeginRecalculationStep ==
  ASSUME IInv, NEW q \in Request, BeginRecalculation(q)
  PROVE  IInv'
<1> DEFINE seen == IF Promotes(q) THEN ScoreOf(req[q].read.author) ELSE 0
           r == [req[q] EXCEPT !.seen = seen]
<1>1. req[q] \in RequestType /\ CallIsSound("deciding", req[q])
  BY DEF BeginRecalculation, IInv, TypeOK, CallsAreSound
<1>2. seen \in Int
  <2>1. req[q].read.author \in User \cup {NoUser}
    BY <1>1 DEF RequestType, RowType
  <2>2. ScoreOf(req[q].read.author) \in Int
    BY <2>1, ScoreIsInt DEF IInv
  <2> QED BY <2>2
<1>3. Go(q, "updating", r)
  BY DEF BeginRecalculation
<1> HIDE DEF seen
<1>4. /\ r \in RequestType /\ r.user = req[q].user /\ r.target = req[q].target
      /\ r.read = req[q].read
  BY <1>1, <1>2 DEF RequestType
<1> HIDE DEF r
<1>5. CallIsSound("updating", r)
  BY <1>1, <1>4
     DEF CallIsSound, DraftIsSound, TwinIsSound, ReadIsSound, RewardIsSound,
         CreateStep, VoteStep
<1>6. calls' \in Nat /\ failures' \in Nat /\ "updating" \in Phase
  BY DEF BeginRecalculation, bounds, IInv, TypeOK, Phase, VoteStep
<1> QED BY <1>3, <1>4, <1>5, <1>6, QuietStep, UntouchedKeepsTypes
        DEF BeginRecalculation, IInv

LEMMA OfficialPriceStep ==
  ASSUME IInv, NEW q \in Request, OfficialPrice(q)
  PROVE  IInv'
<1>1. official' \in Official \cup {NoPrice} /\ UNCHANGED <<now, tables, reputation>>
  BY DEF OfficialPrice
<1>2. /\ score' \in [User -> REPUTATION_MIN..REPUTATION_MAX]
      /\ events' \in [User -> Seq(Int)] /\ calls' \in Nat /\ failures' \in Nat
  BY DEF OfficialPrice, reputation, IInv, TypeOK
<1>3. Go(q, "reconciling", NoRequest) /\ "reconciling" \in Phase
  BY DEF OfficialPrice, Phase, AwardStep
<1> QED BY <1>1, <1>2, <1>3, QuietStep, NoRequestTyped, IdleIsSound

LEMMA FinishingStep ==
  ASSUME IInv, NEW q \in Request, Finish(q), UNCHANGED <<world, tables, reputation>>,
         calls' \in Nat, failures' \in Nat
  PROVE  IInv'
<1>1. Go(q, "idle", NoRequest) /\ "idle" \in Phase
  BY DEF Finish, Phase
<1> QED BY <1>1, QuietStep, UntouchedKeepsTypes, NoRequestTyped, IdleIsSound DEF IInv

LEMMA ReconcileStep ==
  ASSUME IInv, NEW q \in Request, Reconcile(q)
  PROVE  IInv'
<1> DEFINE due == {[author |-> reports[r].author, points |-> reportMatchedOfficial,
                    report |-> r] : r \in {s \in Ids : Matches(reports[s], official)}}
           r == [NoRequest EXCEPT !.due = due]
<1>1. ASSUME NEW s \in Ids, Matches(reports[s], official)
      PROVE  [author |-> reports[s].author, points |-> reportMatchedOfficial,
              report |-> s] \in Reward
  <2>1. reports[s] \in RowType /\ s \in Nat
    BY ElementOfSeq, LenProperties DEF Ids, IInv, TypeOK
  <2>2. reports[s].author \in User
    BY <1>1, <2>1 DEF Matches, RowType
  <2> QED BY <2>1, <2>2 DEF Reward, reportMatchedOfficial
<1>2. due \subseteq Reward
  BY <1>1
<1>3. calls' \in Nat /\ failures' \in Nat /\ "awarding" \in Phase
  BY DEF Reconcile, bounds, IInv, TypeOK, Phase, AwardStep
<1>4. Finish(q) \/ Go(q, "awarding", r)
  BY DEF Reconcile
<1> HIDE DEF due
<1>5. r \in RequestType
  BY <1>2, NoRequestTyped DEF RequestType
<1> HIDE DEF r
<1>6. CASE Finish(q)
  BY <1>3, <1>6, FinishingStep DEF Reconcile
<1>7. CASE Go(q, "awarding", r)
  BY <1>3, <1>5, <1>7, QuietStep, UntouchedKeepsTypes, IdleIsSound DEF Reconcile, IInv
<1> QED BY <1>4, <1>6, <1>7

LEMMA InsertEventStep ==
  ASSUME IInv, NEW q \in Request, InsertEvent(q)
  PROVE  IInv'
<1>1. PICK e \in req[q].due :
        /\ events' = [events EXCEPT ![e.author] = Append(@, e.points)]
        /\ Go(q, "rewarding", [req[q] EXCEPT !.author = e.author, !.points = e.points,
                                 !.seen = score[e.author], !.due = @ \ {e}])
  BY DEF InsertEvent
<1> DEFINE seen == score[e.author]
           rest == req[q].due \ {e}
           r == [req[q] EXCEPT !.author = e.author, !.points = e.points,
                               !.seen = seen, !.due = rest]
<1>2. req[q] \in RequestType
  BY DEF IInv, TypeOK
<1>3. e.author \in User /\ e.points \in Int /\ rest \subseteq Reward
  BY <1>2 DEF RequestType, Reward
<1>4. seen \in Int
  BY <1>3, ScoreIsInt, PriceReportsAssumption DEF ScoreOf, IInv
<1>5. Go(q, "rewarding", r)
  BY <1>1
<1>6. Append(events[e.author], e.points) \in Seq(Int)
  BY <1>3, AppendProperties DEF IInv, TypeOK
<1>7. events' \in [User -> Seq(Int)]
  BY <1>1, <1>6 DEF IInv, TypeOK
<1> HIDE DEF seen, rest
<1>8. r \in RequestType /\ r.author = e.author
  BY <1>2, <1>3, <1>4 DEF RequestType
<1> HIDE DEF r
<1>9. CallIsSound("rewarding", r)
  BY <1>3, <1>8
     DEF CallIsSound, DraftIsSound, TwinIsSound, ReadIsSound, RewardIsSound,
         CreateStep, VoteStep
<1>10. /\ calls' \in Nat /\ failures' \in Nat /\ "rewarding" \in Phase
       /\ official' \in Official \cup {NoPrice} /\ UNCHANGED <<now, tables>>
       /\ score' \in [User -> REPUTATION_MIN..REPUTATION_MAX]
  BY DEF InsertEvent, bounds, world, IInv, TypeOK, Phase, AwardStep
<1> QED BY <1>5, <1>7, <1>8, <1>9, <1>10, QuietStep

LEMMA WriteScoreStep ==
  ASSUME IInv, NEW q \in Request, WriteScore(q)
  PROVE  IInv'
<1>1. req[q] \in RequestType /\ CallIsSound("rewarding", req[q])
  BY DEF WriteScore, IInv, TypeOK, CallsAreSound
<1>2. req[q].author \in User /\ req[q].seen + req[q].points \in Int
  BY <1>1 DEF CallIsSound, RewardIsSound, RequestType
<1>3. clampScore(req[q].seen + req[q].points) \in REPUTATION_MIN..REPUTATION_MAX
  BY <1>2, ClampScoreBounds
<1>4. /\ score' \in [User -> REPUTATION_MIN..REPUTATION_MAX]
      /\ events' \in [User -> Seq(Int)]
  BY <1>2, <1>3 DEF WriteScore, IInv, TypeOK
<1>5. /\ calls' \in Nat /\ failures' \in Nat /\ {"idle", "awarding"} \subseteq Phase
      /\ official' \in Official \cup {NoPrice} /\ UNCHANGED <<now, tables>>
  BY DEF WriteScore, bounds, world, IInv, TypeOK, Phase, AwardStep
<1>6. Go(q, "idle", NoRequest) \/ Go(q, "awarding", req[q])
  BY DEF WriteScore, Finish
<1> QED BY <1>1, <1>4, <1>5, <1>6, QuietStep, NoRequestTyped, IdleIsSound

(* Steps of nobody's call.                                                 *)
LEMMA DeleteAccountStep ==
  ASSUME IInv, NEW u \in Deletable, DeleteAccount(u)
  PROVE  IInv'
<1>1. /\ reports \in Seq(RowType) /\ Len(reports) \in Nat /\ NoUser \notin User
      /\ observations' = observations /\ UNCHANGED <<phase, req>>
  BY LenProperties, PriceReportsAssumption DEF DeleteAccount, IInv, TypeOK
<1>2. \A r \in Ids : reports[r] \in RowType
  BY <1>1, ElementOfSeq DEF Ids
<1>3. ASSUME NEW r \in Ids
      PROVE  /\ reports'[r] \in RowType
             /\ reports'[r].price = reports[r].price /\ reports'[r].obs = reports[r].obs
             /\ reports'[r].status = reports[r].status
  BY <1>2 DEF DeleteAccount, RowType
<1>4. reports' = [r \in 1..Len(reports) |-> reports'[r]]
  BY DEF DeleteAccount, Ids
<1>5. /\ reports' \in Seq(RowType) /\ Len(reports') = Len(reports) /\ Ids' = Ids
  BY <1>1, <1>3, <1>4 DEF Ids
<1>6. \A r \in Ids' : RowIsSound(reports'[r], observations')
  BY <1>1, <1>3, <1>5, RowsAreSound DEF RowIsSound
<1>7. votes' \subseteq votes /\ IsFiniteSet(votes')
  BY FS_Subset DEF DeleteAccount, IInv, RowsAreReports
<1>8. /\ \A r \in Ids' : reports'[r].obs \in 0..Len(observations')
      /\ RowsAreReports' /\ AcceptedIsBacked' /\ BackedByOwnPrice'
  BY <1>6, <1>7, SoundRowsSuffice
<1>9. /\ score' \in [User -> REPUTATION_MIN..REPUTATION_MAX]
      /\ events' \in [User -> Seq(Int)]
  <2>1. REPUTATION_INITIAL \in REPUTATION_MIN..REPUTATION_MAX
    BY DEF REPUTATION_INITIAL, REPUTATION_MIN, REPUTATION_MAX
  <2>2. <<>> \in Seq(Int)
    BY EmptySeq
  <2> QED BY <2>1, <2>2 DEF DeleteAccount, IInv, TypeOK
<1>10. TypeOK'
  BY <1>1, <1>5, <1>7, <1>8, <1>9 DEF DeleteAccount, IInv, TypeOK, world, bounds
<1>11. Grows
  <2>1. Len(observations) \in Nat
    BY LenProperties DEF IInv, TypeOK
  <2> QED BY <1>1, <1>3, <1>5, <2>1 DEF Grows
<1>12. CallsAreSound'
  BY <1>1, <1>10, <1>11, SoundStays DEF IInv, CallsAreSound
<1> QED BY <1>8, <1>10, <1>12 DEF IInv

LEMMA IdleStep ==
  ASSUME IInv, now' \in Int,
         UNCHANGED <<official, tables, reputation, phase, req, bounds>>
  PROVE  IInv'
<1>1. TypeOK'
  BY DEF IInv, TypeOK, tables, reputation, bounds, Ids
<1>2. RowsAreReports' /\ AcceptedIsBacked' /\ BackedByOwnPrice'
  BY DEF IInv, RowsAreReports, AcceptedIsBacked, BackedByOwnPrice, tables, Ids
<1>3. CallsAreSound'
  BY <1>1, SoundStays, UnmovedGrows DEF IInv, CallsAreSound, tables
<1> QED BY <1>1, <1>2, <1>3 DEF IInv

LEMMA TickStep ==
  ASSUME IInv, Tick
  PROVE  IInv'
<1>1. PICK d \in Pause : now' = now + d
  BY DEF Tick
<1>2. now' \in Int
  BY <1>1, PriceReportsAssumption DEF IInv, TypeOK
<1> QED BY <1>2, IdleStep DEF Tick

-----------------------------------------------------------------------------
(* The invariant, and what it is for.                                      *)

LEMMA StepHolds == IInv /\ [Next]_vars => IInv'
<1> SUFFICES ASSUME IInv, [Next]_vars PROVE IInv'
  OBVIOUS
<1>1. ASSUME NEW q \in Request, SubmitReport(q) \/ BeginVote(q) \/ OfficialPrice(q)
      PROVE  IInv'
  BY <1>1, SubmitReportStep, BeginVoteStep, OfficialPriceStep
<1>2. ASSUME NEW q \in Request, Create(q)  PROVE IInv'
  BY <1>2, AssessStep, FindCorroboratingStep, BeginInsertStep, WeighTwinStep,
     LockTwinStep, SaveCorroboratingStep, SaveAcceptedStep, SavePendingStep
     DEF Create
<1>3. ASSUME NEW q \in Request, Vote(q)  PROVE IInv'
  BY <1>3, CastVoteStep, ReadReportStep, CountVotesStep, BeginRecalculationStep,
     KeepReportStep, PromoteReportStep
     DEF Vote
<1>4. ASSUME NEW q \in Request, Award(q)  PROVE IInv'
  BY <1>4, ReconcileStep, InsertEventStep, WriteScoreStep DEF Award
<1>5. ASSUME NEW q \in Request, Refuse(q) \/ Abort(q)  PROVE IInv'
  <2>1. /\ Finish(q) /\ UNCHANGED <<world, tables, reputation>>
        /\ calls' \in Nat /\ failures' \in Nat
    BY <1>5 DEF Refuse, Abort, bounds, IInv, TypeOK
  <2> QED BY <2>1, FinishingStep
<1>6. ASSUME NEW u \in Deletable, DeleteAccount(u)  PROVE IInv'
  BY <1>6, DeleteAccountStep
<1>7. CASE Tick
  BY <1>7, TickStep
<1>8. CASE UNCHANGED vars
  BY <1>8, IdleStep DEF vars, world, IInv, TypeOK
<1> QED BY <1>1, <1>2, <1>3, <1>4, <1>5, <1>6, <1>7, <1>8 DEF Next, Step, Rest

(* The inductive invariant: every state in which a call may rely on what   *)
(* it read.                                                                *)
THEOREM Invariant == Spec => []IInv
<1> QED BY InitHolds, StepHolds, PTL DEF Spec

(* TypeOK, for any number of accounts, calls and prices.                   *)
THEOREM TypeCorrect == Spec => []TypeOK
<1>1. IInv => TypeOK
  BY DEF IInv
<1> QED BY <1>1, Invariant, PTL

(* AcceptedIsBacked: votes, submissions and deletions may overlap in any   *)
(* number, and an accepted report has its observation.                     *)
THEOREM AcceptedReportsAreBacked == Spec => []AcceptedIsBacked
<1>1. IInv => AcceptedIsBacked
  BY DEF IInv
<1> QED BY <1>1, Invariant, PTL

(* BackedByOwnPrice: no report ever shows the observation of another       *)
(* price.                                                                  *)
THEOREM ObservationsMatchReports == Spec => []BackedByOwnPrice
<1>1. IInv => BackedByOwnPrice
  BY DEF IInv
<1> QED BY <1>1, Invariant, PTL

-----------------------------------------------------------------------------
(* Prices that are far from the official one.                              *)

(* Whatever a call does, only an assessment leads to the matching, and     *)
(* only a count to the decision.                                           *)
LEMMA WayToJudgement ==
  ASSUME TypeOK, NEW p \in Request,
         SubmitReport(p) \/ BeginVote(p) \/ OfficialPrice(p) \/ Step(p) \/ Abort(p)
  PROVE  /\ \A q \in Request \ {p} : phase'[q] = phase[q]
         /\ phase'[p] = "matching" => Assess(p)
         /\ phase'[p] = "deciding" => CountVotes(p)
<1>1. \A s, r : Go(p, s, r) => /\ \A q \in Request \ {p} : phase'[q] = phase[q]
                               /\ phase'[p] = s
  BY DEF Go, TypeOK
<1>2. CASE SubmitReport(p) \/ BeginVote(p) \/ FindCorroborating(p) \/ InsertEvent(p)
  <2>1. \E r : \/ Go(p, "assessing", r) \/ Go(p, "voting", r)
               \/ Go(p, "inserting", r) \/ Go(p, "rewarding", r)
    BY <1>2, Zenon DEF SubmitReport, BeginVote, FindCorroborating, InsertEvent
  <2> QED BY <1>1, <2>1
<1>3. CASE OfficialPrice(p) \/ Refuse(p) \/ Abort(p)
  BY <1>1, <1>3 DEF OfficialPrice, Refuse, Abort, Finish
<1>4. CASE Create(p) /\ ~FindCorroborating(p)
  BY <1>1, <1>4
     DEF Create, Assess, BeginInsert, WeighTwin, LockTwin, SaveCorroborating,
         SaveAccepted, SavePending, Finish
<1>5. CASE Vote(p)
  BY <1>1, <1>5
     DEF Vote, CastVote, ReadReport, CountVotes, BeginRecalculation,
         KeepReport, PromoteReport, AfterUpdate, Finish
<1>6. CASE Award(p) /\ ~InsertEvent(p)
  BY <1>1, <1>6 DEF Award, Reconcile, WriteScore, Finish
<1> QED BY <1>2, <1>3, <1>4, <1>5, <1>6 DEF Step

LEMMA JudgementIsMade ==
  ASSUME TypeOK, Next, NEW q \in Request, phase'[q] # phase[q]
  PROVE  /\ phase'[q] = "matching" => Assess(q)
         /\ phase'[q] = "deciding" => CountVotes(q)
<1>1. ~(\E u \in Deletable : DeleteAccount(u)) /\ ~Tick /\ ~Rest
  BY DEF DeleteAccount, Tick, Rest, vars
<1>2. PICK p \in Request :
        SubmitReport(p) \/ BeginVote(p) \/ OfficialPrice(p) \/ Step(p) \/ Abort(p)
  BY <1>1 DEF Next
<1> QED BY <1>2, WayToJudgement

(* An assessment counts no votes, so a far price is never accepted by it.  *)
LEMMA FarPriceIsPending ==
  ASSUME IInv, NEW q \in Request, Assess(q), isAnomaly(req[q].draft.price, official)
  PROVE  req'[q].draft.status = "pending"
<1> DEFINE draft == req[q].draft
           c == ConfidenceOf(draft, official, draft.photo, 0, 0)
<1>1. req[q] \in RequestType /\ draft \in RowType /\ draft.photo \in BOOLEAN
  BY DEF IInv, TypeOK, RequestType, RowType
<1>2. ScoreOf(draft.author) \in Int /\ draft.distance \in Distance
      /\ now - draft.reportedAt \in Int
  BY <1>1, ScoreIsInt DEF IInv, TypeOK, RowType
<1>3. isAnomaly(draft.price, official) = TRUE
  BY AnomalyIsBoolean
<1>4. ~(c >= AUTO_ACCEPT_CONFIDENCE_THRESHOLD)
  <2>1. c >= AUTO_ACCEPT_CONFIDENCE_THRESHOLD => 0 > 0
    BY <1>1, <1>2, <1>3, AnomalyIsNotAccepted, Zenon DEF ConfidenceOf
  <2> QED BY <2>1
<1>5. req'[q] = [req[q] EXCEPT !.draft =
                   [draft EXCEPT !.confidence = c, !.status = "pending"]]
  BY <1>4 DEF Assess, Go, IInv, TypeOK
<1> HIDE DEF c, draft
<1> QED BY <1>1, <1>5 DEF RequestType, RowType

(* A recalculation asks for no photo, so only confirmations can lift the   *)
(* confidence of a far price.                                              *)
LEMMA FarPriceNeedsVotes ==
  ASSUME IInv, NEW q \in Request, CountVotes(q),
         isAnomaly(req[q].read.price, official),
         req[q].read.status # "accepted", req'[q].status = "accepted"
  PROVE  Count(req[q].target, "confirm") >= Count(req[q].target, "dispute") + 4
<1> DEFINE row == req[q].read
           confirms == Count(req[q].target, "confirm")
           disputes == Count(req[q].target, "dispute")
           c == ConfidenceOf(row, official, FALSE, confirms, disputes)
<1>1. req[q] \in RequestType /\ row \in RowType
  BY DEF IInv, TypeOK, RequestType
<1>2. ScoreOf(row.author) \in Int /\ row.distance \in Distance
      /\ now - row.reportedAt \in Int
  BY <1>1, ScoreIsInt DEF IInv, TypeOK, RowType
<1>3. isAnomaly(row.price, official) = TRUE
  BY AnomalyIsBoolean
<1>4. confirms \in Nat /\ disputes \in Nat
  BY CountIsNat DEF IInv, RowsAreReports
<1>5. req'[q].status = Judge(row.status, c, confirms, disputes)
  <2> DEFINE s == Judge(row.status, c, confirms, disputes)
  <2>1. req'[q] = [req[q] EXCEPT !.confidence = c, !.status = s]
    BY DEF CountVotes, Go, IInv, TypeOK
  <2> HIDE DEF s, c
  <2>2. req'[q].status = s
    BY <1>1, <2>1 DEF RequestType
  <2> QED BY <2>2 DEF s, c
<1>6. c >= AUTO_ACCEPT_CONFIDENCE_THRESHOLD
  BY <1>5 DEF Judge
<1>7. FALSE = TRUE \/ confirms >= disputes + 4
  BY <1>2, <1>3, <1>4, <1>6, AnomalyIsNotAccepted, Zenon DEF ConfidenceOf
<1> QED BY <1>7

(* AnomalyNeedsConfirmations, whatever the prices, reputations, photos and *)
(* numbers of votes are.                                                   *)
THEOREM AnomaliesNeedConfirmations == Spec => AnomalyNeedsConfirmations
<1> DEFINE Judged ==
      \A q \in Request :
        /\ /\ phase[q] = "assessing" /\ phase'[q] = "matching"
           /\ isAnomaly(req[q].draft.price, official)
           => req'[q].draft.status = "pending"
        /\ /\ phase[q] = "counting" /\ phase'[q] = "deciding"
           /\ isAnomaly(req[q].read.price, official)
           /\ req[q].read.status # "accepted" /\ req'[q].status = "accepted"
           => Count(req[q].target, "confirm") >= Count(req[q].target, "dispute") + 4
<1>1. ASSUME IInv, Next  PROVE Judged
  <2> SUFFICES ASSUME NEW q \in Request
               PROVE  /\ /\ phase[q] = "assessing" /\ phase'[q] = "matching"
                         /\ isAnomaly(req[q].draft.price, official)
                         => req'[q].draft.status = "pending"
                      /\ /\ phase[q] = "counting" /\ phase'[q] = "deciding"
                         /\ isAnomaly(req[q].read.price, official)
                         /\ req[q].read.status # "accepted"
                         /\ req'[q].status = "accepted"
                         => Count(req[q].target, "confirm")
                              >= Count(req[q].target, "dispute") + 4
    OBVIOUS
  <2>1. CASE phase[q] = "assessing" /\ phase'[q] = "matching"
    BY <1>1, <2>1, JudgementIsMade, FarPriceIsPending DEF IInv
  <2>2. CASE phase[q] = "counting" /\ phase'[q] = "deciding"
    BY <1>1, <2>2, JudgementIsMade, FarPriceNeedsVotes DEF IInv
  <2> QED BY <2>1, <2>2
<1>2. IInv /\ [Next]_vars => [Judged]_vars
  BY <1>1
<1> QED BY <1>2, Invariant, PTL DEF Spec, AnomalyNeedsConfirmations

-----------------------------------------------------------------------------
(* Calls that meet.  A call that nobody has disturbed still knows what it  *)
(* looked up: nobody else has stored the report it is about to store, the  *)
(* report it judges has not got an observation meanwhile, and it has seen  *)
(* every vote.                                                             *)

Outvoted(r) == Count(r, "dispute") >= 2 /\ Count(r, "dispute") > Count(r, "confirm")

\* The price the call is about to store has been stored for its user within
\* the cooldown.
Repeated(p) ==
  \E r \in Ids : /\ reports[r].author = req[p].user
                 /\ reports[r].price = req[p].draft.price
                 /\ now - reports[r].createdAt \in 0..CooldownUnits

IsFresh(p) ==
  /\ phase[p] \in CreateStep => ~Repeated(p)
  /\ phase[p] \in {"counting", "deciding", "updating"} /\ req[p].read.obs = 0 =>
       reports[req[p].target].obs = 0
  /\ phase[p] \in {"deciding", "updating"} /\ Outvoted(req[p].target) =>
       req[p].status = "disputed"

VotesAreKnown == \A v \in votes : v.report \in Ids

DraftsAreOwn == \A p \in Request : phase[p] \in CreateStep => req[p].draft.author = req[p].user

\* Somebody has read the report and not yet written its judgement.
IsJudged(r) == \E p \in Request : Window(p) = {<<"report", r>>}

MeetInv ==
  /\ \A p \in Request : Meets(p) => p \in disturbed
  /\ VotesAreKnown /\ DraftsAreOwn
  /\ \A p \in Request \ disturbed : IsFresh(p)
  /\ \A r \in Ids \ stale : ~IsJudged(r) /\ Outvoted(r) => reports[r].status = "disputed"

LEMMA PriceAndReportDiffer ==
  ASSUME NEW u, NEW price, NEW r
  PROVE  <<"price", u, price>> # <<"report", r>>
  OBVIOUS

LEMMA WindowOf ==
  ASSUME NEW q \in Request
  PROVE  /\ phase[q] \in CreateStep =>
              Window(q) = {<<"price", req[q].user, req[q].draft.price>>}
         /\ phase[q] \in {"reading", "counting", "deciding", "updating"} =>
              Window(q) = {<<"report", req[q].target>>}
         /\ phase[q] \notin CreateStep \cup {"reading", "counting", "deciding", "updating"} =>
              Window(q) = {}
  BY DEF Window, CreateStep, VoteStep

LEMMA ReportWindow ==
  ASSUME NEW q \in Request, NEW r, Window(q) = {<<"report", r>>}
  PROVE  /\ phase[q] \in {"reading", "counting", "deciding", "updating"}
         /\ req[q].target = r
<1>1. phase[q] \notin CreateStep
  <2> SUFFICES ASSUME phase[q] \in CreateStep  PROVE FALSE
    OBVIOUS
  <2> PICK u, price : u = req[q].user /\ price = req[q].draft.price
    OBVIOUS
  <2>1. Window(q) = {<<"price", u, price>>}
    BY WindowOf
  <2>2. <<"price", u, price>> \in {<<"report", r>>}
    BY <2>1
  <2> QED BY <2>2, PriceAndReportDiffer
<1>2. phase[q] \in {"reading", "counting", "deciding", "updating"}
  BY <1>1, WindowOf
<1>3. <<"report", req[q].target>> = <<"report", r>>
  BY <1>2, WindowOf
<1> QED BY <1>2, <1>3

(* What a row is known by.                                                 *)
SameReport(row, old) ==
  row.author = old.author /\ row.price = old.price /\ row.createdAt = old.createdAt

(* A report that is judged keeps what it reports.                          *)
LEMMA JudgedRow ==
  ASSUME NEW old \in RowType, NEW s \in Status, NEW trust \in Certainty
  PROVE  LET row == [old EXCEPT !.status = s, !.confidence = trust]
         IN  /\ row \in RowType /\ row.status = s /\ row.obs = old.obs
             /\ SameReport(row, old)
  BY DEF RowType, SameReport

LEMMA RowsAreTyped ==
  ASSUME TypeOK
  PROVE  /\ Len(reports) \in Nat /\ Len(observations) \in Nat
         /\ \A r \in Ids : reports[r] \in RowType
  BY LenProperties, ElementOfSeq DEF TypeOK, Ids

(* What the end of a submission writes: one row, and the observation it    *)
(* shows if that is new.                                                   *)
LEMMA RowSaved ==
  ASSUME IInv, NEW q \in Request,
         SaveCorroborating(q) \/ SaveAccepted(q) \/ SavePending(q)
  PROVE  /\ phase[q] = "saving" /\ phase'[q] = "idle" /\ now' = now
         /\ Len(reports) \in Nat /\ Len(observations) \in Nat
         /\ Ids' = Ids \cup {Len(reports) + 1}
         /\ \A r \in Ids : /\ SameReport(reports'[r], reports[r])
                           /\ reports'[r].obs = reports[r].obs
                           /\ reports'[r].status = reports[r].status
         /\ SameReport(reports'[Len(reports) + 1], req[q].draft)
         /\ \/ observations' = observations
            \/ /\ Len(observations') = Len(observations) + 1
               /\ reports'[Len(reports) + 1].obs = Len(observations) + 1
<1>1. /\ phase[q] = "saving" /\ now' = now /\ Finish(q) /\ TypeOK
      /\ req[q] \in RequestType /\ req[q].draft \in RowType
      /\ CallIsSound("saving", req[q])
  BY DEF SaveCorroborating, SaveAccepted, SavePending, world, IInv, TypeOK,
         RequestType, CallsAreSound
<1>2. phase'[q] = "idle"
  BY <1>1, FinishEnds
<1>3. /\ Len(reports) \in Nat /\ Len(observations) \in Nat
      /\ \A r \in Ids : reports[r] \in RowType
      /\ reports \in Seq(RowType) /\ observations \in Seq(Price)
  BY <1>1, RowsAreTyped DEF TypeOK
<1> DEFINE draft == req[q].draft
<1> HIDE DEF draft
<1>4. draft \in RowType /\ draft.price \in Price
  BY <1>1 DEF draft, CallIsSound, DraftIsSound, CreateStep
<1>5. CASE SavePending(q)
  <2>1. reports' = Append(reports, draft) /\ observations' = observations
    BY <1>5 DEF SavePending, draft
  <2>2. /\ Ids' = Ids \cup {Len(reports) + 1}
        /\ \A r \in Ids : reports'[r] = reports[r]
        /\ reports'[Len(reports) + 1] = draft
    BY <1>3, <1>4, <2>1, RowAppended, Zenon DEF Ids
  <2> QED BY <1>1, <1>2, <1>3, <2>1, <2>2 DEF SameReport, draft
<1>6. CASE SaveAccepted(q)
  <2> DEFINE row == [draft EXCEPT !.obs = Len(observations) + 1]
  <2>1. /\ reports' = Append(reports, row)
        /\ observations' = Append(observations, draft.price)
    BY <1>6 DEF SaveAccepted, draft
  <2>2. /\ row \in RowType /\ SameReport(row, draft)
        /\ row.obs = Len(observations) + 1
    <3> DEFINE next == Len(observations) + 1
    <3>1. next \in Nat
      BY <1>3
    <3> HIDE DEF next
    <3>2. /\ [draft EXCEPT !.obs = next] \in RowType
          /\ SameReport([draft EXCEPT !.obs = next], draft)
          /\ [draft EXCEPT !.obs = next].obs = next
      BY <1>4, <3>1 DEF RowType, SameReport
    <3> QED BY <3>2 DEF next
  <2>3. Len(observations') = Len(observations) + 1
    BY <1>3, <1>4, <2>1, Appending
  <2> HIDE DEF row
  <2>4. /\ Ids' = Ids \cup {Len(reports) + 1}
        /\ \A r \in Ids : reports'[r] = reports[r]
        /\ reports'[Len(reports) + 1] = row
    BY <1>3, <2>1, <2>2, RowAppended, Zenon DEF Ids
  <2> QED BY <1>1, <1>2, <1>3, <2>2, <2>3, <2>4 DEF SameReport, draft
<1>7. CASE SaveCorroborating(q)
  <2> DEFINE t == req[q].target
             twin == [reports[t] EXCEPT !.confidence = req[q].confidence]
             rows == [reports EXCEPT ![t] = twin]
             row == [draft EXCEPT !.obs = req[q].read.obs]
  <2>1. reports' = Append(rows, row) /\ observations' = observations /\ t # 0
    BY <1>7 DEF SaveCorroborating, draft
  <2>2. /\ t \in Ids /\ reports[t] \in RowType
        /\ req[q].read.obs \in Nat /\ req[q].confidence \in Certainty
    BY <1>1, <1>3, <2>1 DEF CallIsSound, TwinIsSound, RequestType, RowType
  <2>3. /\ row \in RowType /\ SameReport(row, draft)
        /\ twin \in RowType /\ SameReport(twin, reports[t])
        /\ twin.obs = reports[t].obs /\ twin.status = reports[t].status
    BY <1>4, <2>2 DEF RowType, SameReport
  <2> HIDE DEF t, twin, row
  <2>4. /\ rows \in Seq(RowType) /\ Len(rows) = Len(reports) /\ 1..Len(rows) = Ids
        /\ rows[t] = twin
        /\ \A r \in Ids \ {t} : rows[r] = reports[r]
    BY <1>3, <2>2, <2>3, RowReplaced
  <2> HIDE DEF rows
  <2>5. /\ Ids' = Ids \cup {Len(reports) + 1}
        /\ \A r \in Ids : reports'[r] = rows[r]
        /\ reports'[Len(reports) + 1] = row
    BY <2>1, <2>3, <2>4, RowAppended
  <2>6. \A r \in Ids : /\ SameReport(reports'[r], reports[r])
                       /\ reports'[r].obs = reports[r].obs
                       /\ reports'[r].status = reports[r].status
    BY <2>3, <2>4, <2>5 DEF SameReport
  <2> QED BY <1>1, <1>2, <1>3, <2>1, <2>3, <2>5, <2>6 DEF SameReport, draft
<1> QED BY <1>5, <1>6, <1>7


\* What a step of one call does to the tables.
Touches(q) ==
  /\ \A p \in Request \ {q} : phase'[p] = phase[p] /\ req'[p] = req[p]
  /\ now' = now /\ accounts' = accounts
  /\ Ids \subseteq Ids'
  /\ \A r \in Ids : SameReport(reports'[r], reports[r])
  /\ \A r \in Ids' \ Ids : phase[q] \in CreateStep /\ SameReport(reports'[r], req[q].draft)
  /\ \A r \in Ids : \/ reports'[r].obs = reports[r].obs /\ reports'[r].status = reports[r].status
                    \/ Window(q) = {<<"report", r>>}
  /\ \A r : \/ \A vote : Count(r, vote)' = Count(r, vote)
            \/ Window(q)' = {<<"report", r>>}
  /\ VotesAreKnown'

LEMMA QuietTouches ==
  ASSUME IInv, VotesAreKnown, NEW q \in Request, NEW step, NEW r, Go(q, step, r),
         UNCHANGED <<now, tables>>
  PROVE  Touches(q)
<1>1. \A p \in Request \ {q} : phase'[p] = phase[p] /\ req'[p] = req[p]
  BY DEF Go, IInv, TypeOK
<1>2. UNCHANGED <<now, accounts, reports, votes>> /\ Ids' = Ids
  BY DEF tables, Ids
<1>3. \A s, vote : Count(s, vote)' = Count(s, vote)
  BY <1>2 DEF Count
<1> QED BY <1>1, <1>2, <1>3 DEF Touches, SameReport, VotesAreKnown

LEMMA SaveTouches ==
  ASSUME IInv, VotesAreKnown, NEW q \in Request,
         SaveCorroborating(q) \/ SaveAccepted(q) \/ SavePending(q)
  PROVE  Touches(q)
<1>1. /\ \A p \in Request \ {q} : phase'[p] = phase[p] /\ req'[p] = req[p]
      /\ UNCHANGED <<accounts, votes>>
  BY FinishEnds DEF SaveCorroborating, SaveAccepted, SavePending, IInv
<1>2. /\ phase[q] = "saving" /\ now' = now
      /\ Ids' = Ids \cup {Len(reports) + 1}
      /\ \A r \in Ids : /\ SameReport(reports'[r], reports[r])
                        /\ reports'[r].obs = reports[r].obs
                        /\ reports'[r].status = reports[r].status
      /\ SameReport(reports'[Len(reports) + 1], req[q].draft)
  BY RowSaved
<1>3. \A s, vote : Count(s, vote)' = Count(s, vote)
  BY <1>1 DEF Count
<1> QED BY <1>1, <1>2, <1>3 DEF Touches, VotesAreKnown, CreateStep

LEMMA CastTouches ==
  ASSUME IInv, VotesAreKnown, NEW q \in Request, CastVote(q)
  PROVE  Touches(q)
<1> DEFINE cast == [report |-> req[q].target, voter |-> req[q].user, vote |-> req[q].vote]
<1>1. /\ \A p \in Request \ {q} : phase'[p] = phase[p] /\ req'[p] = req[p]
      /\ phase[q] = "voting" /\ phase'[q] = "reading" /\ req'[q] = req[q]
      /\ UNCHANGED <<now, accounts, reports>> /\ Ids' = Ids
      /\ votes' = {v \in votes : v.report # cast.report \/ v.voter # cast.voter}
                    \cup {cast}
  BY DEF CastVote, Go, IInv, TypeOK, world, Ids
<1>2. req[q].target \in Ids
  BY <1>1 DEF IInv, CallsAreSound, CallIsSound, ReadIsSound, VoteStep
<1>3. cast.report = req[q].target
  OBVIOUS
<1> HIDE DEF cast
<1>4. Window(q)' = {<<"report", req[q].target>>}
  BY <1>1 DEF Window, CreateStep, VoteStep
<1>5. ASSUME NEW s, s # req[q].target, NEW vote  PROVE Count(s, vote)' = Count(s, vote)
  <2>1. {v \in votes' : v.report = s /\ v.vote = vote}
          = {v \in votes : v.report = s /\ v.vote = vote}
    BY <1>1, <1>3, <1>5
  <2> QED BY <2>1 DEF Count
<1>6. VotesAreKnown'
  BY <1>1, <1>2, <1>3 DEF VotesAreKnown
<1> QED BY <1>1, <1>4, <1>5, <1>6 DEF Touches, SameReport

(* What a judgement writes: the report it has judged, and an observation   *)
(* for it if it had none when it was read.                                 *)
LEMMA JudgementWrites ==
  ASSUME IInv, NEW q \in Request, KeepReport(q) \/ PromoteReport(q)
  PROVE  /\ phase[q] = "updating" /\ phase'[q] \in {"idle", "awarding"}
         /\ \A p \in Request \ {q} : phase'[p] = phase[p] /\ req'[p] = req[p]
         /\ UNCHANGED <<now, accounts, votes>> /\ Ids' = Ids
         /\ req[q].target \in Ids /\ Len(observations) \in Nat
         /\ \A r \in Ids : SameReport(reports'[r], reports[r])
         /\ \A r \in Ids \ {req[q].target} : reports'[r] = reports[r]
         /\ reports'[req[q].target].status = req[q].status
         /\ \/ /\ observations' = observations
               /\ reports'[req[q].target].obs = reports[req[q].target].obs
            \/ /\ Len(observations') = Len(observations) + 1 /\ req[q].read.obs = 0
               /\ reports'[req[q].target].obs = Len(observations) + 1
<1> DEFINE t == req[q].target
<1>1. /\ phase[q] = "updating" /\ req[q] \in RequestType /\ AfterUpdate(q)
      /\ CallIsSound("updating", req[q]) /\ UNCHANGED <<now, accounts, votes>>
  BY DEF KeepReport, PromoteReport, IInv, TypeOK, CallsAreSound, world
<1>2. t \in Ids /\ req[q].status \in Status /\ req[q].confidence \in Certainty
  BY <1>1 DEF CallIsSound, ReadIsSound, VoteStep, RequestType
<1>3. /\ reports \in Seq(RowType) /\ Len(observations) \in Nat
      /\ \A r \in Ids : reports[r] \in RowType
  BY RowsAreTyped DEF IInv, TypeOK
<1>4. PICK step \in {"idle", "awarding"}, known \in RequestType : Go(q, step, known)
  BY <1>1, AfterUpdateGoes
<1>5. /\ phase'[q] \in {"idle", "awarding"}
      /\ \A p \in Request \ {q} : phase'[p] = phase[p] /\ req'[p] = req[p]
  <2>1. step \in Phase
    BY DEF Phase, AwardStep
  <2> QED BY <1>4, <2>1, GoMovesOne DEF IInv
<1> DEFINE old == reports[t]
           s == req[q].status
           trust == req[q].confidence
<1>6. old \in RowType /\ s \in Status /\ trust \in Certainty
  BY <1>2, <1>3
<1>7. \E row \in RowType :
        /\ reports' = [reports EXCEPT ![t] = row] /\ row.status = s
        /\ SameReport(row, old)
        /\ \/ observations' = observations /\ row.obs = old.obs
           \/ /\ Len(observations') = Len(observations) + 1 /\ req[q].read.obs = 0
              /\ row.obs = Len(observations) + 1
  <2>1. CASE KeepReport(q)
    <3> DEFINE row == [old EXCEPT !.status = s, !.confidence = trust]
    <3>1. observations' = observations /\ reports' = [reports EXCEPT ![t] = row]
      BY <2>1 DEF KeepReport
    <3> HIDE DEF old, s, trust
    <3>2. row \in RowType /\ row.status = s /\ SameReport(row, old) /\ row.obs = old.obs
      BY <1>6, JudgedRow
    <3> HIDE DEF row
    <3> QED BY <3>1, <3>2
  <2>2. CASE PromoteReport(q)
    <3> DEFINE next == Len(observations) + 1
               row == [old EXCEPT !.status = s, !.confidence = trust, !.obs = next]
    <3>1. /\ reports' = [reports EXCEPT ![t] = row] /\ req[q].read.obs = 0
          /\ observations' = Append(observations, req[q].read.price)
      BY <2>2 DEF PromoteReport, Promotes
    <3>2. req[q].read.price \in Price
      BY <1>1, <1>2 DEF CallIsSound, ReadIsSound, IInv, RowsAreReports
    <3>3. Len(observations') = Len(observations) + 1
      BY <3>1, <3>2, Appending DEF IInv, TypeOK
    <3>4. next \in Nat
      BY <1>3
    <3> HIDE DEF next, old, s, trust
    <3>5. row \in RowType /\ row.status = s /\ SameReport(row, old) /\ row.obs = next
      BY <1>6, <3>4 DEF RowType, SameReport
    <3> HIDE DEF row
    <3> QED BY <3>1, <3>3, <3>5 DEF next
  <2> QED BY <2>1, <2>2
<1>8. PICK row \in RowType :
        /\ reports' = [reports EXCEPT ![t] = row] /\ row.status = s
        /\ SameReport(row, old)
        /\ \/ observations' = observations /\ row.obs = old.obs
           \/ /\ Len(observations') = Len(observations) + 1 /\ req[q].read.obs = 0
              /\ row.obs = Len(observations) + 1
  BY <1>7
<1> HIDE DEF t
<1>9. /\ Len(reports') = Len(reports) /\ reports'[t] = row
      /\ \A r \in Ids \ {t} : reports'[r] = reports[r]
  BY <1>2, <1>3, <1>8, RowReplaced
<1>10. \A r \in Ids : SameReport(reports'[r], reports[r])
  BY <1>8, <1>9 DEF SameReport, old
<1> QED BY <1>1, <1>2, <1>3, <1>5, <1>8, <1>9, <1>10 DEF Ids, t, s, old

LEMMA JudgementTouches ==
  ASSUME IInv, VotesAreKnown, NEW q \in Request, KeepReport(q) \/ PromoteReport(q)
  PROVE  Touches(q)
<1>1. /\ phase[q] = "updating"
      /\ \A p \in Request \ {q} : phase'[p] = phase[p] /\ req'[p] = req[p]
      /\ UNCHANGED <<now, accounts, votes>> /\ Ids' = Ids
      /\ \A r \in Ids : SameReport(reports'[r], reports[r])
      /\ \A r \in Ids \ {req[q].target} : reports'[r] = reports[r]
  BY JudgementWrites
<1>2. Window(q) = {<<"report", req[q].target>>}
  BY <1>1, WindowOf
<1>3. \A s, vote : Count(s, vote)' = Count(s, vote)
  BY <1>1 DEF Count
<1> QED BY <1>1, <1>2, <1>3 DEF Touches, VotesAreKnown

LEMMA CallTouches ==
  ASSUME IInv, VotesAreKnown, NEW q \in Request,
         SubmitReport(q) \/ BeginVote(q) \/ OfficialPrice(q) \/ Step(q) \/ Abort(q)
  PROVE  Touches(q)
<1>1. CASE \/ SubmitReport(q) \/ BeginVote(q) \/ OfficialPrice(q)
           \/ Assess(q) \/ FindCorroborating(q) \/ BeginInsert(q)
           \/ WeighTwin(q) \/ LockTwin(q)
           \/ ReadReport(q) \/ CountVotes(q) \/ BeginRecalculation(q)
           \/ Reconcile(q) \/ InsertEvent(q) \/ WriteScore(q) \/ Refuse(q) \/ Abort(q)
  <2>1. \E step, r : Go(q, step, r)
    BY <1>1, Zenon
       DEF SubmitReport, BeginVote, OfficialPrice, Assess, FindCorroborating,
           BeginInsert, WeighTwin, LockTwin, ReadReport, CountVotes,
           BeginRecalculation, Reconcile, InsertEvent, WriteScore, Refuse, Abort, Finish
  <2>2. UNCHANGED <<now, tables>>
    BY <1>1
       DEF SubmitReport, BeginVote, OfficialPrice, Assess, FindCorroborating,
           BeginInsert, WeighTwin, LockTwin, ReadReport, CountVotes,
           BeginRecalculation, Reconcile, InsertEvent, WriteScore, Refuse, Abort, world
  <2> QED BY <2>1, <2>2, QuietTouches
<1>2. CASE SaveCorroborating(q) \/ SaveAccepted(q) \/ SavePending(q)
  BY <1>2, SaveTouches
<1>3. CASE CastVote(q)
  BY <1>3, CastTouches
<1>4. CASE KeepReport(q) \/ PromoteReport(q)
  BY <1>4, JudgementTouches
<1> QED BY <1>1, <1>2, <1>3, <1>4 DEF Step, Create, Vote, Award

(* A call that another one moves beside: what it has looked up can only    *)
(* change under a call it meets.                                           *)
LEMMA OthersStayFresh ==
  ASSUME IInv, MeetInv, Remember, NEW q \in Request, Touches(q),
         NEW p \in Request \ {q}, p \notin disturbed'
  PROVE  IsFresh(p)'
<1>1. /\ phase'[p] = phase[p] /\ req'[p] = req[p] /\ now' = now
      /\ Window(p)' = Window(p)
      /\ \A r \in Ids : SameReport(reports'[r], reports[r])
      /\ \A r \in Ids' \ Ids : phase[q] \in CreateStep /\ SameReport(reports'[r], req[q].draft)
      /\ \A r \in Ids : reports'[r].obs = reports[r].obs \/ Window(q) = {<<"report", r>>}
      /\ \A r : (\A vote : Count(r, vote)' = Count(r, vote)) \/ Window(q)' = {<<"report", r>>}
  BY DEF Touches, Window
<1>2. CASE Window(p) = {}
  BY <1>1, <1>2, WindowOf DEF IsFresh
<1>3. CASE Window(p) # {}
  <2>1. p \notin disturbed /\ ~Meets(p)' /\ ~Meets(p) /\ IsFresh(p)
    BY <1>1, <1>3 DEF Remember, MeetInv
  <2>2. Window(q) \cap Window(p) = {} /\ Window(q)' \cap Window(p) = {}
    BY <1>1, <2>1 DEF Meets
  <2>3. phase[p] \in CreateStep => ~Repeated(p)'
    <3> SUFFICES ASSUME phase[p] \in CreateStep, Repeated(p)'  PROVE FALSE
      OBVIOUS
    <3>1. PICK r \in Ids' : /\ reports'[r].author = req[p].user
                            /\ reports'[r].price = req[p].draft.price
                            /\ now - reports'[r].createdAt \in 0..CooldownUnits
      BY <1>1 DEF Repeated
    <3>2. CASE r \in Ids
      BY <1>1, <2>1, <3>1, <3>2 DEF IsFresh, Repeated, SameReport
    <3>3. CASE r \notin Ids
      <4>1. /\ phase[q] \in CreateStep /\ req[q].draft.author = req[q].user
            /\ req[q].user = req[p].user /\ req[q].draft.price = req[p].draft.price
        BY <1>1, <3>1, <3>3 DEF SameReport, MeetInv, DraftsAreOwn
      <4>2. Window(q) = Window(p)
        BY <4>1, WindowOf
      <4> QED BY <1>3, <2>2, <4>2
    <3> QED BY <3>2, <3>3
  <2>4. ASSUME phase[p] \in {"counting", "deciding", "updating"}
        PROVE  /\ req[p].target \in Ids
               /\ reports'[req[p].target].obs = reports[req[p].target].obs
               /\ Outvoted(req[p].target)' = Outvoted(req[p].target)
    <3>1. Window(p) = {<<"report", req[p].target>>} /\ req[p].target \in Ids
      BY <2>4, WindowOf DEF IInv, CallsAreSound, CallIsSound, ReadIsSound, VoteStep
    <3>2. Window(q) # {<<"report", req[p].target>>} /\ Window(q)' # {<<"report", req[p].target>>}
      BY <2>2, <3>1
    <3>3. \A vote : Count(req[p].target, vote)' = Count(req[p].target, vote)
      BY <1>1, <3>2
    <3>4. reports'[req[p].target].obs = reports[req[p].target].obs
      BY <1>1, <3>1, <3>2
    <3>5. Outvoted(req[p].target)' = (/\ Count(req[p].target, "dispute")' >= 2
                                     /\ Count(req[p].target, "dispute")' > Count(req[p].target, "confirm")')
      BY <1>1 DEF Outvoted
    <3> QED BY <3>1, <3>3, <3>4, <3>5 DEF Outvoted
  <2>5. IsFresh(p)' = (/\ phase[p] \in CreateStep => ~Repeated(p)'
                       /\ phase[p] \in {"counting", "deciding", "updating"} /\ req[p].read.obs = 0 =>
                            reports'[req[p].target].obs = 0
                       /\ phase[p] \in {"deciding", "updating"} /\ Outvoted(req[p].target)' =>
                            req[p].status = "disputed")
    BY <1>1 DEF IsFresh, Outvoted, Count
  <2> QED BY <2>1, <2>3, <2>4, <2>5 DEF IsFresh
<1> QED BY <1>2, <1>3

(* The call that moves.  It looks once, and nobody disturbs it until it    *)
(* writes.                                                                 *)
LEMMA SubmissionStaysFresh ==
  ASSUME IInv, MeetInv, NEW q \in Request,
         SubmitReport(q) \/ Assess(q) \/ FindCorroborating(q) \/ BeginInsert(q)
           \/ WeighTwin(q) \/ LockTwin(q)
  PROVE  /\ phase'[q] \in CreateStep /\ req'[q].draft.author = req'[q].user
         /\ q \notin disturbed => IsFresh(q)'
<1>0. /\ phase \in [Request -> Phase] /\ req \in [Request -> RequestType]
      /\ UNCHANGED <<reports, now>> /\ (q \notin disturbed => IsFresh(q))
      /\ \A r \in Ids : reports[r].createdAt \in Int
      /\ now \in Int
  <2>1. \A r \in Ids : reports[r].createdAt \in Int
    BY RowsAreTyped DEF IInv, RowType
  <2> QED BY <2>1
    DEF SubmitReport, Assess, FindCorroborating, BeginInsert, WeighTwin, LockTwin,
         world, tables, IInv, TypeOK, MeetInv
<1> SUFFICES /\ phase'[q] \in CreateStep /\ req'[q].draft.author = req'[q].user
             /\ q \notin disturbed => ~Repeated(q)'
  BY DEF IsFresh, CreateStep
<1>1. CASE SubmitReport(q)
  <2>1. PICK u \in accounts, p \in Price, back \in BackDate, d \in Place,
             photo \in Photo :
          /\ ~RecentlyReported(u, p)
          /\ Go(q, "assessing",
                [NoRequest EXCEPT !.user = u,
                   !.draft = [NoRow EXCEPT !.author = u, !.price = p, !.distance = d,
                                !.reportedAt = now - back, !.createdAt = now,
                                !.photo = photo]])
    BY <1>1 DEF SubmitReport
  <2>2. /\ phase'[q] = "assessing" /\ req'[q].user = u
        /\ req'[q].draft.author = u /\ req'[q].draft.price = p
    BY <1>0, <2>1 DEF Go, NoRequest, NoRow
  <2>3. ~Repeated(q)'
    BY <1>0, <2>1, <2>2 DEF Repeated, RecentlyReported, CooldownUnits, Ids
  <2> QED BY <2>2, <2>3 DEF CreateStep
<1>2. CASE ~SubmitReport(q)
  <2>1. phase[q] \in CreateStep /\ req[q] \in RequestType
    BY <1>0, <1>2 DEF Assess, FindCorroborating, BeginInsert, WeighTwin, LockTwin, CreateStep
  <2>2. /\ phase'[q] \in CreateStep /\ req'[q].user = req[q].user
        /\ req'[q].draft.author = req[q].draft.author
        /\ req'[q].draft.price = req[q].draft.price
    <3>1. CASE Assess(q)
      BY <1>0, <2>1, <3>1 DEF Assess, Go, CreateStep, RequestType, RowType
    <3>2. CASE FindCorroborating(q)
      <4>1. PICK r : /\ Go(q, "inserting", r)
                     /\ r.user = req[q].user /\ r.draft = req[q].draft
        <5>1. CASE CorroboratingReport(req[q].draft) = {}
          BY <3>2, <5>1 DEF FindCorroborating
        <5>2. CASE CorroboratingReport(req[q].draft) # {}
          <6>1. PICK s \in CorroboratingReport(req[q].draft) :
                  Go(q, "inserting", [req[q] EXCEPT !.target = s, !.read = reports[s]])
            BY <3>2, <5>2 DEF FindCorroborating
          <6> DEFINE known == [req[q] EXCEPT !.target = s, !.read = reports[s]]
          <6>2. known.user = req[q].user /\ known.draft = req[q].draft
            BY <2>1 DEF RequestType
          <6> HIDE DEF known
          <6> QED BY <6>1, <6>2 DEF known
        <5> QED BY <5>1, <5>2
      <4>2. phase'[q] = "inserting" /\ req'[q] = r
        BY <1>0, <4>1 DEF Go
      <4> QED BY <4>1, <4>2 DEF CreateStep
    <3>3. CASE BeginInsert(q)
      BY <1>0, <2>1, <3>3 DEF BeginInsert, Go, CreateStep, RequestType
    <3>4. CASE WeighTwin(q)
      BY <1>0, <2>1, <3>4 DEF WeighTwin, Go, CreateStep, RequestType
    <3>5. CASE LockTwin(q)
      BY <1>0, <2>1, <3>5 DEF LockTwin, Go, CreateStep, RequestType
    <3> QED BY <1>2, <3>1, <3>2, <3>3, <3>4, <3>5
  <2>3. q \notin disturbed => ~Repeated(q)'
    BY <1>0, <2>1, <2>2 DEF IsFresh, Repeated, Ids
  <2> QED BY <2>1, <2>2, <2>3 DEF MeetInv, DraftsAreOwn
<1> QED BY <1>1, <1>2

LEMMA VoteStaysFresh ==
  ASSUME IInv, MeetInv, NEW q \in Request,
         q \notin disturbed,
         ReadReport(q) \/ CountVotes(q) \/ BeginRecalculation(q)
  PROVE  IsFresh(q)' /\ phase'[q] \notin CreateStep
<1>1. /\ UNCHANGED <<reports, votes>> /\ req[q] \in RequestType /\ IsFresh(q)
      /\ phase \in [Request -> Phase] /\ req \in [Request -> RequestType]
  BY DEF ReadReport, CountVotes, BeginRecalculation, tables, IInv, TypeOK, MeetInv
<1>2. \A r : Outvoted(r)' = Outvoted(r)
  BY <1>1 DEF Outvoted, Count
<1>3. CASE ReadReport(q)
  <2>1. phase'[q] = "counting" /\ req'[q].target = req[q].target
        /\ req'[q].read = reports[req[q].target]
    BY <1>1, <1>3 DEF ReadReport, Go, RequestType
  <2> QED BY <1>1, <2>1 DEF IsFresh, CreateStep
<1>4. CASE CountVotes(q)
  <2> DEFINE t == req[q].target
             confirms == Count(t, "confirm")
             disputes == Count(t, "dispute")
             c == ConfidenceOf(req[q].read, official, FALSE, confirms, disputes)
             s == Judge(req[q].read.status, c, confirms, disputes)
  <2>1. Outvoted(t) => s = "disputed"
    BY DEF Outvoted, Judge
  <2>2. /\ phase[q] = "counting" /\ phase'[q] = "deciding"
        /\ req' = [req EXCEPT ![q] = [req[q] EXCEPT !.confidence = c, !.status = s]]
    BY <1>1, <1>4 DEF CountVotes, Go
  <2> HIDE DEF c, s
  <2>3. req'[q].target = t /\ req'[q].read = req[q].read /\ req'[q].status = s
    BY <1>1, <2>2 DEF RequestType
  <2>4. Outvoted(req[q].target)' => req'[q].status = "disputed"
    BY <1>2, <2>1, <2>3
  <2> QED BY <1>1, <2>2, <2>3, <2>4 DEF IsFresh, CreateStep, Outvoted, Count
<1>5. CASE BeginRecalculation(q)
  <2> DEFINE seen == IF Promotes(q) THEN ScoreOf(req[q].read.author) ELSE 0
  <2>1. /\ phase[q] = "deciding" /\ phase'[q] = "updating"
        /\ req' = [req EXCEPT ![q] = [req[q] EXCEPT !.seen = seen]]
    BY <1>1, <1>5 DEF BeginRecalculation, Go
  <2> HIDE DEF seen
  <2>2. /\ req'[q].target = req[q].target /\ req'[q].read = req[q].read
        /\ req'[q].status = req[q].status
    BY <1>1, <2>1 DEF RequestType
  <2> QED BY <1>1, <1>2, <2>1, <2>2 DEF IsFresh, CreateStep, Outvoted, Count
<1> QED BY <1>3, <1>4, <1>5

\* Steps that leave the call with nothing looked up.
LEMMA NothingLookedUp ==
  ASSUME NEW q, phase'[q] \notin CreateStep \cup {"counting", "deciding", "updating"}
  PROVE  IsFresh(q)'
  BY DEF IsFresh

LEMMA CallStaysFresh ==
  ASSUME IInv, MeetInv, Remember, NEW q \in Request,
         SubmitReport(q) \/ BeginVote(q) \/ OfficialPrice(q) \/ Step(q) \/ Abort(q)
  PROVE  /\ phase'[q] \in CreateStep => req'[q].draft.author = req'[q].user
         /\ q \notin disturbed' => IsFresh(q)'
<1>1. CASE \/ SubmitReport(q) \/ Assess(q) \/ FindCorroborating(q) \/ BeginInsert(q)
           \/ WeighTwin(q) \/ LockTwin(q)
  <2>1. /\ phase'[q] \in CreateStep /\ req'[q].draft.author = req'[q].user
        /\ q \notin disturbed => IsFresh(q)'
    BY <1>1, SubmissionStaysFresh
  <2>2. q \notin disturbed' => q \notin disturbed
    <3>1. Window(q)' # {}
      BY <2>1 DEF Window
    <3> QED BY <3>1 DEF Remember
  <2> QED BY <2>1, <2>2
<1>2. CASE ReadReport(q) \/ CountVotes(q) \/ BeginRecalculation(q)
  <2>1. phase'[q] \in {"counting", "deciding", "updating"}
    BY <1>2 DEF ReadReport, CountVotes, BeginRecalculation, Go, IInv, TypeOK
  <2>2. Window(q)' # {}
    BY <2>1 DEF Window, VoteStep, CreateStep
  <2>3. q \notin disturbed' => q \notin disturbed
    BY <2>2 DEF Remember
  <2> QED BY <1>2, <2>1, <2>3, VoteStaysFresh DEF CreateStep
<1>3. CASE \/ BeginVote(q) \/ OfficialPrice(q) \/ Award(q) \/ Refuse(q) \/ Abort(q)
           \/ CastVote(q) \/ SaveCorroborating(q) \/ SaveAccepted(q) \/ SavePending(q)
           \/ KeepReport(q) \/ PromoteReport(q)
  <2>1. CASE KeepReport(q) \/ PromoteReport(q)
    <3>1. phase'[q] \in {"idle", "awarding"}
      BY <2>1, JudgementWrites
    <3> QED BY <3>1, NothingLookedUp DEF CreateStep
  <2>2. CASE ~(KeepReport(q) \/ PromoteReport(q))
    <3>1. phase'[q] \in {"idle", "voting", "reading", "reconciling", "awarding", "rewarding"}
      BY <1>3, <2>2
         DEF BeginVote, OfficialPrice, Award, Reconcile, InsertEvent, WriteScore, Refuse,
             Abort, CastVote, SaveCorroborating, SaveAccepted, SavePending, Finish, Go,
             IInv, TypeOK
    <3> QED BY <3>1, NothingLookedUp DEF CreateStep
  <2> QED BY <2>1, <2>2
<1> QED BY <1>1, <1>2, <1>3 DEF Step, Create, Vote

(* What ends a call early is noted as such.                                *)
LEMMA EndsCutOff ==
  ASSUME IInv, NEW q \in Request, Abort(q) \/ Refuse(q)
  PROVE  CutOff(q)
<1>1. phase'[q] = "idle"
  BY DEF Abort, Refuse, Finish, Go, IInv, TypeOK
<1>2. CASE Abort(q)
  <2>1. failures \in Nat /\ failures' = failures + 1
    BY <1>2 DEF Abort, IInv, TypeOK
  <2>2. failures' # failures
    BY <2>1
  <2> QED BY <1>1, <2>2 DEF CutOff
<1>3. CASE Refuse(q)
  BY <1>1, <1>3 DEF Refuse, CutOff
<1> QED BY <1>2, <1>3

(* A judgement that is written, by a call that has met none, is right; a   *)
(* call that is cut off leaves the report stale.                           *)
LEMMA ClosingJudges ==
  ASSUME IInv, MeetInv, Next, NEW q \in Request, NEW r \in Ids, Closes(q, r),
         q \notin disturbed, ~CutOff(q)
  PROVE  Outvoted(r)' => reports'[r].status = "disputed"
<1>1. /\ phase[q] \in {"reading", "counting", "deciding", "updating"}
      /\ req[q].target = r /\ Window(q)' = {} /\ Window(q) = {<<"report", r>>}
  BY ReportWindow DEF Closes
<1>2. phase'[q] # phase[q]
  <2> SUFFICES ASSUME phase'[q] = phase[q]  PROVE FALSE
    OBVIOUS
  <2> QED BY <1>1 DEF Window, CreateStep, VoteStep
<1>3. ~(\E u \in Deletable : DeleteAccount(u)) /\ ~Tick /\ ~Rest
  BY <1>2 DEF DeleteAccount, Tick, Rest, vars
<1>4. PICK p \in Request :
        SubmitReport(p) \/ BeginVote(p) \/ OfficialPrice(p) \/ Step(p) \/ Abort(p)
  BY <1>3 DEF Next
<1>5. p = q
  BY <1>2, <1>4, CallTouches DEF Touches, MeetInv
<1>6. KeepReport(q) \/ PromoteReport(q)
  <2>1. Vote(q)
    BY <1>1, <1>4, <1>5, EndsCutOff
       DEF Step, SubmitReport, BeginVote, OfficialPrice, Create, Assess,
           FindCorroborating, BeginInsert, WeighTwin, LockTwin, SaveCorroborating,
           SaveAccepted, SavePending, Award, Reconcile, InsertEvent, WriteScore
  <2>2. ~CastVote(q)
    BY <1>1 DEF CastVote
  <2>3. ~(ReadReport(q) \/ CountVotes(q) \/ BeginRecalculation(q))
    <3> SUFFICES ASSUME ReadReport(q) \/ CountVotes(q) \/ BeginRecalculation(q)
                 PROVE FALSE
      OBVIOUS
    <3>1. phase'[q] \in {"counting", "deciding", "updating"}
      BY DEF ReadReport, CountVotes, BeginRecalculation, Go, IInv, TypeOK
    <3> QED BY <1>1, <3>1 DEF Window, CreateStep, VoteStep
  <2> QED BY <2>1, <2>2, <2>3 DEF Vote
<1>7. /\ phase[q] = "updating" /\ UNCHANGED votes /\ reports'[r].status = req[q].status
  BY <1>1, <1>6, JudgementWrites
<1>8. Outvoted(r)' = Outvoted(r)
  BY <1>7 DEF Outvoted, Count
<1>9. IsFresh(q)
  BY DEF MeetInv
<1> QED BY <1>1, <1>7, <1>8, <1>9 DEF IsFresh

(* Nobody has voted for a report that is not there.                        *)
LEMMA NewIsNotOutvoted ==
  ASSUME VotesAreKnown, NEW r, r \notin Ids
  PROVE  ~Outvoted(r)
<1>1. {v \in votes : v.report = r /\ v.vote = "dispute"} = {}
  BY DEF VotesAreKnown
<1>2. Count(r, "dispute") = 0
  BY <1>1, FS_EmptySet DEF Count
<1> QED BY <1>2 DEF Outvoted

LEMMA CallKeepsMeetInv ==
  ASSUME IInv, MeetInv, Next, Remember, NEW q \in Request,
         SubmitReport(q) \/ BeginVote(q) \/ OfficialPrice(q) \/ Step(q) \/ Abort(q)
  PROVE  MeetInv'
<1>1. Touches(q)
  BY CallTouches DEF MeetInv
<1>2. ASSUME NEW p \in Request, Meets(p)'  PROVE p \in disturbed'
  <2>1. Window(p)' # {}
    BY <1>2 DEF Meets
  <2> QED BY <1>2, <2>1 DEF Remember
<1>3. DraftsAreOwn'
  <2>1. ASSUME NEW p \in Request, phase'[p] \in CreateStep
        PROVE  req'[p].draft.author = req'[p].user
    <3>1. CASE p = q
      BY <2>1, <3>1, CallStaysFresh
    <3>2. CASE p # q
      BY <1>1, <2>1, <3>2 DEF Touches, MeetInv, DraftsAreOwn
    <3> QED BY <3>1, <3>2
  <2> QED BY <2>1 DEF DraftsAreOwn, CreateStep
<1>4. ASSUME NEW p \in Request, p \notin disturbed'  PROVE IsFresh(p)'
  <2>1. CASE p = q
    BY <1>4, <2>1, CallStaysFresh
  <2>2. CASE p # q
    BY <1>1, <1>4, <2>2, OthersStayFresh
  <2> QED BY <2>1, <2>2
<1>5. ASSUME NEW r \in Ids', r \notin stale', ~IsJudged(r)', Outvoted(r)'
      PROVE  reports'[r].status = "disputed"
  <2>1. \/ \A vote : Count(r, vote)' = Count(r, vote)
        \/ Window(q)' = {<<"report", r>>}
    BY <1>1 DEF Touches
  <2>2. Window(q)' # {<<"report", r>>}
    BY <1>5 DEF IsJudged
  <2>3. Outvoted(r)
    BY <1>5, <2>1, <2>2 DEF Outvoted
  <2>4. r \in Ids
    BY <2>3, NewIsNotOutvoted DEF MeetInv
  <2>5. CASE \E p \in Request : Closes(p, r)
    <3>1. PICK p \in Request : Closes(p, r)
      BY <2>5
    <3>2. p \notin disturbed /\ ~CutOff(p)
      BY <1>5, <2>4, <3>1 DEF Remember
    <3> QED BY <1>5, <2>4, <3>1, <3>2, ClosingJudges
  <2>6. CASE \A p \in Request : ~Closes(p, r)
    <3>1. r \notin stale
      BY <1>5, <2>4, <2>6 DEF Remember
    <3>2. ASSUME NEW p \in Request, Window(p) = {<<"report", r>>}  PROVE FALSE
      <4>1. CASE p # q
        <5>1. Window(p)' = Window(p)
          BY <1>1, <4>1 DEF Touches, Window
        <5> QED BY <1>5, <3>2, <5>1 DEF IsJudged
      <4>2. CASE p = q
        <5>1. phase[q] \in {"reading", "counting", "deciding", "updating"}
              /\ req[q].target = r
          BY <3>2, <4>2, ReportWindow
        <5>2. Window(q)' \in {{}, {<<"report", r>>}}
          <6>1. CASE ReadReport(q) \/ CountVotes(q) \/ BeginRecalculation(q)
            <7>1. /\ phase'[q] \in {"counting", "deciding", "updating"}
                  /\ req'[q].target = req[q].target
              <8>1. req \in [Request -> RequestType] /\ phase \in [Request -> Phase]
                BY DEF IInv, TypeOK
              <8>2. \E at \in {"counting", "deciding", "updating"} : \E next :
                      next.target = req[q].target /\ Go(q, at, next)
                <9>1. CASE ReadReport(q)
                  BY <8>1, <9>1 DEF ReadReport, RequestType
                <9>2. CASE CountVotes(q)
                  BY <8>1, <9>2 DEF CountVotes, RequestType
                <9>3. CASE BeginRecalculation(q)
                  BY <8>1, <9>3 DEF BeginRecalculation, RequestType
                <9> QED BY <6>1, <9>1, <9>2, <9>3
              <8> QED BY <8>1, <8>2 DEF Go
            <7> QED BY <5>1, <7>1 DEF Window, CreateStep, VoteStep
          <6>2. CASE KeepReport(q) \/ PromoteReport(q) \/ Refuse(q) \/ Abort(q)
            <7>1. phase'[q] \in {"idle", "awarding"}
              <8>1. CASE KeepReport(q) \/ PromoteReport(q)
                BY <8>1, JudgementWrites
              <8>2. CASE Refuse(q) \/ Abort(q)
                BY <8>2, FinishEnds DEF Refuse, Abort, IInv
              <8> QED BY <6>2, <8>1, <8>2
            <7> QED BY <7>1 DEF Window, CreateStep, VoteStep
          <6> QED BY <5>1, <6>1, <6>2
                  DEF Step, SubmitReport, BeginVote, OfficialPrice, Create, Assess,
                      FindCorroborating, BeginInsert, WeighTwin, LockTwin,
                      SaveCorroborating, SaveAccepted, SavePending, Award, Reconcile,
                      InsertEvent, WriteScore, Vote, CastVote
        <5>3. Closes(q, r)
          BY <2>2, <3>2, <4>2, <5>2 DEF Closes
        <5> QED BY <2>6, <5>3
      <4> QED BY <4>1, <4>2
    <3>3. reports[r].status = "disputed"
      BY <2>3, <2>4, <3>1, <3>2 DEF MeetInv, IsJudged
    <3>4. Window(q) # {<<"report", r>>}
      BY <3>2
    <3> QED BY <1>1, <2>4, <3>3, <3>4 DEF Touches
  <2> QED BY <2>5, <2>6
<1>6. VotesAreKnown'
  BY <1>1 DEF Touches
<1> QED BY <1>2, <1>3, <1>4, <1>5, <1>6 DEF MeetInv

(* The deletion of an account takes its votes along: the reports it voted  *)
(* for are stale, and the calls that judge them disturbed.                 *)
LEMMA DeletionKeepsMeetInv ==
  ASSUME IInv, MeetInv, Remember, NEW u \in Deletable, DeleteAccount(u)
  PROVE  MeetInv'
<1>1. /\ UNCHANGED <<now, phase, req>> /\ accounts' = accounts \ {u} /\ u \in accounts
      /\ votes' = {v \in votes : v.voter # u}
      /\ Ids' = Ids /\ NoUser \notin User /\ u \in User
      /\ \A r \in Ids : /\ reports'[r].author \in {reports[r].author, NoUser}
                        /\ reports'[r].price = reports[r].price
                        /\ reports'[r].createdAt = reports[r].createdAt
                        /\ reports'[r].obs = reports[r].obs
                        /\ reports'[r].status = reports[r].status
  <2>1. \A r \in Ids : reports[r] \in RowType
    BY RowsAreTyped DEF IInv
  <2>2. Len(reports) \in Nat
    BY RowsAreTyped DEF IInv
  <2> QED BY <2>1, <2>2, PriceReportsAssumption
          DEF DeleteAccount, RowType, Ids, world, IInv, TypeOK
<1>2. ASSUME NEW r, ~Withdrawn(r)  PROVE Outvoted(r)' = Outvoted(r)
  <2>1. \A vote : {v \in votes' : v.report = r /\ v.vote = vote}
                    = {v \in votes : v.report = r /\ v.vote = vote}
    BY <1>1, <1>2 DEF Withdrawn
  <2>2. \A vote : Count(r, vote)' = Count(r, vote)
    BY <2>1 DEF Count
  <2> QED BY <2>2 DEF Outvoted
<1>3. \A p \in Request : /\ Window(p)' = Window(p)
                         /\ Meets(p)' = Meets(p)
  BY <1>1 DEF Window, Meets
<1>4. ASSUME NEW p \in Request, Meets(p)'  PROVE p \in disturbed'
  <2>1. Window(p)' # {}
    BY <1>4 DEF Meets
  <2> QED BY <1>4, <2>1 DEF Remember
<1>5. VotesAreKnown' /\ DraftsAreOwn'
  BY <1>1 DEF MeetInv, VotesAreKnown, DraftsAreOwn
<1>6. ASSUME NEW p \in Request, p \notin disturbed'  PROVE IsFresh(p)'
  <2>1. CASE Window(p) = {}
    BY <1>1, <2>1, WindowOf DEF IsFresh
  <2>2. CASE Window(p) # {}
    <3>1. /\ p \notin disturbed
          /\ \A r \in Ids : <<"report", r>> \in Window(p) => ~Withdrawn(r)
      BY <1>3, <1>6, <2>2 DEF Remember
    <3>2. IsFresh(p)
      BY <3>1 DEF MeetInv
    <3>3. phase[p] \in CreateStep => ~Repeated(p)'
      <4>1. phase[p] \in CreateStep => req[p].user # NoUser
        BY <1>1 DEF IInv, CallsAreSound, CallIsSound, DraftIsSound
      <4> QED BY <1>1, <3>2, <4>1 DEF IsFresh, Repeated
    <3>4. ASSUME phase[p] \in {"counting", "deciding", "updating"}
          PROVE  /\ req[p].target \in Ids
                 /\ Outvoted(req[p].target)' = Outvoted(req[p].target)
      <4>1. Window(p) = {<<"report", req[p].target>>} /\ req[p].target \in Ids
        BY <3>4, WindowOf DEF IInv, CallsAreSound, CallIsSound, ReadIsSound, VoteStep
      <4> PICK t : t = req[p].target
        OBVIOUS
      <4>2. ~Withdrawn(t)
        BY <3>1, <4>1
      <4>3. Outvoted(t)' = Outvoted(t)
        BY <1>2, <4>2
      <4>4. Outvoted(req[p].target)' = Outvoted(req[p].target)
        BY <1>1, <4>3 DEF Outvoted, Count
      <4> QED BY <4>1, <4>4
    <3> QED BY <1>1, <3>2, <3>3, <3>4 DEF IsFresh, Outvoted, Count
  <2> QED BY <2>1, <2>2
<1>7. ASSUME NEW r \in Ids', r \notin stale', ~IsJudged(r)', Outvoted(r)'
      PROVE  reports'[r].status = "disputed"
  <2>1. r \in Ids /\ ~Withdrawn(r) /\ \A p \in Request : ~Closes(p, r)
    BY <1>1, <1>3, <1>7 DEF Remember, Closes
  <2>2. r \notin stale /\ ~IsJudged(r) /\ Outvoted(r)
    BY <1>2, <1>3, <1>7, <2>1 DEF Remember, IsJudged
  <2> QED BY <1>1, <2>1, <2>2 DEF MeetInv
<1> QED BY <1>4, <1>5, <1>6, <1>7 DEF MeetInv

(* The clock moves, and only while nobody calls.                           *)
LEMMA RestKeepsMeetInv ==
  ASSUME IInv, MeetInv, Remember, UNCHANGED <<tables, phase, req>>, Quiet \/ now' = now
  PROVE  MeetInv'
<1>1. UNCHANGED <<accounts, reports, votes, phase, req>> /\ Ids' = Ids
  BY DEF tables, Ids
<1>2. \A p \in Request : /\ Window(p)' = Window(p)
                         /\ Meets(p)' = Meets(p)
  BY <1>1 DEF Window, Meets
<1>3. \A r : Outvoted(r)' = Outvoted(r)
  BY <1>1 DEF Outvoted, Count
<1>4. ASSUME NEW p \in Request, Meets(p)'  PROVE p \in disturbed'
  <2>1. Window(p)' # {}
    BY <1>4 DEF Meets
  <2> QED BY <1>4, <2>1 DEF Remember
<1>5. VotesAreKnown' /\ DraftsAreOwn'
  BY <1>1 DEF MeetInv, VotesAreKnown, DraftsAreOwn
<1>6. ASSUME NEW p \in Request, p \notin disturbed'  PROVE IsFresh(p)'
  <2>1. CASE Window(p) = {}
    BY <1>1, <2>1, WindowOf DEF IsFresh
  <2>2. CASE Window(p) # {}
    <3>1. IsFresh(p)
      BY <1>2, <1>6, <2>2 DEF Remember, MeetInv
    <3>2. now' = now
      BY <2>2 DEF Quiet, Window, CreateStep, VoteStep
    <3> QED BY <1>1, <3>1, <3>2 DEF IsFresh, Repeated, Outvoted, Count
  <2> QED BY <2>1, <2>2
<1>7. ASSUME NEW r \in Ids', r \notin stale', ~IsJudged(r)', Outvoted(r)'
      PROVE  reports'[r].status = "disputed"
  <2>1. r \in Ids /\ \A p \in Request : ~Closes(p, r)
    BY <1>1, <1>2, <1>7 DEF Closes
  <2>2. r \notin stale /\ ~IsJudged(r) /\ Outvoted(r)
    BY <1>2, <1>3, <1>7, <2>1 DEF Remember, IsJudged
  <2> QED BY <1>1, <2>1, <2>2 DEF MeetInv
<1> QED BY <1>4, <1>5, <1>6, <1>7 DEF MeetInv

LEMMA MeetBegins ==
  ASSUME InitH
  PROVE  MeetInv
<1>1. /\ Ids = {} /\ votes = {} /\ \A p \in Request : phase[p] = "idle" /\ Window(p) = {}
  BY DEF InitH, Init, Ids, Window, CreateStep, VoteStep
<1> QED BY <1>1 DEF MeetInv, Meets, VotesAreKnown, DraftsAreOwn, IsFresh, CreateStep

(* The history neither allows nor forbids a step.                          *)
LEMMA HistoryWatches == NextH <=> Next /\ Remember
  BY DEF NextH, Next, Step

LEMMA MeetStepHolds ==
  ASSUME IInv, MeetInv, [NextH]_varsH
  PROVE  MeetInv'
<1>1. CASE UNCHANGED varsH
  BY <1>1 DEF varsH, vars, world, tables, history, MeetInv, Meets, Window, VotesAreKnown,
              DraftsAreOwn, IsFresh, Repeated, Outvoted, Count, Ids, IsJudged
<1>2. CASE NextH
  <2>1. Next /\ Remember
    BY <1>2, HistoryWatches
  <2>2. CASE \E q \in Request : SubmitReport(q) \/ BeginVote(q) \/ OfficialPrice(q)
                                  \/ Step(q) \/ Abort(q)
    BY <2>1, <2>2, CallKeepsMeetInv
  <2>3. CASE \E u \in Deletable : DeleteAccount(u)
    BY <2>1, <2>3, DeletionKeepsMeetInv
  <2>4. CASE Tick \/ Rest
    BY <2>1, <2>4, RestKeepsMeetInv DEF Tick, Rest, vars, world
  <2> QED BY <2>1, <2>2, <2>3, <2>4 DEF Next
<1> QED BY <1>1, <1>2

(* The history allows what the code allows.                                *)
LEMMA HistoryInvariant == SpecH => []IInv
<1>1. InitH => IInv
  BY InitHolds DEF InitH
<1>2. IInv /\ [NextH]_varsH => IInv'
  BY StepHolds, HistoryWatches DEF varsH
<1> QED BY <1>1, <1>2, PTL DEF SpecH

LEMMA MeetInvariant == SpecH => []MeetInv
<1>1. IInv /\ MeetInv /\ [NextH]_varsH => MeetInv'
  BY MeetStepHolds
<1> QED BY <1>1, MeetBegins, HistoryInvariant, PTL DEF SpecH

(* RepeatsComeOfOverlap, while calls overlap, fail and accounts go: the    *)
(* only repetition the cooldown lets through is stored by a call that met  *)
(* another submission of the same user for the same price.                 *)
THEOREM RepeatsOnlyComeOfOverlap == SpecH => RepeatsComeOfOverlap
<1> DEFINE NoRepeat ==
      \A q \in Request :
        /\ phase[q] = "saving" /\ phase'[q] = "idle" /\ Len(reports') > Len(reports)
        /\ \E r \in Ids : /\ reports[r].author = req[q].user
                          /\ reports[r].price = req[q].draft.price
                          /\ now - reports[r].createdAt \in 0..CooldownUnits
        => q \in disturbed
<1>1. MeetInv => NoRepeat
  <2> SUFFICES ASSUME MeetInv, NEW q \in Request, phase[q] = "saving", Repeated(q)
               PROVE  q \in disturbed
    BY DEF Repeated
  <2> QED BY DEF MeetInv, IsFresh, CreateStep
<1>2. MeetInv /\ [NextH]_varsH => [NoRepeat]_varsH
  BY <1>1
<1> QED BY <1>2, MeetInvariant, PTL DEF SpecH, RepeatsComeOfOverlap

(* A step that removes no link and shows nothing new without one.          *)
LEMMA LinksStay ==
  ASSUME Ids \subseteq Ids', \A r \in Ids : reports'[r].obs = reports[r].obs,
         NEW o \in 1..Len(observations'), Linked(o)
  PROVE  Linked(o)'
  BY DEF Linked

LEMMA LinksAreKept ==
  ASSUME IInv, MeetInv, Next, NEW o \in 1..Len(observations')
  PROVE  \/ Linked(o)'
         \/ o <= Len(observations) /\ ~Linked(o)
         \/ \E q \in disturbed : /\ phase[q] = "updating"
                                 /\ reports[req[q].target].obs = o
<1>1. Len(observations) \in Nat /\ \A r \in Ids : reports[r] \in RowType
  BY RowsAreTyped DEF IInv
<1>2. CASE Ids \subseteq Ids' /\ observations' = observations
           /\ \A r \in Ids : reports'[r].obs = reports[r].obs
  <2>1. o <= Len(observations)
    BY <1>1, <1>2
  <2> QED BY <1>2, <2>1, LinksStay
<1>3. ASSUME NEW q \in Request, SaveCorroborating(q) \/ SaveAccepted(q) \/ SavePending(q)
      PROVE  Linked(o)' \/ (o <= Len(observations) /\ ~Linked(o))
  <2>1. /\ Ids' = Ids \cup {Len(reports) + 1}
        /\ \A r \in Ids : reports'[r].obs = reports[r].obs
        /\ \/ observations' = observations
           \/ /\ Len(observations') = Len(observations) + 1
              /\ reports'[Len(reports) + 1].obs = Len(observations) + 1
    BY <1>3, RowSaved
  <2>2. o <= Len(observations) \/ reports'[Len(reports) + 1].obs = o
    BY <1>1, <2>1
  <2>3. CASE reports'[Len(reports) + 1].obs = o
    BY <2>1, <2>3 DEF Linked
  <2>4. CASE o <= Len(observations)
    BY <2>1, <2>4, LinksStay
  <2> QED BY <2>2, <2>3, <2>4
<1>4. ASSUME NEW q \in Request, KeepReport(q) \/ PromoteReport(q)
      PROVE  \/ Linked(o)'
             \/ o <= Len(observations) /\ ~Linked(o)
             \/ q \in disturbed /\ phase[q] = "updating" /\ reports[req[q].target].obs = o
  <2>1. /\ phase[q] = "updating" /\ Ids' = Ids /\ req[q].target \in Ids
        /\ \A r \in Ids \ {req[q].target} : reports'[r] = reports[r]
        /\ \/ /\ observations' = observations
              /\ reports'[req[q].target].obs = reports[req[q].target].obs
           \/ /\ Len(observations') = Len(observations) + 1 /\ req[q].read.obs = 0
              /\ reports'[req[q].target].obs = Len(observations) + 1
    BY <1>4, JudgementWrites
  <2>2. CASE /\ observations' = observations
             /\ reports'[req[q].target].obs = reports[req[q].target].obs
    <3>1. \A r \in Ids : reports'[r].obs = reports[r].obs
      BY <2>1, <2>2
    <3> QED BY <1>1, <2>1, <2>2, <3>1, LinksStay
  <2>3. CASE /\ Len(observations') = Len(observations) + 1 /\ req[q].read.obs = 0
             /\ reports'[req[q].target].obs = Len(observations) + 1
    <3>1. CASE o = Len(observations) + 1
      BY <2>1, <2>3, <3>1 DEF Linked
    <3>2. CASE o # Len(observations) + 1
      <4>1. o <= Len(observations) /\ o # 0
        BY <1>1, <2>3, <3>2
      <4>2. SUFFICES ASSUME Linked(o), ~Linked(o)'
                     PROVE  q \in disturbed /\ reports[req[q].target].obs = o
        BY <2>1, <4>1
      <4>3. reports[req[q].target].obs = o
        BY <2>1, <4>2 DEF Linked
      <4>4. q \notin disturbed => reports[req[q].target].obs = 0
        BY <2>1, <2>3 DEF MeetInv, IsFresh
      <4> QED BY <4>1, <4>3, <4>4
    <3> QED BY <3>1, <3>2
  <2> QED BY <2>1, <2>2, <2>3
<1>5. ASSUME NEW u \in Deletable, DeleteAccount(u)
      PROVE  Ids \subseteq Ids' /\ observations' = observations
             /\ \A r \in Ids : reports'[r].obs = reports[r].obs
  <2>1. Len(reports) \in Nat
    BY RowsAreTyped DEF IInv
  <2> QED BY <1>1, <1>5, <2>1 DEF DeleteAccount, RowType, Ids
<1>6. ASSUME \/ Tick \/ Rest
             \/ \E q \in Request :
                  \/ SubmitReport(q) \/ BeginVote(q) \/ OfficialPrice(q)
                  \/ Assess(q) \/ FindCorroborating(q) \/ BeginInsert(q)
                  \/ WeighTwin(q) \/ LockTwin(q) \/ CastVote(q)
                  \/ ReadReport(q) \/ CountVotes(q) \/ BeginRecalculation(q)
                  \/ Reconcile(q) \/ InsertEvent(q) \/ WriteScore(q)
                  \/ Refuse(q) \/ Abort(q)
      PROVE  Ids \subseteq Ids' /\ observations' = observations
             /\ \A r \in Ids : reports'[r].obs = reports[r].obs
  <2>1. UNCHANGED <<reports, observations>>
    BY <1>6, Zenon
       DEF Tick, Rest, SubmitReport, BeginVote, OfficialPrice, Assess, FindCorroborating,
           BeginInsert, WeighTwin, LockTwin, CastVote, ReadReport, CountVotes,
           BeginRecalculation, Reconcile, InsertEvent, WriteScore, Refuse, Abort, vars,
           tables
  <2> QED BY <2>1 DEF Ids
<1> QED BY <1>2, <1>3, <1>4, <1>5, <1>6 DEF Next, Step, Create, Vote, Award

(* LostLinksComeOfOverlap, while calls overlap, fail and accounts go: an   *)
(* observation is stored together with its link, and only a recalculation  *)
(* that met another one of the same report takes the last link away.       *)
THEOREM LinksOnlyGoByOverlap == SpecH => LostLinksComeOfOverlap
<1> DEFINE Kept ==
      \A o \in 1..Len(observations') :
        \/ Linked(o)'
        \/ o <= Len(observations) /\ ~Linked(o)
        \/ \E q \in disturbed : /\ phase[q] = "updating"
                                /\ reports[req[q].target].obs = o
<1>1. IInv /\ MeetInv /\ Next => Kept
  BY LinksAreKept
<1>2. IInv /\ MeetInv /\ [NextH]_varsH => [Kept]_varsH
  BY <1>1, HistoryWatches
<1> QED BY <1>2, HistoryInvariant, MeetInvariant, PTL DEF SpecH, LostLinksComeOfOverlap

(* OutvotedIsDisputed, while calls overlap, fail and accounts go: a report *)
(* nobody is judging shows what its votes say, unless its last judgement   *)
(* met another, was cut off, or a voter has left since.                    *)
THEOREM OutvotedReportsAreDisputed == SpecH => []OutvotedIsDisputed
<1>1. MeetInv => OutvotedIsDisputed
  <2> SUFFICES ASSUME MeetInv, NEW r \in Ids \ stale,
                      \A q \in Request : <<"report", r>> \notin Window(q), Outvoted(r)
               PROVE  reports[r].status = "disputed"
    BY DEF OutvotedIsDisputed, Outvoted
  <2>1. ~IsJudged(r)
    BY DEF IsJudged
  <2> QED BY <2>1 DEF MeetInv
<1> QED BY <1>1, MeetInvariant, PTL

-----------------------------------------------------------------------------
(* Reputations.                                                            *)


Score == REPUTATION_MIN..REPUTATION_MAX

\* after is what that definition computes.
Adds(after, start, s) ==
  /\ after \in [0..Len(s) -> Score]
  /\ after[0] = start
  /\ \A n \in 1..Len(s) : after[n] = clampScore(after[n - 1] + s[n])

LEMMA AddedUpEquation ==
  ASSUME NEW start \in Score, NEW s \in Seq(Int)
  PROVE  \E after : Adds(after, start, s) /\ AddedUp(start, s) = after[Len(s)]
<1> DEFINE len == Len(s)
           step == [p \in Score \X (1..len) |-> clampScore(p[1] + s[p[2]])]
           Is(f) == f = [n \in 0..len |-> IF n = 0 THEN start
                                          ELSE clampScore(f[n - 1] + s[n])]
           after == CHOOSE f : Is(f)
<1>1. len \in Nat /\ Score \subseteq Int /\ \A n \in 1..len : s[n] \in Int
  BY DEF Score, REPUTATION_MIN, REPUTATION_MAX
<1>2. \A t \in Score, n \in 1..len : clampScore(t + s[n]) \in Score
  <2>1. \A t \in Score, n \in 1..len : t + s[n] \in Int
    BY <1>1
  <2> QED BY <2>1, ClampScoreBounds DEF Score
<1> HIDE DEF Score
<1>3. step \in [Score \X (1..len) -> Score]
  BY <1>2
<1>4. PICK f : IsRecursion(f, len, Score, start, step)
  <2> HIDE DEF step, len
  <2> QED BY <1>1, <1>3, RecursionExists
<1>5. /\ f \in [0..len -> Score] /\ f[0] = start
      /\ \A n \in 1..len : f[n] = step[<<f[n - 1], n>>]
  BY <1>4 DEF IsRecursion
<1>6. \A n \in 1..len : f[n] = clampScore(f[n - 1] + s[n])
  <2> SUFFICES ASSUME NEW n \in 1..len PROVE f[n] = clampScore(f[n - 1] + s[n])
    OBVIOUS
  <2>1. n - 1 \in 0..len
    BY <1>1
  <2>2. f[n - 1] \in Score
    BY <1>5, <2>1
  <2>3. step[<<f[n - 1], n>>] = clampScore(f[n - 1] + s[n])
    BY <2>2
  <2> QED BY <1>5, <2>3
<1>7. Is(f)
  <2>1. \A n \in 0..len : n = 0 \/ n \in 1..len
    BY <1>1
  <2> HIDE DEF len, step
  <2> QED BY <1>5, <1>6, <2>1
<1>8. Is(after)
  <2> HIDE DEF Is
  <2> QED BY <1>7
<1>9. \A n \in 0..len : after[n] = f[n]
  <2> DEFINE P == {n \in 0..len : after[n] = f[n]}
  <2>1. \A n \in 0..len : n = 0 \/ (n \in 1..len /\ n - 1 \in 0..len)
    BY <1>1
  <2> HIDE DEF after, len
  <2>2. 0 \in P
    <3>1. 0 \in 0..len
      BY <1>1
    <3> QED BY <1>5, <1>8, <3>1
  <2>3. ASSUME NEW n \in 1..len, n - 1 \in P PROVE n \in P
    <3>1. n \in 0..len /\ n # 0 /\ after[n - 1] = f[n - 1]
      BY <1>1, <2>3
    <3>2. after[n] = clampScore(after[n - 1] + s[n])
      BY <1>8, <3>1
    <3> QED BY <1>6, <3>1, <3>2
  <2>4. 0..len \subseteq P
    <3> HIDE DEF P, len
    <3> QED BY <1>1, <2>2, <2>3, InductionUpTo
  <2> QED BY <2>4
<1>10. AddedUp(start, s) = after[len]
  BY DEF AddedUp
<1>11. Adds(f, start, s)
  BY <1>5, <1>6 DEF Adds
<1>12. len \in 0..len
  BY <1>1
<1> HIDE DEF after, len, step
<1>13. AddedUp(start, s) = f[len]
  BY <1>9, <1>10, <1>12
<1> QED BY <1>11, <1>13 DEF len

(* No event adds nothing; one more adds its points to where the others led *)
(* to, within the bounds.                                                  *)
LEMMA AddedUpProperties ==
  ASSUME NEW start \in Score, NEW s \in Seq(Int), NEW points \in Int
  PROVE  /\ AddedUp(start, <<>>) = start
         /\ AddedUp(start, s) \in Score
         /\ AddedUp(start, Append(s, points)) = clampScore(AddedUp(start, s) + points)
<1> DEFINE len == Len(s)
           t == Append(s, points)
<1>0. /\ len \in Nat /\ t \in Seq(Int) /\ Len(t) = len + 1 /\ t[len + 1] = points
      /\ \A n \in 1..len : t[n] = s[n]
      /\ <<>> \in Seq(Int) /\ Len(<<>>) = 0
  OBVIOUS
<1>1. AddedUp(start, <<>>) = start
  <2>1. PICK f : Adds(f, start, <<>>) /\ AddedUp(start, <<>>) = f[Len(<<>>)]
    BY <1>0, AddedUpEquation
  <2> QED BY <1>0, <2>1 DEF Adds
<1> HIDE DEF t
<1>2. PICK f : Adds(f, start, s) /\ AddedUp(start, s) = f[len]
  BY AddedUpEquation
<1>3. PICK g : Adds(g, start, t) /\ AddedUp(start, t) = g[len + 1]
  BY <1>0, AddedUpEquation
<1> HIDE DEF len
<1>4. /\ f \in [0..len -> Score] /\ f[0] = start
      /\ \A n \in 1..len : f[n] = clampScore(f[n - 1] + s[n])
  BY <1>2 DEF Adds, len
<1>5. /\ g[0] = start
      /\ \A n \in 1..(len + 1) : g[n] = clampScore(g[n - 1] + t[n])
  BY <1>0, <1>3 DEF Adds
<1>6. g[len] = f[len]
  <2> DEFINE P == {n \in 0..len : g[n] = f[n]}
  <2>1. 0 \in P
    BY <1>0, <1>4, <1>5
  <2>2. ASSUME NEW n \in 1..len, n - 1 \in P PROVE n \in P
    <3>1. n \in 0..len /\ n \in 1..(len + 1) /\ g[n - 1] = f[n - 1]
      BY <1>0, <2>2
    <3>2. g[n] = clampScore(g[n - 1] + s[n])
      BY <1>0, <1>5, <2>2, <3>1
    <3> QED BY <1>4, <3>1, <3>2
  <2>3. 0..len \subseteq P
    <3> HIDE DEF P
    <3> QED BY <1>0, <2>1, <2>2, InductionUpTo
  <2> QED BY <1>0, <2>3
<1>7. g[len + 1] = clampScore(g[len] + points)
  BY <1>0, <1>5
<1>8. AddedUp(start, s) \in Score
  BY <1>0, <1>2, <1>4
<1>9. AddedUp(start, t) = clampScore(AddedUp(start, s) + points)
  BY <1>2, <1>3, <1>6, <1>7
<1> QED BY <1>1, <1>8, <1>9 DEF t

-----------------------------------------------------------------------------
(* What a reputation is due: its events, except the one whose points are   *)
(* about to be added.                                                      *)

Awarded(q, u) == phase[q] = "rewarding" /\ req[q].author = u

\* Nobody else is about to write the score, and whoever is has read it.
ScoreIsDue(u) ==
  /\ \A p, q \in Request : u \in Credited(p) /\ u \in Credited(q) => p = q
  /\ \A q \in Request : u \in Credited(q) => req[q].seen = score[u]
  /\ \A q \in Request : Awarded(q, u) =>
       AddedUp(StartScore[u], events[u]) = clampScore(score[u] + req[q].points)
  /\ (\A q \in Request : ~Awarded(q, u)) => score[u] = AddedUp(StartScore[u], events[u])

ScoresInv == \A u \in accounts \ blurred : ScoreIsDue(u)

LEMMA HowCredited ==
  ASSUME NEW q \in Request
  PROVE  /\ \A u : Awarded(q, u) => u \in Credited(q)
         /\ phase[q] \notin {"saving", "updating", "rewarding"} => Credited(q) = {}
         /\ phase[q] = "rewarding" => Credited(q) = {req[q].author}
         /\ \A u \in Credited(q) :
              phase[q] = "saving" => u = req[q].user
  BY DEF Credited, Awarded

LEMMA ScoresBegin ==
  ASSUME InitH
  PROVE  ScoresInv
<1>1. ASSUME NEW u \in User PROVE score[u] = AddedUp(StartScore[u], events[u])
  <2>1. StartScore[u] \in Score /\ events[u] = <<>> /\ score[u] = StartScore[u]
    BY PriceReportsAssumption DEF InitH, Init, Score
  <2>2. 0 \in Int /\ <<>> \in Seq(Int)
    OBVIOUS
  <2> QED BY <2>1, <2>2, AddedUpProperties
<1>2. \A q \in Request : phase[q] = "idle"
  BY DEF InitH, Init
<1>3. accounts = User
  BY DEF InitH, Init
<1> QED BY <1>1, <1>2, <1>3, HowCredited DEF ScoresInv, ScoreIsDue, Awarded

\* What two recordings that meet, or one that is cut off, leave behind.
LEMMA BlurredGrows ==
  ASSUME Remember
  PROVE  /\ blurred \subseteq blurred'
         /\ \A u \in User \ blurred', p, q \in Request :
              u \in Credited(p)' /\ u \in Credited(q)' => p = q
         /\ \A q \in Request : phase[q] = "rewarding" /\ CutOff(q) => req[q].author \in blurred'
  BY DEF Remember

\* A call that does not move is about to write what it was about to write.
LEMMA OthersStayCredited ==
  ASSUME NEW q \in Request, Touches(q), NEW p \in Request \ {q}
  PROVE  /\ Credited(p)' = Credited(p) /\ req'[p] = req[p]
         /\ \A u : Awarded(p, u)' = Awarded(p, u)
<1>1. phase'[p] = phase[p] /\ req'[p] = req[p]
  BY DEF Touches
<1> QED BY <1>1 DEF Credited, Awarded, Promotes

(* Steps of a call that touch neither score nor events.                    *)
LEMMA ScoresStay ==
  ASSUME IInv, ScoresInv, Remember, NEW q \in Request, Touches(q), UNCHANGED reputation,
         phase[q] = "rewarding" => CutOff(q), phase'[q] # "rewarding",
         \A u \in accounts : u \in Credited(q)' => req'[q].seen = score[u]
  PROVE  ScoresInv'
<1> SUFFICES ASSUME NEW u \in accounts \ blurred'  PROVE ScoreIsDue(u)'
  BY DEF ScoresInv, Touches
<1>1. u \in User \ blurred' /\ u \notin blurred /\ ScoreIsDue(u)
  BY BlurredGrows DEF ScoresInv, IInv, TypeOK
<1>2. ~Awarded(q, u) /\ ~Awarded(q, u)'
  BY <1>1, BlurredGrows DEF Awarded
<1>3. \A p, s \in Request : u \in Credited(p)' /\ u \in Credited(s)' => p = s
  BY <1>1, BlurredGrows
<1>4. \A p \in Request : u \in Credited(p)' => req'[p].seen = score'[u]
  BY <1>1, OthersStayCredited DEF ScoreIsDue, reputation
<1>5. \A p \in Request : Awarded(p, u)' => Awarded(p, u) /\ req'[p] = req[p]
  BY <1>2, OthersStayCredited
<1>6. \A p \in Request : Awarded(p, u) => Awarded(p, u)'
  BY <1>2, OthersStayCredited
<1>7. score'[u] = score[u] /\ events'[u] = events[u]
  BY DEF reputation
<1>8. \A p \in Request : Awarded(p, u)' =>
        AddedUp(StartScore[u], events'[u]) = clampScore(score'[u] + req'[p].points)
  BY <1>1, <1>5, <1>7 DEF ScoreIsDue
<1>9. (\A p \in Request : ~Awarded(p, u)') => score'[u] = AddedUp(StartScore[u], events'[u])
  BY <1>1, <1>6, <1>7 DEF ScoreIsDue
<1> QED BY <1>3, <1>4, <1>8, <1>9 DEF ScoreIsDue

(* An event that is recorded with its score, in a transaction.             *)
LEMMA ScoresAreRecorded ==
  ASSUME IInv, ScoresInv, Remember, NEW q \in Request, Touches(q),
         NEW u, NEW points \in Int, Record(u, points, req[q].seen),
         u \in accounts => u \in Credited(q),
         phase[q] # "rewarding", phase'[q] \in {"idle", "awarding"}
  PROVE  ScoresInv'
<1> SUFFICES ASSUME NEW v \in accounts \ blurred'  PROVE ScoreIsDue(v)'
  BY DEF ScoresInv, Touches
<1>1. /\ v \in User \ blurred' /\ v \notin blurred /\ ScoreIsDue(v)
      /\ events[v] \in Seq(Int) /\ StartScore[v] \in Score
      /\ events \in [User -> Seq(Int)] /\ score \in [User -> Score]
  BY BlurredGrows, PriceReportsAssumption DEF ScoresInv, IInv, TypeOK, Score
<1>2. Credited(q)' = {} /\ ~Awarded(q, v) /\ ~Awarded(q, v)'
  BY HowCredited DEF Awarded, Credited
<1>3. \A p, s \in Request : v \in Credited(p)' /\ v \in Credited(s)' => p = s
  BY <1>1, BlurredGrows
<1>4. CASE v = u
  <2>1. \A p \in Request \ {q} : v \notin Credited(p)
    BY <1>1, <1>4 DEF ScoreIsDue
  <2>2. \A p \in Request : v \notin Credited(p)' /\ ~Awarded(p, v) /\ ~Awarded(p, v)'
    <3>1. \A p \in Request \ {q} : ~Awarded(p, v)
      BY <2>1, HowCredited
    <3> QED BY <1>2, <2>1, <3>1, OthersStayCredited
  <2>3. score[v] = AddedUp(StartScore[v], events[v]) /\ req[q].seen = score[v]
    BY <1>1, <1>4, <2>2 DEF ScoreIsDue
  <2>4. events'[v] = Append(events[v], points) /\ score'[v] = clampScore(score[v] + points)
    BY <1>1, <1>4, <2>3 DEF Record
  <2>5. score'[v] = AddedUp(StartScore[v], events'[v])
    BY <1>1, <2>3, <2>4, AddedUpProperties
  <2> QED BY <1>3, <2>2, <2>5 DEF ScoreIsDue
<1>5. CASE v # u
  <2>1. events'[v] = events[v] /\ score'[v] = score[v]
    BY <1>1, <1>5 DEF Record
  <2>2. \A p \in Request : v \in Credited(p)' => req'[p].seen = score'[v]
    BY <1>1, <1>2, <2>1, OthersStayCredited DEF ScoreIsDue
  <2>3. \A p \in Request : Awarded(p, v)' => Awarded(p, v) /\ req'[p] = req[p]
    BY <1>2, OthersStayCredited
  <2>4. \A p \in Request : Awarded(p, v) => Awarded(p, v)'
    BY <1>2, OthersStayCredited
  <2>5. \A p \in Request : Awarded(p, v)' =>
          AddedUp(StartScore[v], events'[v]) = clampScore(score'[v] + req'[p].points)
    BY <1>1, <2>1, <2>3 DEF ScoreIsDue
  <2>6. (\A p \in Request : ~Awarded(p, v)') => score'[v] = AddedUp(StartScore[v], events'[v])
    BY <1>1, <2>1, <2>4 DEF ScoreIsDue
  <2> QED BY <1>3, <2>2, <2>5, <2>6 DEF ScoreIsDue
<1> QED BY <1>4, <1>5

LEMMA CreateKeepsScores ==
  ASSUME IInv, ScoresInv, Remember, NEW q \in Request, Touches(q), Create(q)
  PROVE  ScoresInv'
<1>0. /\ req[q] \in RequestType
      /\ phase \in [Request -> Phase] /\ req \in [Request -> RequestType]
  BY DEF IInv, TypeOK
<1>1. CASE Assess(q) \/ FindCorroborating(q) \/ WeighTwin(q) \/ SavePending(q)
  <2>1. /\ UNCHANGED reputation
        /\ phase[q] # "rewarding" /\ phase'[q] \in {"matching", "inserting", "locking", "idle"}
    BY <1>0, <1>1 DEF Assess, FindCorroborating, WeighTwin, SavePending, Finish, Go
  <2>2. Credited(q)' = {}
    BY <2>1 DEF Credited
  <2> QED BY <2>1, <2>2, ScoresStay
<1>2. CASE BeginInsert(q) \/ LockTwin(q)
  <2> DEFINE seen == score[req[q].user]
             r == [req[q] EXCEPT !.seen = seen]
  <2>1. /\ UNCHANGED reputation /\ phase[q] \in {"inserting", "locking"}
        /\ Go(q, "weighing", req[q]) \/ Go(q, "saving", r)
    BY <1>2 DEF BeginInsert, LockTwin
  <2>2. CASE Go(q, "weighing", req[q])
    <3>1. phase'[q] = "weighing"
      BY <1>0, <2>2 DEF Go
    <3>2. Credited(q)' = {}
      BY <3>1 DEF Credited
    <3> QED BY <2>1, <3>1, <3>2, ScoresStay
  <2>3. CASE Go(q, "saving", r)
    <3>1. phase'[q] = "saving" /\ req'[q] = r
      BY <1>0, <2>3 DEF Go
    <3> HIDE DEF seen
    <3>2. r.seen = seen /\ r.user = req[q].user
      BY <1>0 DEF RequestType
    <3> HIDE DEF r
    <3>3. \A u : u \in Credited(q)' => u = req[q].user
      BY <3>1, <3>2 DEF Credited
    <3>4. \A u \in accounts : u \in Credited(q)' => req'[q].seen = score[u]
      BY <3>1, <3>2, <3>3 DEF seen
    <3> QED BY <2>1, <3>1, <3>4, ScoresStay
  <2> QED BY <2>1, <2>2, <2>3
<1>3. CASE SaveCorroborating(q) \/ SaveAccepted(q)
  <2>1. /\ Record(req[q].user, reportSubmitted, req[q].seen)
        /\ phase[q] = "saving" /\ phase'[q] = "idle"
        /\ req[q].target # 0 \/ req[q].draft.status = "accepted"
    BY <1>0, <1>3 DEF SaveCorroborating, SaveAccepted, Finish, Go
  <2>2. req[q].user \in Credited(q)
    BY <2>1 DEF Credited
  <2>3. reportSubmitted \in Int
    BY DEF reportSubmitted
  <2> QED BY <2>1, <2>2, <2>3, ScoresAreRecorded
<1> QED BY <1>1, <1>2, <1>3 DEF Create

LEMMA VoteKeepsScores ==
  ASSUME IInv, ScoresInv, Remember, NEW q \in Request, Touches(q), Vote(q)
  PROVE  ScoresInv'
<1>0. /\ req[q] \in RequestType
      /\ phase \in [Request -> Phase] /\ req \in [Request -> RequestType]
      /\ NoUser \notin accounts
  BY PriceReportsAssumption DEF IInv, TypeOK
<1>1. CASE CastVote(q) \/ ReadReport(q) \/ CountVotes(q)
  <2>1. /\ UNCHANGED reputation
        /\ phase[q] # "rewarding" /\ phase'[q] \in {"reading", "counting", "deciding"}
    BY <1>0, <1>1 DEF CastVote, ReadReport, CountVotes, Go
  <2>2. Credited(q)' = {}
    BY <2>1 DEF Credited
  <2> QED BY <2>1, <2>2, ScoresStay
<1>2. CASE BeginRecalculation(q)
  <2> DEFINE seen == IF Promotes(q) THEN ScoreOf(req[q].read.author) ELSE 0
             r == [req[q] EXCEPT !.seen = seen]
  <2>1. /\ UNCHANGED reputation /\ phase[q] = "deciding"
        /\ phase'[q] = "updating" /\ req'[q] = r
    BY <1>0, <1>2 DEF BeginRecalculation, Go
  <2> HIDE DEF seen
  <2>2. r.seen = seen /\ r.read = req[q].read /\ r.status = req[q].status
    BY <1>0 DEF RequestType
  <2> HIDE DEF r
  <2>3. \A u : u \in Credited(q)' => u = req[q].read.author /\ u # NoUser /\ Promotes(q)
    BY <2>1, <2>2 DEF Credited, Promotes
  <2>4. \A u \in accounts : u \in Credited(q)' => req'[q].seen = score[u]
    BY <2>1, <2>2, <2>3 DEF seen, ScoreOf
  <2> QED BY <2>1, <2>4, ScoresStay
<1>3. CASE KeepReport(q) \/ PromoteReport(q)
  <2>1. phase[q] = "updating" /\ AfterUpdate(q)
    BY <1>3 DEF KeepReport, PromoteReport
  <2>2. phase'[q] \in {"idle", "awarding"}
    BY <1>0, <2>1 DEF AfterUpdate, Finish, Go
  <2>3. Credited(q)' = {}
    BY <2>2 DEF Credited
  <2>4. CASE UNCHANGED reputation
    BY <2>1, <2>2, <2>3, <2>4, ScoresStay
  <2>5. CASE ~UNCHANGED reputation
    <3>1. Promotes(q) /\ Record(req[q].read.author, reportSubmitted, req[q].seen)
      BY <1>3, <2>5 DEF KeepReport, PromoteReport
    <3>2. req[q].read.author \in accounts => req[q].read.author \in Credited(q)
      BY <1>0, <2>1, <3>1 DEF Credited
    <3>3. reportSubmitted \in Int
      BY DEF reportSubmitted
    <3> QED BY <2>1, <2>2, <3>1, <3>2, <3>3, ScoresAreRecorded
  <2> QED BY <2>4, <2>5
<1> QED BY <1>1, <1>2, <1>3 DEF Vote

(* Outside a transaction the event is stored first, the points are added   *)
(* in the statement after.                                                 *)
LEMMA EventKeepsScores ==
  ASSUME IInv, ScoresInv, Remember, NEW q \in Request, Touches(q), InsertEvent(q)
  PROVE  ScoresInv'
<1>0. /\ req[q] \in RequestType
      /\ phase \in [Request -> Phase] /\ req \in [Request -> RequestType]
      /\ events \in [User -> Seq(Int)] /\ score \in [User -> Score] /\ accounts \subseteq User
  BY DEF IInv, TypeOK, Score
<1>1. PICK e \in req[q].due :
        /\ events' = [events EXCEPT ![e.author] = Append(@, e.points)]
        /\ Go(q, "rewarding", [req[q] EXCEPT !.author = e.author, !.points = e.points,
                                 !.seen = score[e.author], !.due = @ \ {e}])
  BY DEF InsertEvent
<1> PICK author, points : author = e.author /\ points = e.points
  OBVIOUS
<1> DEFINE seen == score[author]
           rest == req[q].due \ {e}
           r == [req[q] EXCEPT !.author = author, !.points = points,
                               !.seen = seen, !.due = rest]
<1>2. author \in User /\ points \in Int
  BY <1>0 DEF RequestType, Reward
<1>3. /\ phase[q] = "awarding" /\ phase'[q] = "rewarding" /\ req'[q] = r
      /\ UNCHANGED <<accounts, score>>
  BY <1>0, <1>1 DEF InsertEvent, Go, tables
<1> HIDE DEF rest, seen
<1>4. r.author = author /\ r.points = points /\ r.seen = seen
  BY <1>0 DEF RequestType
<1> HIDE DEF r
<1>5. Credited(q)' = {author} /\ Credited(q) = {}
  BY <1>3, <1>4 DEF Credited
<1> SUFFICES ASSUME NEW u \in accounts \ blurred'  PROVE ScoreIsDue(u)'
  BY <1>3 DEF ScoresInv
<1>6. /\ u \in User \ blurred' /\ u \notin blurred /\ ScoreIsDue(u)
      /\ events[u] \in Seq(Int) /\ StartScore[u] \in Score
  BY <1>0, BlurredGrows, PriceReportsAssumption DEF ScoresInv, Score
<1>7. \A p, s \in Request : u \in Credited(p)' /\ u \in Credited(s)' => p = s
  BY <1>6, BlurredGrows
<1>8. \A p \in Request : u \in Credited(p)' => req'[p].seen = score'[u]
  BY <1>3, <1>4, <1>5, <1>6, OthersStayCredited DEF ScoreIsDue, seen
<1>9. CASE u = author
  <2>1. \A p \in Request \ {q} : u \notin Credited(p) /\ ~Awarded(p, u)'
    <3>1. \A p \in Request \ {q} : u \notin Credited(p)
      BY <1>5, <1>7, <1>9, OthersStayCredited
    <3> QED BY <3>1, HowCredited, OthersStayCredited
  <2>2. \A p \in Request : ~Awarded(p, u)
    BY <1>3, <2>1, HowCredited DEF Awarded
  <2>3. score[u] = AddedUp(StartScore[u], events[u])
    BY <1>6, <2>2 DEF ScoreIsDue
  <2>4. events'[u] = Append(events[u], points)
    BY <1>0, <1>1, <1>2, <1>9
  <2>5. AddedUp(StartScore[u], events'[u]) = clampScore(score'[u] + req'[q].points)
    BY <1>2, <1>3, <1>4, <1>6, <2>3, <2>4, AddedUpProperties
  <2>6. Awarded(q, u)'
    BY <1>3, <1>4, <1>9 DEF Awarded
  <2> QED BY <1>7, <1>8, <2>1, <2>5, <2>6 DEF ScoreIsDue
<1>10. CASE u # author
  <2>1. events'[u] = events[u] /\ score'[u] = score[u] /\ ~Awarded(q, u) /\ ~Awarded(q, u)'
    BY <1>0, <1>1, <1>3, <1>4, <1>10 DEF Awarded
  <2>2. \A p \in Request : Awarded(p, u)' => Awarded(p, u) /\ req'[p] = req[p]
    BY <2>1, OthersStayCredited
  <2>3. \A p \in Request : Awarded(p, u) => Awarded(p, u)'
    BY <2>1, OthersStayCredited
  <2>4. \A p \in Request : Awarded(p, u)' =>
          AddedUp(StartScore[u], events'[u]) = clampScore(score'[u] + req'[p].points)
    BY <1>6, <2>1, <2>2 DEF ScoreIsDue
  <2>5. (\A p \in Request : ~Awarded(p, u)') => score'[u] = AddedUp(StartScore[u], events'[u])
    BY <1>6, <2>1, <2>3 DEF ScoreIsDue
  <2> QED BY <1>7, <1>8, <2>4, <2>5 DEF ScoreIsDue
<1> QED BY <1>9, <1>10

LEMMA WritingKeepsScores ==
  ASSUME IInv, ScoresInv, Remember, NEW q \in Request, Touches(q), WriteScore(q)
  PROVE  ScoresInv'
<1>0. /\ req[q] \in RequestType /\ CallIsSound(phase[q], req[q])
      /\ phase \in [Request -> Phase] /\ req \in [Request -> RequestType]
      /\ score \in [User -> Score] /\ accounts \subseteq User
  BY DEF IInv, TypeOK, CallsAreSound, Score
<1>1. /\ phase[q] = "rewarding" /\ phase'[q] \in {"idle", "awarding"}
      /\ UNCHANGED <<accounts, events>> /\ req[q].author \in User
  BY <1>0 DEF WriteScore, Finish, Go, tables, CallIsSound, RewardIsSound
<1>2. Credited(q)' = {} /\ Credited(q) = {req[q].author}
  BY <1>1 DEF Credited
<1> SUFFICES ASSUME NEW u \in accounts \ blurred'  PROVE ScoreIsDue(u)'
  BY <1>1 DEF ScoresInv
<1>3. u \in User \ blurred' /\ u \notin blurred /\ ScoreIsDue(u)
  BY <1>0, BlurredGrows DEF ScoresInv
<1>4. \A p, s \in Request : u \in Credited(p)' /\ u \in Credited(s)' => p = s
  BY <1>3, BlurredGrows
<1>5. CASE u = req[q].author
  <2>1. \A p \in Request \ {q} : u \notin Credited(p)
    BY <1>2, <1>3, <1>5 DEF ScoreIsDue
  <2>2. \A p \in Request : u \notin Credited(p)' /\ ~Awarded(p, u)'
    <3>1. \A p \in Request : u \notin Credited(p)'
      BY <1>2, <2>1, OthersStayCredited
    <3>2. ~Awarded(q, u)'
      BY <1>1 DEF Awarded
    <3>3. \A p \in Request \ {q} : ~Awarded(p, u)
      BY <2>1, HowCredited
    <3> QED BY <3>1, <3>2, <3>3, OthersStayCredited
  <2>3. score'[u] = clampScore(req[q].seen + req[q].points)
    BY <1>0, <1>1, <1>5 DEF WriteScore, Alive
  <2>4. Awarded(q, u)
    BY <1>1, <1>5 DEF Awarded
  <2>5. /\ req[q].seen = score[u]
        /\ AddedUp(StartScore[u], events[u]) = clampScore(score[u] + req[q].points)
    BY <1>2, <1>3, <1>5, <2>4 DEF ScoreIsDue
  <2> QED BY <1>1, <1>4, <2>2, <2>3, <2>5 DEF ScoreIsDue
<1>6. CASE u # req[q].author
  <2>1. events'[u] = events[u] /\ score'[u] = score[u] /\ ~Awarded(q, u) /\ ~Awarded(q, u)'
    BY <1>0, <1>1, <1>6 DEF WriteScore, Awarded
  <2>2. \A p \in Request : Awarded(p, u)' => Awarded(p, u) /\ req'[p] = req[p]
    BY <2>1, OthersStayCredited
  <2>3. \A p \in Request : Awarded(p, u) => Awarded(p, u)'
    BY <2>1, OthersStayCredited
  <2>4. \A p \in Request : u \in Credited(p)' => req'[p].seen = score'[u]
    BY <1>2, <1>3, <2>1, OthersStayCredited DEF ScoreIsDue
  <2>5. \A p \in Request : Awarded(p, u)' =>
          AddedUp(StartScore[u], events'[u]) = clampScore(score'[u] + req'[p].points)
    BY <1>3, <2>1, <2>2 DEF ScoreIsDue
  <2>6. (\A p \in Request : ~Awarded(p, u)') => score'[u] = AddedUp(StartScore[u], events'[u])
    BY <1>3, <2>1, <2>3 DEF ScoreIsDue
  <2> QED BY <1>4, <2>4, <2>5, <2>6 DEF ScoreIsDue
<1> QED BY <1>5, <1>6

LEMMA OthersKeepScores ==
  ASSUME IInv, ScoresInv, Remember, NEW q \in Request, Touches(q),
         SubmitReport(q) \/ BeginVote(q) \/ OfficialPrice(q) \/ Reconcile(q)
           \/ Refuse(q) \/ Abort(q)
  PROVE  ScoresInv'
<1>1. /\ UNCHANGED reputation
      /\ phase'[q] \in {"idle", "assessing", "voting", "reconciling", "awarding"}
  BY DEF SubmitReport, BeginVote, OfficialPrice, Reconcile, Refuse, Abort, Finish, Go,
         IInv, TypeOK
<1>2. phase[q] = "rewarding" => CutOff(q)
  BY EndsCutOff DEF SubmitReport, BeginVote, OfficialPrice, Reconcile
<1>3. Credited(q)' = {}
  BY <1>1 DEF Credited
<1> QED BY <1>1, <1>2, <1>3, ScoresStay

LEMMA DeletionKeepsScores ==
  ASSUME IInv, ScoresInv, Remember, NEW u \in Deletable, DeleteAccount(u)
  PROVE  ScoresInv'
<1>1. /\ accounts' = accounts \ {u} /\ UNCHANGED <<phase, req>>
      /\ \A v \in accounts' : score'[v] = score[v] /\ events'[v] = events[v]
  BY DEF DeleteAccount, IInv, TypeOK
<1>2. ASSUME NEW v \in accounts' \ blurred'  PROVE ScoreIsDue(v)'
  <2>1. ScoreIsDue(v)
    BY <1>1, <1>2, BlurredGrows DEF ScoresInv
  <2>2. \A q \in Request : Credited(q)' = Credited(q) /\ Awarded(q, v)' = Awarded(q, v)
    BY <1>1 DEF Credited, Awarded, Promotes
  <2> QED BY <1>1, <1>2, <2>1, <2>2 DEF ScoreIsDue
<1> QED BY <1>2 DEF ScoresInv

LEMMA ScoresStepHolds ==
  ASSUME IInv, MeetInv, ScoresInv, [NextH]_varsH
  PROVE  ScoresInv'
<1>1. CASE UNCHANGED varsH
  BY <1>1 DEF varsH, vars, world, tables, reputation, history, ScoresInv, ScoreIsDue,
              Awarded, Credited, Promotes
<1>2. CASE NextH
  <2>0. Next /\ Remember
    BY <1>2, HistoryWatches
  <2>1. ASSUME NEW q \in Request,
               SubmitReport(q) \/ BeginVote(q) \/ OfficialPrice(q) \/ Step(q) \/ Abort(q)
        PROVE  ScoresInv'
    <3>1. Touches(q)
      BY <2>1, CallTouches DEF MeetInv
    <3> QED BY <2>0, <2>1, <3>1, CreateKeepsScores, VoteKeepsScores, EventKeepsScores,
               WritingKeepsScores, OthersKeepScores DEF Step, Award
  <2>2. CASE \E u \in Deletable : DeleteAccount(u)
    BY <2>0, <2>2, DeletionKeepsScores
  <2>3. CASE Tick \/ Rest
    <3>1. UNCHANGED <<accounts, reputation, phase, req>>
      BY <2>3 DEF Tick, Rest, vars, tables
    <3>2. ASSUME NEW u \in accounts' \ blurred'  PROVE ScoreIsDue(u)'
      <4>1. ScoreIsDue(u)
        BY <2>0, <3>1, <3>2, BlurredGrows DEF ScoresInv
      <4>2. \A q \in Request : Credited(q)' = Credited(q) /\ Awarded(q, u)' = Awarded(q, u)
        BY <3>1 DEF Credited, Awarded, Promotes
      <4> QED BY <3>1, <4>1, <4>2 DEF ScoreIsDue, reputation
    <3> QED BY <3>2 DEF ScoresInv
  <2> QED BY <2>0, <2>1, <2>2, <2>3 DEF Next
<1> QED BY <1>1, <1>2

(* ScoreFollowsEvents, while calls overlap, fail and accounts go: recorded *)
(* in transactions or in two statements, the events of an author add up to *)
(* the reputation, for any number of them, unless two recordings for the   *)
(* same author met or one was cut off between its statements.              *)
THEOREM ScoresFollowEvents == SpecH => []ScoreFollowsEvents
<1>1. IInv /\ MeetInv /\ ScoresInv /\ [NextH]_varsH => ScoresInv'
  BY ScoresStepHolds
<1>2. ScoresInv => ScoreFollowsEvents
  <2> SUFFICES ASSUME ScoresInv, NEW u \in accounts \ blurred,
                      \A q \in Request : u \notin Credited(q)
               PROVE  score[u] = AddedUp(StartScore[u], events[u])
    BY DEF ScoreFollowsEvents
  <2>1. \A q \in Request : ~Awarded(q, u)
    BY HowCredited
  <2> QED BY <2>1 DEF ScoresInv, ScoreIsDue
<1> QED BY <1>1, <1>2, ScoresBegin, HistoryInvariant, MeetInvariant, PTL DEF SpecH
=============================================================================
