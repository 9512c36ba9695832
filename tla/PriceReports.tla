---------------------------- MODULE PriceReports ----------------------------
(***************************************************************************)
(* Price reports for one fuel of one station: PriceReportsService with the *)
(* tables of reports, votes, observations and reputation, the service that *)
(* rewards reports an official price confirms, and the deletion of an      *)
(* account.                                                                *)
(*                                                                         *)
(* One step is the code between two awaits that matter.  A transaction is  *)
(* two steps or more: what it reads, and what it writes, visible only when *)
(* it commits.  It runs at read committed, keeps one connection of the     *)
(* pool and the locks of the rows it has updated.  A request that is       *)
(* rejected at its first check changes nothing and is no step.             *)
(***************************************************************************)
EXTENDS Confidence, Sequences, FiniteSets

CONSTANTS User,       \* accounts
          NoUser,      \* the author of a report whose account is gone
          StartScore,  \* the reputation each account has earned before
          Deletable,   \* accounts that may be deleted in a run
          Request,     \* calls the API serves at the same time
          Price,       \* prices users report
          Official,    \* prices providers report
          Photo,       \* whether reports come with a photo
          Place,       \* distances at which a report is submitted
          BackDate,    \* how long before its submission a price was seen
          Pause,       \* lengths of a silence between calls
          PoolSize,    \* connections of the pool: max in postgres()
          MaxCalls,    \* bound: calls in a run
          MaxTime,     \* bound: the clock
          MaxFailures  \* bound: calls cut off in a run

CooldownUnits == 1
WindowUnits == 3

ASSUME PriceReportsAssumption ==
  /\ NoUser \notin User
  /\ StartScore \in [User -> REPUTATION_MIN..REPUTATION_MAX]
  /\ Deletable \subseteq User
  /\ IsFiniteSet(Request)
  /\ Price \subseteq Nat \ {NoPrice} /\ Official \subseteq Nat \ {NoPrice}
  /\ Photo \subseteq BOOLEAN
  /\ Place \subseteq Distance
  /\ BackDate \subseteq 0..(24 * Hour)
  /\ Pause \subseteq Nat \ {0}
  /\ {PoolSize, MaxCalls, MaxTime, MaxFailures} \subseteq Nat

VARIABLES
  now,           \* the clock
  official,      \* the last official price of the station, or NoPrice
  accounts,      \* users
  reports,       \* user_price_reports, in order of insertion
  observations,  \* fuel_price_observations made of reports: their prices
  votes,         \* user_price_report_votes
  evidence,      \* reports in user_price_report_images
  score,         \* user_reputation
  events,        \* user_reputation_events: the points of each user
  phase,         \* where each call is
  req,           \* what each call knows
  calls,         \* calls so far, at most MaxCalls
  failures       \* calls cut off so far, at most MaxFailures

world == <<now, official>>
tables == <<accounts, reports, observations, votes, evidence>>
reputation == <<score, events>>
bounds == <<calls, failures>>
vars == <<world, tables, reputation, phase, req, bounds>>

-----------------------------------------------------------------------------
Status == {"accepted", "pending", "disputed"}
Ballot == {"confirm", "dispute"}
Points == [confirm |-> 2, dispute |-> -2]
reportSubmitted == 1
reportMatchedOfficial == 3

CreateStep == {"assessing", "matching", "inserting", "weighing", "locking", "saving"}
VoteStep == {"voting", "reading", "counting", "deciding", "updating"}
AwardStep == {"reconciling", "awarding", "rewarding"}
Phase == {"idle"} \cup CreateStep \cup VoteStep \cup AwardStep

\* the steps inside a transaction
InTransaction == {"weighing", "locking", "saving", "updating"}

RowType == [author : User \cup {NoUser}, price : Price \cup {NoPrice},
            reportedAt : Int, createdAt : Int, distance : Distance,
            status : Status, confidence : Certainty, obs : Nat, photo : BOOLEAN]
Reward == [author : User, points : Int, report : Nat]
VoteType == [report : Nat, voter : User, vote : Ballot]

RequestType == [user : User \cup {NoUser}, draft : RowType, target : Nat,
                read : RowType, vote : Ballot, author : User \cup {NoUser},
                status : Status, confidence : Certainty, seen : Int,
                points : Int, due : SUBSET Reward]

NoRow == [author |-> NoUser, price |-> NoPrice, reportedAt |-> 0,
          createdAt |-> 0, distance |-> "unknown", status |-> "pending",
          confidence |-> 0, obs |-> 0, photo |-> FALSE]
NoRequest == [user |-> NoUser, draft |-> NoRow, target |-> 0, read |-> NoRow,
              vote |-> "confirm", author |-> NoUser, status |-> "pending",
              confidence |-> 0, seen |-> 0, points |-> 0, due |-> {}]

Init ==
  /\ now = 0 /\ official \in Official \cup {NoPrice}
  /\ accounts = User /\ score = StartScore
  /\ reports = <<>> /\ observations = <<>> /\ votes = {} /\ evidence = {}
  /\ events = [u \in User |-> <<>>]
  /\ phase = [q \in Request |-> "idle"]
  /\ req = [q \in Request |-> NoRequest]
  /\ calls = 0 /\ failures = 0

-----------------------------------------------------------------------------
(* What the handlers look up.                                              *)

Ids == 1..Len(reports)

\* getVoteCounts()
Count(r, vote) == Cardinality({v \in votes : v.report = r /\ v.vote = vote})

\* getScore(), or 50 for a report without an author
ScoreOf(u) == IF u = NoUser THEN REPUTATION_INITIAL ELSE score[u]

\* computeInitialConfidence() for a stored or new row
ConfidenceOf(row, reference, photo, confirms, disputes) ==
  computeInitialConfidence(ScoreOf(row.author), row.distance,
    now - row.reportedAt, isAnomaly(row.price, reference), photo, confirms, disputes)

\* A faulty checkDuplicateCooldown: the price is compared as text, and the
\* stored one has four decimals.
RecentlyReportedNever(u, price) ==
  \E r \in Ids : reports[r].author = u /\ reports[r].price = NoPrice

\* checkDuplicateCooldown()
RecentlyReported(u, price) ==
  \E r \in Ids : /\ reports[r].author = u /\ reports[r].price = price
                 /\ reports[r].createdAt >= now - CooldownUnits

\* A faulty findCorroboratingReport: the observation is not asked for.
CorroboratesUnobserved(r, draft) ==
  /\ reports[r].price = draft.price
  /\ reports[r].status \in {"accepted", "pending"}
  /\ reports[r].reportedAt - draft.reportedAt \in -WindowUnits..WindowUnits

Corroborates(r, draft) ==
  /\ reports[r].price = draft.price
  /\ reports[r].status \in {"accepted", "pending"}
  /\ reports[r].reportedAt - draft.reportedAt \in -WindowUnits..WindowUnits
  /\ reports[r].obs # 0

\* findCorroboratingReport(): the latest one
CorroboratingReport(draft) ==
  LET found == {r \in Ids : Corroborates(r, draft)}
  IN {r \in found : \A s \in found : reports[s].reportedAt <= reports[r].reportedAt}

\* A transaction keeps its connection; every other statement needs a free one.
FreeConnection == Cardinality({q \in Request : phase[q] \in InTransaction}) < PoolSize

\* A faulty Locked: the row is locked over a connection of its own, so that
\* the transaction waits for itself.
LockedOutside(r) ==
  \E q \in Request : phase[q] \in {"locking", "saving", "updating"} /\ req[q].target = r

\* The row is updated by a transaction that has not committed.
Locked(r) == \E q \in Request : phase[q] \in {"saving", "updating"} /\ req[q].target = r

Go(q, step, r) ==
  /\ phase' = [phase EXCEPT ![q] = step]
  /\ req' = [req EXCEPT ![q] = r]

Finish(q) == Go(q, "idle", NoRequest)

\* Rows that refer to an account can be written only while it exists.
Alive(u) == u \in accounts \cup {NoUser}

\* the second half of recordEvent(), inside a transaction that commits
Record(u, points, seen) ==
  /\ events' = [events EXCEPT ![u] = Append(@, points)]
  /\ score' = [score EXCEPT ![u] = clampScore(seen + points)]

-----------------------------------------------------------------------------
(* createReport()                                                          *)

\* The validations and the cooldown have passed.
SubmitReport(q) ==
  /\ phase[q] = "idle" /\ calls < MaxCalls /\ FreeConnection
  /\ \E u \in accounts, p \in Price, back \in BackDate, d \in Place, photo \in Photo :
       /\ ~RecentlyReported(u, p)
       /\ Go(q, "assessing",
             [NoRequest EXCEPT !.user = u,
                !.draft = [NoRow EXCEPT !.author = u, !.price = p, !.distance = d,
                             !.reportedAt = now - back, !.createdAt = now,
                             !.photo = photo]])
  /\ calls' = calls + 1
  /\ UNCHANGED <<world, tables, reputation, failures>>

\* getScore(), fetchTrustedReferencePrice() and the status that follows
Assess(q) ==
  /\ phase[q] = "assessing" /\ Alive(req[q].user) /\ FreeConnection
  /\ LET draft == req[q].draft
         c == ConfidenceOf(draft, official, draft.photo, 0, 0)
     IN Go(q, "matching",
           [req[q] EXCEPT !.draft =
              [draft EXCEPT !.confidence = c,
                            !.status = IF c >= AUTO_ACCEPT_CONFIDENCE_THRESHOLD
                                       THEN "accepted" ELSE "pending"]])
  /\ UNCHANGED <<world, tables, reputation, bounds>>

FindCorroborating(q) ==
  /\ phase[q] = "matching" /\ FreeConnection
  /\ LET found == CorroboratingReport(req[q].draft)
     IN IF found = {}
        THEN Go(q, "inserting", req[q])
        ELSE \E r \in found :
               Go(q, "inserting", [req[q] EXCEPT !.target = r, !.read = reports[r]])
  /\ UNCHANGED <<world, tables, reputation, bounds>>

\* The transaction begins with the insertion of the row.
BeginInsert(q) ==
  /\ phase[q] = "inserting" /\ Alive(req[q].user) /\ FreeConnection
  /\ IF req[q].target = 0
     THEN Go(q, "saving", [req[q] EXCEPT !.seen = score[req[q].user]])
     ELSE Go(q, "weighing", req[q])
  /\ UNCHANGED <<world, tables, reputation, bounds>>

\* applyCorroboration() counts and weighs the other report over a connection
\* of its own, with neither an official price nor a photo.
WeighTwin(q) ==
  /\ phase[q] = "weighing" /\ Alive(req[q].read.author) /\ FreeConnection
  /\ LET r == req[q].target
     IN Go(q, "locking",
           [req[q] EXCEPT !.confidence =
              ConfidenceOf(req[q].read, NoPrice, FALSE,
                           Count(r, "confirm") + 1, Count(r, "dispute"))])
  /\ UNCHANGED <<world, tables, reputation, bounds>>

LockTwin(q) ==
  /\ phase[q] = "locking" /\ ~Locked(req[q].target)
  /\ Go(q, "saving", [req[q] EXCEPT !.seen = score[req[q].user]])
  /\ UNCHANGED <<world, tables, reputation, bounds>>

\* The new report gets the observation of the one it corroborates, and the
\* transaction ends before the photo is linked.
SaveCorroborating(q) ==
  /\ phase[q] = "saving" /\ req[q].target # 0
  /\ reports' = Append(
       [reports EXCEPT ![req[q].target] = [@ EXCEPT !.confidence = req[q].confidence]],
       [req[q].draft EXCEPT !.obs = req[q].read.obs])
  /\ Record(req[q].user, reportSubmitted, req[q].seen)
  /\ Finish(q)
  /\ UNCHANGED <<world, accounts, observations, votes, evidence, bounds>>

\* linkImageToReport() for the report that is being inserted
LinkPhoto(q) ==
  evidence' = IF req[q].draft.photo THEN evidence \cup {Len(reports) + 1} ELSE evidence

SaveAccepted(q) ==
  /\ phase[q] = "saving" /\ req[q].target = 0 /\ req[q].draft.status = "accepted"
  /\ observations' = Append(observations, req[q].draft.price)
  /\ reports' = Append(reports, [req[q].draft EXCEPT !.obs = Len(observations) + 1])
  /\ Record(req[q].user, reportSubmitted, req[q].seen)
  /\ LinkPhoto(q)
  /\ Finish(q)
  /\ UNCHANGED <<world, accounts, votes, bounds>>

SavePending(q) ==
  /\ phase[q] = "saving" /\ req[q].target = 0 /\ req[q].draft.status = "pending"
  /\ reports' = Append(reports, req[q].draft)
  /\ LinkPhoto(q)
  /\ Finish(q)
  /\ UNCHANGED <<world, accounts, observations, votes, reputation, bounds>>

-----------------------------------------------------------------------------
(* voteOnReport() and recalculateReportConfidence()                        *)

BeginVote(q) ==
  /\ phase[q] = "idle" /\ calls < MaxCalls /\ FreeConnection
  /\ \E u \in accounts, r \in Ids, vote \in Ballot :
       /\ reports[r].author # u
       /\ Go(q, "voting", [NoRequest EXCEPT !.user = u, !.target = r, !.vote = vote,
                                            !.author = reports[r].author])
  /\ calls' = calls + 1
  /\ UNCHANGED <<world, tables, reputation, failures>>

CastVote(q) ==
  /\ phase[q] = "voting" /\ Alive(req[q].user) /\ FreeConnection
  /\ LET cast == [report |-> req[q].target, voter |-> req[q].user, vote |-> req[q].vote]
     IN votes' = {v \in votes : v.report # cast.report \/ v.voter # cast.voter}
                   \cup {cast}
  /\ Go(q, "reading", req[q])
  /\ UNCHANGED <<world, accounts, reports, observations, evidence, reputation, bounds>>

ReadReport(q) ==
  /\ phase[q] = "reading" /\ FreeConnection
  /\ Go(q, "counting", [req[q] EXCEPT !.read = reports[req[q].target]])
  /\ UNCHANGED <<world, tables, reputation, bounds>>

\* A faulty Judge: an accepted report is beyond dispute.
JudgeAcceptedForGood(status, confidence, confirms, disputes) ==
  IF status # "accepted" /\ disputes > confirms /\ disputes >= 2 THEN "disputed"
  ELSE IF confidence >= AUTO_ACCEPT_CONFIDENCE_THRESHOLD /\ status = "pending"
       THEN "accepted" ELSE status

\* The status after a vote, from the row as read and the votes as counted.
Judge(status, confidence, confirms, disputes) ==
  IF disputes > confirms /\ disputes >= 2 THEN "disputed"
  ELSE IF confidence >= AUTO_ACCEPT_CONFIDENCE_THRESHOLD /\ status = "pending"
       THEN "accepted" ELSE status

\* getVoteCounts(), getScore(), the official price, and the judgement.  The
\* photo is not asked for again.
CountVotes(q) ==
  /\ phase[q] = "counting" /\ Alive(req[q].read.author) /\ FreeConnection
  /\ LET r == req[q].target
         row == req[q].read
         c == ConfidenceOf(row, official, FALSE, Count(r, "confirm"), Count(r, "dispute"))
     IN Go(q, "deciding",
           [req[q] EXCEPT !.confidence = c,
              !.status = Judge(row.status, c, Count(r, "confirm"), Count(r, "dispute"))])
  /\ UNCHANGED <<world, tables, reputation, bounds>>

\* The judgement, and the absence of an observation when the row was read.
Promotes(q) == req[q].status = "accepted" /\ req[q].read.obs = 0

BeginRecalculation(q) ==
  /\ phase[q] = "deciding" /\ FreeConnection /\ ~Locked(req[q].target)
  /\ Promotes(q) => Alive(req[q].read.author)
  /\ Go(q, "updating",
        [req[q] EXCEPT !.seen = IF Promotes(q) THEN ScoreOf(req[q].read.author) ELSE 0])
  /\ UNCHANGED <<world, tables, reputation, bounds>>

\* What voteOnReport() owes the author it read before it counted.
Owed(q) ==
  IF req[q].author = NoUser THEN {}
  ELSE {[author |-> req[q].author, points |-> Points[req[q].vote],
         report |-> req[q].target]}

AfterUpdate(q) ==
  IF Owed(q) = {} THEN Finish(q) ELSE Go(q, "awarding", [NoRequest EXCEPT !.due = Owed(q)])

\* Status and confidence are written whatever the row has become.
KeepReport(q) ==
  /\ phase[q] = "updating" /\ ~Promotes(q)
  /\ reports' = [reports EXCEPT ![req[q].target] =
                   [@ EXCEPT !.status = req[q].status, !.confidence = req[q].confidence]]
  /\ AfterUpdate(q)
  /\ UNCHANGED <<world, accounts, observations, votes, evidence, reputation, bounds>>

\* A faulty PromoteReport: the new observation is not linked to the report.
PromoteUnlinked(q) ==
  /\ phase[q] = "updating" /\ Promotes(q)
  /\ observations' = Append(observations, req[q].read.price)
  /\ reports' = [reports EXCEPT ![req[q].target] =
                   [@ EXCEPT !.status = req[q].status, !.confidence = req[q].confidence]]
  /\ IF req[q].read.author = NoUser
     THEN UNCHANGED reputation
     ELSE Record(req[q].read.author, reportSubmitted, req[q].seen)
  /\ AfterUpdate(q)
  /\ UNCHANGED <<world, accounts, votes, evidence, bounds>>

PromoteReport(q) ==
  /\ phase[q] = "updating" /\ Promotes(q)
  /\ observations' = Append(observations, req[q].read.price)
  /\ reports' = [reports EXCEPT ![req[q].target] =
                   [@ EXCEPT !.status = req[q].status, !.confidence = req[q].confidence,
                             !.obs = Len(observations) + 1]]
  /\ IF req[q].read.author = NoUser
     THEN UNCHANGED reputation
     ELSE Record(req[q].read.author, reportSubmitted, req[q].seen)
  /\ AfterUpdate(q)
  /\ UNCHANGED <<world, accounts, votes, evidence, bounds>>

-----------------------------------------------------------------------------
(* reconcileAfterOfficialObservation(), at the end of an import            *)

MatchTolerance == 50         \* OFFICIAL_MATCH_TOLERANCE, in ten-thousandths
MatchUnits == 48 * Hour

\* The import has committed a price that differs from the last one.
OfficialPrice(q) ==
  /\ phase[q] = "idle" /\ calls < MaxCalls /\ FreeConnection
  /\ official' \in Official \ {official}
  /\ Go(q, "reconciling", NoRequest)
  /\ calls' = calls + 1
  /\ UNCHANGED <<now, tables, reputation, failures>>

Matches(row, price) ==
  /\ row.author # NoUser /\ row.status \in {"accepted", "pending"}
  /\ row.price - price \in -MatchTolerance..MatchTolerance
  /\ row.reportedAt >= now - MatchUnits

Reconcile(q) ==
  /\ phase[q] = "reconciling" /\ FreeConnection
  /\ LET due == {[author |-> reports[r].author, points |-> reportMatchedOfficial,
                  report |-> r] : r \in {s \in Ids : Matches(reports[s], official)}}
     IN IF due = {} THEN Finish(q) ELSE Go(q, "awarding", [NoRequest EXCEPT !.due = due])
  /\ UNCHANGED <<world, tables, reputation, bounds>>

-----------------------------------------------------------------------------
(* recordEvent() outside a transaction: the event is inserted, the score   *)
(* read, and the sum written back in a statement of its own.               *)

InsertEvent(q) ==
  /\ phase[q] = "awarding" /\ FreeConnection
  /\ \E e \in req[q].due :
       /\ Alive(e.author)
       /\ events' = [events EXCEPT ![e.author] = Append(@, e.points)]
       /\ Go(q, "rewarding", [req[q] EXCEPT !.author = e.author, !.points = e.points,
                                !.seen = score[e.author], !.due = @ \ {e}])
  /\ UNCHANGED <<world, tables, score, bounds>>

\* A faulty WriteScore: the points are added twice.
WriteScoreTwice(q) ==
  /\ phase[q] = "rewarding" /\ FreeConnection
  /\ score' = [score EXCEPT ![req[q].author] =
                 clampScore(req[q].seen + 2 * req[q].points)]
  /\ IF req[q].due = {} THEN Finish(q) ELSE Go(q, "awarding", req[q])
  /\ UNCHANGED <<world, tables, events, bounds>>

WriteScore(q) ==
  /\ phase[q] = "rewarding" /\ FreeConnection
  /\ score' = IF Alive(req[q].author)
              THEN [score EXCEPT ![req[q].author] =
                      clampScore(req[q].seen + req[q].points)]
              ELSE score
  /\ IF req[q].due = {} THEN Finish(q) ELSE Go(q, "awarding", req[q])
  /\ UNCHANGED <<world, tables, events, bounds>>

-----------------------------------------------------------------------------
(* What ends a call early, and what goes on besides.                       *)

\* accounts whose rows the next statement of the call refers to
Needed(q) ==
  CASE phase[q] \in {"assessing", "inserting", "voting"} -> {req[q].user}
    [] phase[q] \in {"weighing", "counting"} -> {req[q].read.author}
    [] phase[q] = "deciding" /\ Promotes(q) -> {req[q].read.author}
    [] phase[q] = "awarding" -> {e.author : e \in req[q].due}
    [] OTHER -> {}

\* The account was deleted meanwhile: a foreign key refuses the statement, and
\* the transaction, if there is one, is rolled back.
Refuse(q) ==
  /\ phase[q] # "idle" /\ \E u \in Needed(q) : ~Alive(u)
  /\ Finish(q)
  /\ UNCHANGED <<world, tables, reputation, bounds>>

\* The connection or the process fails in the middle of a call.
Abort(q) ==
  /\ phase[q] # "idle" /\ failures < MaxFailures
  /\ failures' = failures + 1
  /\ Finish(q)
  /\ UNCHANGED <<world, tables, reputation, calls>>

\* accounts a transaction keeps from being deleted: the author it inserts a
\* row for, and the author of the row it has updated
Held(q) ==
  (IF phase[q] \in {"weighing", "locking", "saving"} THEN {req[q].user} ELSE {})
    \cup
  (IF phase[q] \in {"saving", "updating"} /\ req[q].target # 0
   THEN {reports[req[q].target].author} ELSE {})

\* The transaction of deleteAccount(); reports lose their author, and nothing
\* is weighed again.
DeleteAccount(u) ==
  /\ u \in accounts \cap Deletable /\ FreeConnection
  /\ \A q \in Request : u \notin Held(q)
  /\ accounts' = accounts \ {u}
  /\ reports' = [r \in Ids |-> IF reports[r].author = u
                               THEN [reports[r] EXCEPT !.author = NoUser]
                               ELSE reports[r]]
  /\ votes' = {v \in votes : v.voter # u}
  /\ events' = [events EXCEPT ![u] = <<>>]
  /\ score' = [score EXCEPT ![u] = REPUTATION_INITIAL]
  /\ UNCHANGED <<world, observations, evidence, phase, req, bounds>>

Quiet == \A q \in Request : phase[q] = "idle"

\* Calls take seconds and the clock counts ten minutes: it moves between calls.
Tick ==
  /\ Quiet
  /\ \E d \in Pause : now + d <= MaxTime /\ now' = now + d
  /\ UNCHANGED <<official, tables, reputation, phase, req, bounds>>

\* Nobody calls any more.
Rest == Quiet /\ UNCHANGED vars

Create(q) == \/ Assess(q) \/ FindCorroborating(q) \/ BeginInsert(q)
             \/ WeighTwin(q) \/ LockTwin(q)
             \/ SaveCorroborating(q) \/ SaveAccepted(q) \/ SavePending(q)

Vote(q) == \/ CastVote(q) \/ ReadReport(q) \/ CountVotes(q)
           \/ BeginRecalculation(q) \/ KeepReport(q) \/ PromoteReport(q)

Award(q) == Reconcile(q) \/ InsertEvent(q) \/ WriteScore(q)

Step(q) == Create(q) \/ Vote(q) \/ Award(q) \/ Refuse(q)

Next ==
  \/ \E q \in Request : SubmitReport(q) \/ BeginVote(q) \/ OfficialPrice(q)
                          \/ Step(q) \/ Abort(q)
  \/ \E u \in Deletable : DeleteAccount(u)
  \/ Tick
  \/ Rest

Spec == Init /\ [][Next]_vars

\* The event loop and PostgreSQL take every call on when they can.
FairSpec == Spec /\ \A q \in Request : WF_vars(Step(q))

-----------------------------------------------------------------------------
(* Properties.                                                             *)

(***************************************************************************)
(* The variables keep their types, and references between the tables lead  *)
(* somewhere.                                                              *)
(***************************************************************************)
TypeOK ==
  /\ now \in Int /\ official \in Official \cup {NoPrice}
  /\ accounts \subseteq User
  /\ reports \in Seq(RowType) /\ observations \in Seq(Price)
  /\ votes \subseteq VoteType /\ evidence \subseteq Ids
  /\ \A r \in Ids : reports[r].obs \in 0..Len(observations)
  /\ score \in [User -> REPUTATION_MIN..REPUTATION_MAX]
  /\ events \in [User -> Seq(Int)]
  /\ phase \in [Request -> Phase] /\ req \in [Request -> RequestType]
  /\ calls \in Nat /\ failures \in Nat

(***************************************************************************)
(* docs/crowdsourcing.md: an accepted report has its observation linked.   *)
(* createReport() and the recalculation write status and link apart, from  *)
(* rows read earlier, and may overlap.                                     *)
(***************************************************************************)
AcceptedIsBacked ==
  \A r \in Ids : reports[r].status = "accepted" => reports[r].obs # 0

(***************************************************************************)
(* The observation a report refers to shows the price of that report, also *)
(* when it is shared through corroboration.                                *)
(***************************************************************************)
BackedByOwnPrice ==
  \A r \in Ids : reports[r].obs # 0 => observations[reports[r].obs] = reports[r].price

(***************************************************************************)
(* docs/photo-reporting.md: a photo does not bypass the anomaly check.  A  *)
(* price that is far from the official one is never accepted when it is    *)
(* submitted, and by votes only with four confirmations more than disputes.*)
(***************************************************************************)
AnomalyNeedsConfirmations ==
  [][\A q \in Request :
       /\ /\ phase[q] = "assessing" /\ phase'[q] = "matching"
          /\ isAnomaly(req[q].draft.price, official)
          => req'[q].draft.status = "pending"
       /\ /\ phase[q] = "counting" /\ phase'[q] = "deciding"
          /\ isAnomaly(req[q].read.price, official)
          /\ req[q].read.status # "accepted" /\ req'[q].status = "accepted"
          => Count(req[q].target, "confirm") >= Count(req[q].target, "dispute") + 4]_vars

(***************************************************************************)
(* An observation made of a report is linked from a report: none is shown  *)
(* that no vote could ever count against.                                  *)
(***************************************************************************)
EveryObservationIsLinked ==
  \A o \in 1..Len(observations) : \E r \in Ids : reports[r].obs = o

(***************************************************************************)
(* Every call ends.                                                        *)
(***************************************************************************)
EveryCallEnds == \A q \in Request : phase[q] # "idle" ~> phase[q] = "idle"
=============================================================================
