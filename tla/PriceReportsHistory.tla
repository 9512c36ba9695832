------------------------- MODULE PriceReportsHistory -------------------------
(***************************************************************************)
(* PriceReports with a memory of which calls met.  Some promises of the    *)
(* documents are kept by a read and a write that are statements apart, and *)
(* calls that overlap break them.  The history says between which calls    *)
(* this happened, and the properties say that nothing else breaks them,    *)
(* whatever else runs at the same time, fails or is deleted.               *)
(*                                                                         *)
(* The history only watches: it neither allows nor forbids a step.         *)
(***************************************************************************)
EXTENDS PriceReports

VARIABLES
  disturbed,  \* calls whose window another one has entered
  stale,      \* reports whose last judgement may not have seen every vote
  blurred     \* accounts of which two recordings met or one was cut off

history == <<disturbed, stale, blurred>>
varsH == <<vars, history>>

\* What a call has read and not yet written: from the check of the cooldown
\* to the insertion, or from the vote to the judgement.
Window(q) ==
  IF phase[q] \in CreateStep THEN {<<"price", req[q].user, req[q].draft.price>>}
  ELSE IF phase[q] \in VoteStep \ {"voting"} THEN {<<"report", req[q].target>>}
  ELSE {}

\* The account whose score a call has read and will write back.
Credited(q) ==
  IF phase[q] = "saving" /\ (req[q].target # 0 \/ req[q].draft.status = "accepted")
  THEN {req[q].user}
  ELSE IF phase[q] = "updating" /\ Promotes(q) THEN {req[q].read.author} \ {NoUser}
  ELSE IF phase[q] = "rewarding" THEN {req[q].author}
  ELSE {}

InitH ==
  /\ Init
  /\ disturbed = {} /\ stale = {} /\ blurred = {}

Meets(q) == \E p \in Request \ {q} : Window(p) \cap Window(q) # {}

\* The call fails, or is refused as an account is gone.
CutOff(q) ==
  phase'[q] = "idle" /\ (failures' # failures \/ \E u \in Needed(q) : ~Alive(u))

\* A vote on the report goes with the account that cast it.
Withdrawn(r) == \E v \in votes : v.report = r /\ v.voter \notin accounts'

\* A judgement of the report is written, or will never be.
Closes(q, r) == Window(q) = {<<"report", r>>} /\ Window(q)' = {}

Remember ==
  /\ disturbed' = {q \in Request : /\ Window(q)' # {}
                                   /\ \/ q \in disturbed
                                      \/ Meets(q)'
                                      \/ \E r \in Ids : <<"report", r>> \in Window(q)
                                                          /\ Withdrawn(r)}
  /\ stale' = {r \in Ids : \/ Withdrawn(r)
                           \/ \E q \in Request :
                                Closes(q, r) /\ (q \in disturbed \/ CutOff(q))
                           \/ r \in stale /\ \A q \in Request : ~Closes(q, r)}
  /\ blurred' = blurred
       \cup {u \in User : \E p, q \in Request :
                            p # q /\ u \in Credited(p)' \cap Credited(q)'}
       \cup {req[q].author : q \in {p \in Request : phase[p] = "rewarding" /\ CutOff(p)}}

(* A step of PriceReports, whichever it is, and the memory of it.          *)
NextH ==
  \/ \E q \in Request : (SubmitReport(q) \/ Create(q)) /\ Remember
  \/ \E q \in Request : (BeginVote(q) \/ Vote(q)) /\ Remember
  \/ \E q \in Request : (OfficialPrice(q) \/ Award(q)) /\ Remember
  \/ \E q \in Request : Refuse(q) /\ Remember
  \/ \E q \in Request : Abort(q) /\ Remember
  \/ \E u \in Deletable : DeleteAccount(u) /\ Remember
  \/ Tick /\ Remember
  \/ Rest /\ Remember

SpecH == InitH /\ [][NextH]_varsH

FairSpecH == SpecH /\ \A q \in Request : WF_vars(Step(q))

-----------------------------------------------------------------------------
(* Properties.                                                             *)

(***************************************************************************)
(* docs/crowdsourcing.md: the same user does not report the same price     *)
(* twice within ten minutes.  createReport() looks long before it inserts: *)
(* a repetition is stored only by a call that met another one of the same  *)
(* user for the same price between its check and its insertion.            *)
(***************************************************************************)
RepeatsComeOfOverlap ==
  [][\A q \in Request :
       /\ phase[q] = "saving" /\ phase'[q] = "idle" /\ Len(reports') > Len(reports)
       /\ \E r \in Ids : /\ reports[r].author = req[q].user
                         /\ reports[r].price = req[q].draft.price
                         /\ now - reports[r].createdAt \in 0..CooldownUnits
       => q \in disturbed]_varsH

Linked(o) == \E r \in Ids : reports[r].obs = o

(***************************************************************************)
(* docs/crowdsourcing.md: an accepted report has its observation linked.   *)
(* The observation is linked in the step that shows it, and loses its last *)
(* link only to a recalculation of the same report that met another one.   *)
(***************************************************************************)
LostLinksComeOfOverlap ==
  [][\A o \in 1..Len(observations') :
       \/ Linked(o)'
       \/ o <= Len(observations) /\ ~Linked(o)
       \/ \E q \in disturbed : /\ phase[q] = "updating"
                               /\ reports[req[q].target].obs = o]_varsH

(***************************************************************************)
(* A report with two disputes or more, and more of them than confirmations,*)
(* is disputed once nobody is judging it, unless its last judgement met    *)
(* another one, was cut off after the vote was stored, or was followed by  *)
(* the deletion of a voter.  The next judgement that meets none sets it    *)
(* right.                                                                  *)
(***************************************************************************)
OutvotedIsDisputed ==
  \A r \in Ids \ stale :
    /\ \A q \in Request : <<"report", r>> \notin Window(q)
    /\ Count(r, "dispute") >= 2 /\ Count(r, "dispute") > Count(r, "confirm")
    => reports[r].status = "disputed"

\* A score after the first events of a sequence, one by one and clamped.
AddedUp(start, s) ==
  LET after[n \in 0..Len(s)] == IF n = 0 THEN start ELSE clampScore(after[n - 1] + s[n])
  IN after[Len(s)]

(***************************************************************************)
(* A reputation is what its events add up to while none is being recorded, *)
(* in transactions and outside them, unless two recordings for the same    *)
(* author met or one was cut off between the event and the score.          *)
(***************************************************************************)
ScoreFollowsEvents ==
  \A u \in accounts \ blurred :
    (\A q \in Request : u \notin Credited(q)) => score[u] = AddedUp(StartScore[u], events[u])
=============================================================================
