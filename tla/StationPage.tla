------------------------------ MODULE StationPage ------------------------------
(***************************************************************************)
(* The page of a station: its prices, the reports of other users with      *)
(* their votes, and the two forms to report a price, one of which reads    *)
(* the prices from a photo.  Choosing another form unmounts the one before *)
(* with all it knows; what it has sent goes on.  Every stored report or    *)
(* vote is a new version of the station; an answer shows a version between *)
(* the one at which it was asked for and the present one.  There are       *)
(* reports from the beginning (version 1), and the user is signed in.      *)
(***************************************************************************)
EXTENDS Naturals

CONSTANTS
  Picture,    \* the pictures to choose from
  NoPicture,
  MaxActs,    \* bound: votes, uploads, submissions, and requests that fail
  MaxForms    \* bound: changes between the forms

ASSUME StationPageAssumption ==
  NoPicture \notin Picture /\ MaxActs \in Nat /\ MaxForms \in Nat

VARIABLES
  opened,     \* whether the page is loading, shown or has failed
  version,    \* the version of the station in the API
  mode, form, \* which of the two forms is mounted, and its number
  submitting, \* the manual form waits for the answer to its report
  photo,      \* the file that is chosen
  imageId,    \* the picture of the upload that was answered
  photoPhase,
  candidates, \* how many prices were read, and from which picture
  uploads,    \* uploads and polls under way in the mounted form
  sending,    \* submissions under way: what is left of them
  prices, priceLoads,    \* the version shown, and the versions being asked for
  listed, listLoads,     \* the same of the list of reports, 0 before it is shown
  listLoading, listError,
  pricesTold, listTold, \* history: the version at the last question
  sent,       \* history: the pictures that stored reports refer to and stem from
  mixed,      \* history: where an answer came too late, or not at all
  acts

formVars == <<mode, form, submitting, photo, imageId, photoPhase, candidates, uploads>>
listVars == <<listed, listLoads, listLoading, listError, listTold>>
priceVars == <<prices, priceLoads, pricesTold>>
stationVars == <<opened, version, formVars, sending, priceVars, listVars, sent, mixed, acts>>

NoCandidates == [board |-> NoPicture, count |-> 0]

StationInit ==
  /\ opened = "loading" /\ version = 1
  /\ mode = "manual" /\ form = 0 /\ submitting = FALSE
  /\ photo = NoPicture /\ imageId = NoPicture /\ photoPhase = "idle"
  /\ candidates = NoCandidates /\ uploads = {}
  /\ sending = {} /\ sent = {} /\ mixed = {} /\ acts = 0
  /\ prices = 1 /\ priceLoads = {} /\ pricesTold = 1
  /\ listed = 0 /\ listLoads = {} /\ listLoading = FALSE /\ listError = FALSE
  /\ listTold = 0

-----------------------------------------------------------------------------
(* The list of reports.  A load is without effect when another refreshKey  *)
(* follows it, the one after a vote is not.                                *)
ListRequest(kind, nr, since) == [kind |-> kind, nr |-> nr, since |-> since]

Reading == {r \in listLoads : r.kind # "vote"}

LoadList(v) ==
  /\ listLoads' = {r \in listLoads : r.kind # "load"} \cup {ListRequest("load", 0, v)}
  /\ listLoading' = TRUE /\ listTold' = v
  /\ UNCHANGED <<listed, listError>>

Counted == acts < MaxActs /\ acts' = acts + 1

(* The three answers of the first load; the list is mounted after them.    *)
PageLoaded ==
  /\ opened = "loading"
  /\ \/ opened' = "shown" /\ LoadList(version) /\ UNCHANGED acts
     \/ Counted /\ opened' = "error" /\ UNCHANGED listVars
  /\ UNCHANGED <<version, formVars, sending, priceVars, sent, mixed>>

\* A faulty handleReportSubmitted(): the prices are not loaded again.
ReportSubmittedForList ==
  /\ pricesTold' = version' /\ UNCHANGED <<prices, priceLoads>>
  /\ LoadList(version')

(* handleReportSubmitted() loads both again and waits for neither.         *)
ReportSubmitted ==
  /\ priceLoads' = priceLoads \cup {version'} /\ pricesTold' = version' /\ UNCHANGED prices
  /\ LoadList(version')

(* The answer of an older question comes after that of the last one.       *)
Overtaken(since, told, asking) == since < told /\ told \notin asking
Mixed(what, is) == mixed' = IF is THEN mixed \cup {what} ELSE mixed

(* Nobody catches a failure of loadPrices().                               *)
PricesAnswered(since) ==
  /\ priceLoads' = priceLoads \ {since}
  /\ \/ /\ prices' \in since..version /\ UNCHANGED acts
        /\ Mixed("prices", Overtaken(since, pricesTold, priceLoads))
     \/ Counted /\ Mixed("prices", since = pricesTold) /\ UNCHANGED prices
  /\ UNCHANGED <<opened, version, formVars, sending, pricesTold, listVars, sent>>

\* A faulty ListAnswered: the effect depends on the list that it sets.
ListAnsweredAndAsked(r) ==
  /\ listLoads' = (listLoads \ {r}) \cup {ListRequest("load", 0, version)}
  /\ listed' \in r.since..version /\ listError' = FALSE /\ listLoading' = TRUE
  /\ UNCHANGED <<opened, version, formVars, sending, priceVars, listTold, sent, mixed, acts>>

ListAnswered(r) ==
  /\ listLoads' = listLoads \ {r}
  /\ \/ /\ listed' \in r.since..version /\ listError' = FALSE /\ UNCHANGED acts
        /\ Mixed("list", Overtaken(r.since, listTold, {q.since : q \in Reading}))
     \/ Counted /\ listError' = TRUE /\ UNCHANGED <<listed, mixed>>
  /\ listLoading' = (listLoading /\ r.kind # "load")
  /\ UNCHANGED <<opened, version, formVars, sending, priceVars, listTold, sent>>

Act == opened = "shown" /\ Counted /\ UNCHANGED opened

Vote ==
  /\ Act /\ ~listLoading /\ listed > 0
  /\ listLoads' = listLoads \cup {ListRequest("vote", acts', 0)}
  /\ UNCHANGED <<version, formVars, sending, priceVars, listed, listLoading, listError,
                 listTold, sent, mixed>>

(* A vote that is answered reloads the list; else it may be stored or not. *)
VoteAnswered(r) ==
  /\ \/ /\ version' = version + 1 /\ UNCHANGED <<listError, acts>>
        /\ listLoads' = (listLoads \ {r}) \cup {ListRequest("reload", r.nr, version')}
        /\ listTold' = version'
     \/ /\ Counted /\ version' \in {version, version + 1} /\ listError' = TRUE
        /\ listLoads' = listLoads \ {r}
        /\ UNCHANGED listTold
  /\ UNCHANGED <<opened, formVars, sending, priceVars, listed, listLoading, sent, mixed>>

-----------------------------------------------------------------------------
(* The forms.                                                              *)
ToggleMode ==
  /\ opened = "shown" /\ form < MaxForms /\ form' = form + 1
  /\ mode' = IF mode = "manual" THEN "photo" ELSE "manual"
  /\ submitting' = FALSE
  /\ photo' = NoPicture /\ imageId' = NoPicture /\ photoPhase' = "idle"
  /\ candidates' = NoCandidates /\ uploads' = {}
  /\ UNCHANGED <<opened, version, sending, priceVars, listVars, sent, mixed, acts>>

SendReports(image, board, n) ==
  sending' = sending \cup {[nr |-> acts', form |-> form, image |-> image,
                            board |-> board, left |-> n]}

(* The price typed in, with the position of the device or without.         *)
SubmitManual ==
  /\ Act /\ mode = "manual" /\ ~submitting /\ submitting' = TRUE
  /\ SendReports(NoPicture, NoPicture, 1)
  /\ UNCHANGED <<version, mode, form, photo, imageId, photoPhase, candidates, uploads,
                 priceVars, listVars, sent, mixed>>

(* handleFileChange(), also with no file at all, forgets what the form     *)
(* knew, but the upload and the poll under way go on.                      *)
ChoosePhoto(p) ==
  /\ opened = "shown" /\ mode = "photo"
  /\ photo' = p /\ imageId' = NoPicture /\ photoPhase' = "idle" /\ candidates' = NoCandidates
  /\ UNCHANGED <<opened, version, mode, form, submitting, uploads, sending, priceVars,
                 listVars, sent, mixed, acts>>

Upload ==
  /\ Act /\ photoPhase = "idle" /\ photo # NoPicture
  /\ photoPhase' = "uploading"
  /\ uploads' = uploads \cup {[nr |-> acts', photo |-> photo, at |-> "upload"]}
  /\ Mixed("photo", uploads # {})
  /\ UNCHANGED <<version, mode, form, submitting, photo, imageId, candidates, sending,
                 priceVars, listVars, sent>>

OutsideUpload ==
  <<opened, version, mode, form, submitting, photo, sending, priceVars, listVars, sent, mixed>>

UploadAnswered(u) ==
  /\ u.at = "upload" /\ uploads' = (uploads \ {u}) \cup {[u EXCEPT !.at = "poll"]}
  /\ imageId' = u.photo /\ photoPhase' = "processing"
  /\ UNCHANGED <<candidates, acts, OutsideUpload>>

(* pollReportImageUntilReady(): none is also the end after thirty attempts.*)
PollAnswered(u, n) ==
  /\ u.at = "poll" /\ uploads' = uploads \ {u}
  /\ candidates' = IF n = 0 THEN NoCandidates ELSE [board |-> u.photo, count |-> n]
  /\ photoPhase' = "review"
  /\ UNCHANGED <<imageId, acts, OutsideUpload>>

UploadFails(u) ==
  /\ Counted /\ uploads' = uploads \ {u} /\ photoPhase' = "idle"
  /\ UNCHANGED <<imageId, candidates, OutsideUpload>>

(* handleConfirmSubmit() with n of the candidates selected.                *)
ConfirmSubmit(n) ==
  /\ Act /\ photoPhase = "review" /\ n <= candidates.count /\ imageId # NoPicture
  /\ photoPhase' = "submitting" /\ SendReports(imageId, candidates.board, n)
  /\ UNCHANGED <<version, mode, form, submitting, photo, imageId, candidates, uploads,
                 priceVars, listVars, sent, mixed>>

(* The end of a submission in the form it came from, if that is mounted.   *)
FormGoesTo(f, ending) ==
  /\ submitting' = (submitting /\ f.form # form)
  /\ photoPhase' = IF f.form = form /\ mode = "photo" THEN ending ELSE photoPhase
  /\ UNCHANGED <<mode, form, photo, imageId, candidates, uploads>>

(* One report after the other; the page is told after the last.            *)
ReportAccepted(f) ==
  /\ version' = version + 1
  /\ sent' = sent \cup {[image |-> f.image, board |-> f.board]}
  /\ \/ /\ f.left = 1 /\ sending' = sending \ {f}
        /\ FormGoesTo(f, "done") /\ ReportSubmitted
     \/ /\ f.left > 1
        /\ sending' = (sending \ {f}) \cup {[f EXCEPT !.left = @ - 1]}
        /\ UNCHANGED <<formVars, priceVars, listVars>>
  /\ UNCHANGED <<opened, mixed, acts>>

(* Refused or lost on its way; the reports before it stay, and nothing is  *)
(* loaded again.                                                           *)
ReportFails(f) ==
  /\ Counted /\ sending' = sending \ {f} /\ FormGoesTo(f, "review")
  /\ \/ UNCHANGED <<version, sent>>
     \/ version' = version + 1 /\ sent' = sent \cup {[image |-> f.image, board |-> f.board]}
  /\ UNCHANGED <<opened, priceVars, listVars, mixed>>

-----------------------------------------------------------------------------
StationStep ==
  \/ PageLoaded
  \/ \E since \in priceLoads : PricesAnswered(since)
  \/ \E r \in listLoads : IF r.kind = "vote" THEN VoteAnswered(r) ELSE ListAnswered(r)
  \/ \E u \in uploads : UploadAnswered(u) \/ UploadFails(u) \/ \E n \in 0..2 : PollAnswered(u, n)
  \/ \E f \in sending : ReportAccepted(f) \/ ReportFails(f)

StationNext ==
  \/ StationStep
  \/ Vote \/ ToggleMode \/ SubmitManual \/ Upload
  \/ \E p \in Picture \cup {NoPicture} : ChoosePhoto(p)
  \/ \E n \in 1..2 : ConfirmSubmit(n)

-----------------------------------------------------------------------------
StationTypeOK ==
  /\ opened \in {"loading", "shown", "error"} /\ version \in Nat
  /\ mode \in {"manual", "photo"} /\ form \in 0..MaxForms /\ submitting \in BOOLEAN
  /\ photo \in Picture \cup {NoPicture} /\ imageId \in Picture \cup {NoPicture}
  /\ photoPhase \in {"idle", "uploading", "processing", "review", "submitting", "done"}
  /\ candidates \in [board : Picture \cup {NoPicture}, count : 0..2]
  /\ uploads \subseteq [nr : 1..MaxActs, photo : Picture, at : {"upload", "poll"}]
  /\ \A f \in sending : f.nr \in 1..MaxActs /\ f.left \in 1..2
  /\ prices \in 0..version /\ pricesTold \in 0..version /\ priceLoads \subseteq 0..version
  /\ listed \in 0..version /\ listTold \in 0..version
  /\ listLoads \subseteq [kind : {"load", "reload", "vote"}, nr : 0..MaxActs, since : 0..version]
  /\ listLoading \in BOOLEAN /\ listError \in BOOLEAN
  /\ mixed \subseteq {"photo", "prices", "list"} /\ acts \in 0..MaxActs

(* A form says that it is busy only while its upload or submission is      *)
(* under way, and the list that it loads only while a load of it counts.   *)
(* A report refers to the picture its price was read from ("candidate      *)
(* review/edit, confirm -> existing report API with reportImageId",        *)
(* docs/frontend.md:208), though another file be chosen during the upload; *)
(* and as soon as the last question is answered the page contains what was *)
(* submitted or voted from it.  The code does not keep to that when a      *)
(* picture is uploaded while another still is, when an older answer comes  *)
(* last, or when the last load of the prices fails: these are set apart in *)
(* mixed.                                                                  *)
StationPageIsTrue ==
  /\ photoPhase \in {"uploading", "processing"} => uploads # {}
  /\ photoPhase = "submitting" \/ submitting => \E f \in sending : f.form = form
  /\ listLoading <=> \E r \in listLoads : r.kind = "load"
  /\ "photo" \notin mixed => \A s \in sent : s.image = s.board
  /\ "prices" \notin mixed /\ pricesTold \notin priceLoads => prices >= pricesTold
  /\ "list" \notin mixed /\ (\A r \in Reading : r.since # listTold)
       => listError \/ listed >= listTold
=============================================================================
