---------------------------- MODULE ReportImages ----------------------------
(***************************************************************************)
(* The life of a photo of a price board: ReportImagesService with the      *)
(* table report_images, the files of LocalImageStorageProvider, the OCR    *)
(* jobs that run inside the API process, and everybody who removes or      *)
(* links an image: its owner, the maintenance command, the deletion of the *)
(* account, and the creation of a price report.                            *)
(*                                                                         *)
(* One step is the code between two awaits that matter: each database      *)
(* statement or transaction, each file operation and each visit to the     *)
(* semaphore is a step of its own, so other handlers may come in between.  *)
(* One user owns every image.  A request that is rejected changes nothing  *)
(* and is no step.                                                         *)
(***************************************************************************)
EXTENDS Naturals, Sequences, FiniteSets

CONSTANTS Image,                \* uploads: an id, a storage key and one OCR job
          PictureOf,            \* the sha256 of each upload
          Request,              \* requests the API serves at the same time
          Cron,                 \* runs of the maintenance command
          OCR_MAX_QUEUE_LENGTH, \* jobs that wait or run, at most
          OCR_MAX_CONCURRENCY,  \* recognitions at a time, at most
          MaxFaults             \* bound: failed calls and restarts in a run

Handler == Request \cup Cron

ASSUME ReportImagesAssumption ==
  /\ OCR_MAX_QUEUE_LENGTH \in Nat \ {0}
  /\ OCR_MAX_CONCURRENCY \in Nat \ {0}
  /\ MaxFaults \in Nat
  /\ IsFiniteSet(Image)
  /\ Request \cap Cron = {}

VARIABLES
  row,          \* report_images: status, deletedAt, expiresAt and the owner
  due,          \* images whose 24 hours are over
  files,        \* storage keys that exist on disk
  links,        \* images that user_price_report_images refers to
  results,      \* images with a row in report_image_ocr_results
  upload,       \* where uploadImage() is for each image
  job,          \* where processImage() is for each image
  pendingJobs,  \* the service's counter of accepted jobs
  active,       \* the semaphore's counter
  queue,        \* the semaphore's waiting jobs
  request,      \* what each handler is doing
  account,      \* the owner's row in users
  faults,       \* failures so far, at most MaxFaults
  torn,         \* history: images a removal was cut in the middle of
  settled       \* history: images linked while nothing else worked on them

ocrVars == <<job, pendingJobs, active, queue>>
tableVars == <<row, due, files, links, results>>
vars == <<tableVars, upload, ocrVars, request, account, faults, torn, settled>>

-----------------------------------------------------------------------------
Status == {"none", "uploaded", "processing", "processed", "failed",
           "attached", "deleted"}
UploadStep == {"none", "saving", "inserting", "ended"}
LiveStep == {"selecting", "marking", "reading", "waiting", "recognizing",
             "storing", "failing"}
JobStep == {"none", "refused", "ended"} \cup LiveStep
Op == {"none", "delete", "attach", "sweep", "purge"}
Step == {"idle", "check", "unlink", "tombstone", "link"}

NoRow == [status |-> "none", deletedAt |-> FALSE, expiresAt |-> FALSE, owned |-> FALSE]
Idle == [op |-> "none", step |-> "idle", target |-> {}, todo |-> {}, spared |-> {}]

Live == {i \in Image : job[i] \in LiveStep}
Exists(i) == row[i].status # "none"
Removing(h) == IF request[h].step \in {"unlink", "tombstone"}
               THEN request[h].target ELSE {}

(* What getOwnedImageOrThrow() lets through.                               *)
Owned(i) == /\ Exists(i) /\ ~row[i].deletedAt /\ row[i].owned
            /\ account = "open"

Init ==
  /\ row = [i \in Image |-> NoRow]
  /\ due = {} /\ files = {} /\ links = {} /\ results = {}
  /\ upload = [i \in Image |-> "none"]
  /\ job = [i \in Image |-> "none"]
  /\ pendingJobs = 0 /\ active = 0 /\ queue = <<>>
  /\ request = [h \in Handler |-> Idle]
  /\ account = "open"
  /\ faults = 0 /\ torn = {} /\ settled = {}

-----------------------------------------------------------------------------
(* uploadImage().  findRecentDuplicate() saw no live upload of the same    *)
(* picture in the last 24 hours; otherwise that row is the answer.         *)
RecentDuplicate(i) ==
  \E d \in Image : /\ PictureOf[d] = PictureOf[i]
                   /\ Exists(d) /\ row[d].owned
                   /\ ~row[d].deletedAt /\ row[d].status # "deleted"
                   /\ d \notin due

BeginUpload(i) ==
  /\ upload[i] = "none"
  /\ account = "open"
  /\ ~RecentDuplicate(i)
  /\ upload' = [upload EXCEPT ![i] = "saving"]
  /\ UNCHANGED <<tableVars, ocrVars, request, account, faults, torn, settled>>

SaveFile(i) ==
  /\ upload[i] = "saving"
  /\ files' = files \cup {i}
  /\ upload' = [upload EXCEPT ![i] = "inserting"]
  /\ UNCHANGED <<row, due, links, results, ocrVars, request, account, faults,
                 torn, settled>>

(* scheduleOcr(): the job is accepted, or refused when the cap is reached. *)
ScheduleOcr(i) ==
  IF pendingJobs >= OCR_MAX_QUEUE_LENGTH
  THEN /\ job' = [job EXCEPT ![i] = "refused"]
       /\ UNCHANGED pendingJobs
  ELSE /\ job' = [job EXCEPT ![i] = "selecting"]
       /\ pendingJobs' = pendingJobs + 1

(* The insert, and the job scheduled in the code that follows its await:   *)
(* until the job's first statement nobody can tell the two apart.          *)
InsertRow(i) ==
  /\ upload[i] = "inserting"
  /\ account = "open"
  /\ row' = [row EXCEPT ![i] = [status |-> "uploaded", deletedAt |-> FALSE,
                                expiresAt |-> TRUE, owned |-> TRUE]]
  /\ upload' = [upload EXCEPT ![i] = "ended"]
  /\ ScheduleOcr(i)
  /\ UNCHANGED <<due, files, links, results, active, queue, request, account,
                 faults, torn, settled>>

(* images.user_id refers to users: the owner's row is gone, the insert     *)
(* throws, and nothing removes the file saved before it.                   *)
InsertRefused(i) ==
  /\ upload[i] = "inserting"
  /\ account = "gone"
  /\ upload' = [upload EXCEPT ![i] = "ended"]
  /\ UNCHANGED <<tableVars, ocrVars, request, account, faults, torn, settled>>

-----------------------------------------------------------------------------
(* processImage(), one OCR job per image.                                  *)
SetStatus(i, s) == row' = [row EXCEPT ![i].status = s]

JobGoesTo(i, s) == job' = [job EXCEPT ![i] = s]

(* A faulty scheduleOcr() whose counter is only ever incremented.          *)
JobEndsUncounted(i) == JobGoesTo(i, "ended") /\ UNCHANGED pendingJobs

(* The finally of scheduleOcr().                                           *)
JobEnds(i) ==
  /\ JobGoesTo(i, "ended")
  /\ pendingJobs' = IF pendingJobs > 0 THEN pendingJobs - 1 ELSE 0

OutsideJob == <<due, files, links, upload, request, account, torn, settled>>

ReadRow(i) ==
  /\ job[i] = "selecting"
  /\ IF row[i].deletedAt \/ row[i].status = "deleted"
     THEN JobEnds(i)
     ELSE JobGoesTo(i, "marking") /\ UNCHANGED pendingJobs
  /\ UNCHANGED <<row, results, active, queue, faults, OutsideJob>>

MarkProcessing(i) ==
  /\ job[i] = "marking"
  /\ SetStatus(i, "processing")
  /\ JobGoesTo(i, "reading")
  /\ UNCHANGED <<results, pendingJobs, active, queue, faults, OutsideJob>>

(* storage.read() and, in the same turn, semaphore.acquire().              *)
ReadFile(i) ==
  /\ job[i] = "reading"
  /\ IF i \notin files
     THEN JobGoesTo(i, "failing") /\ UNCHANGED <<active, queue>>
     ELSE IF active < OCR_MAX_CONCURRENCY
          THEN /\ active' = active + 1
               /\ JobGoesTo(i, "recognizing")
               /\ UNCHANGED queue
          ELSE /\ queue' = Append(queue, i)
               /\ JobGoesTo(i, "waiting")
               /\ UNCHANGED active
  /\ UNCHANGED <<row, results, pendingJobs, faults, OutsideJob>>

(* A faulty release(): the place of the task that ends is not given back.  *)
ReleaseUncounted(i, next) ==
  IF queue = <<>>
  THEN /\ active' = IF active > 0 THEN active - 1 ELSE 0
       /\ JobGoesTo(i, next)
       /\ UNCHANGED queue
  ELSE /\ active' = active + 1
       /\ queue' = Tail(queue)
       /\ job' = [job EXCEPT ![i] = next, ![Head(queue)] = "recognizing"]

(* A faulty release(): the oldest callback is dropped and not run.         *)
ReleaseSilent(i, next) ==
  /\ active' = IF active > 0 THEN active - 1 ELSE 0
  /\ JobGoesTo(i, next)
  /\ queue' = IF queue = <<>> THEN <<>> ELSE Tail(queue)

(* semaphore.release(): the oldest waiter takes the place.                 *)
Release(i, next) ==
  IF queue = <<>>
  THEN /\ active' = IF active > 0 THEN active - 1 ELSE 0
       /\ JobGoesTo(i, next)
       /\ UNCHANGED queue
  ELSE /\ active' = (IF active > 0 THEN active - 1 ELSE 0) + 1
       /\ queue' = Tail(queue)
       /\ job' = [job EXCEPT ![i] = next, ![Head(queue)] = "recognizing"]

(* recognize() resolves or rejects, and the extraction follows.            *)
Recognized(i) ==
  /\ job[i] = "recognizing"
  /\ \E next \in {"storing", "failing"} : Release(i, next)
  /\ UNCHANGED <<row, results, pendingJobs, faults, OutsideJob>>

(* The transaction that stores the candidates; it asks nothing of the row. *)
StoreResult(i) ==
  /\ job[i] = "storing"
  /\ results' = results \cup {i}
  /\ SetStatus(i, "processed")
  /\ JobEnds(i)
  /\ UNCHANGED <<active, queue, faults, OutsideJob>>

MarkFailed(i) ==
  /\ job[i] \in {"failing", "refused"}
  /\ SetStatus(i, "failed")
  /\ IF job[i] = "failing"
     THEN JobEnds(i)
     ELSE JobGoesTo(i, "ended") /\ UNCHANGED pendingJobs
  /\ UNCHANGED <<results, active, queue, faults, OutsideJob>>

(* A statement of the job throws.  Inside the try the job is marked failed *)
(* next; outside of it, or if that update throws too, the job just ends.   *)
JobCallFails(i) ==
  /\ faults < MaxFaults
  /\ faults' = faults + 1
  /\ \/ /\ job[i] \in {"reading", "storing"}
        /\ JobGoesTo(i, "failing")
        /\ UNCHANGED pendingJobs
     \/ /\ job[i] \in {"selecting", "marking", "failing"}
        /\ JobEnds(i)
  /\ UNCHANGED <<row, results, active, queue, OutsideJob>>

OcrStep(i) == \/ ReadRow(i) \/ MarkProcessing(i) \/ ReadFile(i)
              \/ Recognized(i) \/ StoreResult(i) \/ MarkFailed(i)

-----------------------------------------------------------------------------
(* The handlers that remove images.                                        *)
OutsideRequest == <<upload, ocrVars, faults>>

Begin(h, op, step, target, todo) ==
  /\ request[h] = Idle
  /\ request' = [request EXCEPT ![h] = [op |-> op, step |-> step,
                   target |-> target, todo |-> todo, spared |-> links]]
  /\ UNCHANGED <<tableVars, account, torn, settled, OutsideRequest>>

(* A faulty deleteImage() that forgets about evidence.                     *)
DeleteImageUnguarded(h, i) ==
  /\ Owned(i)
  /\ Begin(h, "delete", "unlink", {i}, {})

(* deleteImage(): the owner's request; an attached image is refused.       *)
DeleteImage(h, i) ==
  /\ Owned(i) /\ row[i].status # "attached"
  /\ Begin(h, "delete", "unlink", {i}, {})

(* A faulty query that takes a job in progress for one that will end.      *)
ExpiredSettled ==
  {i \in Image : /\ row[i].status \in {"uploaded", "processed", "failed"}
                 /\ ~row[i].deletedAt /\ row[i].expiresAt /\ i \in due}

(* cleanupExpiredUnattached(): the rows the query selects.                 *)
Expired ==
  {i \in Image : /\ row[i].status \in {"uploaded", "processing", "processed", "failed"}
                 /\ ~row[i].deletedAt /\ row[i].expiresAt /\ i \in due}

Sweep(h) == Expired # {} /\ Begin(h, "sweep", "check", {}, Expired)

(* deleteAccount() after the password check: deleteUserImages() selects.   *)
OwnedRows == {i \in Image : Exists(i) /\ row[i].owned /\ ~row[i].deletedAt}

DeleteAccount(h) ==
  account = "open" /\ Begin(h, "purge", "check", {}, OwnedRows)

(* A faulty loop that trusts the list it works through.                    *)
LinkedWhenListed(i) == FALSE

(* imageHasReportLink().                                                   *)
Linked(i) == i \in links

(* The loop of both: imageHasReportLink() decides whether to go on.        *)
CheckLink(h) ==
  /\ request[h].step = "check"
  /\ \E i \in request[h].todo :
       request' = [request EXCEPT
         ![h].todo = @ \ {i},
         ![h].target = IF Linked(i) THEN {} ELSE {i},
         ![h].step = IF Linked(i) THEN "check" ELSE "unlink"]
  /\ UNCHANGED <<tableVars, account, torn, settled, OutsideRequest>>

(* A faulty storage provider that swallows every error of unlink().        *)
UnlinkSwallowing(h) ==
  /\ request[h].step = "unlink"
  /\ files' \in {files, files \ request[h].target}
  /\ request' = [request EXCEPT ![h].step = "tombstone"]
  /\ UNCHANGED <<row, due, links, results, account, torn, settled, OutsideRequest>>

(* The first half of softDeleteImage(): a missing file is no error.        *)
Unlink(h) ==
  /\ request[h].step = "unlink"
  /\ files' = files \ request[h].target
  /\ request' = [request EXCEPT ![h].step = "tombstone"]
  /\ UNCHANGED <<row, due, links, results, account, torn, settled, OutsideRequest>>

(* The second half; the loops go on with the next image.                   *)
Tombstone(h) ==
  /\ request[h].step = "tombstone"
  /\ row' = [i \in Image |->
               IF i \in request[h].target
               THEN [row[i] EXCEPT !.status = "deleted", !.deletedAt = TRUE]
               ELSE row[i]]
  /\ request' = IF request[h].op = "delete"
                THEN [request EXCEPT ![h] = Idle]
                ELSE [request EXCEPT ![h].step = "check", ![h].target = {}]
  /\ UNCHANGED <<due, files, links, results, account, torn, settled, OutsideRequest>>

SweepEnds(h) ==
  /\ request[h].op = "sweep" /\ request[h].step = "check" /\ request[h].todo = {}
  /\ request' = [request EXCEPT ![h] = Idle]
  /\ UNCHANGED <<tableVars, account, torn, settled, OutsideRequest>>

(* The last transaction of deleteAccount(): the foreign key of the images  *)
(* that are left is set to null.                                           *)
AccountGone(h) ==
  /\ request[h].op = "purge" /\ request[h].step = "check" /\ request[h].todo = {}
  /\ account' = "gone"
  /\ row' = [i \in Image |-> [row[i] EXCEPT !.owned = FALSE]]
  /\ request' = [request EXCEPT ![h] = Idle]
  /\ UNCHANGED <<due, files, links, results, torn, settled, OutsideRequest>>

-----------------------------------------------------------------------------
(* createReport() with a reportImageId: the image is validated first, and  *)
(* linked in the transaction that inserts the report.                      *)
AttachImage(h, i) ==
  /\ Owned(i)
  /\ row[i].status \in {"processed", "failed", "uploaded", "attached"}
  /\ Begin(h, "attach", "link", {i}, {})

(* Nobody else is about to change the row or the file of i.                *)
Undisturbed(i) ==
  /\ job[i] \notin LiveStep \cup {"refused"}
  /\ i \in files /\ ~row[i].deletedAt
  /\ \A h \in Handler : i \notin Removing(h)

LinkImage(h) ==
  /\ request[h].step = "link"
  /\ account = "open"
  /\ links' = links \cup request[h].target
  /\ row' = [i \in Image |->
               IF i \in request[h].target
               THEN [row[i] EXCEPT !.status = "attached", !.expiresAt = FALSE]
               ELSE row[i]]
  /\ settled' = settled \cup {i \in request[h].target : Undisturbed(i)}
  /\ request' = [request EXCEPT ![h] = Idle]
  /\ UNCHANGED <<due, files, results, account, torn, OutsideRequest>>

(* The report corroborates another one, whose branch returns before the    *)
(* link is made, or its author is gone and the insert throws.              *)
NotLinked(h) ==
  /\ request[h].step = "link"
  /\ request' = [request EXCEPT ![h] = Idle]
  /\ UNCHANGED <<tableVars, account, torn, settled, OutsideRequest>>

-----------------------------------------------------------------------------
(* A call of a handler throws, or the maintenance process is killed.       *)
Cut(hs) == UNION {request[h].target : h \in {g \in hs : request[g].step = "tombstone"}}

RequestFails(h) ==
  /\ faults < MaxFaults
  /\ request[h] # Idle
  /\ faults' = faults + 1
  /\ torn' = torn \cup Cut({h})
  /\ request' = [request EXCEPT ![h] = Idle]
  /\ UNCHANGED <<tableVars, upload, ocrVars, account, settled>>

UploadFails(i) ==
  /\ faults < MaxFaults
  /\ upload[i] \in {"saving", "inserting"}
  /\ faults' = faults + 1
  /\ upload' = [upload EXCEPT ![i] = "ended"]
  /\ UNCHANGED <<tableVars, ocrVars, request, account, torn, settled>>

(* The API process dies and comes back: its requests and jobs are lost.    *)
(* A rejection of markFailed() for a refused job, which nobody catches, is *)
(* one way to get here.                                                    *)
Restart ==
  /\ faults < MaxFaults
  /\ faults' = faults + 1
  /\ upload' = [i \in Image |-> IF upload[i] = "none" THEN "none" ELSE "ended"]
  /\ job' = [i \in Image |-> IF job[i] = "none" THEN "none" ELSE "ended"]
  /\ pendingJobs' = 0 /\ active' = 0 /\ queue' = <<>>
  /\ torn' = torn \cup Cut(Request)
  /\ request' = [h \in Handler |-> IF h \in Request THEN Idle ELSE request[h]]
  /\ UNCHANGED <<tableVars, account, settled>>

(* 24 hours pass since the upload of i.                                    *)
Age(i) ==
  /\ Exists(i) /\ i \notin due
  /\ due' = due \cup {i}
  /\ UNCHANGED <<row, files, links, results, upload, ocrVars, request, account,
                 faults, torn, settled>>

-----------------------------------------------------------------------------
UploadNext(i) == BeginUpload(i) \/ SaveFile(i) \/ InsertRow(i) \/ InsertRefused(i)

RequestNext(h) ==
  \/ \E i \in Image : DeleteImage(h, i) \/ AttachImage(h, i)
  \/ DeleteAccount(h) \/ LinkImage(h) \/ NotLinked(h) \/ AccountGone(h)

RemovalNext(h) == CheckLink(h) \/ Unlink(h) \/ Tombstone(h) \/ SweepEnds(h)

Next ==
  \/ \E i \in Image : UploadNext(i) \/ UploadFails(i) \/ OcrStep(i)
                      \/ JobCallFails(i) \/ Age(i)
  \/ \E h \in Request : RequestNext(h)
  \/ \E h \in Cron : Sweep(h)
  \/ \E h \in Handler : RemovalNext(h) \/ RequestFails(h)
  \/ Restart

Spec == Init /\ [][Next]_vars

(* OCR jobs and handlers go on until they end, time passes, and the        *)
(* maintenance command is run again and again.                             *)
FairSpec ==
  /\ Spec
  /\ \A i \in Image : /\ WF_vars(SaveFile(i)) /\ WF_vars(InsertRow(i))
                      /\ WF_vars(InsertRefused(i))
                      /\ WF_vars(OcrStep(i)) /\ WF_vars(Age(i))
  /\ \A h \in Handler : WF_vars(RemovalNext(h))
  /\ \A h \in Request : WF_vars(LinkImage(h) \/ NotLinked(h) \/ AccountGone(h))
  /\ \A h \in Cron : WF_vars(Sweep(h))

-----------------------------------------------------------------------------
RowType == [status : Status, deletedAt : BOOLEAN, expiresAt : BOOLEAN, owned : BOOLEAN]
RequestType == [op : Op, step : Step, target : SUBSET Image,
                todo : SUBSET Image, spared : SUBSET Image]

(* Every variable keeps its type.                                          *)
TypeOK ==
  /\ row \in [Image -> RowType]
  /\ due \subseteq Image /\ files \subseteq Image
  /\ links \subseteq Image /\ results \subseteq Image
  /\ upload \in [Image -> UploadStep]
  /\ job \in [Image -> JobStep]
  /\ pendingJobs \in Nat
  /\ active \in 0..OCR_MAX_CONCURRENCY
  /\ queue \in Seq(Image)
  /\ request \in [Handler -> RequestType]
  /\ account \in {"open", "gone"}
  /\ faults \in 0..MaxFaults
  /\ torn \subseteq Image /\ settled \subseteq Image

(* "Max in-process OCR jobs waiting + running" (ocr.constants.ts): the     *)
(* counter scheduleOcr() compares with the cap is the number of jobs that  *)
(* were accepted and did not end, whichever way each of them ended, so no  *)
(* slot leaks and the cap is a cap.                                        *)
QueueBound ==
  /\ pendingJobs = Cardinality(Live)
  /\ pendingJobs <= OCR_MAX_QUEUE_LENGTH

(* softDeleteImage() removes the file and then the row, in two calls that  *)
(* other handlers, failures and restarts may separate.  A row marked       *)
(* deleted never has a file; a row not marked deleted has its file unless  *)
(* a removal is between its halves or was cut there.                       *)
StorageMatchesRows ==
  \A i \in Image : Exists(i) =>
    /\ row[i].deletedAt => i \notin files
    /\ \/ row[i].deletedAt \/ i \in files \/ i \in torn
       \/ \E h \in Handler : request[h].step = "tombstone" /\ i \in request[h].target

(* Linked evidence has no expiry date, and neither the maintenance command *)
(* nor the deletion of the account removes an image that was linked before *)
(* it started, however the OCR job, a report and other removals overlap.   *)
EvidenceIsSpared ==
  /\ \A i \in links : ~row[i].expiresAt
  /\ \A h \in Handler : request[h].op \in {"sweep", "purge"} =>
       Removing(h) \cap request[h].spared = {}

(* An image linked when its OCR job was over and no removal had passed its *)
(* checks keeps its file, its row and the status that protects it, also    *)
(* from a sweep or a deletion that had listed it before.                   *)
SettledEvidenceIsKept ==
  \A i \in settled : /\ i \in files
                     /\ row[i].status = "attached" /\ ~row[i].deletedAt

(* The client reads the candidates of a processed image: they are there.   *)
ProcessedHasResult ==
  \A i \in Image : row[i].status = "processed" => i \in results

(* Between two restarts the jobs use the semaphore as OcrSemaphore says.   *)
Sem == INSTANCE OcrSemaphore
         WITH Job <- Image, MaxConcurrency <- OCR_MAX_CONCURRENCY,
              phase <- [i \in Image |-> CASE job[i] = "waiting" -> "waiting"
                                         [] job[i] = "recognizing" -> "running"
                                         [] OTHER -> "idle"]

JobsUseSemaphore == Sem!SemInit /\ [][Sem!SemNext \/ Restart]_(Sem!semVars)

(* Every OCR job ends, whatever fails and however long the queue is.       *)
EveryJobEnds == \A i \in Image : job[i] \in LiveStep ~> job[i] = "ended"

(* "Unattached images expire after 24 hours" (docs/photo-reporting.md):    *)
(* the file of every image that has a row is removed in the end, unless    *)
(* the image is linked to a report.                                        *)
UnattachedIsRemoved ==
  \A i \in Image : Exists(i) ~> (i \in links \/ i \notin files)

(* What deleteImage() tells the owner, "Attached evidence images cannot be *)
(* deleted" (report-images.service.ts): a linked image is never deleted.   *)
EvidenceCannotBeDeleted == \A i \in links : ~row[i].deletedAt
=============================================================================
