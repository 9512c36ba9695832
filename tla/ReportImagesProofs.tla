------------------------- MODULE ReportImagesProofs -------------------------
(***************************************************************************)
(* Proofs about ReportImages for any set of uploads, handlers and bounds.  *)
(* The invariants are proved in layers, each inductive relative to the     *)
(* ones before it: the types, the order in which an image's row, job and   *)
(* links come to be, then the agreement of disk and table, the safety of   *)
(* linked evidence and the exactness of the job counter.                   *)
(***************************************************************************)
EXTENDS ReportImages, FiniteSetTheorems, SequenceTheorems, TLAPS

(* An upload whose insert is still to come has no row, no job and nobody   *)
(* who knows its id; its file is on disk once it is about to be inserted.  *)
(* Jobs, links and the images a handler works on have rows.                *)
RowsComeFirst ==
  /\ \A i \in Image : upload[i] \in {"none", "saving", "inserting"} =>
                        ~Exists(i) /\ job[i] = "none"
  /\ \A i \in Image : upload[i] = "inserting" => i \in files
  /\ \A i \in Image : job[i] # "none" \/ i \in links => Exists(i)
  /\ \A h \in Handler : \A i \in request[h].target \cup request[h].todo : Exists(i)

(* The queue of the semaphore holds waiting jobs, each once.               *)
QueueHoldsWaiters ==
  /\ \A n \in DOMAIN queue : job[queue[n]] = "waiting"
  /\ \A m, n \in DOMAIN queue : queue[m] = queue[n] => m = n

(* A removal past its first half has left no file behind.                  *)
HalfRemoved ==
  \A h \in Handler : request[h].step = "tombstone" =>
                       request[h].target \cap files = {}

(* What a loop must spare was linked when it started, and still is.        *)
SparedWereLinked == \A h \in Handler : request[h].spared \subseteq links

(* Nothing that could harm a settled image is on its way.                  *)
SettledIsUndisturbed ==
  /\ settled \subseteq links
  /\ \A i \in settled : Undisturbed(i)

StorageInv == StorageMatchesRows /\ HalfRemoved
EvidenceInv == EvidenceIsSpared /\ SparedWereLinked
SettledInv == SettledEvidenceIsKept /\ SettledIsUndisturbed

-----------------------------------------------------------------------------
(* Types.                                                                  *)
LEMMA TypeInit == Init => TypeOK
BY ReportImagesAssumption, EmptySeq DEF Init, TypeOK, RowType, RequestType, Status,
      UploadStep, JobStep, Op, Step, Idle, NoRow

LEMMA TypeStep == TypeOK /\ [Next]_vars => TypeOK'
<1> SUFFICES ASSUME TypeOK, [Next]_vars PROVE TypeOK'
  OBVIOUS
<1>1. ASSUME NEW i \in Image, BeginUpload(i)  PROVE TypeOK'
  BY <1>1 DEF BeginUpload, tableVars, ocrVars, TypeOK, UploadStep
<1>2. ASSUME NEW i \in Image, SaveFile(i)  PROVE TypeOK'
  BY <1>2 DEF SaveFile, ocrVars, TypeOK, UploadStep
<1>3. ASSUME NEW i \in Image, InsertRow(i)  PROVE TypeOK'
  BY <1>3
     DEF InsertRow, ScheduleOcr, TypeOK, UploadStep, RowType, Status, JobStep,
         LiveStep
<1>4. ASSUME NEW i \in Image, InsertRefused(i)  PROVE TypeOK'
  BY <1>4 DEF InsertRefused, tableVars, ocrVars, TypeOK, UploadStep
<1>5. ASSUME NEW i \in Image, UploadFails(i)  PROVE TypeOK'
  BY <1>5, ReportImagesAssumption
     DEF UploadFails, tableVars, ocrVars, TypeOK, UploadStep
<1>6. ASSUME NEW i \in Image, ReadRow(i)  PROVE TypeOK'
  BY <1>6
     DEF ReadRow, JobEnds, JobGoesTo, OutsideJob, TypeOK, JobStep, LiveStep
<1>7. ASSUME NEW i \in Image, MarkProcessing(i)  PROVE TypeOK'
  BY <1>7
     DEF MarkProcessing, SetStatus, JobGoesTo, OutsideJob, TypeOK, RowType,
         Status, JobStep, LiveStep
<1>8. ASSUME NEW i \in Image, ReadFile(i)  PROVE TypeOK'
  <2>1. job' \in [Image -> JobStep]
    BY <1>8 DEF ReadFile, JobGoesTo, TypeOK, JobStep, LiveStep
  <2>2. active' \in 0..OCR_MAX_CONCURRENCY
    BY <1>8, ReportImagesAssumption DEF ReadFile, TypeOK
  <2>3. queue' \in Seq(Image)
    BY <1>8 DEF ReadFile, TypeOK
  <2> QED BY <1>8, <2>1, <2>2, <2>3 DEF ReadFile, OutsideJob, TypeOK
<1>9. ASSUME NEW i \in Image, Recognized(i)  PROVE TypeOK'
  <2>1. PICK next \in {"storing", "failing"} : Release(i, next)
    BY <1>9 DEF Recognized
  <2>2. queue # <<>> => Head(queue) \in Image /\ Tail(queue) \in Seq(Image)
    BY EmptySeq, HeadTailProperties DEF TypeOK
  <2>3. job' \in [Image -> JobStep]
    BY <2>1, <2>2 DEF Release, JobGoesTo, TypeOK, JobStep, LiveStep
  <2>4. queue' \in Seq(Image)
    BY <2>1, <2>2 DEF Release, TypeOK
  <2>5. active' \in 0..OCR_MAX_CONCURRENCY
    BY <2>1, ReportImagesAssumption DEF Release, TypeOK
  <2> QED BY <1>9, <2>3, <2>4, <2>5 DEF Recognized, OutsideJob, TypeOK
<1>10. ASSUME NEW i \in Image, StoreResult(i)  PROVE TypeOK'
  <2>1. row' \in [Image -> RowType]
    BY <1>10 DEF StoreResult, SetStatus, TypeOK, RowType, Status
  <2>2. job' \in [Image -> JobStep] /\ pendingJobs' \in Nat
    BY <1>10 DEF StoreResult, JobEnds, JobGoesTo, TypeOK, JobStep
  <2> QED BY <1>10, <2>1, <2>2 DEF StoreResult, OutsideJob, TypeOK
<1>11. ASSUME NEW i \in Image, MarkFailed(i)  PROVE TypeOK'
  <2>1. row' \in [Image -> RowType]
    BY <1>11 DEF MarkFailed, SetStatus, TypeOK, RowType, Status
  <2>2. job' \in [Image -> JobStep] /\ pendingJobs' \in Nat
    BY <1>11 DEF MarkFailed, JobEnds, JobGoesTo, TypeOK, JobStep
  <2> QED BY <1>11, <2>1, <2>2 DEF MarkFailed, OutsideJob, TypeOK
<1>12. ASSUME NEW i \in Image, JobCallFails(i)  PROVE TypeOK'
  BY <1>12, ReportImagesAssumption
     DEF JobCallFails, JobEnds, JobGoesTo, OutsideJob, TypeOK, JobStep,
         LiveStep
<1>13. ASSUME NEW i \in Image, Age(i)  PROVE TypeOK'
  BY <1>13 DEF Age, ocrVars, TypeOK
<1>14. ASSUME NEW h \in Handler, NEW i \in Image, DeleteImage(h, i)  PROVE
     TypeOK'
  BY <1>14
     DEF DeleteImage, Begin, tableVars, OutsideRequest, ocrVars, TypeOK,
         RequestType, Op, Step
<1>15. ASSUME NEW h \in Handler, NEW i \in Image, AttachImage(h, i)  PROVE
     TypeOK'
  BY <1>15
     DEF AttachImage, Begin, tableVars, OutsideRequest, ocrVars, TypeOK,
         RequestType, Op, Step
<1>16. ASSUME NEW h \in Handler, DeleteAccount(h)  PROVE TypeOK'
  BY <1>16
     DEF DeleteAccount, Begin, OwnedRows, tableVars, OutsideRequest, ocrVars,
         TypeOK, RequestType, Op, Step
<1>17. ASSUME NEW h \in Handler, LinkImage(h)  PROVE TypeOK'
  <2>1. ASSUME NEW j \in Image  PROVE row'[j] \in RowType
    BY <1>17 DEF LinkImage, TypeOK, RowType, Status
  <2>2. row' \in [Image -> RowType]
    BY <1>17, <2>1 DEF LinkImage
  <2>3. request' \in [Handler -> RequestType]
    BY <1>17 DEF LinkImage, TypeOK, RequestType, Idle, Op, Step
  <2>4. request[h].target \subseteq Image
    BY DEF TypeOK, RequestType
  <2> QED BY <1>17, <2>2, <2>3, <2>4
     DEF LinkImage, OutsideRequest, ocrVars, TypeOK
<1>18. ASSUME NEW h \in Handler, NotLinked(h)  PROVE TypeOK'
  BY <1>18
     DEF NotLinked, tableVars, OutsideRequest, ocrVars, TypeOK, RequestType,
         Op, Step, Idle
<1>19. ASSUME NEW h \in Handler, AccountGone(h)  PROVE TypeOK'
  <2>1. ASSUME NEW j \in Image  PROVE row'[j] \in RowType
    BY <1>19 DEF AccountGone, TypeOK, RowType
  <2>2. row' \in [Image -> RowType]
    BY <1>19, <2>1 DEF AccountGone
  <2>3. request' \in [Handler -> RequestType]
    BY <1>19 DEF AccountGone, TypeOK, RequestType, Idle, Op, Step
  <2> QED BY <1>19, <2>2, <2>3
     DEF AccountGone, OutsideRequest, ocrVars, TypeOK
<1>20. ASSUME NEW h \in Handler, Sweep(h)  PROVE TypeOK'
  BY <1>20
     DEF Sweep, Begin, Expired, tableVars, OutsideRequest, ocrVars, TypeOK,
         RequestType, Op, Step
<1>21. ASSUME NEW h \in Handler, CheckLink(h)  PROVE TypeOK'
  <2>1. request[h] \in RequestType
    BY DEF TypeOK
  <2>2. PICK i \in request[h].todo :
          request' = [request EXCEPT
            ![h].todo = @ \ {i},
            ![h].target = IF Linked(i) THEN {} ELSE {i},
            ![h].step = IF Linked(i) THEN "check" ELSE "unlink"]
    BY <1>21 DEF CheckLink
  <2>3. /\ request[h].todo \ {i} \in SUBSET Image
        /\ (IF Linked(i) THEN {} ELSE {i}) \in SUBSET Image
        /\ (IF Linked(i) THEN "check" ELSE "unlink") \in Step
    BY <2>1 DEF RequestType, Step
  <2>4. request' \in [Handler -> RequestType]
    BY <2>1, <2>2, <2>3 DEF TypeOK, RequestType
  <2> QED BY <1>21, <2>4
     DEF CheckLink, tableVars, OutsideRequest, ocrVars, TypeOK
<1>22. ASSUME NEW h \in Handler, Unlink(h)  PROVE TypeOK'
  BY <1>22 DEF Unlink, OutsideRequest, ocrVars, TypeOK, RequestType, Step
<1>23. ASSUME NEW h \in Handler, Tombstone(h)  PROVE TypeOK'
  <2>1. ASSUME NEW j \in Image  PROVE row'[j] \in RowType
    BY <1>23 DEF Tombstone, TypeOK, RowType, Status
  <2>2. row' \in [Image -> RowType]
    BY <1>23, <2>1 DEF Tombstone
  <2>3. request' \in [Handler -> RequestType]
    <3>1. CASE request[h].op = "delete"
      BY <1>23, <3>1 DEF Tombstone, TypeOK, RequestType, Idle, Op, Step
    <3>2. CASE request[h].op # "delete"
      <4>1. {} \in SUBSET Image /\ "check" \in Step
        BY DEF Step
      <4>2. request' = [request EXCEPT ![h].step = "check", ![h].target = {}]
        BY <1>23, <3>2 DEF Tombstone
      <4>3. request \in [Handler -> RequestType]
        BY DEF TypeOK
      <4> QED BY <4>1, <4>2, <4>3 DEF RequestType
    <3> QED BY <3>1, <3>2
  <2> QED BY <1>23, <2>2, <2>3 DEF Tombstone, OutsideRequest, ocrVars, TypeOK
<1>24. ASSUME NEW h \in Handler, SweepEnds(h)  PROVE TypeOK'
  BY <1>24
     DEF SweepEnds, tableVars, OutsideRequest, ocrVars, TypeOK, RequestType,
         Op, Step, Idle
<1>25. ASSUME NEW h \in Handler, RequestFails(h)  PROVE TypeOK'
  BY <1>25, ReportImagesAssumption
     DEF RequestFails, Cut, tableVars, ocrVars, TypeOK, RequestType, Op, Step,
         Idle
<1>26. CASE Restart
  <2>1. /\ upload' \in [Image -> UploadStep]
        /\ job' \in [Image -> JobStep]
    BY <1>26 DEF Restart, UploadStep, JobStep
  <2>2. request' \in [Handler -> RequestType]
    BY <1>26 DEF Restart, TypeOK, RequestType, Idle, Op, Step
  <2>3. Cut(Request) \subseteq Image
    BY DEF Cut, TypeOK, RequestType, Handler
  <2>4. /\ queue' \in Seq(Image) /\ active' \in 0..OCR_MAX_CONCURRENCY
        /\ pendingJobs' \in Nat /\ faults' \in 0..MaxFaults
    BY <1>26, ReportImagesAssumption, EmptySeq DEF Restart, TypeOK
  <2> QED BY <1>26, <2>1, <2>2, <2>3, <2>4 DEF Restart, tableVars, TypeOK
<1>27. CASE UNCHANGED vars
  BY <1>27 DEF vars, tableVars, ocrVars, TypeOK
<1> QED BY <1>1, <1>2, <1>3, <1>4, <1>5, <1>6, <1>7, <1>8, <1>9, <1>10, <1>11,
   <1>12, <1>13, <1>14, <1>15, <1>16, <1>17, <1>18, <1>19, <1>20, <1>21,
   <1>22, <1>23, <1>24, <1>25, <1>26, <1>27
   DEF Next, UploadNext, OcrStep, RequestNext, RemovalNext, Handler

-----------------------------------------------------------------------------
(* The first callback of a non-empty queue belongs to a waiting job that   *)
(* is not queued again behind it.                                          *)
LEMMA QueueFront ==
  ASSUME TypeOK, QueueHoldsWaiters, queue # <<>>
  PROVE  /\ Head(queue) \in Image /\ job[Head(queue)] = "waiting"
         /\ Tail(queue) \in Seq(Image)
         /\ \A n \in DOMAIN Tail(queue) :
              /\ n + 1 \in DOMAIN queue
              /\ Tail(queue)[n] = queue[n + 1]
              /\ Tail(queue)[n] # Head(queue)
         /\ DOMAIN Tail(queue) \subseteq Int
<1>1. /\ queue \in Seq(Image) /\ Len(queue) \in Nat \ {0}
      /\ Head(queue) = queue[1] /\ 1 \in DOMAIN queue
      /\ DOMAIN queue = 1..Len(queue)
  BY EmptySeq, HeadTailProperties DEF TypeOK
<1>2. /\ Tail(queue) \in Seq(Image)
      /\ DOMAIN Tail(queue) = 1..(Len(queue) - 1)
      /\ \A n \in 1..(Len(queue) - 1) : Tail(queue)[n] = queue[n + 1]
  BY <1>1, HeadTailProperties
<1>3. \A n \in DOMAIN Tail(queue) : n + 1 \in DOMAIN queue /\ n + 1 # 1
  BY <1>1, <1>2
<1>4. \A n \in DOMAIN Tail(queue) : queue[n + 1] # queue[1]
  BY <1>1, <1>3 DEF QueueHoldsWaiters
<1>5. queue[1] \in Image
  BY <1>1
<1> QED BY <1>1, <1>2, <1>3, <1>4, <1>5 DEF QueueHoldsWaiters

(* Rows come first.                                                        *)
LEMMA RowsInit == Init => RowsComeFirst
BY DEF Init, RowsComeFirst, Exists, NoRow, Idle

LEMMA RowsStep == RowsComeFirst /\ TypeOK /\ QueueHoldsWaiters /\ [Next]_vars
     => RowsComeFirst'
<1> SUFFICES ASSUME RowsComeFirst, TypeOK, QueueHoldsWaiters, [Next]_vars
     PROVE RowsComeFirst'
  OBVIOUS
<1>1. ASSUME NEW i \in Image, BeginUpload(i)  PROVE RowsComeFirst'
  BY <1>1 DEF BeginUpload, tableVars, ocrVars, RowsComeFirst, Exists
<1>2. ASSUME NEW i \in Image, SaveFile(i)  PROVE RowsComeFirst'
  BY <1>2 DEF SaveFile, ocrVars, RowsComeFirst, Exists
<1>3. ASSUME NEW i \in Image, InsertRow(i)  PROVE RowsComeFirst'
  BY <1>3 DEF InsertRow, ScheduleOcr, RowsComeFirst, Exists, TypeOK
<1>4. ASSUME NEW i \in Image, InsertRefused(i)  PROVE RowsComeFirst'
  BY <1>4 DEF InsertRefused, tableVars, ocrVars, RowsComeFirst, Exists
<1>5. ASSUME NEW i \in Image, UploadFails(i)  PROVE RowsComeFirst'
  BY <1>5 DEF UploadFails, tableVars, ocrVars, RowsComeFirst, Exists
<1>6. ASSUME NEW i \in Image, ReadRow(i)  PROVE RowsComeFirst'
  BY <1>6
     DEF ReadRow, JobEnds, JobGoesTo, OutsideJob, RowsComeFirst, Exists,
         TypeOK
<1>7. ASSUME NEW i \in Image, MarkProcessing(i)  PROVE RowsComeFirst'
  BY <1>7
     DEF MarkProcessing, SetStatus, JobGoesTo, OutsideJob, RowsComeFirst,
         Exists
<1>8. ASSUME NEW i \in Image, ReadFile(i)  PROVE RowsComeFirst'
  BY <1>8 DEF ReadFile, JobGoesTo, OutsideJob, RowsComeFirst, Exists, TypeOK
<1>9. ASSUME NEW i \in Image, Recognized(i)  PROVE RowsComeFirst'
  <2>1. PICK next \in {"storing", "failing"} : Release(i, next)
    BY <1>9 DEF Recognized
  <2>2. CASE queue = <<>>
    BY <1>9, <2>1, <2>2
       DEF Recognized, Release, JobGoesTo, OutsideJob, RowsComeFirst, Exists,
            TypeOK
  <2>3. CASE queue # <<>>
    <3>1. Head(queue) \in Image /\ job[Head(queue)] = "waiting"
      BY <2>3, QueueFront
    <3>2. /\ job' = [job EXCEPT ![i] = next, ![Head(queue)] = "recognizing"]
          /\ job[i] = "recognizing"
      BY <1>9, <2>1, <2>3 DEF Recognized, Release
    <3>3. \A j \in Image : job'[j] = "none" <=> job[j] = "none"
      BY <2>1, <3>1, <3>2 DEF TypeOK
    <3> QED BY <1>9, <3>3 DEF Recognized, OutsideJob, RowsComeFirst, Exists
  <2> QED BY <2>2, <2>3
<1>10. ASSUME NEW i \in Image, StoreResult(i)  PROVE RowsComeFirst'
  BY <1>10
     DEF StoreResult, SetStatus, JobEnds, JobGoesTo, OutsideJob,
         RowsComeFirst, Exists
<1>11. ASSUME NEW i \in Image, MarkFailed(i)  PROVE RowsComeFirst'
  BY <1>11
     DEF MarkFailed, SetStatus, JobEnds, JobGoesTo, OutsideJob, RowsComeFirst,
         Exists, TypeOK
<1>12. ASSUME NEW i \in Image, JobCallFails(i)  PROVE RowsComeFirst'
  BY <1>12
     DEF JobCallFails, JobEnds, JobGoesTo, OutsideJob, RowsComeFirst, Exists,
         TypeOK
<1>13. ASSUME NEW i \in Image, Age(i)  PROVE RowsComeFirst'
  BY <1>13 DEF Age, ocrVars, RowsComeFirst, Exists
<1>14. ASSUME NEW h \in Handler, NEW i \in Image, DeleteImage(h, i)  PROVE
     RowsComeFirst'
  BY <1>14
     DEF DeleteImage, Begin, Owned, tableVars, OutsideRequest, ocrVars,
         RowsComeFirst, Exists
<1>15. ASSUME NEW h \in Handler, NEW i \in Image, AttachImage(h, i)  PROVE
     RowsComeFirst'
  BY <1>15
     DEF AttachImage, Begin, tableVars, OutsideRequest, ocrVars,
         RowsComeFirst, Exists
<1>16. ASSUME NEW h \in Handler, DeleteAccount(h)  PROVE RowsComeFirst'
  BY <1>16
     DEF DeleteAccount, Begin, OwnedRows, tableVars, OutsideRequest, ocrVars,
         RowsComeFirst, Exists
<1>17. ASSUME NEW h \in Handler, LinkImage(h)  PROVE RowsComeFirst'
  <2>1. \A j \in request[h].target : j \in Image /\ Exists(j)
    BY DEF RowsComeFirst, TypeOK, RequestType
  <2>2. \A j \in Image : Exists(j)' <=> Exists(j)
    BY <1>17, <2>1 DEF LinkImage, Exists, TypeOK, RowType
  <2>3. \A g \in Handler :
          request'[g].target \cup request'[g].todo
            \subseteq (request[g].target \cup request[g].todo) \cap Image
    BY <1>17 DEF LinkImage, Idle, TypeOK, RequestType
  <2> QED
    BY <1>17, <2>1, <2>2, <2>3
       DEF LinkImage, OutsideRequest, ocrVars, RowsComeFirst
<1>18. ASSUME NEW h \in Handler, NotLinked(h)  PROVE RowsComeFirst'
  BY <1>18
     DEF NotLinked, tableVars, OutsideRequest, ocrVars, RowsComeFirst, Exists,
         Idle
<1>19. ASSUME NEW h \in Handler, AccountGone(h)  PROVE RowsComeFirst'
  BY <1>19
     DEF AccountGone, OutsideRequest, ocrVars, RowsComeFirst, Exists, TypeOK,
         RowType, RequestType, Idle
<1>20. ASSUME NEW h \in Handler, Sweep(h)  PROVE RowsComeFirst'
  BY <1>20
     DEF Sweep, Begin, Expired, tableVars, OutsideRequest, ocrVars,
         RowsComeFirst, Exists
<1>21. ASSUME NEW h \in Handler, CheckLink(h)  PROVE RowsComeFirst'
  BY <1>21
     DEF CheckLink, Linked, tableVars, OutsideRequest, ocrVars, RowsComeFirst,
         Exists, TypeOK, RowType, RequestType
<1>22. ASSUME NEW h \in Handler, Unlink(h)  PROVE RowsComeFirst'
  BY <1>22
     DEF Unlink, OutsideRequest, ocrVars, RowsComeFirst, Exists, TypeOK,
         RowType
<1>23. ASSUME NEW h \in Handler, Tombstone(h)  PROVE RowsComeFirst'
  <2>1. \A j \in request[h].target : j \in Image /\ Exists(j)
    BY DEF RowsComeFirst, TypeOK, RequestType
  <2>2. \A j \in Image : Exists(j)' <=> Exists(j)
    BY <1>23, <2>1 DEF Tombstone, Exists, TypeOK, RowType
  <2>3. \A g \in Handler :
          request'[g].target \cup request'[g].todo
            \subseteq (request[g].target \cup request[g].todo) \cap Image
    <3>1. \A g \in Handler : request[g].target \cup request[g].todo \subseteq
         Image
      BY DEF TypeOK, RequestType
    <3>2. \A g \in Handler \ {h} : request'[g] = request[g]
      BY <1>23 DEF Tombstone, TypeOK
    <3>3. request'[h].target = {}
      BY <1>23 DEF Tombstone, Idle, TypeOK, RequestType
    <3>4. request'[h].todo \subseteq request[h].todo
      BY <1>23 DEF Tombstone, Idle, TypeOK, RequestType
    <3> QED BY <3>1, <3>2, <3>3, <3>4
  <2> QED
    BY <1>23, <2>2, <2>3 DEF Tombstone, OutsideRequest, ocrVars, RowsComeFirst
<1>24. ASSUME NEW h \in Handler, SweepEnds(h)  PROVE RowsComeFirst'
  BY <1>24
     DEF SweepEnds, tableVars, OutsideRequest, ocrVars, RowsComeFirst, Exists,
         Idle
<1>25. ASSUME NEW h \in Handler, RequestFails(h)  PROVE RowsComeFirst'
  BY <1>25
     DEF RequestFails, Cut, tableVars, ocrVars, RowsComeFirst, Exists, TypeOK,
         RowType, RequestType, Idle
<1>26. CASE Restart
  BY <1>26 DEF Restart, Cut, tableVars, RowsComeFirst, Exists, Idle
<1>27. CASE UNCHANGED vars
  BY <1>27
     DEF vars, tableVars, ocrVars, RowsComeFirst, Exists, TypeOK, RequestType
<1> QED BY <1>1, <1>2, <1>3, <1>4, <1>5, <1>6, <1>7, <1>8, <1>9, <1>10, <1>11,
   <1>12, <1>13, <1>14, <1>15, <1>16, <1>17, <1>18, <1>19, <1>20, <1>21,
   <1>22, <1>23, <1>24, <1>25, <1>26, <1>27
   DEF Next, UploadNext, OcrStep, RequestNext, RemovalNext, Handler

(* The queue holds waiting jobs.                                           *)
LEMMA QueueInit == Init => QueueHoldsWaiters
BY EmptySeq DEF Init, QueueHoldsWaiters

LEMMA QueueStep == QueueHoldsWaiters /\ TypeOK /\ RowsComeFirst /\ [Next]_vars
     => QueueHoldsWaiters'
<1> SUFFICES ASSUME QueueHoldsWaiters, TypeOK, RowsComeFirst, [Next]_vars
     PROVE QueueHoldsWaiters'
  OBVIOUS
<1>1. ASSUME NEW i \in Image, BeginUpload(i)  PROVE QueueHoldsWaiters'
  BY <1>1 DEF BeginUpload, tableVars, ocrVars, QueueHoldsWaiters, TypeOK
<1>2. ASSUME NEW i \in Image, SaveFile(i)  PROVE QueueHoldsWaiters'
  BY <1>2 DEF SaveFile, ocrVars, QueueHoldsWaiters, TypeOK
<1>3. ASSUME NEW i \in Image, InsertRow(i)  PROVE QueueHoldsWaiters'
  BY <1>3 DEF InsertRow, ScheduleOcr, QueueHoldsWaiters, TypeOK, RowsComeFirst
<1>4. ASSUME NEW i \in Image, InsertRefused(i)  PROVE QueueHoldsWaiters'
  BY <1>4 DEF InsertRefused, tableVars, ocrVars, QueueHoldsWaiters, TypeOK
<1>5. ASSUME NEW i \in Image, UploadFails(i)  PROVE QueueHoldsWaiters'
  BY <1>5 DEF UploadFails, tableVars, ocrVars, QueueHoldsWaiters, TypeOK
<1>6. ASSUME NEW i \in Image, ReadRow(i)  PROVE QueueHoldsWaiters'
  BY <1>6
     DEF ReadRow, JobEnds, JobGoesTo, OutsideJob, QueueHoldsWaiters, TypeOK
<1>7. ASSUME NEW i \in Image, MarkProcessing(i)  PROVE QueueHoldsWaiters'
  BY <1>7
     DEF MarkProcessing, SetStatus, JobGoesTo, OutsideJob, QueueHoldsWaiters,
         TypeOK
<1>8. ASSUME NEW i \in Image, ReadFile(i)  PROVE QueueHoldsWaiters'
  <2>1. CASE queue' = queue
    BY <1>8, <2>1 DEF ReadFile, JobGoesTo, QueueHoldsWaiters, TypeOK
  <2>2. CASE queue' = Append(queue, i) /\ job' = [job EXCEPT ![i] = "waiting"]
    <3>1. /\ queue \in Seq(Image) /\ Len(queue) \in Nat
          /\ DOMAIN queue' = 1..(Len(queue) + 1) /\ DOMAIN queue =
               1..Len(queue)
          /\ queue'[Len(queue) + 1] = i
          /\ \A n \in 1..Len(queue) : queue'[n] = queue[n]
      BY <2>2, AppendProperties DEF TypeOK
    <3>2. ASSUME NEW n \in 1..Len(queue)
          PROVE  queue[n] # i /\ job'[queue[n]] = "waiting"
      <4>1. queue[n] \in Image /\ job[queue[n]] = "waiting" /\ job[i] =
           "reading"
        BY <1>8, <3>1 DEF ReadFile, QueueHoldsWaiters
      <4> QED BY <2>2, <4>1 DEF TypeOK
    <3>3. job'[i] = "waiting"
      BY <2>2 DEF TypeOK
    <3>4. \A n \in 1..(Len(queue) + 1) : n \in 1..Len(queue) \/ n = Len(queue)
         + 1
      BY <3>1
    <3>5. \A m, n \in 1..Len(queue) : queue[m] = queue[n] => m = n
      BY <3>1 DEF QueueHoldsWaiters
    <3> QED BY <3>1, <3>2, <3>3, <3>4, <3>5 DEF QueueHoldsWaiters
  <2> QED BY <1>8, <2>1, <2>2 DEF ReadFile, JobGoesTo
<1>9. ASSUME NEW i \in Image, Recognized(i)  PROVE QueueHoldsWaiters'
  <2>1. PICK next \in {"storing", "failing"} : Release(i, next)
    BY <1>9 DEF Recognized
  <2>2. CASE queue = <<>>
    BY <2>1, <2>2, EmptySeq DEF Release, QueueHoldsWaiters
  <2>3. CASE queue # <<>>
    <3>1. /\ job' = [job EXCEPT ![i] = next, ![Head(queue)] = "recognizing"]
          /\ queue' = Tail(queue) /\ job[i] = "recognizing"
      BY <1>9, <2>1, <2>3 DEF Recognized, Release
    <3>2. \A n \in DOMAIN Tail(queue) :
            /\ n + 1 \in DOMAIN queue /\ Tail(queue)[n] = queue[n + 1]
            /\ Tail(queue)[n] # Head(queue)
      BY <2>3, QueueFront
    <3>3. ASSUME NEW n \in DOMAIN queue'  PROVE job'[queue'[n]] = "waiting"
      BY <3>1, <3>2 DEF QueueHoldsWaiters, TypeOK
    <3>4. ASSUME NEW m \in DOMAIN queue', NEW n \in DOMAIN queue',
                 queue'[m] = queue'[n]
          PROVE  m = n
      <4>1. m + 1 = n + 1
        BY <3>1, <3>2, <3>4 DEF QueueHoldsWaiters
      <4>2. m \in Int /\ n \in Int
        BY <2>3, <3>1, QueueFront
      <4> QED BY <4>1, <4>2
    <3> QED BY <3>3, <3>4 DEF QueueHoldsWaiters
  <2> QED BY <2>2, <2>3
<1>10. ASSUME NEW i \in Image, StoreResult(i)  PROVE QueueHoldsWaiters'
  BY <1>10
     DEF StoreResult, SetStatus, JobEnds, JobGoesTo, OutsideJob,
         QueueHoldsWaiters, TypeOK
<1>11. ASSUME NEW i \in Image, MarkFailed(i)  PROVE QueueHoldsWaiters'
  BY <1>11
     DEF MarkFailed, SetStatus, JobEnds, JobGoesTo, OutsideJob,
         QueueHoldsWaiters, TypeOK
<1>12. ASSUME NEW i \in Image, JobCallFails(i)  PROVE QueueHoldsWaiters'
  BY <1>12
     DEF JobCallFails, JobEnds, JobGoesTo, OutsideJob, QueueHoldsWaiters,
         TypeOK
<1>13. ASSUME NEW i \in Image, Age(i)  PROVE QueueHoldsWaiters'
  BY <1>13 DEF Age, ocrVars, QueueHoldsWaiters, TypeOK
<1>14. ASSUME NEW h \in Handler, NEW i \in Image, DeleteImage(h, i)  PROVE
     QueueHoldsWaiters'
  BY <1>14
     DEF DeleteImage, Begin, OutsideRequest, ocrVars, QueueHoldsWaiters,
         TypeOK
<1>15. ASSUME NEW h \in Handler, NEW i \in Image, AttachImage(h, i)  PROVE
     QueueHoldsWaiters'
  BY <1>15
     DEF AttachImage, Begin, Owned, OutsideRequest, ocrVars,
         QueueHoldsWaiters, TypeOK
<1>16. ASSUME NEW h \in Handler, DeleteAccount(h)  PROVE QueueHoldsWaiters'
  BY <1>16
     DEF DeleteAccount, Begin, OwnedRows, tableVars, OutsideRequest, ocrVars,
         QueueHoldsWaiters, TypeOK
<1>17. ASSUME NEW h \in Handler, LinkImage(h)  PROVE QueueHoldsWaiters'
  BY <1>17 DEF LinkImage, OutsideRequest, ocrVars, QueueHoldsWaiters, TypeOK
<1>18. ASSUME NEW h \in Handler, NotLinked(h)  PROVE QueueHoldsWaiters'
  BY <1>18
     DEF NotLinked, tableVars, OutsideRequest, ocrVars, QueueHoldsWaiters,
         TypeOK
<1>19. ASSUME NEW h \in Handler, AccountGone(h)  PROVE QueueHoldsWaiters'
  BY <1>19 DEF AccountGone, OutsideRequest, ocrVars, QueueHoldsWaiters, TypeOK
<1>20. ASSUME NEW h \in Handler, Sweep(h)  PROVE QueueHoldsWaiters'
  BY <1>20
     DEF Sweep, Begin, Expired, tableVars, OutsideRequest, ocrVars,
         QueueHoldsWaiters, TypeOK
<1>21. ASSUME NEW h \in Handler, CheckLink(h)  PROVE QueueHoldsWaiters'
  BY <1>21 DEF CheckLink, OutsideRequest, ocrVars, QueueHoldsWaiters, TypeOK
<1>22. ASSUME NEW h \in Handler, Unlink(h)  PROVE QueueHoldsWaiters'
  BY <1>22 DEF Unlink, OutsideRequest, ocrVars, QueueHoldsWaiters, TypeOK
<1>23. ASSUME NEW h \in Handler, Tombstone(h)  PROVE QueueHoldsWaiters'
  BY <1>23 DEF Tombstone, OutsideRequest, ocrVars, QueueHoldsWaiters, TypeOK
<1>24. ASSUME NEW h \in Handler, SweepEnds(h)  PROVE QueueHoldsWaiters'
  BY <1>24
     DEF SweepEnds, tableVars, OutsideRequest, ocrVars, QueueHoldsWaiters,
         TypeOK
<1>25. ASSUME NEW h \in Handler, RequestFails(h)  PROVE QueueHoldsWaiters'
  BY <1>25
     DEF RequestFails, Cut, tableVars, ocrVars, QueueHoldsWaiters, TypeOK
<1>26. CASE Restart
  BY <1>26, EmptySeq DEF Restart, QueueHoldsWaiters
<1>27. CASE UNCHANGED vars
  BY <1>27 DEF vars, tableVars, ocrVars, QueueHoldsWaiters, TypeOK
<1> QED BY <1>1, <1>2, <1>3, <1>4, <1>5, <1>6, <1>7, <1>8, <1>9, <1>10, <1>11,
   <1>12, <1>13, <1>14, <1>15, <1>16, <1>17, <1>18, <1>19, <1>20, <1>21,
   <1>22, <1>23, <1>24, <1>25, <1>26, <1>27
   DEF Next, UploadNext, OcrStep, RequestNext, RemovalNext, Handler

-----------------------------------------------------------------------------
(* A handler that neither starts nor ends in the middle of a removal does  *)
(* not disturb the agreement of disk and table.                            *)
LEMMA StorageUndisturbed ==
  ASSUME StorageInv, NEW h \in Handler,
         request[h].step # "tombstone", request'[h].step # "tombstone",
         \A g \in Handler \ {h} : request'[g] = request[g],
         files' = files, torn' = torn,
         \A j \in Image : /\ row'[j].deletedAt <=> row[j].deletedAt
                          /\ row'[j].status = "none" <=> row[j].status = "none"
  PROVE  StorageInv'
<1>1. \A g \in Handler : request[g].step = "tombstone" =>
                          request'[g] = request[g]
  OBVIOUS
<1>2. \A g \in Handler : request'[g].step = "tombstone" =>
                          request'[g] = request[g]
  OBVIOUS
<1>3. HalfRemoved'
  BY <1>2 DEF StorageInv, HalfRemoved
<1>4. ASSUME NEW j \in Image, Exists(j)'
      PROVE  /\ row'[j].deletedAt => j \notin files'
             /\ \/ row'[j].deletedAt \/ j \in files' \/ j \in torn'
                \/ \E g \in Handler : /\ request'[g].step = "tombstone"
                                      /\ j \in request'[g].target
  <2>1. Exists(j) /\ (row'[j].deletedAt <=> row[j].deletedAt)
    BY <1>4 DEF Exists
  <2>2. /\ row[j].deletedAt => j \notin files
        /\ \/ row[j].deletedAt \/ j \in files \/ j \in torn
           \/ \E g \in Handler : /\ request[g].step = "tombstone"
                                 /\ j \in request[g].target
    BY <2>1 DEF StorageInv, StorageMatchesRows
  <2> QED BY <1>1, <2>1, <2>2
<1> QED BY <1>3, <1>4 DEF StorageInv, StorageMatchesRows

(* Disk and table.                                                         *)
LEMMA StorageInit == Init => StorageInv
BY DEF Init, StorageInv, StorageMatchesRows, HalfRemoved, Exists, NoRow, Idle

LEMMA StorageStep == StorageInv /\ TypeOK /\ RowsComeFirst /\ [Next]_vars =>
     StorageInv'
<1> SUFFICES ASSUME StorageInv, TypeOK, RowsComeFirst, [Next]_vars PROVE
     StorageInv'
  OBVIOUS
<1>1. ASSUME NEW i \in Image, BeginUpload(i)  PROVE StorageInv'
  BY <1>1
     DEF BeginUpload, tableVars, ocrVars, StorageInv, StorageMatchesRows,
         HalfRemoved, RowsComeFirst, Exists, TypeOK, RowType, RequestType
<1>2. ASSUME NEW i \in Image, SaveFile(i)  PROVE StorageInv'
  BY <1>2
     DEF SaveFile, ocrVars, StorageInv, StorageMatchesRows, HalfRemoved,
         RowsComeFirst, Exists, TypeOK, RowType, RequestType
<1>3. ASSUME NEW i \in Image, InsertRow(i)  PROVE StorageInv'
  BY <1>3
     DEF InsertRow, ScheduleOcr, StorageInv, StorageMatchesRows, HalfRemoved,
         RowsComeFirst, Exists, TypeOK, RowType, RequestType
<1>4. ASSUME NEW i \in Image, InsertRefused(i)  PROVE StorageInv'
  BY <1>4
     DEF InsertRefused, tableVars, ocrVars, StorageInv, StorageMatchesRows,
         HalfRemoved, RowsComeFirst, Exists, TypeOK, RowType, RequestType
<1>5. ASSUME NEW i \in Image, UploadFails(i)  PROVE StorageInv'
  BY <1>5
     DEF UploadFails, tableVars, ocrVars, StorageInv, StorageMatchesRows,
         HalfRemoved, RowsComeFirst, Exists, TypeOK, RowType, RequestType
<1>6. ASSUME NEW i \in Image, ReadRow(i)  PROVE StorageInv'
  BY <1>6
     DEF ReadRow, JobEnds, JobGoesTo, OutsideJob, StorageInv,
         StorageMatchesRows, HalfRemoved, RowsComeFirst, Exists, TypeOK,
         RowType, RequestType
<1>7. ASSUME NEW i \in Image, MarkProcessing(i)  PROVE StorageInv'
  BY <1>7
     DEF MarkProcessing, SetStatus, JobGoesTo, OutsideJob, StorageInv,
         StorageMatchesRows, HalfRemoved, RowsComeFirst, Exists, TypeOK,
         RowType, RequestType
<1>8. ASSUME NEW i \in Image, ReadFile(i)  PROVE StorageInv'
  BY <1>8
     DEF ReadFile, JobGoesTo, OutsideJob, StorageInv, StorageMatchesRows,
         HalfRemoved, RowsComeFirst, Exists, TypeOK, RowType, RequestType
<1>9. ASSUME NEW i \in Image, Recognized(i)  PROVE StorageInv'
  BY <1>9
     DEF Recognized, Release, JobGoesTo, OutsideJob, StorageInv,
         StorageMatchesRows, HalfRemoved, RowsComeFirst, Exists, TypeOK,
         RowType, RequestType
<1>10. ASSUME NEW i \in Image, StoreResult(i)  PROVE StorageInv'
  BY <1>10
     DEF StoreResult, SetStatus, JobEnds, JobGoesTo, OutsideJob, StorageInv,
         StorageMatchesRows, HalfRemoved, RowsComeFirst, Exists, TypeOK,
         RowType, RequestType
<1>11. ASSUME NEW i \in Image, MarkFailed(i)  PROVE StorageInv'
  BY <1>11
     DEF MarkFailed, SetStatus, JobEnds, JobGoesTo, OutsideJob, StorageInv,
         StorageMatchesRows, HalfRemoved, RowsComeFirst, Exists, TypeOK,
         RowType, RequestType
<1>12. ASSUME NEW i \in Image, JobCallFails(i)  PROVE StorageInv'
  BY <1>12
     DEF JobCallFails, JobEnds, JobGoesTo, OutsideJob, StorageInv,
         StorageMatchesRows, HalfRemoved, RowsComeFirst, Exists, TypeOK,
         RowType, RequestType
<1>13. ASSUME NEW i \in Image, Age(i)  PROVE StorageInv'
  BY <1>13
     DEF Age, ocrVars, StorageInv, StorageMatchesRows, HalfRemoved,
         RowsComeFirst, Exists, TypeOK, RowType, RequestType
<1>14. ASSUME NEW h \in Handler, NEW i \in Image, DeleteImage(h, i)  PROVE
     StorageInv'
  BY <1>14
     DEF DeleteImage, Begin, Owned, tableVars, OutsideRequest, ocrVars,
         StorageInv, StorageMatchesRows, HalfRemoved, RowsComeFirst, Exists,
         TypeOK, RowType, RequestType, Idle
<1>15. ASSUME NEW h \in Handler, NEW i \in Image, AttachImage(h, i)  PROVE
     StorageInv'
  <2>1. request[h].step # "tombstone" /\ request'[h].step # "tombstone"
    BY <1>15 DEF AttachImage, Begin, Idle, TypeOK, RequestType
  <2>2. \A g \in Handler \ {h} : request'[g] = request[g]
    BY <1>15 DEF AttachImage, Begin, TypeOK
  <2>3. files' = files /\ torn' = torn
    BY <1>15 DEF AttachImage, Begin, tableVars
  <2>4. \A j \in Image : /\ row'[j].deletedAt <=> row[j].deletedAt
                         /\ row'[j].status = "none" <=> row[j].status = "none"
    BY <1>15 DEF AttachImage, Begin, tableVars, TypeOK, RowType
  <2> QED BY <2>1, <2>2, <2>3, <2>4, StorageUndisturbed
<1>16. ASSUME NEW h \in Handler, DeleteAccount(h)  PROVE StorageInv'
  <2>1. request[h].step # "tombstone" /\ request'[h].step # "tombstone"
    BY <1>16 DEF DeleteAccount, Begin, Idle, TypeOK, RequestType
  <2>2. \A g \in Handler \ {h} : request'[g] = request[g]
    BY <1>16 DEF DeleteAccount, Begin, TypeOK
  <2>3. files' = files /\ torn' = torn
    BY <1>16 DEF DeleteAccount, Begin, tableVars
  <2>4. \A j \in Image : /\ row'[j].deletedAt <=> row[j].deletedAt
                         /\ row'[j].status = "none" <=> row[j].status = "none"
    BY <1>16 DEF DeleteAccount, Begin, tableVars, TypeOK, RowType
  <2> QED BY <2>1, <2>2, <2>3, <2>4, StorageUndisturbed
<1>17. ASSUME NEW h \in Handler, LinkImage(h)  PROVE StorageInv'
  <2>1. request[h].step # "tombstone" /\ request'[h].step # "tombstone"
    BY <1>17 DEF LinkImage, Idle, TypeOK, RequestType
  <2>2. \A g \in Handler \ {h} : request'[g] = request[g]
    BY <1>17 DEF LinkImage, TypeOK
  <2>3. files' = files /\ torn' = torn
    BY <1>17 DEF LinkImage, OutsideRequest
  <2>4. ASSUME NEW j \in Image
        PROVE  /\ row'[j].deletedAt <=> row[j].deletedAt
               /\ row'[j].status = "none" <=> row[j].status = "none"
    <3>1. CASE j \in request[h].target
      <4>1. row'[j] = [row[j] EXCEPT !.status = "attached", !.expiresAt = FALSE]
        BY <1>17, <3>1 DEF LinkImage
      <4>2. row[j].status # "none" /\ row[j] \in RowType
        BY <3>1 DEF RowsComeFirst, Exists, TypeOK
      <4> QED BY <4>1, <4>2 DEF RowType
    <3>2. CASE j \notin request[h].target
      BY <1>17, <3>2 DEF LinkImage
    <3> QED BY <3>1, <3>2
  <2> QED BY <2>1, <2>2, <2>3, <2>4, StorageUndisturbed
<1>18. ASSUME NEW h \in Handler, NotLinked(h)  PROVE StorageInv'
  BY <1>18
     DEF NotLinked, tableVars, OutsideRequest, ocrVars, StorageInv,
         StorageMatchesRows, HalfRemoved, RowsComeFirst, Exists, TypeOK,
         RowType, RequestType, Idle
<1>19. ASSUME NEW h \in Handler, AccountGone(h)  PROVE StorageInv'
  <2>1. request[h].step # "tombstone" /\ request'[h].step # "tombstone"
    BY <1>19 DEF AccountGone, Idle, TypeOK, RequestType
  <2>2. \A g \in Handler \ {h} : request'[g] = request[g]
    BY <1>19 DEF AccountGone, TypeOK
  <2>3. files' = files /\ torn' = torn
    BY <1>19 DEF AccountGone, OutsideRequest
  <2>4. \A j \in Image : /\ row'[j].deletedAt <=> row[j].deletedAt
                         /\ row'[j].status = "none" <=> row[j].status = "none"
    BY <1>19 DEF AccountGone, TypeOK, RowType
  <2> QED BY <2>1, <2>2, <2>3, <2>4, StorageUndisturbed
<1>20. ASSUME NEW h \in Handler, Sweep(h)  PROVE StorageInv'
  <2>1. request[h].step # "tombstone" /\ request'[h].step # "tombstone"
    BY <1>20 DEF Sweep, Begin, Idle, TypeOK, RequestType
  <2>2. \A g \in Handler \ {h} : request'[g] = request[g]
    BY <1>20 DEF Sweep, Begin, TypeOK
  <2>3. files' = files /\ torn' = torn
    BY <1>20 DEF Sweep, Begin, tableVars
  <2>4. \A j \in Image : /\ row'[j].deletedAt <=> row[j].deletedAt
                         /\ row'[j].status = "none" <=> row[j].status = "none"
    BY <1>20 DEF Sweep, Begin, tableVars, TypeOK, RowType
  <2> QED BY <2>1, <2>2, <2>3, <2>4, StorageUndisturbed
<1>21. ASSUME NEW h \in Handler, CheckLink(h)  PROVE StorageInv'
  <2>1. request[h].step # "tombstone" /\ request'[h].step # "tombstone"
    BY <1>21 DEF CheckLink, Linked, TypeOK, RequestType
  <2>2. \A g \in Handler \ {h} : request'[g] = request[g]
    BY <1>21 DEF CheckLink, TypeOK
  <2>3. files' = files /\ torn' = torn
    BY <1>21 DEF CheckLink, tableVars
  <2>4. \A j \in Image : /\ row'[j].deletedAt <=> row[j].deletedAt
                         /\ row'[j].status = "none" <=> row[j].status = "none"
    BY <1>21 DEF CheckLink, tableVars, TypeOK, RowType
  <2> QED BY <2>1, <2>2, <2>3, <2>4, StorageUndisturbed
<1>22. ASSUME NEW h \in Handler, Unlink(h)  PROVE StorageInv'
  BY <1>22
     DEF Unlink, OutsideRequest, ocrVars, StorageInv, StorageMatchesRows,
         HalfRemoved, RowsComeFirst, Exists, TypeOK, RowType, RequestType
<1>23. ASSUME NEW h \in Handler, Tombstone(h)  PROVE StorageInv'
  <2>1. \A g \in Handler \ {h} : request'[g] = request[g]
    BY <1>23 DEF Tombstone, TypeOK
  <2>2. request'[h].step # "tombstone"
    <3>1. CASE request[h].op = "delete"
      BY <1>23, <3>1 DEF Tombstone, Idle, TypeOK
    <3>2. CASE request[h].op # "delete"
      BY <1>23, <3>2 DEF Tombstone, TypeOK, RequestType
    <3> QED BY <3>1, <3>2
  <2>3. /\ files' = files /\ torn' = torn
        /\ request[h].step = "tombstone" /\ request[h].target \cap files = {}
    BY <1>23 DEF Tombstone, StorageInv, HalfRemoved
  <2>4. \A j \in Image \ request[h].target : row'[j] = row[j]
    BY <1>23 DEF Tombstone
  <2>5. \A j \in request[h].target \cap Image : row'[j].deletedAt
    BY <1>23 DEF Tombstone, TypeOK, RowType
  <2>6. \A j \in Image \ request[h].target : Exists(j)' <=> Exists(j)
    BY <2>4 DEF Exists
  <2>7. StorageMatchesRows'
    BY <2>1, <2>2, <2>3, <2>4, <2>5, <2>6 DEF StorageInv, StorageMatchesRows
  <2>8. HalfRemoved'
    BY <2>1, <2>2, <2>3 DEF StorageInv, HalfRemoved
  <2> QED BY <2>7, <2>8 DEF StorageInv
<1>24. ASSUME NEW h \in Handler, SweepEnds(h)  PROVE StorageInv'
  BY <1>24
     DEF SweepEnds, tableVars, OutsideRequest, ocrVars, StorageInv,
         StorageMatchesRows, HalfRemoved, RowsComeFirst, Exists, TypeOK,
         RowType, RequestType, Idle
<1>25. ASSUME NEW h \in Handler, RequestFails(h)  PROVE StorageInv'
  BY <1>25
     DEF RequestFails, Cut, tableVars, ocrVars, StorageInv,
         StorageMatchesRows, HalfRemoved, RowsComeFirst, Exists, TypeOK,
         RowType, RequestType, Idle
<1>26. CASE Restart
  BY <1>26
     DEF Restart, Cut, tableVars, StorageInv, StorageMatchesRows, HalfRemoved,
         RowsComeFirst, Exists, TypeOK, RowType, RequestType, Idle
<1>27. CASE UNCHANGED vars
  BY <1>27
     DEF vars, tableVars, ocrVars, StorageInv, StorageMatchesRows,
         HalfRemoved, RowsComeFirst, Exists, TypeOK, RowType, RequestType
<1> QED BY <1>1, <1>2, <1>3, <1>4, <1>5, <1>6, <1>7, <1>8, <1>9, <1>10, <1>11,
   <1>12, <1>13, <1>14, <1>15, <1>16, <1>17, <1>18, <1>19, <1>20, <1>21,
   <1>22, <1>23, <1>24, <1>25, <1>26, <1>27
   DEF Next, UploadNext, OcrStep, RequestNext, RemovalNext, Handler

-----------------------------------------------------------------------------
(* Linked evidence.                                                        *)
LEMMA EvidenceInit == Init => EvidenceInv
BY DEF Init, EvidenceInv, EvidenceIsSpared, SparedWereLinked, Removing, Idle

LEMMA EvidenceStep == EvidenceInv /\ TypeOK /\ RowsComeFirst /\ [Next]_vars =>
     EvidenceInv'
<1> SUFFICES ASSUME EvidenceInv, TypeOK, RowsComeFirst, [Next]_vars PROVE
     EvidenceInv'
  OBVIOUS
<1>1. ASSUME NEW i \in Image, BeginUpload(i)  PROVE EvidenceInv'
  BY <1>1
     DEF BeginUpload, tableVars, ocrVars, EvidenceInv, EvidenceIsSpared,
         SparedWereLinked, Removing, RowsComeFirst, Exists, TypeOK, RowType,
         RequestType
<1>2. ASSUME NEW i \in Image, SaveFile(i)  PROVE EvidenceInv'
  BY <1>2
     DEF SaveFile, ocrVars, EvidenceInv, EvidenceIsSpared, SparedWereLinked,
         Removing, RowsComeFirst, Exists, TypeOK, RowType, RequestType
<1>3. ASSUME NEW i \in Image, InsertRow(i)  PROVE EvidenceInv'
  BY <1>3
     DEF InsertRow, ScheduleOcr, EvidenceInv, EvidenceIsSpared,
         SparedWereLinked, Removing, RowsComeFirst, Exists, TypeOK, RowType,
         RequestType
<1>4. ASSUME NEW i \in Image, InsertRefused(i)  PROVE EvidenceInv'
  BY <1>4
     DEF InsertRefused, tableVars, ocrVars, EvidenceInv, EvidenceIsSpared,
         SparedWereLinked, Removing, RowsComeFirst, Exists, TypeOK, RowType,
         RequestType
<1>5. ASSUME NEW i \in Image, UploadFails(i)  PROVE EvidenceInv'
  BY <1>5
     DEF UploadFails, tableVars, ocrVars, EvidenceInv, EvidenceIsSpared,
         SparedWereLinked, Removing, RowsComeFirst, Exists, TypeOK, RowType,
         RequestType
<1>6. ASSUME NEW i \in Image, ReadRow(i)  PROVE EvidenceInv'
  BY <1>6
     DEF ReadRow, JobEnds, JobGoesTo, OutsideJob, EvidenceInv,
         EvidenceIsSpared, SparedWereLinked, Removing, RowsComeFirst, Exists,
         TypeOK, RowType, RequestType
<1>7. ASSUME NEW i \in Image, MarkProcessing(i)  PROVE EvidenceInv'
  BY <1>7
     DEF MarkProcessing, SetStatus, JobGoesTo, OutsideJob, EvidenceInv,
         EvidenceIsSpared, SparedWereLinked, Removing, RowsComeFirst, Exists,
         TypeOK, RowType, RequestType
<1>8. ASSUME NEW i \in Image, ReadFile(i)  PROVE EvidenceInv'
  BY <1>8
     DEF ReadFile, JobGoesTo, OutsideJob, EvidenceInv, EvidenceIsSpared,
         SparedWereLinked, Removing, RowsComeFirst, Exists, TypeOK, RowType,
         RequestType
<1>9. ASSUME NEW i \in Image, Recognized(i)  PROVE EvidenceInv'
  BY <1>9
     DEF Recognized, Release, JobGoesTo, OutsideJob, EvidenceInv,
         EvidenceIsSpared, SparedWereLinked, Removing, RowsComeFirst, Exists,
         TypeOK, RowType, RequestType
<1>10. ASSUME NEW i \in Image, StoreResult(i)  PROVE EvidenceInv'
  BY <1>10
     DEF StoreResult, SetStatus, JobEnds, JobGoesTo, OutsideJob, EvidenceInv,
         EvidenceIsSpared, SparedWereLinked, Removing, RowsComeFirst, Exists,
         TypeOK, RowType, RequestType
<1>11. ASSUME NEW i \in Image, MarkFailed(i)  PROVE EvidenceInv'
  BY <1>11
     DEF MarkFailed, SetStatus, JobEnds, JobGoesTo, OutsideJob, EvidenceInv,
         EvidenceIsSpared, SparedWereLinked, Removing, RowsComeFirst, Exists,
         TypeOK, RowType, RequestType
<1>12. ASSUME NEW i \in Image, JobCallFails(i)  PROVE EvidenceInv'
  BY <1>12
     DEF JobCallFails, JobEnds, JobGoesTo, OutsideJob, EvidenceInv,
         EvidenceIsSpared, SparedWereLinked, Removing, RowsComeFirst, Exists,
         TypeOK, RowType, RequestType
<1>13. ASSUME NEW i \in Image, Age(i)  PROVE EvidenceInv'
  BY <1>13
     DEF Age, ocrVars, EvidenceInv, EvidenceIsSpared, SparedWereLinked,
         Removing, RowsComeFirst, Exists, TypeOK, RowType, RequestType
<1>14. ASSUME NEW h \in Handler, NEW i \in Image, DeleteImage(h, i)  PROVE
     EvidenceInv'
  BY <1>14
     DEF DeleteImage, Begin, Owned, tableVars, OutsideRequest, ocrVars,
         EvidenceInv, EvidenceIsSpared, SparedWereLinked, Removing,
         RowsComeFirst, Exists, TypeOK, RowType, RequestType, Idle
<1>15. ASSUME NEW h \in Handler, NEW i \in Image, AttachImage(h, i)  PROVE
     EvidenceInv'
  BY <1>15
     DEF AttachImage, Begin, Owned, tableVars, OutsideRequest, ocrVars,
         EvidenceInv, EvidenceIsSpared, SparedWereLinked, Removing,
         RowsComeFirst, Exists, TypeOK, RowType, RequestType
<1>16. ASSUME NEW h \in Handler, DeleteAccount(h)  PROVE EvidenceInv'
  BY <1>16
     DEF DeleteAccount, Begin, OwnedRows, tableVars, OutsideRequest, ocrVars,
         EvidenceInv, EvidenceIsSpared, SparedWereLinked, Removing,
         RowsComeFirst, Exists, TypeOK, RowType, RequestType
<1>17. ASSUME NEW h \in Handler, LinkImage(h)  PROVE EvidenceInv'
  <2>1. \A g \in Handler \ {h} : request'[g] = request[g]
    BY <1>17 DEF LinkImage, TypeOK
  <2>2. request'[h] = Idle
    BY <1>17 DEF LinkImage, TypeOK
  <2>3. links' = links \cup request[h].target /\ links' \subseteq Image
    BY <1>17 DEF LinkImage, TypeOK, RequestType
  <2>4. \A j \in links' : ~row'[j].expiresAt
    BY <1>17, <2>3
       DEF LinkImage, EvidenceInv, EvidenceIsSpared, TypeOK, RowType
  <2>5. SparedWereLinked'
    BY <2>1, <2>2, <2>3 DEF EvidenceInv, SparedWereLinked, Idle
  <2>6. \A g \in Handler : request'[g].op \in {"sweep", "purge"} =>
          Removing(g)' \cap request'[g].spared = {}
    BY <2>1, <2>2 DEF EvidenceInv, EvidenceIsSpared, Removing, Idle
  <2> QED BY <2>4, <2>5, <2>6 DEF EvidenceInv, EvidenceIsSpared
<1>18. ASSUME NEW h \in Handler, NotLinked(h)  PROVE EvidenceInv'
  BY <1>18
     DEF NotLinked, tableVars, OutsideRequest, ocrVars, EvidenceInv,
         EvidenceIsSpared, SparedWereLinked, Removing, RowsComeFirst, Exists,
         TypeOK, RowType, RequestType, Idle
<1>19. ASSUME NEW h \in Handler, AccountGone(h)  PROVE EvidenceInv'
  BY <1>19
     DEF AccountGone, OutsideRequest, ocrVars, EvidenceInv, EvidenceIsSpared,
         SparedWereLinked, Removing, RowsComeFirst, Exists, TypeOK, RowType,
         RequestType, Idle
<1>20. ASSUME NEW h \in Handler, Sweep(h)  PROVE EvidenceInv'
  BY <1>20
     DEF Sweep, Begin, Expired, tableVars, OutsideRequest, ocrVars,
         EvidenceInv, EvidenceIsSpared, SparedWereLinked, Removing,
         RowsComeFirst, Exists, TypeOK, RowType, RequestType
<1>21. ASSUME NEW h \in Handler, CheckLink(h)  PROVE EvidenceInv'
  BY <1>21
     DEF CheckLink, Linked, tableVars, OutsideRequest, ocrVars, EvidenceInv,
         EvidenceIsSpared, SparedWereLinked, Removing, RowsComeFirst, Exists,
         TypeOK, RowType, RequestType
<1>22. ASSUME NEW h \in Handler, Unlink(h)  PROVE EvidenceInv'
  BY <1>22
     DEF Unlink, OutsideRequest, ocrVars, EvidenceInv, EvidenceIsSpared,
         SparedWereLinked, Removing, RowsComeFirst, Exists, TypeOK, RowType,
         RequestType
<1>23. ASSUME NEW h \in Handler, Tombstone(h)  PROVE EvidenceInv'
  <2>1. \A g \in Handler \ {h} : request'[g] = request[g]
    BY <1>23 DEF Tombstone, TypeOK
  <2>2. request'[h].spared \subseteq request[h].spared /\ request'[h].target =
       {}
    <3>1. CASE request[h].op = "delete"
      BY <1>23, <3>1 DEF Tombstone, Idle, TypeOK
    <3>2. CASE request[h].op # "delete"
      BY <1>23, <3>2 DEF Tombstone, TypeOK, RequestType
    <3> QED BY <3>1, <3>2
  <2>3. links' = links /\ \A j \in links' : ~row'[j].expiresAt
    BY <1>23 DEF Tombstone, EvidenceInv, EvidenceIsSpared, TypeOK, RowType
  <2>4. SparedWereLinked'
    BY <2>1, <2>2, <2>3 DEF EvidenceInv, SparedWereLinked
  <2>5. \A g \in Handler : request'[g].op \in {"sweep", "purge"} =>
          Removing(g)' \cap request'[g].spared = {}
    BY <2>1, <2>2 DEF EvidenceInv, EvidenceIsSpared, Removing
  <2> QED BY <2>3, <2>4, <2>5 DEF EvidenceInv, EvidenceIsSpared
<1>24. ASSUME NEW h \in Handler, SweepEnds(h)  PROVE EvidenceInv'
  BY <1>24
     DEF SweepEnds, tableVars, OutsideRequest, ocrVars, EvidenceInv,
         EvidenceIsSpared, SparedWereLinked, Removing, RowsComeFirst, Exists,
         TypeOK, RowType, RequestType, Idle
<1>25. ASSUME NEW h \in Handler, RequestFails(h)  PROVE EvidenceInv'
  BY <1>25
     DEF RequestFails, Cut, tableVars, ocrVars, EvidenceInv, EvidenceIsSpared,
         SparedWereLinked, Removing, RowsComeFirst, Exists, TypeOK, RowType,
         RequestType, Idle
<1>26. CASE Restart
  BY <1>26
     DEF Restart, Cut, tableVars, EvidenceInv, EvidenceIsSpared,
         SparedWereLinked, Removing, RowsComeFirst, Exists, TypeOK, RowType,
         RequestType, Idle
<1>27. CASE UNCHANGED vars
  BY <1>27
     DEF vars, tableVars, ocrVars, EvidenceInv, EvidenceIsSpared,
         SparedWereLinked, Removing, RowsComeFirst, Exists, TypeOK, RowType,
         RequestType
<1> QED BY <1>1, <1>2, <1>3, <1>4, <1>5, <1>6, <1>7, <1>8, <1>9, <1>10, <1>11,
   <1>12, <1>13, <1>14, <1>15, <1>16, <1>17, <1>18, <1>19, <1>20, <1>21,
   <1>22, <1>23, <1>24, <1>25, <1>26, <1>27
   DEF Next, UploadNext, OcrStep, RequestNext, RemovalNext, Handler

(* Evidence linked in peace.                                               *)
LEMMA SettledInit == Init => SettledInv
BY DEF Init, SettledInv, SettledEvidenceIsKept, SettledIsUndisturbed

LEMMA SettledStep == SettledInv /\ TypeOK /\ RowsComeFirst /\
     QueueHoldsWaiters /\ [Next]_vars => SettledInv'
<1> SUFFICES ASSUME SettledInv, TypeOK, RowsComeFirst, QueueHoldsWaiters,
     [Next]_vars PROVE SettledInv'
  OBVIOUS
<1>1. ASSUME NEW i \in Image, BeginUpload(i)  PROVE SettledInv'
  BY <1>1
     DEF BeginUpload, tableVars, ocrVars, SettledInv, SettledEvidenceIsKept,
         SettledIsUndisturbed, Undisturbed, Removing, LiveStep, RowsComeFirst,
         Exists, TypeOK, RowType, RequestType
<1>2. ASSUME NEW i \in Image, SaveFile(i)  PROVE SettledInv'
  BY <1>2
     DEF SaveFile, ocrVars, SettledInv, SettledEvidenceIsKept,
         SettledIsUndisturbed, Undisturbed, Removing, LiveStep, RowsComeFirst,
         Exists, TypeOK, RowType, RequestType
<1>3. ASSUME NEW i \in Image, InsertRow(i)  PROVE SettledInv'
  BY <1>3
     DEF InsertRow, ScheduleOcr, SettledInv, SettledEvidenceIsKept,
         SettledIsUndisturbed, Undisturbed, Removing, LiveStep, RowsComeFirst,
         Exists, TypeOK, RowType, RequestType
<1>4. ASSUME NEW i \in Image, InsertRefused(i)  PROVE SettledInv'
  BY <1>4
     DEF InsertRefused, tableVars, ocrVars, SettledInv, SettledEvidenceIsKept,
         SettledIsUndisturbed, Undisturbed, Removing, LiveStep, RowsComeFirst,
         Exists, TypeOK, RowType, RequestType
<1>5. ASSUME NEW i \in Image, UploadFails(i)  PROVE SettledInv'
  BY <1>5
     DEF UploadFails, tableVars, ocrVars, SettledInv, SettledEvidenceIsKept,
         SettledIsUndisturbed, Undisturbed, Removing, LiveStep, RowsComeFirst,
         Exists, TypeOK, RowType, RequestType
<1>6. ASSUME NEW i \in Image, ReadRow(i)  PROVE SettledInv'
  BY <1>6
     DEF ReadRow, JobEnds, JobGoesTo, OutsideJob, SettledInv,
         SettledEvidenceIsKept, SettledIsUndisturbed, Undisturbed, Removing,
         LiveStep, RowsComeFirst, Exists, TypeOK, RowType, RequestType
<1>7. ASSUME NEW i \in Image, MarkProcessing(i)  PROVE SettledInv'
  BY <1>7
     DEF MarkProcessing, SetStatus, JobGoesTo, OutsideJob, SettledInv,
         SettledEvidenceIsKept, SettledIsUndisturbed, Undisturbed, Removing,
         LiveStep, RowsComeFirst, Exists, TypeOK, RowType, RequestType
<1>8. ASSUME NEW i \in Image, ReadFile(i)  PROVE SettledInv'
  BY <1>8
     DEF ReadFile, JobGoesTo, OutsideJob, SettledInv, SettledEvidenceIsKept,
         SettledIsUndisturbed, Undisturbed, Removing, LiveStep, RowsComeFirst,
         Exists, TypeOK, RowType, RequestType
<1>9. ASSUME NEW i \in Image, Recognized(i)  PROVE SettledInv'
  <2>1. PICK next \in {"storing", "failing"} : Release(i, next)
    BY <1>9 DEF Recognized
  <2>2. \A j \in settled : /\ j \in Image /\ j # i
                           /\ queue # <<>> => j # Head(queue)
    BY <1>9, QueueFront
       DEF Recognized, SettledInv, SettledIsUndisturbed, Undisturbed,
            LiveStep,
           TypeOK
  <2>3. \A j \in settled : job'[j] = job[j]
    <3>1. CASE queue = <<>>
      BY <2>1, <2>2, <3>1 DEF Release, JobGoesTo, TypeOK
    <3>2. CASE queue # <<>>
      <4>1. job' = [job EXCEPT ![i] = next, ![Head(queue)] = "recognizing"]
        BY <2>1, <3>2 DEF Release
      <4>2. job \in [Image -> JobStep]
        BY DEF TypeOK
      <4>3. \A j \in settled : j \in Image /\ j # i /\ j # Head(queue)
        BY <2>2, <3>2
      <4> QED BY <4>1, <4>2, <4>3, SMTT(20)
    <3> QED BY <3>1, <3>2
  <2>4. UNCHANGED <<row, files, links, request, settled>>
    BY <1>9 DEF Recognized, OutsideJob
  <2> QED
    BY <2>3, <2>4
       DEF SettledInv, SettledEvidenceIsKept, SettledIsUndisturbed,
            Undisturbed,
           Removing
<1>10. ASSUME NEW i \in Image, StoreResult(i)  PROVE SettledInv'
  BY <1>10
     DEF StoreResult, SetStatus, JobEnds, JobGoesTo, OutsideJob, SettledInv,
         SettledEvidenceIsKept, SettledIsUndisturbed, Undisturbed, Removing,
         LiveStep, RowsComeFirst, Exists, TypeOK, RowType, RequestType
<1>11. ASSUME NEW i \in Image, MarkFailed(i)  PROVE SettledInv'
  BY <1>11
     DEF MarkFailed, SetStatus, JobEnds, JobGoesTo, OutsideJob, SettledInv,
         SettledEvidenceIsKept, SettledIsUndisturbed, Undisturbed, Removing,
         LiveStep, RowsComeFirst, Exists, TypeOK, RowType, RequestType
<1>12. ASSUME NEW i \in Image, JobCallFails(i)  PROVE SettledInv'
  BY <1>12
     DEF JobCallFails, JobEnds, JobGoesTo, OutsideJob, SettledInv,
         SettledEvidenceIsKept, SettledIsUndisturbed, Undisturbed, Removing,
         LiveStep, RowsComeFirst, Exists, TypeOK, RowType, RequestType
<1>13. ASSUME NEW i \in Image, Age(i)  PROVE SettledInv'
  BY <1>13
     DEF Age, ocrVars, SettledInv, SettledEvidenceIsKept,
         SettledIsUndisturbed, Undisturbed, Removing, LiveStep, RowsComeFirst,
         Exists, TypeOK, RowType, RequestType
<1>14. ASSUME NEW h \in Handler, NEW i \in Image, DeleteImage(h, i)  PROVE
     SettledInv'
  BY <1>14
     DEF DeleteImage, Begin, Owned, tableVars, OutsideRequest, ocrVars,
         SettledInv, SettledEvidenceIsKept, SettledIsUndisturbed, Undisturbed,
         Removing, LiveStep, RowsComeFirst, Exists, TypeOK, RowType,
         RequestType, Idle
<1>15. ASSUME NEW h \in Handler, NEW i \in Image, AttachImage(h, i)  PROVE
     SettledInv'
  BY <1>15
     DEF AttachImage, Begin, Owned, tableVars, OutsideRequest, ocrVars,
         SettledInv, SettledEvidenceIsKept, SettledIsUndisturbed, Undisturbed,
         Removing, LiveStep, RowsComeFirst, Exists, TypeOK, RowType,
         RequestType
<1>16. ASSUME NEW h \in Handler, DeleteAccount(h)  PROVE SettledInv'
  BY <1>16
     DEF DeleteAccount, Begin, OwnedRows, tableVars, OutsideRequest, ocrVars,
         SettledInv, SettledEvidenceIsKept, SettledIsUndisturbed, Undisturbed,
         Removing, LiveStep, RowsComeFirst, Exists, TypeOK, RowType,
         RequestType
<1>17. ASSUME NEW h \in Handler, LinkImage(h)  PROVE SettledInv'
  <2>1. \A g \in Handler \ {h} : request'[g] = request[g]
    BY <1>17 DEF LinkImage, TypeOK
  <2>2. request'[h] = Idle
    BY <1>17 DEF LinkImage, TypeOK
  <2>3. \A g \in Handler : Removing(g)' \subseteq Removing(g)
    BY <2>1, <2>2 DEF Removing, Idle
  <2>4. UNCHANGED <<files, job>>
    BY <1>17 DEF LinkImage, OutsideRequest, ocrVars
  <2>5. \A j \in Image : row'[j].deletedAt <=> row[j].deletedAt
    BY <1>17 DEF LinkImage, TypeOK, RowType
  <2>6. settled' \subseteq links' /\ links' \subseteq Image
    BY <1>17
       DEF LinkImage, SettledInv, SettledIsUndisturbed, TypeOK, RequestType
  <2>7. \A j \in settled' : Undisturbed(j)
    BY <1>17 DEF LinkImage, SettledInv, SettledIsUndisturbed
  <2>8. \A j \in settled' : row'[j].status = "attached"
    BY <1>17, <2>6
       DEF LinkImage, SettledInv, SettledEvidenceIsKept, TypeOK, RowType
  <2>9. \A j \in settled' : Undisturbed(j)'
    BY <2>3, <2>4, <2>5, <2>6, <2>7 DEF Undisturbed
  <2> QED
    BY <2>6, <2>8, <2>9
       DEF SettledInv, SettledEvidenceIsKept, SettledIsUndisturbed,
            Undisturbed
<1>18. ASSUME NEW h \in Handler, NotLinked(h)  PROVE SettledInv'
  BY <1>18
     DEF NotLinked, tableVars, OutsideRequest, ocrVars, SettledInv,
         SettledEvidenceIsKept, SettledIsUndisturbed, Undisturbed, Removing,
         LiveStep, RowsComeFirst, Exists, TypeOK, RowType, RequestType, Idle
<1>19. ASSUME NEW h \in Handler, AccountGone(h)  PROVE SettledInv'
  BY <1>19
     DEF AccountGone, OutsideRequest, ocrVars, SettledInv,
         SettledEvidenceIsKept, SettledIsUndisturbed, Undisturbed, Removing,
         LiveStep, RowsComeFirst, Exists, TypeOK, RowType, RequestType, Idle
<1>20. ASSUME NEW h \in Handler, Sweep(h)  PROVE SettledInv'
  BY <1>20
     DEF Sweep, Begin, Expired, tableVars, OutsideRequest, ocrVars,
         SettledInv, SettledEvidenceIsKept, SettledIsUndisturbed, Undisturbed,
         Removing, LiveStep, RowsComeFirst, Exists, TypeOK, RowType,
         RequestType
<1>21. ASSUME NEW h \in Handler, CheckLink(h)  PROVE SettledInv'
  BY <1>21
     DEF CheckLink, Linked, tableVars, OutsideRequest, ocrVars, SettledInv,
         SettledEvidenceIsKept, SettledIsUndisturbed, Undisturbed, Removing,
         LiveStep, RowsComeFirst, Exists, TypeOK, RowType, RequestType
<1>22. ASSUME NEW h \in Handler, Unlink(h)  PROVE SettledInv'
  BY <1>22
     DEF Unlink, OutsideRequest, ocrVars, SettledInv, SettledEvidenceIsKept,
         SettledIsUndisturbed, Undisturbed, Removing, LiveStep, RowsComeFirst,
         Exists, TypeOK, RowType, RequestType
<1>23. ASSUME NEW h \in Handler, Tombstone(h)  PROVE SettledInv'
  <2>1. \A g \in Handler \ {h} : request'[g] = request[g]
    BY <1>23 DEF Tombstone, TypeOK
  <2>2. request'[h].target = {}
    <3>1. CASE request[h].op = "delete"
      BY <1>23, <3>1 DEF Tombstone, Idle, TypeOK
    <3>2. CASE request[h].op # "delete"
      BY <1>23, <3>2 DEF Tombstone, TypeOK, RequestType
    <3> QED BY <3>1, <3>2
  <2>3. \A g \in Handler : Removing(g)' \subseteq Removing(g)
    BY <2>1, <2>2 DEF Removing
  <2>4. UNCHANGED <<files, job, links, settled>>
    BY <1>23 DEF Tombstone, OutsideRequest, ocrVars
  <2>5. \A j \in settled : j \in Image /\ j \notin request[h].target
    BY <1>23
       DEF Tombstone, Removing, SettledInv, SettledIsUndisturbed, Undisturbed,
           TypeOK
  <2>6. \A j \in settled : row'[j] = row[j]
    BY <1>23, <2>5 DEF Tombstone
  <2> QED
    BY <2>3, <2>4, <2>5, <2>6
       DEF SettledInv, SettledEvidenceIsKept, SettledIsUndisturbed,
            Undisturbed
<1>24. ASSUME NEW h \in Handler, SweepEnds(h)  PROVE SettledInv'
  BY <1>24
     DEF SweepEnds, tableVars, OutsideRequest, ocrVars, SettledInv,
         SettledEvidenceIsKept, SettledIsUndisturbed, Undisturbed, Removing,
         LiveStep, RowsComeFirst, Exists, TypeOK, RowType, RequestType, Idle
<1>25. ASSUME NEW h \in Handler, RequestFails(h)  PROVE SettledInv'
  BY <1>25
     DEF RequestFails, Cut, tableVars, ocrVars, SettledInv,
         SettledEvidenceIsKept, SettledIsUndisturbed, Undisturbed, Removing,
         LiveStep, RowsComeFirst, Exists, TypeOK, RowType, RequestType, Idle
<1>26. CASE Restart
  BY <1>26
     DEF Restart, Cut, tableVars, SettledInv, SettledEvidenceIsKept,
         SettledIsUndisturbed, Undisturbed, Removing, LiveStep, RowsComeFirst,
         Exists, TypeOK, RowType, RequestType, Idle
<1>27. CASE UNCHANGED vars
  BY <1>27
     DEF vars, tableVars, ocrVars, SettledInv, SettledEvidenceIsKept,
         SettledIsUndisturbed, Undisturbed, Removing, LiveStep, RowsComeFirst,
         Exists, TypeOK, RowType, RequestType
<1> QED BY <1>1, <1>2, <1>3, <1>4, <1>5, <1>6, <1>7, <1>8, <1>9, <1>10, <1>11,
   <1>12, <1>13, <1>14, <1>15, <1>16, <1>17, <1>18, <1>19, <1>20, <1>21,
   <1>22, <1>23, <1>24, <1>25, <1>26, <1>27
   DEF Next, UploadNext, OcrStep, RequestNext, RemovalNext, Handler

(* Results.                                                                *)
LEMMA ResultInit == Init => ProcessedHasResult
BY DEF Init, ProcessedHasResult, NoRow

LEMMA ResultStep == ProcessedHasResult /\ TypeOK /\ [Next]_vars =>
     ProcessedHasResult'
<1> SUFFICES ASSUME ProcessedHasResult, TypeOK, [Next]_vars PROVE
     ProcessedHasResult'
  OBVIOUS
<1>1. ASSUME NEW i \in Image, BeginUpload(i)  PROVE ProcessedHasResult'
  BY <1>1
     DEF BeginUpload, tableVars, ocrVars, ProcessedHasResult, TypeOK, RowType
<1>2. ASSUME NEW i \in Image, SaveFile(i)  PROVE ProcessedHasResult'
  BY <1>2 DEF SaveFile, ocrVars, ProcessedHasResult, TypeOK, RowType
<1>3. ASSUME NEW i \in Image, InsertRow(i)  PROVE ProcessedHasResult'
  BY <1>3 DEF InsertRow, ScheduleOcr, ProcessedHasResult, TypeOK, RowType
<1>4. ASSUME NEW i \in Image, InsertRefused(i)  PROVE ProcessedHasResult'
  BY <1>4
     DEF InsertRefused, tableVars, ocrVars, ProcessedHasResult, TypeOK,
         RowType
<1>5. ASSUME NEW i \in Image, UploadFails(i)  PROVE ProcessedHasResult'
  BY <1>5
     DEF UploadFails, tableVars, ocrVars, ProcessedHasResult, TypeOK, RowType
<1>6. ASSUME NEW i \in Image, ReadRow(i)  PROVE ProcessedHasResult'
  BY <1>6
     DEF ReadRow, JobEnds, JobGoesTo, OutsideJob, ProcessedHasResult, TypeOK,
         RowType
<1>7. ASSUME NEW i \in Image, MarkProcessing(i)  PROVE ProcessedHasResult'
  BY <1>7
     DEF MarkProcessing, SetStatus, JobGoesTo, OutsideJob, ProcessedHasResult,
         TypeOK, RowType
<1>8. ASSUME NEW i \in Image, ReadFile(i)  PROVE ProcessedHasResult'
  BY <1>8
     DEF ReadFile, JobGoesTo, OutsideJob, ProcessedHasResult, TypeOK, RowType
<1>9. ASSUME NEW i \in Image, Recognized(i)  PROVE ProcessedHasResult'
  BY <1>9
     DEF Recognized, Release, JobGoesTo, OutsideJob, ProcessedHasResult,
         TypeOK, RowType
<1>10. ASSUME NEW i \in Image, StoreResult(i)  PROVE ProcessedHasResult'
  BY <1>10
     DEF StoreResult, SetStatus, JobEnds, JobGoesTo, OutsideJob,
         ProcessedHasResult, TypeOK, RowType
<1>11. ASSUME NEW i \in Image, MarkFailed(i)  PROVE ProcessedHasResult'
  BY <1>11
     DEF MarkFailed, SetStatus, JobEnds, JobGoesTo, OutsideJob,
         ProcessedHasResult, TypeOK, RowType
<1>12. ASSUME NEW i \in Image, JobCallFails(i)  PROVE ProcessedHasResult'
  BY <1>12
     DEF JobCallFails, JobEnds, JobGoesTo, OutsideJob, ProcessedHasResult,
         TypeOK, RowType
<1>13. ASSUME NEW i \in Image, Age(i)  PROVE ProcessedHasResult'
  BY <1>13 DEF Age, ocrVars, ProcessedHasResult, TypeOK, RowType
<1>14. ASSUME NEW h \in Handler, NEW i \in Image, DeleteImage(h, i)  PROVE
     ProcessedHasResult'
  BY <1>14
     DEF DeleteImage, Begin, Owned, tableVars, OutsideRequest, ocrVars,
         ProcessedHasResult, TypeOK, RowType
<1>15. ASSUME NEW h \in Handler, NEW i \in Image, AttachImage(h, i)  PROVE
     ProcessedHasResult'
  BY <1>15
     DEF AttachImage, Begin, Owned, tableVars, OutsideRequest, ocrVars,
         ProcessedHasResult, TypeOK, RowType
<1>16. ASSUME NEW h \in Handler, DeleteAccount(h)  PROVE ProcessedHasResult'
  BY <1>16
     DEF DeleteAccount, Begin, OwnedRows, tableVars, OutsideRequest, ocrVars,
         ProcessedHasResult, TypeOK, RowType
<1>17. ASSUME NEW h \in Handler, LinkImage(h)  PROVE ProcessedHasResult'
  BY <1>17
     DEF LinkImage, OutsideRequest, ocrVars, ProcessedHasResult, TypeOK,
         RowType
<1>18. ASSUME NEW h \in Handler, NotLinked(h)  PROVE ProcessedHasResult'
  BY <1>18
     DEF NotLinked, tableVars, OutsideRequest, ocrVars, ProcessedHasResult,
         TypeOK, RowType
<1>19. ASSUME NEW h \in Handler, AccountGone(h)  PROVE ProcessedHasResult'
  BY <1>19
     DEF AccountGone, OutsideRequest, ocrVars, ProcessedHasResult, TypeOK,
         RowType
<1>20. ASSUME NEW h \in Handler, Sweep(h)  PROVE ProcessedHasResult'
  BY <1>20
     DEF Sweep, Begin, Expired, tableVars, OutsideRequest, ocrVars,
         ProcessedHasResult, TypeOK, RowType
<1>21. ASSUME NEW h \in Handler, CheckLink(h)  PROVE ProcessedHasResult'
  BY <1>21
     DEF CheckLink, Linked, tableVars, OutsideRequest, ocrVars,
         ProcessedHasResult, TypeOK, RowType
<1>22. ASSUME NEW h \in Handler, Unlink(h)  PROVE ProcessedHasResult'
  BY <1>22
     DEF Unlink, OutsideRequest, ocrVars, ProcessedHasResult, TypeOK, RowType
<1>23. ASSUME NEW h \in Handler, Tombstone(h)  PROVE ProcessedHasResult'
  BY <1>23
     DEF Tombstone, OutsideRequest, ocrVars, ProcessedHasResult, TypeOK,
         RowType
<1>24. ASSUME NEW h \in Handler, SweepEnds(h)  PROVE ProcessedHasResult'
  BY <1>24
     DEF SweepEnds, tableVars, OutsideRequest, ocrVars, ProcessedHasResult,
         TypeOK, RowType
<1>25. ASSUME NEW h \in Handler, RequestFails(h)  PROVE ProcessedHasResult'
  BY <1>25
     DEF RequestFails, Cut, tableVars, ocrVars, ProcessedHasResult, TypeOK,
         RowType
<1>26. CASE Restart
  BY <1>26 DEF Restart, Cut, tableVars, ProcessedHasResult, TypeOK, RowType
<1>27. CASE UNCHANGED vars
  BY <1>27 DEF vars, tableVars, ocrVars, ProcessedHasResult, TypeOK, RowType
<1> QED BY <1>1, <1>2, <1>3, <1>4, <1>5, <1>6, <1>7, <1>8, <1>9, <1>10, <1>11,
   <1>12, <1>13, <1>14, <1>15, <1>16, <1>17, <1>18, <1>19, <1>20, <1>21,
   <1>22, <1>23, <1>24, <1>25, <1>26, <1>27
   DEF Next, UploadNext, OcrStep, RequestNext, RemovalNext, Handler

-----------------------------------------------------------------------------
(* The counter of accepted jobs.                                           *)
LEMMA LiveIsFinite == IsFiniteSet(Live)
BY ReportImagesAssumption, FS_Subset DEF Live

(* The finally of scheduleOcr() counts a job down exactly once.            *)
LEMMA JobCounted ==
  ASSUME TypeOK, QueueBound, NEW i \in Live, JobEnds(i)
  PROVE  QueueBound'
<1>1. Live' = Live \ {i}
  BY DEF JobEnds, JobGoesTo, Live, LiveStep, TypeOK
<1>2. Cardinality(Live') = Cardinality(Live) - 1
  BY <1>1, LiveIsFinite, FS_RemoveElement
<1>3. Cardinality(Live) # 0
  BY LiveIsFinite, FS_EmptySet
<1>4. pendingJobs' = pendingJobs - 1
  BY <1>3 DEF JobEnds, QueueBound, TypeOK
<1> QED BY <1>2, <1>4, ReportImagesAssumption DEF QueueBound, TypeOK

LEMMA CountInit == Init => QueueBound
<1> SUFFICES ASSUME Init PROVE QueueBound
  OBVIOUS
<1>1. Live = {}
  BY DEF Init, Live, LiveStep
<1> QED BY <1>1, FS_EmptySet, ReportImagesAssumption DEF Init, QueueBound

LEMMA CountStep == QueueBound /\ TypeOK /\ RowsComeFirst /\ QueueHoldsWaiters
     /\ [Next]_vars => QueueBound'
<1> SUFFICES ASSUME QueueBound, TypeOK, RowsComeFirst, QueueHoldsWaiters,
     [Next]_vars PROVE QueueBound'
  OBVIOUS
<1>1. ASSUME NEW i \in Image, BeginUpload(i)  PROVE QueueBound'
  BY <1>1 DEF BeginUpload, ocrVars, QueueBound, Live
<1>2. ASSUME NEW i \in Image, SaveFile(i)  PROVE QueueBound'
  BY <1>2 DEF SaveFile, ocrVars, QueueBound, Live
<1>3. ASSUME NEW i \in Image, InsertRow(i)  PROVE QueueBound'
  <2>1. job[i] = "none"
    BY <1>3 DEF InsertRow, RowsComeFirst
  <2>2. CASE pendingJobs >= OCR_MAX_QUEUE_LENGTH
    <3>1. Live' = Live /\ pendingJobs' = pendingJobs
      BY <1>3, <2>1, <2>2 DEF InsertRow, ScheduleOcr, Live, LiveStep, TypeOK
    <3> QED BY <3>1 DEF QueueBound
  <2>3. CASE ~(pendingJobs >= OCR_MAX_QUEUE_LENGTH)
    <3>1. Live' = Live \cup {i} /\ i \notin Live
      BY <1>3, <2>1, <2>3 DEF InsertRow, ScheduleOcr, Live, LiveStep, TypeOK
    <3>2. pendingJobs' = pendingJobs + 1
      BY <1>3, <2>3 DEF InsertRow, ScheduleOcr
    <3>3. Cardinality(Live') = Cardinality(Live) + 1
      BY <3>1, LiveIsFinite, FS_AddElement
    <3> QED
      BY <2>3, <3>2, <3>3, ReportImagesAssumption DEF QueueBound, TypeOK
  <2> QED BY <2>2, <2>3
<1>4. ASSUME NEW i \in Image, InsertRefused(i)  PROVE QueueBound'
  BY <1>4 DEF InsertRefused, ocrVars, QueueBound, Live
<1>5. ASSUME NEW i \in Image, UploadFails(i)  PROVE QueueBound'
  BY <1>5 DEF UploadFails, ocrVars, QueueBound, Live
<1>6. ASSUME NEW i \in Image, ReadRow(i)  PROVE QueueBound'
  <2>1. CASE row[i].deletedAt \/ row[i].status = "deleted"
    BY <1>6, <2>1, JobCounted DEF ReadRow, Live, LiveStep
  <2>2. CASE ~(row[i].deletedAt \/ row[i].status = "deleted")
    <3>1. Live' = Live /\ pendingJobs' = pendingJobs
      BY <1>6, <2>2 DEF ReadRow, JobGoesTo, Live, LiveStep, TypeOK
    <3> QED BY <3>1 DEF QueueBound
  <2> QED BY <2>1, <2>2
<1>7. ASSUME NEW i \in Image, MarkProcessing(i)  PROVE QueueBound'
  <2>1. Live' = Live /\ pendingJobs' = pendingJobs
    BY <1>7 DEF MarkProcessing, JobGoesTo, Live, LiveStep, TypeOK
  <2> QED BY <2>1 DEF QueueBound
<1>8. ASSUME NEW i \in Image, ReadFile(i)  PROVE QueueBound'
  <2>1. Live' = Live /\ pendingJobs' = pendingJobs
    BY <1>8 DEF ReadFile, JobGoesTo, Live, LiveStep, TypeOK
  <2> QED BY <2>1 DEF QueueBound
<1>9. ASSUME NEW i \in Image, Recognized(i)  PROVE QueueBound'
  <2>1. PICK next \in {"storing", "failing"} : Release(i, next)
    BY <1>9 DEF Recognized
  <2>2. job[i] = "recognizing" /\ pendingJobs' = pendingJobs
    BY <1>9 DEF Recognized
  <2>3. CASE queue = <<>>
    <3>1. Live' = Live
      BY <2>1, <2>2, <2>3 DEF Release, JobGoesTo, Live, LiveStep, TypeOK
    <3> QED BY <2>2, <3>1 DEF QueueBound
  <2>4. CASE queue # <<>>
    <3>1. Head(queue) \in Image /\ job[Head(queue)] = "waiting"
      BY <2>4, QueueFront
    <3>2. job' = [job EXCEPT ![i] = next, ![Head(queue)] = "recognizing"]
      BY <2>1, <2>4 DEF Release
    <3>3. Live' = Live
      BY <2>1, <2>2, <3>1, <3>2 DEF Live, LiveStep, TypeOK
    <3> QED BY <2>2, <3>3 DEF QueueBound
  <2> QED BY <2>3, <2>4
<1>10. ASSUME NEW i \in Image, StoreResult(i)  PROVE QueueBound'
  BY <1>10, JobCounted DEF StoreResult, Live, LiveStep
<1>11. ASSUME NEW i \in Image, MarkFailed(i)  PROVE QueueBound'
  <2>1. CASE job[i] = "failing"
    BY <1>11, <2>1, JobCounted DEF MarkFailed, Live, LiveStep
  <2>2. CASE job[i] = "refused"
    <3>1. Live' = Live /\ pendingJobs' = pendingJobs
      BY <1>11, <2>2 DEF MarkFailed, JobGoesTo, Live, LiveStep, TypeOK
    <3> QED BY <3>1 DEF QueueBound
  <2> QED BY <1>11, <2>1, <2>2 DEF MarkFailed
<1>12. ASSUME NEW i \in Image, JobCallFails(i)  PROVE QueueBound'
  <2>1. CASE job[i] \in {"reading", "storing"}
    <3>1. Live' = Live /\ pendingJobs' = pendingJobs
      BY <1>12, <2>1 DEF JobCallFails, JobGoesTo, Live, LiveStep, TypeOK
    <3> QED BY <3>1 DEF QueueBound
  <2>2. CASE job[i] \notin {"reading", "storing"}
    BY <1>12, <2>2, JobCounted DEF JobCallFails, Live, LiveStep
  <2> QED BY <2>1, <2>2
<1>13. ASSUME NEW i \in Image, Age(i)  PROVE QueueBound'
  BY <1>13 DEF Age, ocrVars, QueueBound, Live
<1>14. ASSUME NEW h \in Handler, NEW i \in Image, DeleteImage(h, i)  PROVE
     QueueBound'
  BY <1>14 DEF DeleteImage, Begin, OutsideRequest, ocrVars, QueueBound, Live
<1>15. ASSUME NEW h \in Handler, NEW i \in Image, AttachImage(h, i)  PROVE
     QueueBound'
  BY <1>15 DEF AttachImage, Begin, OutsideRequest, ocrVars, QueueBound, Live
<1>16. ASSUME NEW h \in Handler, DeleteAccount(h)  PROVE QueueBound'
  BY <1>16 DEF DeleteAccount, Begin, OutsideRequest, ocrVars, QueueBound, Live
<1>17. ASSUME NEW h \in Handler, LinkImage(h)  PROVE QueueBound'
  BY <1>17 DEF LinkImage, OutsideRequest, ocrVars, QueueBound, Live
<1>18. ASSUME NEW h \in Handler, NotLinked(h)  PROVE QueueBound'
  BY <1>18 DEF NotLinked, OutsideRequest, ocrVars, QueueBound, Live
<1>19. ASSUME NEW h \in Handler, AccountGone(h)  PROVE QueueBound'
  BY <1>19 DEF AccountGone, OutsideRequest, ocrVars, QueueBound, Live
<1>20. ASSUME NEW h \in Handler, Sweep(h)  PROVE QueueBound'
  BY <1>20 DEF Sweep, Begin, OutsideRequest, ocrVars, QueueBound, Live
<1>21. ASSUME NEW h \in Handler, CheckLink(h)  PROVE QueueBound'
  BY <1>21 DEF CheckLink, OutsideRequest, ocrVars, QueueBound, Live
<1>22. ASSUME NEW h \in Handler, Unlink(h)  PROVE QueueBound'
  BY <1>22 DEF Unlink, OutsideRequest, ocrVars, QueueBound, Live
<1>23. ASSUME NEW h \in Handler, Tombstone(h)  PROVE QueueBound'
  BY <1>23 DEF Tombstone, OutsideRequest, ocrVars, QueueBound, Live
<1>24. ASSUME NEW h \in Handler, SweepEnds(h)  PROVE QueueBound'
  BY <1>24 DEF SweepEnds, OutsideRequest, ocrVars, QueueBound, Live
<1>25. ASSUME NEW h \in Handler, RequestFails(h)  PROVE QueueBound'
  BY <1>25 DEF RequestFails, ocrVars, QueueBound, Live
<1>26. CASE Restart
  <2>1. Live' = {} /\ pendingJobs' = 0
    BY <1>26 DEF Restart, Live, LiveStep
  <2> QED BY <2>1, FS_EmptySet, ReportImagesAssumption DEF QueueBound
<1>27. CASE UNCHANGED vars
  BY <1>27 DEF vars, tableVars, ocrVars, QueueBound, Live
<1> QED BY <1>1, <1>2, <1>3, <1>4, <1>5, <1>6, <1>7, <1>8, <1>9, <1>10, <1>11,
   <1>12, <1>13, <1>14, <1>15, <1>16, <1>17, <1>18, <1>19, <1>20, <1>21,
   <1>22, <1>23, <1>24, <1>25, <1>26, <1>27
   DEF Next, UploadNext, OcrStep, RequestNext, RemovalNext, Handler

-----------------------------------------------------------------------------
(* The inductive invariant: the layers together.                           *)
IInv == /\ TypeOK /\ RowsComeFirst /\ QueueHoldsWaiters
        /\ StorageInv /\ EvidenceInv /\ SettledInv
        /\ ProcessedHasResult /\ QueueBound

LEMMA InvInit == Init => IInv
BY TypeInit, RowsInit, QueueInit, StorageInit, EvidenceInit, SettledInit,
   ResultInit, CountInit
   DEF IInv

LEMMA InvStep == IInv /\ [Next]_vars => IInv'
BY TypeStep, RowsStep, QueueStep, StorageStep, EvidenceStep, SettledStep,
   ResultStep, CountStep
   DEF IInv

(* Every reachable state of the report images satisfies all the layers.   *)
THEOREM Invariant == Spec => []IInv
<1> QED BY InvInit, InvStep, PTL DEF Spec

(* Every variable of ReportImagesService, its tables and its jobs keeps    *)
(* its type; the semaphore counter stays between zero and the limit.       *)
THEOREM TypeCorrect == Spec => []TypeOK
<1>1. IInv => TypeOK
  BY DEF IInv, StorageInv, EvidenceInv, SettledInv
<1> QED BY <1>1, Invariant, PTL

(* softDeleteImage(): a row marked deleted has no file, and a live row lacks*)
(* its file only while, or because, a removal stopped between its halves.  *)
THEOREM StorageIsConsistent == Spec => []StorageMatchesRows
<1>1. IInv => StorageMatchesRows
  BY DEF IInv, StorageInv, EvidenceInv, SettledInv
<1> QED BY <1>1, Invariant, PTL

(* cleanupExpiredUnattached() and deleteUserImages() never remove an image *)
(* that was linked before they started.                                    *)
THEOREM EvidenceSurvivesSweeps == Spec => []EvidenceIsSpared
<1>1. IInv => EvidenceIsSpared
  BY DEF IInv, StorageInv, EvidenceInv, SettledInv
<1> QED BY <1>1, Invariant, PTL

(* An image linked after its OCR job, with no removal past its checks, is  *)
(* never lost nor loses the status that protects it.                       *)
THEOREM SettledEvidenceSurvives == Spec => []SettledEvidenceIsKept
<1>1. IInv => SettledEvidenceIsKept
  BY DEF IInv, StorageInv, EvidenceInv, SettledInv
<1> QED BY <1>1, Invariant, PTL

(* A row that processImage() marks processed has its OCR result.           *)
THEOREM ResultsAreThere == Spec => []ProcessedHasResult
<1>1. IInv => ProcessedHasResult
  BY DEF IInv, StorageInv, EvidenceInv, SettledInv
<1> QED BY <1>1, Invariant, PTL

(* scheduleOcr(): at most OCR_MAX_QUEUE_LENGTH jobs wait or run, and the   *)
(* counter never drifts from their number.                                 *)
THEOREM QueueIsBounded == Spec => []QueueBound
<1>1. IInv => QueueBound
  BY DEF IInv, StorageInv, EvidenceInv, SettledInv
<1> QED BY <1>1, Invariant, PTL

-----------------------------------------------------------------------------
(* The semaphore as the jobs use it.                                       *)
PhaseOf(s) == CASE s = "waiting" -> "waiting"
                [] s = "recognizing" -> "running"
                [] OTHER -> "idle"

(* A job that moves between two steps outside the semaphore, or is not     *)
(* moved at all, leaves the semaphore as it is.                            *)
LEMMA SemaphoreUntouched ==
  ASSUME UNCHANGED <<active, queue>>,
         \A i \in Image : PhaseOf(job'[i]) = PhaseOf(job[i])
  PROVE  UNCHANGED Sem!semVars
BY DEF Sem!semVars, PhaseOf

LEMMA JobMoves ==
  ASSUME TypeOK, NEW i \in Image, NEW s, JobGoesTo(i, s),
         job[i] \notin {"waiting", "recognizing"},
         s \notin {"waiting", "recognizing"},
         UNCHANGED <<active, queue>>
  PROVE  UNCHANGED Sem!semVars
<1>1. \A j \in Image : PhaseOf(job'[j]) = PhaseOf(job[j])
  BY DEF JobGoesTo, PhaseOf, TypeOK
<1> QED BY <1>1, SemaphoreUntouched

(* The three branches that touch the semaphore are the three steps of      *)
(* OcrSemaphore.                                                           *)
LEMMA ReadFileAcquires ==
  ASSUME TypeOK, NEW i \in Image, ReadFile(i)
  PROVE  [Sem!SemNext]_(Sem!semVars)
<1>1. CASE i \notin files
  <2>1. JobGoesTo(i, "failing") /\ job[i] = "reading" /\ UNCHANGED <<active, queue>>
    BY <1>1 DEF ReadFile
  <2> QED BY <2>1, JobMoves
<1>2. CASE i \in files /\ active < OCR_MAX_CONCURRENCY
  <2>1. job' = [job EXCEPT ![i] = "recognizing"] /\ job[i] = "reading"
        /\ active' = active + 1 /\ queue' = queue
    BY <1>2 DEF ReadFile, JobGoesTo
  <2>2. Sem!AcquireNow(i)
    BY <1>2, <2>1 DEF Sem!AcquireNow, TypeOK
  <2> QED BY <2>2 DEF Sem!SemNext
<1>3. CASE i \in files /\ ~(active < OCR_MAX_CONCURRENCY)
  <2>1. job' = [job EXCEPT ![i] = "waiting"] /\ job[i] = "reading"
        /\ queue' = Append(queue, i) /\ active' = active
    BY <1>3 DEF ReadFile, JobGoesTo
  <2>2. active >= OCR_MAX_CONCURRENCY
    BY <1>3, ReportImagesAssumption DEF TypeOK
  <2>3. Sem!AcquireLater(i)
    BY <2>1, <2>2 DEF Sem!AcquireLater, TypeOK
  <2> QED BY <2>3 DEF Sem!SemNext
<1> QED BY <1>1, <1>2, <1>3

LEMMA RecognizedReleases ==
  ASSUME TypeOK, QueueHoldsWaiters, NEW i \in Image, Recognized(i)
  PROVE  [Sem!SemNext]_(Sem!semVars)
<1>1. PICK next \in {"storing", "failing"} : Release(i, next)
  BY DEF Recognized
<1>2. job[i] = "recognizing" /\ active \in Nat /\ job \in [Image -> JobStep]
  BY DEF Recognized, TypeOK
<1>3. CASE queue = <<>>
  <2>1. job' = [job EXCEPT ![i] = next] /\ queue' = queue
        /\ active' = IF active > 0 THEN active - 1 ELSE 0
    BY <1>1, <1>3 DEF Release, JobGoesTo
  <2>2. active' = Sem!AfterRelease
    BY <1>2, <1>3, <2>1 DEF Sem!AfterRelease
  <2>3. Sem!Release(i)
    BY <1>1, <1>2, <1>3, <2>1, <2>2 DEF Sem!Release
  <2> QED BY <2>3 DEF Sem!SemNext
<1>4. CASE queue # <<>>
  <2>1. job' = [job EXCEPT ![i] = next, ![Head(queue)] = "recognizing"]
        /\ queue' = Tail(queue)
        /\ active' = (IF active > 0 THEN active - 1 ELSE 0) + 1
    BY <1>1, <1>4 DEF Release
  <2>2. Head(queue) \in Image /\ Head(queue) # i
    BY <1>2, <1>4, QueueFront
  <2>3. active' = Sem!AfterRelease
    BY <1>2, <1>4, <2>1 DEF Sem!AfterRelease
  <2>4. Sem!Release(i)
    BY <1>1, <1>2, <1>4, <2>1, <2>2, <2>3 DEF Sem!Release
  <2> QED BY <2>4 DEF Sem!SemNext
<1> QED BY <1>3, <1>4

LEMMA SemaphoreStep ==
  TypeOK /\ RowsComeFirst /\ QueueHoldsWaiters /\ [Next]_vars
    => [Sem!SemNext \/ Restart]_(Sem!semVars)
<1> SUFFICES ASSUME TypeOK, RowsComeFirst, QueueHoldsWaiters, [Next]_vars
     PROVE [Sem!SemNext \/ Restart]_(Sem!semVars)
  OBVIOUS
<1>0. UNCHANGED ocrVars => UNCHANGED Sem!semVars
  BY SemaphoreUntouched DEF ocrVars
<1>1. ASSUME NEW i \in Image, InsertRow(i)  PROVE UNCHANGED Sem!semVars
  <2>1. job[i] = "none"
    BY <1>1 DEF InsertRow, RowsComeFirst
  <2>2. PICK s \in {"refused", "selecting"} : JobGoesTo(i, s)
    BY <1>1 DEF InsertRow, ScheduleOcr, JobGoesTo
  <2> QED BY <1>1, <2>1, <2>2, JobMoves DEF InsertRow
<1>2. ASSUME NEW i \in Image,
             \/ ReadRow(i) \/ MarkProcessing(i) \/ StoreResult(i)
             \/ MarkFailed(i) \/ JobCallFails(i)
      PROVE  UNCHANGED Sem!semVars
  <2>1. job[i] \notin {"waiting", "recognizing"}
    BY <1>2 DEF ReadRow, MarkProcessing, StoreResult, MarkFailed, JobCallFails
  <2>2. PICK s \in {"ended", "marking", "reading", "failing"} : JobGoesTo(i, s)
    BY <1>2 DEF ReadRow, MarkProcessing, StoreResult, MarkFailed, JobCallFails,
                JobEnds
  <2>3. UNCHANGED <<active, queue>>
    BY <1>2 DEF ReadRow, MarkProcessing, StoreResult, MarkFailed, JobCallFails
  <2> QED BY <2>1, <2>2, <2>3, JobMoves
<1>3. ASSUME NEW i \in Image,
             \/ BeginUpload(i) \/ SaveFile(i) \/ InsertRefused(i)
             \/ UploadFails(i) \/ Age(i)
      PROVE  UNCHANGED ocrVars
  BY <1>3 DEF BeginUpload, SaveFile, InsertRefused, UploadFails, Age
<1>4. ASSUME NEW h \in Handler,
             \/ RequestNext(h) \/ Sweep(h) \/ RemovalNext(h) \/ RequestFails(h)
      PROVE  UNCHANGED ocrVars
  BY <1>4 DEF RequestNext, DeleteImage, AttachImage, DeleteAccount, LinkImage,
       NotLinked, AccountGone, Sweep, Begin, RemovalNext, CheckLink, Unlink,
       Tombstone, SweepEnds, RequestFails, OutsideRequest
<1>5. CASE UNCHANGED vars
  BY <1>0, <1>5 DEF vars
<1>6. CASE Restart
  BY <1>6
<1> QED BY <1>0, <1>1, <1>2, <1>3, <1>4, <1>5, <1>6, ReadFileAcquires,
       RecognizedReleases
   DEF Next, UploadNext, OcrStep, Handler

(* Whatever the jobs do and however they fail, each of their visits to the *)
(* semaphore is one of the steps of OcrSemaphoreService, so what is proved *)
(* about the semaphore holds for the jobs between two restarts.            *)
THEOREM JobsAreTasks == Spec => JobsUseSemaphore
<1>1. Init => Sem!SemInit
  BY DEF Init, Sem!SemInit
<1>2. IInv /\ [Next]_vars => [Sem!SemNext \/ Restart]_(Sem!semVars)
  BY SemaphoreStep DEF IInv
<1> QED BY <1>1, <1>2, Invariant, PTL DEF Spec, JobsUseSemaphore
=============================================================================
