---------------------------- MODULE OcrSemaphore ----------------------------
(***************************************************************************)
(* OcrSemaphoreService: the counting semaphore that bounds the concurrent  *)
(* calls of the OCR engine inside one API process.  Each method body runs  *)
(* without an await, so it is one step: acquire() either takes a place or  *)
(* appends a callback to the queue, and release() gives the place back and *)
(* runs the oldest callback, which takes it again.                         *)
(***************************************************************************)
EXTENDS Naturals, Sequences, FiniteSets

CONSTANTS Job,             \* the tasks handed to run()
          MaxConcurrency   \* OCR_MAX_CONCURRENCY, default 1

ASSUME MaxConcurrencyAssumption == MaxConcurrency \in Nat \ {0}

VARIABLES active,   \* the private counter
          queue,    \* the callbacks of the tasks that wait, oldest first
          phase     \* where each task is in run()

semVars == <<active, queue, phase>>

Phase == {"idle", "waiting", "running"}

Waiting == {j \in Job : phase[j] = "waiting"}
Running == {j \in Job : phase[j] = "running"}

SemInit ==
  /\ active = 0
  /\ queue = <<>>
  /\ phase = [j \in Job |-> "idle"]

(* A faulty acquire() that lets one task too many in.                      *)
AcquireNowOneMore(j) ==
  /\ phase[j] = "idle"
  /\ active <= MaxConcurrency
  /\ active' = active + 1
  /\ phase' = [phase EXCEPT ![j] = "running"]
  /\ UNCHANGED queue

(* acquire() with a place free.                                            *)
AcquireNow(j) ==
  /\ phase[j] = "idle"
  /\ active < MaxConcurrency
  /\ active' = active + 1
  /\ phase' = [phase EXCEPT ![j] = "running"]
  /\ UNCHANGED queue

(* A faulty acquire() that waits for a callback nobody was given.          *)
AcquireLaterUnqueued(j) ==
  /\ phase[j] = "idle"
  /\ active >= MaxConcurrency
  /\ phase' = [phase EXCEPT ![j] = "waiting"]
  /\ UNCHANGED <<active, queue>>

(* acquire() with every place taken: the promise's callback is queued.     *)
AcquireLater(j) ==
  /\ phase[j] = "idle"
  /\ active >= MaxConcurrency
  /\ queue' = Append(queue, j)
  /\ phase' = [phase EXCEPT ![j] = "waiting"]
  /\ UNCHANGED active

(* A faulty release() whose callback forgets to take the place.            *)
AfterReleaseUncounted == IF active > 0 THEN active - 1 ELSE 0

(* What release() leaves in the counter: it is clamped at zero, and the    *)
(* callback it runs increments it again.                                   *)
AfterRelease ==
  (IF active > 0 THEN active - 1 ELSE 0) + (IF queue = <<>> THEN 0 ELSE 1)

(* A faulty release() that wakes nobody.                                   *)
ReleaseSilent(j) ==
  /\ phase[j] = "running"
  /\ active' = active - 1
  /\ phase' = [phase EXCEPT ![j] = "idle"]
  /\ UNCHANGED queue

(* A faulty release() that wakes the task that came last (pop, not shift). *)
ReleaseNewest(j) ==
  /\ phase[j] = "running"
  /\ active' = AfterRelease
  /\ IF queue = <<>>
     THEN /\ phase' = [phase EXCEPT ![j] = "idle"]
          /\ UNCHANGED queue
     ELSE /\ queue' = SubSeq(queue, 1, Len(queue) - 1)
          /\ phase' = [phase EXCEPT ![j] = "idle", ![queue[Len(queue)]] = "running"]

(* The finally block of run(): the task resolved or rejected, and its      *)
(* caller may come back with another.                                      *)
Release(j) ==
  /\ phase[j] = "running"
  /\ active' = AfterRelease
  /\ IF queue = <<>>
     THEN /\ phase' = [phase EXCEPT ![j] = "idle"]
          /\ UNCHANGED queue
     ELSE /\ queue' = Tail(queue)
          /\ phase' = [phase EXCEPT ![j] = "idle", ![Head(queue)] = "running"]

SemNext ==
  \E j \in Job : AcquireNow(j) \/ AcquireLater(j) \/ Release(j)

(* A recognition that started comes back: Tesseract resolves or rejects.   *)
SemSpec ==
  /\ SemInit /\ [][SemNext]_semVars
  /\ \A j \in Job : WF_semVars(Release(j))

-----------------------------------------------------------------------------
SemTypeOK ==
  /\ active \in 0..MaxConcurrency
  /\ queue \in Seq(Job)
  /\ phase \in [Job -> Phase]

(* The counter is exactly the number of tasks inside the engine, so the    *)
(* clamp in release() never has to act and no place is leaked or invented. *)
CounterIsExact == active = Cardinality(Running)

(* Nobody waits while a place is free: release() hands the place over      *)
(* before anybody else can take it, so no wake-up is lost.                 *)
NoIdlePlace == Waiting # {} => active = MaxConcurrency

(* The queue holds every waiting task once, and nobody else.               *)
QueueIsWaiting ==
  /\ {queue[n] : n \in DOMAIN queue} = Waiting
  /\ \A m, n \in DOMAIN queue : queue[m] = queue[n] => m = n

(* Nobody overtakes: while a task waits, its place in the queue can only   *)
(* move forward, and a task leaves the queue from its front.               *)
FirstComeFirstServed ==
  [][\A m, n \in DOMAIN queue :
       m < n /\ phase'[queue[n]] # "waiting" => phase'[queue[m]] # "waiting"]_semVars

(* Every task that waits is served, if the tasks inside the engine end.    *)
EveryWaiterServed == \A j \in Job : phase[j] = "waiting" ~> phase[j] = "running"

(* The semaphore is a worker pool: its counter and its queue are hidden.   *)
Pool == INSTANCE WorkerPool
          WITH Limit <- MaxConcurrency, waiting <- Waiting, running <- Running

ImplementsPool == Pool!PoolSpec
=============================================================================
