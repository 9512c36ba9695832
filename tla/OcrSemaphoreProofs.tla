------------------------- MODULE OcrSemaphoreProofs -------------------------
(***************************************************************************)
(* Proofs about OcrSemaphore for any set of tasks and any concurrency: the *)
(* counter is exact and bounded, no place idles while a task waits, and    *)
(* the semaphore implements WorkerPool.                                    *)
(***************************************************************************)
EXTENDS OcrSemaphore, FiniteSetTheorems, SequenceTheorems, TLAPS

(* The inductive invariant.  CounterIsExact needs the running set finite;  *)
(* a release may hand a place over only because the queue holds exactly    *)
(* the waiting tasks, each once.                                           *)
SemInv ==
  /\ SemTypeOK
  /\ IsFiniteSet(Running)
  /\ CounterIsExact
  /\ NoIdlePlace
  /\ QueueIsWaiting

-----------------------------------------------------------------------------
(* The first callback of a non-empty queue belongs to a waiting task, and  *)
(* the rest of the queue is the waiting set without it.                    *)
LEMMA QueueHead ==
  ASSUME SemTypeOK, QueueIsWaiting, queue # <<>>
  PROVE  /\ Head(queue) \in Waiting
         /\ Tail(queue) \in Seq(Job)
         /\ {Tail(queue)[n] : n \in DOMAIN Tail(queue)} = Waiting \ {Head(queue)}
         /\ \A m, n \in DOMAIN Tail(queue) :
              Tail(queue)[m] = Tail(queue)[n] => m = n
<1> DEFINE t == Tail(queue)
<1>1. /\ queue \in Seq(Job)
      /\ Len(queue) \in Nat \ {0}
      /\ Head(queue) = queue[1]
      /\ 1 \in DOMAIN queue
      /\ DOMAIN queue = 1..Len(queue)
  BY EmptySeq, HeadTailProperties DEF SemTypeOK
<1>2. /\ t \in Seq(Job)
      /\ DOMAIN t = 1..(Len(queue) - 1)
      /\ \A n \in 1..(Len(queue) - 1) : t[n] = queue[n + 1]
  BY <1>1, HeadTailProperties
<1>3. \A m, n \in DOMAIN t : t[m] = t[n] => m = n
  <2> SUFFICES ASSUME NEW m \in DOMAIN t, NEW n \in DOMAIN t, t[m] = t[n]
               PROVE  m = n
    OBVIOUS
  <2>1. /\ m + 1 \in DOMAIN queue /\ n + 1 \in DOMAIN queue
        /\ queue[m + 1] = queue[n + 1]
    BY <1>1, <1>2
  <2>2. m + 1 = n + 1
    BY <2>1 DEF QueueIsWaiting
  <2> QED BY <1>1, <1>2, <2>2
<1>4. ASSUME NEW n \in DOMAIN t  PROVE t[n] \in Waiting \ {Head(queue)}
  <2>1. n + 1 \in DOMAIN queue /\ t[n] = queue[n + 1] /\ n + 1 # 1
    BY <1>1, <1>2
  <2>2. t[n] \in Waiting
    BY <2>1 DEF QueueIsWaiting
  <2>3. t[n] # queue[1]
    BY <2>1, <1>1 DEF QueueIsWaiting
  <2> QED BY <2>2, <2>3, <1>1
<1>5. ASSUME NEW j \in Waiting \ {Head(queue)}
      PROVE  \E n \in DOMAIN t : t[n] = j
  <2>1. PICK k \in DOMAIN queue : queue[k] = j
    BY DEF QueueIsWaiting
  <2>2. k # 1
    BY <2>1, <1>1
  <2>3. k - 1 \in DOMAIN t /\ t[k - 1] = queue[(k - 1) + 1] /\ (k - 1) + 1 = k
    BY <1>1, <1>2, <2>2
  <2> QED BY <2>1, <2>3
<1>6. Head(queue) \in Waiting
  BY <1>1 DEF QueueIsWaiting
<1>7. {t[n] : n \in DOMAIN t} = Waiting \ {Head(queue)}
  BY <1>4, <1>5
<1> QED BY <1>2, <1>3, <1>6, <1>7

(* Appending a task that does not wait keeps the queue an enumeration of   *)
(* the waiting set.                                                        *)
LEMMA QueueAppend ==
  ASSUME SemTypeOK, QueueIsWaiting, NEW j \in Job, j \notin Waiting
  PROVE  /\ Append(queue, j) \in Seq(Job)
         /\ {Append(queue, j)[n] : n \in DOMAIN Append(queue, j)} = Waiting \cup {j}
         /\ \A m, n \in DOMAIN Append(queue, j) :
              Append(queue, j)[m] = Append(queue, j)[n] => m = n
<1> DEFINE q == Append(queue, j)
           l == Len(queue)
<1>1. /\ q \in Seq(Job) /\ l \in Nat
      /\ DOMAIN q = 1..(l + 1) /\ DOMAIN queue = 1..l
      /\ q[l + 1] = j
      /\ \A n \in 1..l : q[n] = queue[n]
  BY AppendProperties DEF SemTypeOK
<1>2. \A n \in 1..l : queue[n] \in Waiting
  BY <1>1 DEF QueueIsWaiting
<1>3. \A w \in Waiting : \E n \in 1..l : queue[n] = w
  BY <1>1 DEF QueueIsWaiting
<1>4. \A m, n \in 1..l : queue[m] = queue[n] => m = n
  BY <1>1 DEF QueueIsWaiting
<1>5. \A n \in 1..(l + 1) : n \in 1..l \/ n = l + 1
  BY <1>1
<1>6. 1..l \subseteq 1..(l + 1) /\ l + 1 \in 1..(l + 1)
  BY <1>1
<1>7. {q[n] : n \in DOMAIN q} = Waiting \cup {j}
  BY <1>1, <1>2, <1>3, <1>5, <1>6
<1>8. \A m, n \in DOMAIN q : q[m] = q[n] => m = n
  BY <1>1, <1>2, <1>4, <1>5
<1> QED BY <1>1, <1>7, <1>8

-----------------------------------------------------------------------------
LEMMA SemInitInv == SemInit => SemInv
<1> SUFFICES ASSUME SemInit PROVE SemInv
  OBVIOUS
<1>1. Running = {} /\ Waiting = {}
  BY DEF SemInit, Running, Waiting
<1>2. SemTypeOK
  BY MaxConcurrencyAssumption, EmptySeq DEF SemInit, SemTypeOK, Phase
<1>3. DOMAIN queue = {}
  BY EmptySeq DEF SemInit
<1>4. IsFiniteSet(Running) /\ CounterIsExact
  BY <1>1, FS_EmptySet DEF SemInit, CounterIsExact
<1> QED BY <1>1, <1>2, <1>3, <1>4 DEF SemInv, NoIdlePlace, QueueIsWaiting

LEMMA AcquireNowInv ==
  ASSUME SemInv, NEW j \in Job, AcquireNow(j)
  PROVE  SemInv'
<1> USE DEF SemInv, AcquireNow
<1>1. Running' = Running \cup {j} /\ j \notin Running /\ Waiting' = Waiting
  BY DEF SemTypeOK, Running, Waiting
<1>2. IsFiniteSet(Running') /\ Cardinality(Running') = Cardinality(Running) + 1
  BY <1>1, FS_AddElement
<1>3. SemTypeOK'
  BY MaxConcurrencyAssumption DEF SemTypeOK, Phase
<1>4. CounterIsExact'
  BY <1>2 DEF CounterIsExact
<1>5. Waiting = {}
  BY DEF NoIdlePlace, SemTypeOK
<1>6. NoIdlePlace' /\ QueueIsWaiting'
  BY <1>1, <1>5 DEF NoIdlePlace, QueueIsWaiting
<1> QED BY <1>2, <1>3, <1>4, <1>6

LEMMA AcquireLaterInv ==
  ASSUME SemInv, NEW j \in Job, AcquireLater(j)
  PROVE  SemInv'
<1> USE DEF SemInv, AcquireLater
<1>1. Running' = Running /\ Waiting' = Waiting \cup {j} /\ j \notin Waiting
  BY DEF SemTypeOK, Running, Waiting
<1>2. SemTypeOK' /\ QueueIsWaiting'
  BY <1>1, QueueAppend DEF SemTypeOK, Phase, QueueIsWaiting
<1>3. IsFiniteSet(Running') /\ CounterIsExact'
  BY <1>1 DEF CounterIsExact
<1>4. NoIdlePlace'
  BY MaxConcurrencyAssumption DEF NoIdlePlace, SemTypeOK
<1> QED BY <1>2, <1>3, <1>4

(* A release with nobody waiting frees the place; with somebody waiting it *)
(* hands it over and the counter ends where it was.                        *)
LEMMA ReleaseInv ==
  ASSUME SemInv, NEW j \in Job, Release(j)
  PROVE  SemInv'
<1> USE DEF SemInv
<1>1. j \in Running /\ active = Cardinality(Running) /\ active # 0
  <2>1. j \in Running /\ active = Cardinality(Running)
    BY DEF Release, Running, CounterIsExact
  <2>2. Cardinality(Running) # 0
    BY <2>1, FS_EmptySet
  <2> QED BY <2>1, <2>2
<1>2. CASE queue = <<>>
  <2>1. Waiting = {}
    BY <1>2, EmptySeq DEF QueueIsWaiting
  <2>2. Running' = Running \ {j} /\ Waiting' = Waiting /\ queue' = queue
    BY <1>2 DEF Release, SemTypeOK, Running, Waiting
  <2>3. IsFiniteSet(Running') /\ Cardinality(Running') = Cardinality(Running) - 1
    BY <1>1, <2>2, FS_RemoveElement
  <2>4. active' = active - 1
    BY <1>1, <1>2 DEF Release, AfterRelease, SemTypeOK
  <2>5. SemTypeOK'
    BY <1>1, <1>2, <2>4, MaxConcurrencyAssumption DEF Release, SemTypeOK, Phase
  <2>6. CounterIsExact' /\ NoIdlePlace' /\ QueueIsWaiting'
    BY <1>1, <2>1, <2>2, <2>3, <2>4
       DEF CounterIsExact, NoIdlePlace, QueueIsWaiting
  <2> QED BY <2>3, <2>5, <2>6
<1>3. CASE queue # <<>>
  <2> DEFINE h == Head(queue)
  <2>1. /\ h \in Waiting /\ h \in Job /\ h # j
        /\ Tail(queue) \in Seq(Job)
    BY <1>1, <1>3, QueueHead DEF Waiting, Running
  <2>2. /\ queue' = Tail(queue)
        /\ phase' = [phase EXCEPT ![j] = "idle", ![h] = "running"]
    BY <1>3 DEF Release
  <2>3. Running' = (Running \ {j}) \cup {h} /\ Waiting' = Waiting \ {h}
    BY <1>1, <2>1, <2>2 DEF SemTypeOK, Running, Waiting
  <2>4. /\ IsFiniteSet(Running')
        /\ Cardinality(Running') = (Cardinality(Running) - 1) + 1
    <3>1. /\ IsFiniteSet(Running \ {j})
          /\ Cardinality(Running \ {j}) = Cardinality(Running) - 1
      BY <1>1, FS_RemoveElement
    <3>2. h \notin Running \ {j}
      BY <2>1 DEF Waiting, Running
    <3> QED BY <3>1, <3>2, <2>3, FS_AddElement
  <2>5. active' = active
    BY <1>1, <1>3 DEF Release, AfterRelease, SemTypeOK
  <2>6. SemTypeOK'
    BY <2>1, <2>2, <2>5 DEF SemTypeOK, Phase
  <2>7. CounterIsExact'
    BY <1>1, <2>4, <2>5 DEF CounterIsExact, SemTypeOK
  <2>8. NoIdlePlace'
    BY <2>1, <2>5 DEF NoIdlePlace
  <2>9. QueueIsWaiting'
    BY <1>3, <2>2, <2>3, QueueHead DEF QueueIsWaiting
  <2> QED BY <2>4, <2>6, <2>7, <2>8, <2>9
<1> QED BY <1>2, <1>3

LEMMA SemStepInv == SemInv /\ [SemNext]_semVars => SemInv'
<1> SUFFICES ASSUME SemInv, [SemNext]_semVars PROVE SemInv'
  OBVIOUS
<1>1. CASE UNCHANGED semVars
  BY <1>1 DEF semVars, SemInv, SemTypeOK, Running, Waiting, CounterIsExact,
              NoIdlePlace, QueueIsWaiting
<1>2. ASSUME NEW j \in Job, AcquireNow(j) \/ AcquireLater(j) \/ Release(j)
      PROVE  SemInv'
  BY <1>2, AcquireNowInv, AcquireLaterInv, ReleaseInv
<1> QED BY <1>1, <1>2 DEF SemNext

(* The whole inductive invariant holds in every reachable state.           *)
THEOREM SemInvariant == SemSpec => []SemInv
<1> QED BY SemInitInv, SemStepInv, PTL DEF SemSpec

(* Type correctness of OcrSemaphoreService: in particular the counter      *)
(* stays between 0 and OCR_MAX_CONCURRENCY.                                *)
THEOREM SemTypeCorrect == SemSpec => []SemTypeOK
<1>1. SemInv => SemTypeOK
  BY DEF SemInv
<1> QED BY <1>1, SemInvariant, PTL

(* The counter of OcrSemaphoreService is the number of tasks inside the    *)
(* OCR engine.                                                             *)
THEOREM SemCounterIsExact == SemSpec => []CounterIsExact
<1>1. SemInv => CounterIsExact
  BY DEF SemInv
<1> QED BY <1>1, SemInvariant, PTL

(* A task is queued only while every place is taken: release() loses no    *)
(* wake-up.                                                                *)
THEOREM SemNoIdlePlace == SemSpec => []NoIdlePlace
<1>1. SemInv => NoIdlePlace
  BY DEF SemInv
<1> QED BY <1>1, SemInvariant, PTL

(* Only the first of the queue stops waiting in a step.                    *)
LEMMA NobodyOvertakes ==
  ASSUME SemInv, [SemNext]_semVars,
         NEW m \in DOMAIN queue, NEW n \in DOMAIN queue,
         m < n, phase'[queue[n]] # "waiting"
  PROVE  phase'[queue[m]] # "waiting"
<1>1. /\ queue \in Seq(Job) /\ phase \in [Job -> Phase]
      /\ queue[n] \in Waiting /\ queue[n] \in Job /\ phase[queue[n]] = "waiting"
  BY DEF SemInv, SemTypeOK, QueueIsWaiting, Waiting
<1>2. \A i, k \in DOMAIN queue : queue[i] = queue[k] => i = k
  BY DEF SemInv, QueueIsWaiting
<1>3. CASE UNCHANGED semVars
  BY <1>1, <1>3 DEF semVars
<1>4. ASSUME NEW j \in Job, AcquireNow(j) \/ AcquireLater(j)
      PROVE  FALSE
  BY <1>1, <1>4 DEF AcquireNow, AcquireLater
<1>5. ASSUME NEW j \in Job, Release(j)
      PROVE  FALSE
  <2>1. queue # <<>> /\ 1 \in DOMAIN queue /\ Head(queue) = queue[1] /\ m >= 1
    BY <1>1, EmptySeq, HeadTailProperties
  <2>2. phase' = [phase EXCEPT ![j] = "idle", ![queue[1]] = "running"] /\ phase[j] = "running"
    BY <1>5, <2>1 DEF Release
  <2>3. queue[n] # j
    BY <1>1, <2>2
  <2>4. queue[n] = queue[1]
    BY <1>1, <2>2, <2>3
  <2>5. n = 1
    BY <1>2, <2>1, <2>4
  <2> QED BY <1>1, <2>1, <2>5
<1> QED BY <1>3, <1>4, <1>5 DEF SemNext

(* Recognitions start in the order in which they began to wait: release()  *)
(* of OcrSemaphoreService wakes the one that came first.                   *)
THEOREM SemFirstComeFirstServed == SemSpec => FirstComeFirstServed
<1>1. SemInv /\ [SemNext]_semVars =>
        [\A m, n \in DOMAIN queue :
           m < n /\ phase'[queue[n]] # "waiting" => phase'[queue[m]] # "waiting"]_semVars
  BY NobodyOvertakes
<1> QED BY <1>1, SemInvariant, PTL DEF SemSpec, FirstComeFirstServed

-----------------------------------------------------------------------------
(* Every step of the semaphore is a step of the abstract pool.             *)
LEMMA SemStepRefines == SemInv /\ [SemNext]_semVars => [Pool!PoolNext]_Pool!poolVars
<1> SUFFICES ASSUME SemInv, [SemNext]_semVars
             PROVE  [Pool!PoolNext]_Pool!poolVars
  OBVIOUS
<1> USE DEF SemInv
<1>1. CASE UNCHANGED semVars
  BY <1>1 DEF semVars, Pool!poolVars, Running, Waiting
<1>0. Pool!Cardinality(Running) = Cardinality(Running)
  BY DEF Pool!Cardinality, Cardinality
<1>2. ASSUME NEW j \in Job, AcquireNow(j)  PROVE Pool!Enter(j)
  BY <1>0, <1>2 DEF AcquireNow, Pool!Enter, SemTypeOK, Running, Waiting, CounterIsExact
<1>3. ASSUME NEW j \in Job, AcquireLater(j)  PROVE Pool!Wait(j)
  <2>1. active = MaxConcurrency
    BY <1>3, MaxConcurrencyAssumption DEF AcquireLater, SemTypeOK
  <2>2. Waiting' = Waiting \cup {j} /\ Running' = Running /\ j \notin Waiting \cup Running
    BY <1>3 DEF AcquireLater, SemTypeOK, Running, Waiting
  <2> QED BY <1>0, <2>1, <2>2 DEF Pool!Wait, CounterIsExact
<1>4. ASSUME NEW j \in Job, Release(j)  PROVE Pool!Leave(j)
  <2>1. CASE queue = <<>>
    <3>1. Waiting = {}
      BY <2>1, EmptySeq DEF QueueIsWaiting
    <3>2. Running' = Running \ {j} /\ Waiting' = Waiting /\ j \in Running
      BY <1>4, <2>1 DEF Release, SemTypeOK, Running, Waiting
    <3> QED BY <3>1, <3>2 DEF Pool!Leave
  <2>2. CASE queue # <<>>
    <3>1. Head(queue) \in Waiting
      BY <2>2, QueueHead
    <3>2. /\ Waiting' = Waiting \ {Head(queue)}
          /\ Running' = (Running \ {j}) \cup {Head(queue)} /\ j \in Running
      BY <1>4, <2>2, <3>1 DEF Release, SemTypeOK, Running, Waiting
    <3> QED BY <3>1, <3>2 DEF Pool!Leave
  <2> QED BY <2>1, <2>2
<1> QED BY <1>1, <1>2, <1>3, <1>4 DEF SemNext, Pool!PoolNext

(* OcrSemaphoreService implements the concurrency limit it stands for.     *)
THEOREM SemRefinesPool == SemSpec => ImplementsPool
<1>1. SemInit => Pool!PoolInit
  BY DEF SemInit, Pool!PoolInit, Running, Waiting
<1> QED BY <1>1, SemInvariant, SemStepRefines, PTL
        DEF SemSpec, ImplementsPool, Pool!PoolSpec
=============================================================================
