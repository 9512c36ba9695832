------------------------------ MODULE Ingestion ------------------------------
(***************************************************************************)
(* Imports of one provider: IngestionService.runProvider() under its       *)
(* advisory lock, with its run records, and next to it the searches that   *)
(* refresh Austrian prices on demand through the same writer without the   *)
(* lock.                                                                   *)
(*                                                                         *)
(* The lock belongs to a database session of its own: it goes with the     *)
(* process, and with that one connection, while the import goes on with    *)
(* others.  Any statement may fail; a process may die anywhere.  A dry run *)
(* writes nothing and is left out.                                         *)
(***************************************************************************)
EXTENDS IngestionWriter

CONSTANTS Runs,        \* calls of runProvider(); the others are searches
          Process,
          Home,        \* the process of each call
          Callers,     \* bound: the calls made to each provider
          MaxFailures  \* bound: things that go wrong

ASSUME IngestionAssumption ==
  /\ Runs \subseteq Call
  /\ Home \in [Call -> Process]
  /\ Callers \in [Providers -> SUBSET Call]
  /\ MaxFailures \in Nat

VARIABLES
  lock,        \* whose session holds pg_advisory_lock, or NoCall
  lost,        \* runs whose lock's connection was dropped
  run,         \* ingestion_runs: the row of each run
  cached,      \* whether the cache knows the place as refreshed
  overlapped,  \* history: calls that imported while another did
  failures     \* how much has gone wrong, at most MaxFailures

vars == <<writerVars, lock, lost, run, cached, overlapped, failures>>

RunStatus == {"none", "running", "succeeded", "partially_succeeded", "failed"}
RunType == [status : RunStatus, stored : Nat, created : Nat]
NoRun == [status |-> "none", stored |-> 0, created |-> 0]

Init ==
  /\ WriterInit
  /\ lock = NoCall /\ lost = {}
  /\ run = [c \in Runs |-> NoRun]
  /\ cached = FALSE
  /\ overlapped = {}
  /\ failures = 0

Forget(c, heard) == work' = [work EXCEPT ![c] = [NoWork EXCEPT !.told = heard]]
Over == {"done", "unrecorded", "dead"}
GoTo(c, phase) == pc' = [pc EXCEPT ![c] = phase]
Wrong(n) == failures + n <= MaxFailures /\ failures' = failures + n

-----------------------------------------------------------------------------
(* withProviderLock()                                                      *)

TryLock(c) ==
  /\ c \in Runs \cap Callers[provider] /\ pc[c] = "idle"
  /\ IF lock = NoCall THEN lock' = c /\ GoTo(c, "opening")
                      ELSE UNCHANGED lock /\ GoTo(c, "refused")
  /\ UNCHANGED <<told, tables, work, lost, run, cached, overlapped, failures>>

\* A faulty Unlock: a session that holds nothing frees the lock all the same.
UnlockAnyones(c) ==
  /\ pc[c] \in {"refused", "unlocking", "abandoned"}
  /\ lock' = NoCall
  /\ GoTo(c, CASE pc[c] = "refused" -> "idle"
                [] pc[c] = "unlocking" -> "done"
                [] pc[c] = "abandoned" -> "unrecorded")
  /\ UNCHANGED <<told, tables, work, lost, run, cached, overlapped, failures>>

(* The finally, of a caller that was refused as well: the unlock is for    *)
(* its own session, which holds the lock or does not.  Who was refused may *)
(* be called again by the next tick of the schedule.                       *)
Unlock(c) ==
  /\ pc[c] \in {"refused", "unlocking", "abandoned"}
  /\ lock' = IF lock = c THEN NoCall ELSE lock
  /\ GoTo(c, CASE pc[c] = "refused" -> "idle"
                [] pc[c] = "unlocking" -> "done"
                [] pc[c] = "abandoned" -> "unrecorded")
  /\ UNCHANGED <<told, tables, work, lost, run, cached, overlapped, failures>>

(* The connection drops: the lock is free, the function goes on.           *)
LoseLock(c) ==
  /\ lock = c
  /\ Wrong(1)
  /\ lock' = NoCall /\ lost' = lost \cup {c}
  /\ UNCHANGED <<told, tables, calls, run, cached, overlapped>>

-----------------------------------------------------------------------------
(* runProvider() inside the lock                                           *)

StartRun(c) ==
  /\ pc[c] = "opening"
  /\ run' = [run EXCEPT ![c].status = "running"]
  /\ GoTo(c, "fetching")
  /\ UNCHANGED <<told, tables, work, lock, lost, cached, overlapped, failures>>

OthersImporting(c) == {d \in Call \ {c} : pc[d] \in Importing}
NoteOverlap(c) ==
  overlapped' = IF OthersImporting(c) = {} THEN overlapped
                ELSE overlapped \cup OthersImporting(c) \cup {c}

(* A search may be about one fuel.                                         *)
FuelsAsked(c) == {Fuel} \cup (IF c \in Runs THEN {} ELSE {{f} : f \in Fuel})

(* provider.fetch() and normalize(), for a run and for a search.  Where    *)
(* Germany fails to answer for an area or a chunk of stations, these are   *)
(* dropped without a word; a malformed record is an error.  Only Italy's   *)
(* stations may come without a place: the others skip those.               *)
Fetch(c) ==
  /\ pc[c] = "fetching"
  /\ \E mode \in (IF provider.refresh THEN Mode ELSE {"full"}) :
     \E asked \in Asked(mode), fuels \in FuelsAsked(c) :
     \E dropped \in SUBSET asked : \E malformed \in SUBSET asked :
     \E unplaced \in SUBSET asked :
       /\ dropped \cap malformed = {} /\ (dropped \cup malformed) \cap unplaced = {}
       /\ dropped # {} => provider.refresh
       /\ unplaced # {} => provider.dedup = "timestamp-price"
       /\ Wrong(Cardinality(dropped \cup malformed \cup unplaced))
       /\ Hear(c, mode, asked \ dropped, fuels, malformed, unplaced)
  /\ NoteOverlap(c)
  /\ UNCHANGED <<lock, lost, run, cached>>

Import(c) ==
  /\ ImportStations(c)
  /\ UNCHANGED <<lock, lost, run, cached, overlapped, failures>>

\* A faulty ResolveStatus, of a status the table does not know.
ResolveStatusLoosely(w) ==
  IF w.fetched = 0 THEN "empty"
  ELSE IF w.errors > 0 THEN "partially_succeeded" ELSE "succeeded"

Imported(c) == pc[c] = "reconciling"

ResolveStatus(w) ==
  IF w.fetched = 0 \/ (w.told = {} /\ w.errors > 0) THEN "failed"
  ELSE IF w.errors > 0 THEN "partially_succeeded" ELSE "succeeded"

(* recordErrors() and finishRun()                                          *)
FinishRun(c) ==
  /\ c \in Runs /\ Imported(c)
  /\ run' = [run EXCEPT ![c] = [status |-> ResolveStatus(work[c]),
                                stored |-> work[c].stored,
                                created |-> work[c].created]]
  /\ GoTo(c, "unlocking")
  /\ Forget(c, work[c].told)
  /\ UNCHANGED <<told, tables, lock, lost, cached, overlapped, failures>>

\* A faulty FinishFailed: the catch only throws again.
FinishNothing(c) ==
  /\ c \in Runs /\ pc[c] = "failing"
  /\ GoTo(c, "unlocking")
  /\ Forget(c, {})
  /\ UNCHANGED <<told, tables, lock, lost, run, cached, overlapped, failures>>

(* The catch: finishRun() as failed, with counts of zero, when the run has *)
(* a row.                                                                  *)
FinishFailed(c) ==
  /\ c \in Runs /\ pc[c] = "failing"
  /\ run' = [run EXCEPT ![c] = IF @.status = "none" THEN @
                               ELSE [NoRun EXCEPT !.status = "failed"]]
  /\ GoTo(c, "unlocking")
  /\ Forget(c, {})
  /\ UNCHANGED <<told, tables, lock, lost, cached, overlapped, failures>>

-----------------------------------------------------------------------------
(* refreshNearLocation()                                                   *)

(* A cached place needs no refresh; a cache that cannot be asked is not    *)
(* there.                                                                  *)
Search(c) ==
  /\ c \in Callers[provider] \ Runs /\ pc[c] = "idle" /\ provider.nearby
  /\ IF cached THEN Wrong(1) ELSE UNCHANGED failures
  /\ GoTo(c, "fetching")
  /\ UNCHANGED <<told, tables, work, lock, lost, run, cached, overlapped>>

(* setex(), unless nothing was found; it may fail too.                     *)
Refreshed(c) ==
  /\ c \notin Runs /\ Imported(c)
  /\ \/ cached' = (cached \/ work[c].told # {}) /\ UNCHANGED failures
     \/ work[c].told # {} /\ Wrong(1) /\ UNCHANGED cached
  /\ GoTo(c, "done")
  /\ Forget(c, {})
  /\ UNCHANGED <<told, tables, lock, lost, run, overlapped>>

\* the search goes on without the refresh
CatchRefresh(c) ==
  /\ c \notin Runs /\ pc[c] = "failing"
  /\ GoTo(c, "done")
  /\ Forget(c, {})
  /\ UNCHANGED <<told, tables, lock, lost, run, cached, overlapped, failures>>

Expire ==
  /\ cached
  /\ cached' = FALSE
  /\ UNCHANGED <<writerVars, lock, lost, run, overlapped, failures>>

-----------------------------------------------------------------------------
(* What goes wrong                                                         *)

(* A request or a statement fails; a transaction is rolled back.           *)
Throw(c) ==
  /\ pc[c] \in {"opening", "fetching", "reconciling"} \cup Importing
  /\ Wrong(1)
  /\ GoTo(c, "failing")
  /\ Forget(c, {})
  /\ UNCHANGED <<told, tables, lock, lost, run, cached, overlapped>>

\* the finishRun() of the catch fails: the row stays as it is
ThrowAgain(c) ==
  /\ c \in Runs /\ pc[c] = "failing"
  /\ Wrong(1)
  /\ GoTo(c, "abandoned")
  /\ UNCHANGED <<told, tables, work, lock, lost, run, cached, overlapped>>

Crash(p) ==
  LET dying == {c \in Call : Home[c] = p /\ pc[c] \notin Over \cup {"idle"}}
  IN  /\ dying # {}
      /\ Wrong(1)
      /\ pc' = [c \in Call |-> IF c \in dying THEN "dead" ELSE pc[c]]
      /\ work' = [c \in Call |-> IF c \in dying THEN NoWork ELSE work[c]]
      /\ lock' = IF lock \in dying THEN NoCall ELSE lock
      /\ UNCHANGED <<told, tables, lost, run, cached, overlapped>>

-----------------------------------------------------------------------------
(* What a call does by itself once it has begun                            *)
Step(c) ==
  \/ StartRun(c) \/ Fetch(c) \/ Import(c) \/ FinishRun(c) \/ FinishFailed(c)
  \/ Unlock(c) \/ Refreshed(c) \/ CatchRefresh(c)

World ==
  /\ \E k \in Sold :
       \/ \E price \in Price : ProviderChanges(k, price)
       \/ \E price \in Reported : CreateObservation(k, price)
  /\ UNCHANGED <<lock, lost, run, cached, overlapped, failures>>

Next ==
  \/ \E c \in Call : TryLock(c) \/ Search(c) \/ Step(c)
                     \/ Throw(c) \/ ThrowAgain(c) \/ LoseLock(c)
  \/ \E p \in Process : Crash(p)
  \/ Expire \/ World

Spec == Init /\ [][Next]_vars

(* A statement is answered or fails, a transaction gets the locks it waits *)
(* for: each call goes on.                                                 *)
FairSpec == Spec /\ \A c \in Call : WF_vars(Step(c))

-----------------------------------------------------------------------------
TypeOK ==
  /\ provider \in Providers
  /\ clock \in Nat
  /\ feed \in [Sold -> [price : Price, at : Nat]]
  /\ mapped \in [External -> Call \cup {NoCall}]
  /\ obs \subseteq ObservationType
  /\ pc \in [Call -> Phase]
  /\ work \in [Call -> WorkType]
  /\ lock \in Runs \cup {NoCall}
  /\ lost \subseteq Runs
  /\ run \in [Runs -> RunType]
  /\ cached \in BOOLEAN
  /\ overlapped \subseteq Call
  /\ failures \in 0..MaxFailures

InsideLock == {"opening", "fetching", "reconciling", "failing"} \cup Importing

(* "Overlapping runs for the same provider are prevented with PostgreSQL    *)
(* advisory locks" (docs/ingestion.md): two runs are inside runProvider()   *)
(* at once only if the connection of a lock was dropped.                    *)
RunsAreExclusive ==
  \A c, d \in Runs :
    c # d /\ pc[c] \in InsideLock /\ pc[d] \in InsideLock => {c, d} \cap lost # {}

(* A run that succeeded has left what it was told: at the time of each      *)
(* quote, the newest stored price is the one quoted.  Promised of runs that *)
(* did not overlap with another import, for prices no user reported: a      *)
(* user's report of the new price hides the provider's change.              *)
LastKnown(k, now) == Newest({o \in At(k) : o.at <= now})
ToldIsStored ==
  \A c \in Runs \ overlapped : run[c].status = "succeeded" =>
    \A r \in work[c].told : \A q \in r.quotes :
      LET k == <<r.ext, q.fuel>>
      IN  \/ \E o \in FromUsers(k) : o.price = q.price
          \/ \E o \in LastKnown(k, q.at) : o.price = q.price

(* price-change-only: "repeated imports with unchanged prices create zero   *)
(* new rows" (docs/ingestion.md): of two successive observations of what    *)
(* users do not report the later has another price, unless imports          *)
(* overlapped.                                                              *)
Successive(o, p) ==
  /\ <<o.ext, o.fuel>> = <<p.ext, p.fuel>> /\ o.at < p.at
  /\ \A x \in At(<<o.ext, o.fuel>>) : x.by # NoCall /\ ~(o.at < x.at /\ x.at < p.at)
OnlyChangesAreStored ==
  /\ provider.dedup = "price-change-only"
  /\ provider.decimals = StoredDecimals
  /\ overlapped = {}
  => \A o, p \in obs : Successive(o, p) => o.price # p.price

(* The same of Austria, alone with its provider: "Repeated identical prices *)
(* create 0 new observations" (docs/providers/austria.md).                  *)
RepeatedPricesAddNothing ==
  provider.nearby /\ overlapped = {} =>
    \A o, p \in obs : Successive(o, p) => o.price # p.price

(* The counts of a run are what its batches have committed, and zero when   *)
(* it failed by an exception, whatever its earlier batches have committed.  *)
CountsAreExact ==
  \A c \in Runs :
    /\ run[c].status \in {"succeeded", "partially_succeeded"} =>
         /\ run[c].stored = Cardinality({o \in obs : o.by = c})
         /\ run[c].created = Cardinality({e \in External : mapped[e] = c})
    /\ run[c].status \in {"running", "failed"} /\ pc[c] \in {"unlocking", "done"} =>
         run[c].stored = 0

(* Whatever happens to a run, when it is over its lock is not held, and its *)
(* row says how it ended, unless its process died or the database refused   *)
(* to record it.                                                            *)
EndedIsRecorded ==
  \A c \in Runs : pc[c] \in Over =>
    /\ lock # c
    /\ run[c].status = "running" => pc[c] # "done"

(* Every run and every refresh of a search comes to an end, also when one   *)
(* waits for the rows the other holds.                                      *)
EveryCallEnds == \A c \in Call : pc[c] # "idle" ~> pc[c] \in Over \cup {"idle"}
=============================================================================
