# FuelMap: a verification project in TLA+

FuelMap (this repository) shows fuel prices on a map.  A NestJS API over
PostgreSQL imports prices from national providers, takes price reports with
optional photos from users, selects the price to show, and plans routes past
cheap stations; a Next.js front end uses it.  This directory holds TLA+ models
of its parts that have something to get wrong beyond a single call, TLC runs
over small instances of them, and proofs for instances of any size.

## 1. The system

| Part | State it keeps | Operations | Talks to | What is hard |
|---|---|---|---|---|
| OCR semaphore (`ocr/ocr-semaphore.service.ts`) | counter, queue of callbacks | acquire, release, run | OCR jobs | lost or stolen wake-ups |
| Report images (`ocr/report-images.service.ts`, storage provider) | `report_images`, link and result tables, files on disk, `pendingJobs` | upload, OCR job, owner's delete, sweep, account deletion, link to a report | semaphore, disk, database, price reports | every operation is several awaits long; jobs die with the process |
| OCR engine, preprocessing, extraction | one Tesseract worker | recognize, normalise, extract | report images | cached failed initialisation |
| Price reports (`crowdsourcing/price-reports.service.ts`) | reports, votes, observations | create, vote, list | images, reputation, prices | read-then-write across awaits, transactions at read committed |
| Confidence (`crowdsourcing/confidence.service.ts`) | none (pure) | initial and recomputed confidence | price reports | thresholds and sums of decimals |
| Reputation (`crowdsourcing/reputation.service.ts`) | score, events | recordEvent | price reports, moderation, reconciliation | read-modify-write |
| Moderation, reconciliation | report status | accept, reject, dispute; match with official prices | price reports, ingestion | a failure between two rewards |
| Ingestion (`modules/ingestion`) | run records, stations, mappings, observations, advisory lock | run a provider, import, batch writes, scheduler, on-demand Austria | providers, reconciliation | two processes, partial failure, session-bound lock |
| Providers (`ingestion/providers/*`, `http/http-client.ts`) | requests under way, rate limiters | fetch, retry, parse, normalise | HTTP | which failures end an import, which records are dropped |
| Prices (`modules/prices`) | none | candidates, selection, history | observations | rows in any order, ties, exclusion |
| Station search (`stations-query.service.ts`) | none | nearby, map section | stations, prices | two statements, limits before filters |
| Stations, countries, fuels, sources | none | reads of master data | database | nothing |
| Auth, sessions (`modules/auth`) | users, sessions | register, login, logout, delete account, validate, clean up | images, users | a login overtaken by a logout or a deletion |
| Favorites, preferences (`modules/users`) | rows per user | add, remove, update | auth | the user may go in between; a locale stored twice |
| Geocoding (`modules/geocoding`) | Redis, time of the last request | search, reverse | Nominatim | the sleep between reading and writing that time |
| Routing (`modules/routing`) | Redis | plan, corridor, detours, savings | OSRM, prices | workers over one list, failed detours, a stale base route |
| Config, health, database, CLI | environment, pool | validate, ping, migrate, seed | everything | pool of five connections |
| Web: main page (`HomeExplorer.tsx`) | URL, ends of the route, panels, request numbers | filters, places, picking, planning | API, map | answers out of order, renderings that see an old URL |
| Web: map (`StationMap.tsx`) | a MapLibre map, timers | effects per layer, clicks, moves | main page | effects while the map has no style |
| Web: place field (`PlaceSearch.tsx`) | text, timer, list | type, submit, select, keys | geocoding | a search overtaken by typing |
| Web: signed in (`AuthProvider.tsx`) | user, favorites | refresh, login, logout, toggle | auth, favorites | three copies of one truth |
| Web: station page (`components/stations`) | prices, list of reports, two forms | load, vote, report, upload, poll | reports, images | reloads nobody orders, an upload that outlives its file |

What makes each part correct, in one line each:

- **Semaphore**: never more than the limit, never an idle place while somebody
  waits, first come first served, nobody waits for ever.
- **Report images**: disk and table agree; evidence linked to a report outlives
  every clean-up; an image that is not linked is removed in the end; each OCR job
  ends and gives its place back.
- **Price reports**: an accepted report has an observation with its own price; no
  observation is left without a report; a price is not repeated within the cooldown; more
  disputes than confirmations dispute a report; the score is the sum of its events; calls end.
- **Confidence**: stays within 0 and 1; a photo or a reputation never carries a
  price far from the official one over the threshold.
- **Ingestion**: one run per provider at a time; a run that ends says what it
  stored; repeated imports create nothing; two writers do not store a change twice.
- **Feeds**: an import that goes on has every answer it needs, keeps what it was told
  well, and counts what it skips.
- **Prices and search**: the price shown is the best by the rules, in whatever order
  rows come; no station is left out without the answer saying so.
- **Routes**: each detour belongs to its station; nothing but a failure or the limit
  leaves a station out.
- **Throttle**: a request keeps the interval from every request sent before it chose its time.
- **Accounts**: a token that was refused, logged out or deleted never passes again, and a
  session is revoked by its own logout or deletion only.
- **Front end**: what is shown answers the last question asked; who is signed in is what
  the API says; the map shows what the page gives it.

## 2. Modules

```
WorkerPool  <--implements--  OcrSemaphore  <--used by--  ReportImages
                             OcrSemaphoreProofs          ReportImagesProofs
Confidence  <--EXTENDS-- PriceReports  <--EXTENDS-- PriceReportsHistory
IngestionWriter  <--EXTENDS-- Ingestion  <--EXTENDS-- IngestionProofs
Ordering  <--EXTENDS-- PriceSelection  <--EXTENDS-- StationSearch  ----.
Ordering, HttpClient  <--EXTENDS-- RoutePlanning                       |
Ordering  <--EXTENDS-- ProviderFeeds                                   |
ProviderFeeds, HttpClient  <--EXTENDS-- ProviderFetch                  |--EXTENDS-- FuelEu
Geocoding   Accounts                                                   |
ExplorerPage  StationMap  PlaceSearch  SignedIn  StationPage        ---'
OrderingProofs        --EXTENDS-->  Ordering
PriceReportsProofs    --EXTENDS-->  PriceReportsHistory, OrderingProofs
SearchAndRouteProofs  --EXTENDS-->  StationSearch, RoutePlanning, OrderingProofs
ServicesProofs        --EXTENDS-->  Accounts, Geocoding, ProviderFetch, OrderingProofs
FuelEuProofs          --EXTENDS-->  FuelEu, SearchAndRouteProofs, ServicesProofs
MCOcrSemaphore, MCReportImages, MCPriceReports, MCPriceReportsHistory, MCIngestion, MCFuelEu:
  constants for TLC
```

| Module | Models | State | Actions |
|---|---|---|---|
| `WorkerPool` | what a pool of bounded size promises, without a counter or an order | who waits, who runs | `Enter`, `Wait`, `Leave` |
| `OcrSemaphore` | `OcrSemaphoreService` | `active`, `queue`, where each task is | `AcquireNow`, `AcquireLater` (the two branches of `acquire`), `Release` (the end of `run`) |
| `ReportImages` | `ReportImagesService`, the storage provider, the maintenance command, the image part of account deletion and of report creation | tables, files, the place of each upload, job and request | one per statement, file operation or visit to the semaphore |
| `Confidence` | `ConfidenceService`, in ten-thousandths | none | operators only |
| `PriceReports` | `PriceReportsService`, `ReputationService`, reconciliation, account deletion as far as reports go | tables, the place of each call, what it has read | one per statement outside a transaction; a transaction is its reads and waits for locks, then one step that commits |
| `PriceReportsHistory` | the same with a memory of which calls met (no code of its own) | `disturbed`, `stale`, `blurred` | those of `PriceReports`, each with `Remember` |
| `IngestionWriter` | `IngestionWriterService` with the tables it fills, what the providers tell it, accepted reports of users | `feed`, `mapped`, `obs`, the place of each import and what it knows | `ReadMappings`, `WriteRow`, `WriteStations`, `LoadLatestPrices`, `Commit` (the parts of the transaction of a batch), `Deadlock` (the database aborts it); `ProviderChanges` and `CreateObservation` are its surroundings |
| `Ingestion` | `IngestionService.runProvider`, the advisory lock, run records, the schedule, the Austrian import on demand | `lock`, `run`, `cached`, which connections were `lost` | `TryLock`, `StartRun`, `Fetch`, `Import`, `FinishRun`, `FinishFailed`, `Unlock`; `Search`, `Refreshed`, `CatchRefresh`; `Throw`, `ThrowAgain`, `LoseLock`, `Crash`, `Expire` |
| `Ordering` | filtering and sorting by keys, in code and SQL | none | operators only |
| `PriceSelection` | `PriceSelectionService` | none | operators; `SelectBest` is the loop of the code, `BestOf` says the same without an order |
| `StationSearch` | `StationsQueryService`, `PriceCandidateQueryService`, `PricesService` | `stored`, `stations`, the request, the rows it has read | `Ask`, `ReadStations`, `ReadPrices`, `ReadHistory`, `FailSearch`; `ImportStation` and `Observe` are its surroundings |
| `HttpClient` | `fetchWithRetry`, `fetchJsonWithRetry` | none | how an attempt ends, and what is tried again |
| `RoutePlanning` | `RouteStationsService`, the corridor, `RoutingService` with its cache, the OSRM provider, `mapWithConcurrency` | the stage, `corridor`, `pool`, what each worker has taken, `results`, `plan` | `Plan`, `RouteFromCache`, `RouteFromProvider`, `FindCorridor`, `Take`, `ComputeDetour`, `RankStations` |
| `Geocoding` | `GeocodingService`, the throttle, the Nominatim provider | `elapsed` (the field `lastRequestAt`), each caller, the cache | `GeoLookup`, `WaitForSlot`, `Awake`, `Respond`, `FillCache`, `Tick` |
| `ProviderFeeds` | the seven parsers and normalisers | none | per provider: what is readable, which prices are kept, what is skipped |
| `ProviderFetch` | `fetch()` and `normalize()` of the seven providers | requests under way, answers, lost ones, the outcome | `StartFetch`, `Request`, one `…Answer` per provider, `Normalize` |
| `Accounts` | auth, sessions, guard, preferences, favorites | four tables, the place of each call | one per statement or transaction |
| `ExplorerPage` | `HomeExplorer` | URL as rendered and as asked for, ends, panels, requests that count | one per event; `Rendered` is the rendering after it with its effects |
| `StationMap` | `StationMap` | props, map, view, timer, layers | `StyleLoaded`, `MapMoved`, `EmitViewport`, `ClickMap`, `PageGives`; `Renders` runs the effects in their order |
| `PlaceSearch` | `PlaceSearch` | text, timer, search, list | one per event |
| `SignedIn` | `AuthProvider` and its users | state, cookie, favorites, calls | `Serve` (at the API), `AuthAnswer`, `LoseCall`, and what is clicked |
| `StationPage` | `StationDetailView`, `CommunityReportsList`, `ReportPriceForm`, `PhotoReportForm`, `pollReportImageUntilReady()` | the mounted form, its file, picture and candidates; uploads, submissions, loads and votes under way; versions shown | `PageLoaded`, `PricesAnswered`, `ListAnswered`, `Vote`, `VoteAnswered`, `ToggleMode`, `SubmitManual`, `ChoosePhoto`, `Upload`, `UploadAnswered`, `PollAnswered`, `UploadFails`, `ConfirmSubmit`, `ReportAccepted`, `ReportFails` |
| `FuelEu` | the parts above side by side | `part` and all their variables | those of the part |

`FuelEu` puts the parts that answer people next to each other.  They share no variable: a
station search takes imports as its own environment, a route takes the prices of the
corridor as a choice of markets, the page takes answers and failures of the API.  Hence a
behaviour of `FuelEu` is one of a single part, chosen at first, and its runs check each
part over all of its states, without the product of them.

A handler of the API is a sequence of awaits.  Between two awaits nothing else
runs in the process, so the code between two that matter is one step; two awaits
of which the first changes and reads nothing another handler uses are one step
as well.  What a handler has read before it goes on is kept in `request` or
`req`, and is used later although the tables may have changed: this is where most
hazards of this code live.

*Transactions.*  PostgreSQL runs them at read committed.  `PriceReports` keeps,
per call, the connection (`InTransaction`, `FreeConnection`), the row locks
(`Locked`), and the key locks that hold an account deletion off (`Held`); writes
become visible in the committing step.  A foreign key that refuses a statement is
`Refuse`; a failure that rolls back is `Abort`.

*Abstractions*, each of them on purpose:

- Pictures are values of `PictureOf`; what Tesseract recognises is free, only
  that it succeeds or fails counts.  A rejected request changes nothing and is no
  step.  All images belong to one user: nothing in the service relates two.
- In `PriceReports` there is one station, one fuel and one currency, the key every
  query filters on.  Prices are in ten-thousandths, as the column `numeric(10,4)`
  stores them, and scores and confidences in ten-thousandths too, with the
  rounding of the code (`Confidence.tla`); halves are rounded up.
- The clock counts units of ten minutes, the cooldown; a call takes seconds, so
  the clock moves between calls only (`Tick`).  The window of half an hour is three
  units.  Ages of observations are left out of reports: they are in `PriceSelection`.
- The three counters that `user_reputation` keeps next to the score are read by the
  account page only and left out.
- Moderation is exported by its module and called by nothing; it is not a source
  of states.
- In `Ingestion` a behaviour is about one provider, chosen at first: runs of different
  providers have different locks and share no mapping.  A kind of provider is what the
  writer can tell apart: how it avoids duplicates, how it writes prices, whether it
  answers about the surroundings of a place, whether it can be asked for known
  stations alone.  The clock counts the events that get a time stamp.
- An import is offered for reconciliation in the phase `reconciling`; what this does to
  reports is in `PriceReports`.  The wait of the Austrian rate limit and of Germany's
  is left out; the requests themselves are in `ProviderFetch`.
- In the search and route modules stations are numbers in the order of their ids, and
  their places are the distances that the statements compute; PostGIS is taken to
  compute them.  Times are hours, weights and scores in hundredths and ten-thousandths;
  JavaScript's floating point is exact enough for them, as they have two decimals.
- A record of a provider is what the normalisers tell apart: well formed or not, where it
  lies, and for each product whether its amount is a price, none, or no number.
- Requests of the web that were aborted or overtaken have no effect and are dropped from
  `flights`, `searching`.  A rendering and its effects are one step with the event that
  caused it; `router.replace` is rendered in a step of its own.
- In the page of a station what the API says of it is a version, which every stored
  report or vote makes newer; which prices and reports those are is in `PriceReports`.
  The user is signed in.
- Some variables only watch and allow or forbid no step: `disturbed`, `stale` and `blurred`
  in `PriceReportsHistory`, and `dismissed` (main page), `wanted` (place field), `doubt`
  (signed in) and `mixed` (page of a station).  They remember where the code leaves its
  promise open, so that a property can say that it is kept everywhere else; section 3
  lists what they set apart.
- In the map, MapLibre's `isStyleLoaded` may deny a style that was there while a layer
  takes data (`DeniesLater`); the run that shows a disagreement sets it to FALSE.
- A dry run takes the lock and writes nothing; it is left out.
- The lock is the session's of a client made for it.  If that connection drops, the
  server frees the lock and nobody tells the import (`LoseLock`).

*Faulty variants.*  A definition whose comment starts with "A faulty" is a
plausible mistake in the code.  No run uses it; putting it in the place of the
definition it names makes TLC report the property that is there to catch it
(`mutants` in `PROJECT.json`), which shows that the property looks at the code.

## 3. Runs

| Run | Instance | What it shows |
|---|---|---|
| `semaphore` | 5 tasks, 2 places | exact counting, no idle place, order, no starvation, refinement of `WorkerPool` |
| `images` | 1 image, 2 requests, 1 maintenance run, 2 faults | `StorageMatchesRows`, `SettledEvidenceIsKept`, `UnattachedIsRemoved` |
| `image_jobs` | 3 uploads, queue of 2, 1 recognition, 1 fault | types, the cap on jobs is exact, jobs use the semaphore as `OcrSemaphore` says, each ends |
| `price_reports` | 3 users, 2 calls at a time, 3 in all, 2 prices, 1 account deletion, 1 call cut off | types, `AcceptedIsBacked`, `RepeatsComeOfOverlap`, `LostLinksComeOfOverlap`, `OutvotedIsDisputed`, `ScoreFollowsEvents`, `EveryCallEnds` |
| `anomalous_prices` | 5 trusted users, one call at a time, 5 in all, a price far from the official one, with photos | `AnomalyNeedsConfirmations` |
| `ingestion` | one provider of each kind (France, Germany, Austria), 2 stations, 3 prices told, 2 callers in 2 processes, 1 user's report, 1 failure | `RunsAreExclusive`, `ToldIsStored`, `OnlyChangesAreStored`, `CountsAreExact`, `EndedIsRecorded`, `EveryCallEnds` |
| `fuel_eu` | per part: 3 stations with 8 offers of which 2 are stored; 5 stops, 2 workers; 2 callers and 2 questions; 2 pages or chunks; 2 requests over 3 calls; 2 events on the page; 3 changes on the map; 3 texts; 2 users and 2 clicks; 2 pictures, 3 acts or losses and 2 changes of the form | `ShownPriceIsBest`, `NothingIsLeftOutSilently`, `PlanIsSound`, `IntervalToRequestsSeen`, `FeedIsAccountedFor`, `SessionsEndAsTold`, `MainPageIsTrue`, `BoxAnswersLastSearch`, `PageKnowsUser`, `StationPageIsTrue`, `EveryRequestEnds` |
| `evidence_deleted` | 2 images, 1 request | violated: linked evidence is deleted by its owner |
| `orphan_observation` | 3 users, 2 calls at a time | violated: two votes promote one report twice |
| `pool_exhausted` | 2 connections, 2 calls at a time | violated: corroborating transactions wait for each other for ever |
| `austria_repeats` | Austria alone, no failure | violated: unchanged prices are stored again |
| `user_marker` | `StationMap` alone, two changes | violated: the user's marker is not on the map |

**Why the bounds are enough.**  One image meets every handler that can touch it:
upload, job, two requests and a maintenance run at once; images interact only
through the semaphore and the cap, which `image_jobs` has three uploads for, one
more than the queue takes.  Two faults suffice to cut a removal and to fail what
comes after it.  Two overlapping calls are enough for each of the read-then-write
races here, which are all between two calls; the third call of `price_reports` sets
the scene.  Three connections for two calls leave one free; `pool_exhausted` takes
as many calls as connections instead of five and five, since only the equality
matters.  Four confirmations are what the anomaly takes, hence five users and five
calls in `anomalous_prices`, one after the other, since they are votes on one report that
do not need to overlap to be counted.  Bounds on counters are the constants `MaxFaults`, `MaxCalls`,
`MaxTime`, `MaxFailures`, `MaxReports`, `MaxUnits`, `MaxTyped`, `MaxMoves`, `MaxClicks`,
`MaxGiven`, `MaxStored`, `MaxActs` and `MaxForms`.

In `ingestion` two stations, of which one sells two fuels, with batches of two
(instead of 50) give one batch and two (Austria tells one record per fuel), a fuel
that changes while another of the station does not, and two imports that write the
same rows.  Two calls per provider are two runs, or a run and a search for Austria;
a run that was refused may be called again, so a lock that is not given back would be
seen.  `MaxTime` lets the provider change one price between the two imports,
`MaxReports` lets a user report one price in France and Germany, and one failure is a
lost connection, a dead process, a failed statement, a missing answer, a malformed or
unplaced station, at any place.  A faulty definition for each property shows that
these bounds reach what the property is about.

In `fuel_eu` each part has what its property is about.  *Search*: the eight offers
contain every reason for which one is not shown (age, currency, a doubtful report, the
other service mode, a tie), two of them are in the table at a time, and limits of one
and two are below the three stations.  *Route*: the corridor pool of four is below the
five stops, the shortlist of three below the pool, and the two workers below the
shortlist; the route may have grown since it was cached.  *Geocoding*: two callers
and an interval of two ticks suffice for every order of reading the field and sleeping.
*Feeds*: two requests in succession, five answers with every kind of record, all
failures with their retries.  *Accounts*: a request that was overtaken by a logout or a
deletion takes a registration before it, hence three calls, two at a time.  *Page*: the
page as such and a link that holds a route; two events of the user with every answer,
failure and rendering around them.  *Map*: three changes.  *Field*: three texts, one of
them too short.  *Signed in*: two clicks, calls that overtake each other or get lost.
*Station*: two uploads of different files and the report that follows need three acts;
two votes or two reports, of which one is lost, do as well, and two changes lead back
to the first form.

**Deadlock.**  `OcrSemaphore` never stops and TLC checks it.  `PriceReports` has
the step `Rest`, possible only when no call is open, so a deadlock TLC would
report is calls waiting for each other; that check is off only in
`pool_exhausted`, whose subject this is, so that the liveness property is the one
to fail.  An instance of `ReportImages` may stop: its uploads are numbered and its
faults bounded, so the check is off; that no job is stuck is the liveness
property `EveryJobEnds`.  Likewise an instance of `Ingestion` stops when its calls
are over and the provider has changed its last price; `EveryCallEnds` says that no
call is stuck.  The parts of `FuelEu` stop when nothing is asked any more, and
`EveryRequestEnds` says that nobody is left waiting.

**Fairness.**  In `ReportImages` weak fairness on the steps of jobs and requests
that have begun: the event loop resumes every promise that settles, and file and
database calls settle.  Users need not call anything.  Weak fairness on `Age`
(time passes) and on `Sweep`: the maintenance command is run again and again, as
docs/photo-reporting.md asks.  In `PriceReports` weak fairness of the next step of
each open call: the event loop and PostgreSQL, whose lock queues are first come
first served, take each call on when it can go on.  In `Ingestion` the same for each
call that has begun: requests and statements are answered or fail, and a transaction
gets the row it waits for when the other one ends, or is aborted when both wait for
each other.  In `FuelEu` weak fairness of `Step`, the promises, timers and requests
of the part that has been asked: they settle, as every request to another service has a
time limit; and of `ActorStep` for each caller of the geocoder and each client, which
share the event loop but wait for nobody else.  Users do nothing they need not.  The search of
stations has no fairness: its two statements end in an answer or a failure, and nothing
more could be said.  No strong fairness is used.

**What is promised when.**  `ToldIsStored` and `OnlyChangesAreStored` leave out imports
that overlapped with another import: those may store a change twice or compare with
what is out of date, and nothing prevents the overlap of a run with a search.  They
also leave out what a user reported, since the latest price of a station is looked
up whoever told it (`loadLatestPrices`): when a user has already reported the new
price the provider's change is not stored, and when a user reported another one the
unchanged price is stored again.  `OnlyChangesAreStored` is about providers that write
prices with four decimals, as the column does; Austria is the subject of
`austria_repeats`.

Four properties of price reports concern a read and a write that are statements apart.
They do not restrict what overlaps, as any number of calls may; they say exactly which
overlap breaks the promise, and that nothing else does:

- `RepeatsComeOfOverlap`: a price is repeated within the cooldown only by a call that, between
  its check and its insertion, met another one of the same user for the same price.
- `LostLinksComeOfOverlap`: an observation loses its last link only to a recalculation of its
  report that met another one.  That the code really loses it so is `orphan_observation`.
- `OutvotedIsDisputed`: sets apart reports whose last judgement met another one, was cut off
  after the vote was stored, or came before the voter's account was deleted.  The
  next judgement that meets none puts the report back under the property.
- `ScoreFollowsEvents`: sets apart accounts of which two recordings met or one was cut off.
  Nothing in the code repairs such a score, so this lasts.

In the feeds, `FeedIsAccountedFor` quotes docs/ingestion.md:50 and says how far the code
keeps to it.  Every good row is kept, whatever the provider.  What the client *hands
on* is kept or counted, and a fault in it is recorded.  What is lost before that, German
rows without an id, Croatian rows that cannot be read, and German areas without an answer,
leaves no trace, and the property promises none.

The pages are held to what they show with these exceptions, each of which the code has
(section 5):

- *Main page*: a route that was cleared, or replaced by a place chosen on the map, stays away
  unless something brought it back at that moment (`ComesBack`): a plan was under way, or the
  page had yet to make the one plan it makes by itself and the URL, or a name being looked
  up that writes the URL back, held the route.
- *Place field*: a field that was selected from, cleared or shortened stays empty if neither
  a delay nor a search was pending then.
- *Signed in*: who it is holds whatever else is under way, unless two calls about it met or
  one of them was lost; the favorites hold at rest, unless they were fetched while they
  changed or were fetched otherwise, or a call about them was lost.
- *Page of a station*: pictures hold unless two uploads overlapped; prices and list hold unless
  an older answer came last or the last load of the prices failed.

## 4. Proofs

TLAPS checks the following for every value of the constants that satisfies the
assumptions named where the constants are declared: those of the modules a proof is
about, and for `FuelEuProofs` those of all parts.  They say that sizes are natural
numbers, that sets are finite where they are counted, that "nobody" and "nothing" are no
members, that "no text" is no text, that scores start within their bounds, that a request is one the API's
validation lets through (`QuestionType`, `TripType`), that observations have different
ids, that the shortlist of a route has two places at least (there are twelve), and that
a record of a feed has finitely many prices.  Every safety invariant and action property
that a passing run checks is the subject of a theorem.

- **`OrderingProofs`**: what filtering, sorting and ORDER BY give, for lists of any length
  and keys that are functions of any values: the same elements, none twice that was there
  once, and none before one with a smaller key (`SortProperties`).  Sorting is defined by
  counting who comes first, so the proof shows that counting gives every element a place
  of its own.  The module has the tools the others use: the least-number principle, from
  the library's `WFMin`; induction over a *set* of numbers, which it gives; and that a
  function defined by recursion exists and obeys its equation.
- **`OcrSemaphoreProofs`**: types, `CounterIsExact`, `NoIdlePlace`, `FirstComeFirstServed`, and
  the refinement of `WorkerPool`.  The counter alone is not inductive: a release may hand
  its place over only because the queue lists exactly the waiting tasks, each
  once, so `QueueIsWaiting` is part of the invariant `SemInv`; the order follows from it,
  since a task that is ahead of another in the queue can only leave it from its head.
- **`ReportImagesProofs`**: types, `StorageMatchesRows`, `SettledEvidenceIsKept`,
  `QueueBound`, `JobsUseSemaphore`, and besides, that a sweep spares what is linked
  (`EvidenceIsSpared`) and that a processed image has its result (`ProcessedHasResult`).  The
  invariant has layers, each inductive given the ones before: the types; `RowsComeFirst`
  (jobs, links and handlers only ever name images that have a row) and
  `QueueHoldsWaiters`; then `HalfRemoved` (between the two halves of a removal the file is
  gone), `SparedWereLinked` (links are never taken back, so what a loop must spare is still
  linked when the loop gets there) and `SettledIsUndisturbed` (nothing that began
  before the link was made can still reach a settled image).  `QueueBound` counts a
  set, so its proof goes through the cardinality of the set of live jobs.
  `JobsUseSemaphore` shows that every step of the component is a step of `OcrSemaphore`
  (with the jobs as its tasks), a restart, or none: what is proved of the semaphore
  holds of the jobs.
- **`PriceReportsProofs`**: types, `AcceptedIsBacked`, `AnomalyNeedsConfirmations`, and the
  four properties of calls that meet.  First `Confidence`: a confidence is between 0 and 1
  for every reputation, distance, age and number of votes; a price far from the official
  one does not reach the threshold without votes, and without a photo only with four
  confirmations more than disputes.  The argument bounds the product of the three
  factors before it is halved, and the votes' adjustment after.

  What a call has read is used statements later, so `CallsAreSound` says which part of it
  is still true then: rows and observations are never removed, a price never changes, and a
  report never loses its observation.  That is why `AcceptedIsBacked` survives the races
  that break `EveryObservationIsLinked`.  (That the observation shows the report's own
  price, `BackedByOwnPrice`, is part of it.)  `AnomalyNeedsConfirmations` follows at the two
  steps that judge, from those bounds.

  The other four hold for any number of overlapping calls, failures and deletions, as
  `PriceReportsHistory` notes which calls met.  `MeetInv` says what a call that met none still
  knows (`IsFresh`): nobody has stored the price it is about to store, the report it judges
  has not got an observation since it read it, and its judgement has seen every vote.
  Every step touches only the rows of its own window (`Touches`), so that it can disturb
  only calls of the same window, and those are noted.  From it follow
  `RepeatsComeOfOverlap`, `LostLinksComeOfOverlap` and `OutvotedIsDisputed`.
  `ScoreFollowsEvents`: an event is recorded one statement before the score is written; in
  between, the score is what the events before it add up to, and the only call
  credited to that account holds the score that it has read (`ScoresInv`).  What a list
  of any length adds up to is a recursion, which one more event extends by one step
  (`AddedUpEquation`).
- **`IngestionProofs`**: every invariant of `Ingestion` but Austria's, which the code
  breaks.  For the types what is
  counted must be finite, and it is as long as the batch is part of what is left and
  this of what was told (`WorkIsCounted`).  `RunsAreExclusive` and `EndedIsRecorded`
  follow from `LockInv`: who is
  inside has the lock or has lost its connection, who has the lock is inside or about
  to give it back, and a row says `running` only while its run is inside, died, or
  could not be recorded.

  `CountsAreExact` rests on the row locks, not on the advisory lock: a batch holds the rows
  it has written until it commits, those of two batches are apart (`LocksApart`), and the
  batch that gets to store has all its rows and found no other's mapping
  (`BatchIsLocked`); so what two imports insert stays apart.

  `OnlyChangesAreStored` and `ToldIsStored` rest on `ChangesInv`.  Two calls that import at
  once are noted as overlapping; what a call is told where prices are compared is of one
  time and once for each price (`ToldOnce`), of after all that imports have stored and
  after what those that are through were told (`Heard`, `ToldLater`); and it has loaded
  the newest price where no user reported one (`Loaded`).  So a batch adds one
  observation, later than all others, that differs from the one before it.
  For `ToldIsStored` (`ToldInv`) what is skipped as unchanged has a row already, a user's
  or the newest of its time (`Known`), and what is left out by ON CONFLICT has the
  same row; later observations of that price are of later times, so the row stays the
  newest of its time (`StoredStays`).
- **`SearchAndRouteProofs`**: the loop of `selectBestForFuel()` ends with the candidate that
  beats all others, in whatever order they come (`SelectBestIsBest`): `Beats` is a strict
  total order on candidates with different ids, and what the loop holds is the best of
  those it has seen.  On it rests `SearchInv`: the rows in hand are those that were stored
  when they were read, and an answer, once given, is true of them; filters, sorting and the
  limit are what `OrderingProofs` says of them.  `RouteInv`: what is in `results` at a place is
  the detour over the station at that place or nothing, workers are busy only while
  detours are computed, the shortlist has both the cheapest and the closest of the
  corridor and no station twice, and the plan is made of what was answered.  On it rests
  `EachIsTakenOnce`: the counter is ahead of all that was taken, so no two workers have the
  same place, and when nobody is busy at its end every place had its turn.
- **`ServicesProofs`**: accounts, the throttle and the requests of the imports.
  *Accounts*: the types with the references between the tables, and `SessionsEndAsTold`.
  A token that is known to have ended stays so, because tokens are never given twice and
  nothing takes back a revocation or an expiry (`KnownIsEnded`); a request remembers whether
  its token was known to have ended when it was made, and so the guard refuses it
  whatever happens on its way (`Tracked`).  `TwoParts` splits the invariant into tables and
  requests, so that each statement has to show one of them only.
  *Geocoding*: `IntervalToRequestsSeen`.  A caller sleeps for what it computed before; this
  suffices for the requests it has seen, since `lastRequestAt` tells exactly when the
  last one went out (`FieldIsExact`) and the gap to it grows at least as fast as the sleep
  shrinks (`SleepSuffices`).
  *Imports* (`FetchInv`): a request is under way, answered or given up, and one of these
  only (`FlightsAreNew`); what is given up without ending the fetch is Germany's, for the
  moment (`LostAreExcused`); and what the parsers keep, skip and report of any rows adds up,
  provider by provider (`RecordsAccounted`).
- **`FuelEuProofs`**: `StepOfAPart` shows that a step of the whole is a step of one part and
  none of the others, so that what was proved of a part holds in the whole: `ShownPriceIsBest`,
  `NothingIsLeftOutSilently`, `PlanIsSound`, `FeedIsAccountedFor` (from `ReadersInv`),
  `SessionsEndAsTold`, `IntervalToRequestsSeen`.  `TypeOK` needs more than the types
  (`TypesInv`): a record in hand has the type of the set it was taken from, and on the main
  page the questions asked are made of values that the page has at that time.
  The pages have an invariant each.  `MapInv`: a rendering leaves the map or begins a new
  one.  `BoxInv`: the list has the hits of the search that counts, and there is none and no
  delay when the field is done with.  `PageInv`: every request that counts asks what its slot
  asked last, so that one that lands ends its slot (`Fits`); and a route done away with
  while nothing brought it back is not asked for, not shown, and will not be planned by the
  URL either (`Gone`).  `AuthInv`: the one call about who it is that is under way will tell
  the page what cookie and API know, with any other calls beside it (`WhoInv`); and what
  those that fetch or change favorites will tell fits what the API has (`FavoritesInv`).
  `StationInv`: a form is busy only with what is under way (`FormsAreBusy`), what is known of
  the picture and what is being sent stem from one upload (`PicturesAgree`), and what is shown
  is no older than the last answer (`PricesFollow`, `ListFollows`).

Two steps of these proofs are worth knowing for whoever extends them.  A theorem about
induction that takes a predicate cannot be used with these provers; induction over a
*set* of numbers can, and what one proves by it is that this set is all of them
(`InductionOnSet`, `InductionUpTo`).  And what is recursive is a recursive function, of
which `RecursionExists` says that it obeys its equation.

Left to TLC: liveness (`EveryWaiterServed`, `EveryJobEnds`, `UnattachedIsRemoved`,
`EveryCallEnds`, `EveryRequestEnds`), which rests on fairness and ENABLED, beyond TLAPS.
All invariants and action properties of the passing runs are proved, under no assumption
about which calls overlap.  Where overlapping calls break a promise of the code, the property
itself names them.

## 5. Where code and documents disagree

Five runs show a disagreement as a counterexample: `evidence_deleted`,
`orphan_observation`, `pool_exhausted`, `austria_repeats` and `user_marker`.  Austrian prices
are written with three decimals (`austria.parser.ts:39`) and compared as texts with
the four of `numeric(12,4)`, so none ever counts as unchanged.  The map is built anew when
the user's position is granted, and the marker is drawn by an effect that runs before the
new map has a style and never again.  The same models show further consequences of the
same patterns, which have no run of their own:

Reports and images

- *Cooldown* (docs/crowdsourcing.md:44): two simultaneous submissions both pass the
  check before either inserts, and no unique index stops the second.
- *Lost dispute* (:14, :22): a recalculation that counted earlier writes last, and
  its status and confidence stay although later votes say otherwise.
- *Lost reputation* (:36): the score is read and written back in two statements; of
  two concurrent events of one author one is lost from the score.
- *Pending with an observation* (:20): a report that corroborates an accepted one gets
  its observation and keeps the status `pending` when its own confidence is low.
- *Disputed for good* (:22): no number of later confirmations takes a report out of
  `disputed`; `Judge` leaves it as it is.
- *Threshold* (:11): the document says 0.55, `crowdsourcing.constants.ts:42` 0.5.
- *Photo of a corroborating report* (:55): the early return of the corroboration skips
  `linkImageToReport`; the confidence keeps the bonus for a photo that is not
  linked, until a vote recalculates it without any bonus.
- *Upload overlapping the deletion of the account* (docs/photo-reporting.md:34): the
  insert is refused, and the file saved before it stays on disk without a row.

Ingestion

- *A station in two answers* (Austria): a search or run about both fuels joins the two
  answers without merging stations, so a station that is new in both is inserted
  twice in one batch, and the unique index aborts all of it (`Conflicts`), each time,
  until a search about one fuel has mapped the station.
- *Missing answers* (Germany): an area or a chunk of stations without an answer is counted
  in the metadata only; such a run is `succeeded`.
- *Failed after some batches*: a run that fails by an exception is recorded with counts of
  zero although its earlier batches are stored (`CountsAreExact` says so).
- *Malformed stations* (docs/ingestion.md:50, "skipped and recorded"): Germany's client passes
  over rows that are no object or have no id (`germany.client.ts:197-206`), and Croatia's
  parser over stations it cannot read (`croatia.parser.ts:97-103`), neither counted nor
  recorded; Italy only counts such stations.  Italy also counts the header as skipped, and
  an empty feed succeeds.

Prices, routes, places, accounts

- *Excluded report hides a price*: the preferred service mode is looked for among all
  candidates, so a report that is excluded later for its low confidence still decides that
  the official price of the other mode is not considered (`price-selection.service.ts:115`).
  Votes count twice, in the stored confidence and on top of it (:68).
- *History*: when the limit bites the oldest rows are kept (`prices.service.ts:92`).
- *Routes*: `ROUTING_CACHE_TTL_SECONDS` (docs/routing.md:130) is never read; a service that
  says `NoRoute` with status 400, as OSRM does, ends as 400 and not as the 422 of
  docs/routing.md:140 (`osrm.provider.ts:81`).
- *Throttle* (`geocoding.throttle.ts:8`): callers that sleep at the same time go out
  together.
- *Locale*: it is stored in two tables by two statements (`preferences.service.ts:114-126`),
  and two requests can leave them with different values.
- *Login during a deletion*: a session made after the sessions were revoked works until the
  transaction of the deletion commits (`auth.service.ts:212`).  Two registrations of one
  address at once end, for the second, as a failure of the unique index.

Web

- *Main page*: naming the destination of a deep link cancels naming its origin
  (`HomeExplorer.tsx:424-440`, docs/frontend.md:145 restores both); a name that arrives late
  writes back the other end of the route as it was (:660); two changes of the URL in one
  rendering lose the first (:254); clearing the route does not call off the plan under way
  (:715), whose answer then shows the route again, and the page plans it again while the URL
  still holds it.  A plan that the user asked for and that failed is tried again by the
  same effect (:411), once.
- *Place field*: clearing and selecting leave the delay and the search running
  (`PlaceSearch.tsx:166`, :175), which fill the list of the empty field.
- *Signed in*: the favorites asked for at a login replace what a toggle, or a later login,
  has set meanwhile (`AuthProvider.tsx:116`).
- *Photo form*: a file chosen while an upload is under way is shown, but picture and
  candidates of the upload arrive under it, and with two uploads the candidates of one board
  are sent with the picture of another (`PhotoReportForm.tsx:107-119`); docs/frontend.md:208
  and docs/photo-reporting.md:19 describe one picture from the upload to its reports.  A
  submission that fails in its middle has stored the first reports; nothing is loaded
  again, and repeating it runs into their cooldown (:158-188).
- *Page of a station*: reloads are neither numbered nor aborted, so that an older answer can
  be the last (`StationDetailView.tsx:137`, `CommunityReportsList.tsx:67`); a failure of
  `loadPrices` is caught by nobody; a first load of the list that fails reads as "no
  reports" (`CommunityReportsList.tsx:91`); and a picture that is still being read after
  thirty attempts reads as one without prices.

## 6. Not modelled

- The OCR engine, preprocessing and the extraction of candidates: text processing without
  state; `ReportImages` lets recognition succeed or fail as it likes.  That its
  initialisation stays failed once it has failed (`tesseract.provider.ts:78`) makes every
  later recognition of the process fail, which the model contains.
- Moderation: called by nothing.
- The chart of the price history: it aborts its request as the nearby list does.  The
  account page beyond what `SignedIn` and `Accounts` contain of it.
- Master data, configuration, health, migrations, seeds and the command line: single reads
  or start-up.
- HTML, styles, dictionaries, PostGIS, MapLibre's drawing.

`components` in `PROJECT.json` lists every part with its status, and `hazards` every
place where something can go wrong, with the property that watches it or the reason why
there is none.

## 7. What could come next

1. Extraction of candidates from a recognised board, as functions on small inputs.
2. Proofs: how many steps a status that is wrong after two judgements met stays so, and what
   the confidence of such a report is.
3. A run of its own for the pictures that are mixed up in the photo form.
4. `FuelEu` with parts that do share state: the page of a station over `PriceReports`
   instead of versions, and `SignedIn` over `Accounts` instead of a cookie.
