--------------------------- MODULE IngestionWriter ---------------------------
(***************************************************************************)
(* IngestionWriterService with the tables it fills: how the prices one     *)
(* provider tells become stations, mappings and price observations.        *)
(*                                                                         *)
(* A call of importStations() works through what it was told in batches.   *)
(* A batch is one transaction at read committed: it reads the mappings,    *)
(* writes stations and mappings (and then holds their locks), reads the    *)
(* latest prices, and commits.  Several calls may be at it at once, and    *)
(* users report prices of the same stations meanwhile.                     *)
(*                                                                         *)
(* A station is named by its external id: the transaction that inserts the *)
(* one inserts the other.  Names, addresses, fuels a station was last seen *)
(* with and modes of service are left out, and the records of a batch may  *)
(* be any of those left: the order in which providers list their stations  *)
(* is theirs.  The clock counts the events that are stamped with a time.   *)
(***************************************************************************)
EXTENDS Integers, FiniteSets

CONSTANTS External,     \* external ids of stations
          Sold,         \* <<station, fuel>>: what is sold where
          Places,       \* what is near the places searches are about
          Price,        \* amounts
          OpeningPrice, \* what everything costs at first
          Reported,     \* amounts that users report
          Providers,    \* the kinds of provider a behaviour may be about
          Call,         \* calls of importStations()
          NoCall,
          BATCH_SIZE,
          MaxTime,      \* bound: when the provider changes its last price
          MaxReports    \* bound: prices users report, by provider

\* numeric(12,4)
StoredDecimals == 4

Dedup == {"timestamp-price", "price-change-only"}

(* decimals: how the provider writes a price; nearby: it is asked for the  *)
(* surroundings of a place, once for every fuel, and what it answers is    *)
(* joined; refresh: it can also be asked for known stations alone.         *)
ProviderType == [dedup : Dedup, decimals : Nat, nearby : BOOLEAN, refresh : BOOLEAN]

ASSUME IngestionWriterAssumption ==
  /\ Sold \subseteq External \X {k[2] : k \in Sold}
  /\ IsFiniteSet(Sold) /\ IsFiniteSet(External)
  /\ Places \subseteq SUBSET External
  /\ OpeningPrice \in Price /\ Reported \subseteq Price
  /\ Providers \subseteq ProviderType
  /\ NoCall \notin Call
  /\ BATCH_SIZE \in Nat \ {0}
  /\ MaxTime \in Nat
  /\ MaxReports \in [Providers -> Nat]

VARIABLES
  provider,  \* the provider this behaviour is about
  clock,     \* the last time that was stamped
  feed,      \* what the provider would tell now
  mapped,    \* station_source_mappings: the call that inserted each
  obs,       \* fuel_price_observations
  pc,        \* where each call is
  work       \* what each call knows

told == <<provider, clock, feed>>
tables == <<mapped, obs>>
calls == <<pc, work>>
writerVars == <<told, tables, calls>>

-----------------------------------------------------------------------------
Fuel == {k[2] : k \in Sold}
QuoteType == [fuel : Fuel, price : Price, at : Nat]
RecordType == [ext : External, quotes : SUBSET QuoteType,
               placed : BOOLEAN, priceUpdateOnly : BOOLEAN]
ObservationType == [ext : External, fuel : Fuel, price : Price, at : Nat,
                    by : Call \cup {NoCall}]
Mode == {"full", "prices"}

Importing == {"reading", "writing", "comparing", "storing"}
Phase == {"idle", "opening", "fetching", "reconciling",
          "failing", "abandoned", "refused", "unlocking", "done",
          "unrecorded", "dead"} \cup Importing

WorkType == [told : SUBSET RecordType, left : SUBSET RecordType,
             batch : SUBSET RecordType, known : SUBSET External, held : SUBSET External,
             latest : SUBSET (Sold \X Price), stored : Nat, created : Nat,
             errors : Nat, fetched : Nat]

NoWork == [told |-> {}, left |-> {}, batch |-> {}, known |-> {}, held |-> {}, latest |-> {},
           stored |-> 0, created |-> 0, errors |-> 0, fetched |-> 0]

WriterInit ==
  /\ provider \in Providers
  /\ clock = 0
  /\ feed = [k \in Sold |-> [price |-> OpeningPrice, at |-> 0]]
  /\ mapped = [e \in External |-> NoCall]
  /\ obs = {}
  /\ pc = [c \in Call |-> "idle"]
  /\ work = [c \in Call |-> NoWork]

-----------------------------------------------------------------------------
(* What there is.                                                          *)

Mapped == {e \in External : mapped[e] # NoCall}
At(k) == {o \in obs : o.ext = k[1] /\ o.fuel = k[2]}
FromUsers(k) == {o \in At(k) : o.by = NoCall}

\* the newest of some observations: DISTINCT ON takes any one of a tie
Newest(os) == {o \in os : \A x \in os : x.at <= o.at}

(* Prices are compared as the texts they are written in.                   *)
Text(amount, decimals) == <<amount, decimals>>

-----------------------------------------------------------------------------
(* What a call is told: FetchResult, normalised.                           *)

Quote(k, now) ==
  [fuel |-> k[2], price |-> feed[k].price,
   at |-> IF provider.dedup = "timestamp-price" THEN feed[k].at ELSE now]

Records(exts, fuels, unplaced, mode, now) ==
  LET Record(e, quotes) ==
        [ext |-> e, quotes |-> quotes,
         placed |-> mode = "full" /\ e \notin unplaced,
         priceUpdateOnly |-> mode = "prices"]
      here == {k \in Sold : k[1] \in exts /\ k[2] \in fuels}
  IN  IF provider.nearby
      THEN {Record(k[1], {Quote(k, now)}) : k \in here}
      ELSE {Record(e, {Quote(k, now) : k \in {h \in here : h[1] = e}})
              : e \in {k[1] : k \in here}}

(* The stations a provider is asked about: all of them, those near a       *)
(* place, or the known ones.                                               *)
Asked(mode) ==
  CASE mode = "prices" -> {Mapped}
    [] provider.nearby -> Places
    [] OTHER -> {External}

(* The call starts its import with what it was told of some stations, of   *)
(* which some come malformed and some without a place.                     *)
Hear(c, mode, answered, fuels, malformed, unplaced) ==
  LET now == clock + 1
      fetched == Records(answered, fuels, unplaced, mode, now)
      records == {r \in fetched : r.ext \notin malformed}
  IN  /\ clock' = now
      /\ work' = [work EXCEPT ![c] =
                    [NoWork EXCEPT !.told = records, !.left = records,
                                   !.fetched = Cardinality(fetched),
                                   !.errors = Cardinality(fetched \ records)]]
      /\ pc' = [pc EXCEPT ![c] = IF records = {} THEN "reconciling" ELSE "reading"]
      /\ UNCHANGED <<provider, feed, tables>>

-----------------------------------------------------------------------------
(* importStations(): the batches.  After the last of them every stored      *)
(* observation is offered for reconciliation, whose steps are in            *)
(* PriceReports: here it is the phase "reconciling", which may fail.       *)

\* the stations of a batch that are to be inserted
NewRecords(c) ==
  {r \in work[c].batch : r.ext \notin work[c].known /\ ~r.priceUpdateOnly}
Insertable(c) == {r \in NewRecords(c) : r.placed}
Inserted(c) == {r.ext : r \in Insertable(c)}

\* the rows a batch updates or inserts
Touched(c) ==
  {r.ext : r \in {x \in work[c].batch :
                    ~x.priceUpdateOnly /\ (x.ext \in work[c].known \/ x.placed)}}
\* The rows a batch has written and holds until its transaction ends.
LockedRows(c) == IF pc[c] \in {"writing", "comparing", "storing"} THEN work[c].held ELSE {}

ReadMappings(c) ==
  /\ pc[c] = "reading"
  /\ \E batch \in SUBSET work[c].left :
       /\ Cardinality(batch) = IF Cardinality(work[c].left) < BATCH_SIZE
                               THEN Cardinality(work[c].left) ELSE BATCH_SIZE
       /\ work' = [work EXCEPT ![c].batch = batch,
                               ![c].known = Mapped \cap {r.ext : r \in batch}]
  /\ pc' = [pc EXCEPT ![c] = "writing"]
  /\ UNCHANGED <<told, tables>>

(* The unique index of the mappings: a station another transaction has     *)
(* mapped since, or one that is twice in this batch.                       *)
Conflicts(c) ==
  \/ Inserted(c) \cap Mapped # {}
  \/ \E r, s \in Insertable(c) : r # s /\ r.ext = s.ext

(* The rows are written one by one, the known ones first, and each waits   *)
(* for the transaction that holds it.                                      *)
WriteRow(c) ==
  /\ pc[c] = "writing"
  /\ \E e \in Touched(c) \ work[c].held :
       /\ e \in work[c].known \/ Touched(c) \cap work[c].known \subseteq work[c].held
       /\ \A d \in Call \ {c} : e \notin LockedRows(d)
       /\ work' = [work EXCEPT ![c].held = @ \cup {e}]
  /\ UNCHANGED <<told, tables, pc>>

(* Of transactions that wait for each other the database aborts one.       *)
WaitsFor(c, d) ==
  c # d /\ pc[c] = "writing" /\ (Touched(c) \ work[c].held) \cap LockedRows(d) # {}
Deadlock(c) ==
  /\ pc[c] = "writing"
  /\ \E waiting \in SUBSET Call :
       /\ c \in waiting
       /\ \A x \in waiting : \E y, z \in waiting : WaitsFor(x, y) /\ WaitsFor(z, x)
  /\ pc' = [pc EXCEPT ![c] = "failing"]
  /\ UNCHANGED <<told, tables, work>>

\* A faulty WriteStations that tries a batch again after a conflict.
WriteStationsAgain(c) ==
  /\ pc[c] = "writing"
  /\ Touched(c) \subseteq work[c].held
  /\ pc' = [pc EXCEPT ![c] =
              IF Conflicts(c) THEN "reading"
              ELSE IF provider.dedup = "price-change-only" THEN "comparing"
              ELSE "storing"]
  /\ work' = [work EXCEPT ![c].held = IF Conflicts(c) THEN {} ELSE @]
  /\ UNCHANGED <<told, tables>>

WriteStations(c) ==
  /\ pc[c] = "writing"
  /\ Touched(c) \subseteq work[c].held
  /\ pc' = [pc EXCEPT ![c] =
              IF Conflicts(c) THEN "failing"
              ELSE IF provider.dedup = "price-change-only" THEN "comparing"
              ELSE "storing"]
  /\ UNCHANGED <<told, tables, work>>

Stations(c) == work[c].known \cup Inserted(c)

\* A faulty LoadLatestPrices: it looks up nothing for known stations.
LoadLatestOfNew(c) ==
  /\ pc[c] = "comparing"
  /\ UNCHANGED work
  /\ pc' = [pc EXCEPT ![c] = "storing"]
  /\ UNCHANGED <<told, tables>>

\* A faulty IsUnchangedPrice: any fuel of the station will do.
IsUnchangedAtStation(c, e, q) ==
  \E l \in work[c].latest :
    /\ l[1][1] = e
    /\ Text(l[2], StoredDecimals) = Text(q.price, provider.decimals)

(* The latest price of each fuel of these stations, whoever told it.       *)
LoadLatestPrices(c) ==
  /\ pc[c] = "comparing"
  /\ \E latest \in [{k \in Sold : k[1] \in Stations(c) /\ At(k) # {}} -> obs] :
       /\ \A k \in DOMAIN latest : latest[k] \in Newest(At(k))
       /\ work' = [work EXCEPT ![c].latest =
                     {<<k, latest[k].price>> : k \in DOMAIN latest}]
  /\ pc' = [pc EXCEPT ![c] = "storing"]
  /\ UNCHANGED <<told, tables>>

IsUnchangedPrice(c, e, q) ==
  \E l \in work[c].latest :
    /\ l[1] = <<e, q.fuel>>
    /\ Text(l[2], StoredDecimals) = Text(q.price, provider.decimals)

\* the rows of a batch that are not skipped
ObservationRows(c) ==
  LET rows(r) == {[ext |-> r.ext, fuel |-> q.fuel, price |-> q.price, at |-> q.at, by |-> c] :
                    q \in {p \in r.quotes : ~IsUnchangedPrice(c, r.ext, p)}}
  IN  UNION {rows(r) : r \in {x \in work[c].batch : x.ext \in Stations(c)}}

\* the unique index of the observations of a provider
SameRow(o, p) ==
  /\ o.by # NoCall /\ p.by # NoCall
  /\ <<o.ext, o.fuel, o.price, o.at>> = <<p.ext, p.fuel, p.price, p.at>>

\* ON CONFLICT DO NOTHING
FreshRows(c) == {r \in ObservationRows(c) : \A o \in obs : ~SameRow(o, r)}

\* INVALID_COORDINATES, and DB_WRITE_FAILED for every record without a station
BatchErrors(c) ==
  Cardinality(NewRecords(c) \ Insertable(c))
  + Cardinality({r \in work[c].batch : r.ext \notin Stations(c)})

\* A faulty Commit that counts what it tried to store.
CommitCountingAttempts(c) ==
  LET left == work[c].left \ work[c].batch
  IN  /\ pc[c] = "storing"
      /\ mapped' = [e \in External |-> IF e \in Inserted(c) THEN c ELSE mapped[e]]
      /\ obs' = obs \cup FreshRows(c)
      /\ work' = [work EXCEPT
                    ![c].left = left, ![c].batch = {}, ![c].known = {},
                    ![c].held = {}, ![c].latest = {},
                    ![c].stored = @ + Cardinality(ObservationRows(c)),
                    ![c].created = @ + Cardinality(Insertable(c)),
                    ![c].errors = @ + BatchErrors(c)]
      /\ pc' = [pc EXCEPT ![c] = IF left = {} THEN "reconciling" ELSE "reading"]
      /\ UNCHANGED told

Commit(c) ==
  LET fresh == FreshRows(c)
      left == work[c].left \ work[c].batch
  IN  /\ pc[c] = "storing"
      /\ mapped' = [e \in External |-> IF e \in Inserted(c) THEN c ELSE mapped[e]]
      /\ obs' = obs \cup fresh
      /\ work' = [work EXCEPT
                    ![c].left = left, ![c].batch = {}, ![c].known = {},
                    ![c].held = {}, ![c].latest = {},
                    ![c].stored = @ + Cardinality(fresh),
                    ![c].created = @ + Cardinality(Insertable(c)),
                    ![c].errors = @ + BatchErrors(c)]
      /\ pc' = [pc EXCEPT ![c] = IF left = {} THEN "reconciling" ELSE "reading"]
      /\ UNCHANGED told

ImportStations(c) ==
  \/ ReadMappings(c) \/ WriteRow(c) \/ Deadlock(c) \/ WriteStations(c)
  \/ LoadLatestPrices(c) \/ Commit(c)

-----------------------------------------------------------------------------
(* The world: the provider changes a price, a user's report is accepted.   *)
(* What changed before anybody asked is the opening price.                 *)

ProviderChanges(k, price) ==
  /\ clock \in 1..(MaxTime - 1)
  /\ price # feed[k].price
  /\ clock' = clock + 1
  /\ feed' = [feed EXCEPT ![k] = [price |-> price, at |-> clock']]
  /\ UNCHANGED <<provider, tables, calls>>

CreateObservation(k, price) ==
  /\ Cardinality({o \in obs : o.by = NoCall}) < MaxReports[provider]
  /\ k[1] \in Mapped
  /\ clock' = clock + 1
  /\ obs' = obs \cup {[ext |-> k[1], fuel |-> k[2], price |-> price,
                       at |-> clock', by |-> NoCall]}
  /\ UNCHANGED <<provider, feed, mapped, calls>>

=============================================================================
