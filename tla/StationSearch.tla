---------------------------- MODULE StationSearch ----------------------------
(***************************************************************************)
(* What a reader is shown: the stations around a point or inside a map,    *)
(* each with its selected prices, and the prices of one station.           *)
(*                                                                         *)
(* A request reads the stations and then, with another statement, their    *)
(* observations; imports and reports go on in between.  The refresh of     *)
(* Austrian prices before a search is part of module Ingestion.            *)
(***************************************************************************)
EXTENDS PriceSelection

CONSTANTS Station,    \* ids, in their order
          Distance,   \* from the point asked about, the radius asked for included
          Radius,
          InBox,      \* the stations inside the map
          Offers,     \* bound: the observations there may be
          MaxStored,  \* bound: how many of them there are at once
          Questions,  \* bound: the requests that are sent
          None        \* a parameter that is left out

QuestionType == [kind : {"nearby", "bbox", "latest", "history"},
                 fuel : {None} \cup STRING, currency : {None} \cup STRING,
                 sort : {"distance", "price"}, max : {None} \cup Nat, only : BOOLEAN,
                 limit : Nat, station : Nat, from : {None} \cup Int, to : {None} \cup Int]

(* The id of an observation is its primary key.                            *)
ASSUME StationSearchAssumption ==
  /\ Station \subseteq Nat
  /\ Distance \in [Station -> Nat]
  /\ InBox \subseteq Station
  /\ Offers \subseteq CandidateType
  /\ \A c, d \in Offers : c.id = d.id => c = d
  /\ Questions \subseteq QuestionType /\ None \notin Questions
  /\ Now \in Int /\ Radius \in Nat /\ MaxStored \in Nat

VARIABLES
  stored,   \* fuel_price_observations
  stations, \* the rows of stations, all active
  ask,      \* the request
  phase,
  rows,     \* the stations read for it, in order
  reach,    \* history: the active stations in reach when they were read
  seen,     \* history: the observations when they were read
  reply

searchVars == <<stored, stations, ask, phase, rows, reach, seen, reply>>

NoReply == [status |-> 0, items |-> <<>>, truncated |-> FALSE]

SearchInit ==
  /\ stored = {} /\ stations = {}
  /\ ask = None /\ phase = "idle" /\ rows = <<>> /\ reach = {} /\ seen = {}
  /\ reply = NoReply

-----------------------------------------------------------------------------
(* The requests                                                            *)

ValidateNearby(q) ==
  /\ q.sort = "price" => q.fuel # None
  /\ q.max # None => q.fuel # None /\ q.currency # None

Ask(q) ==
  /\ phase = "idle"
  /\ ask' = q
  /\ IF q.kind = "nearby" /\ ~ValidateNearby(q)
     THEN phase' = "done" /\ reply' = [NoReply EXCEPT !.status = 400]
     ELSE phase' = "stations" /\ UNCHANGED reply
  /\ UNCHANGED <<stored, stations, rows, reach, seen>>

\* A faulty FetchNearbyStations: the limit is the statement's.
FetchNearbyLimited(q) ==
  {First(s, q.limit) : s \in OrderedBy({x \in stations : Distance[x] <= Radius},
                                      [x \in stations |-> <<Distance[x], x>>])}

FetchNearbyStations(q) ==
  OrderedBy({x \in stations : Distance[x] <= Radius}, [x \in stations |-> <<Distance[x], x>>])

FetchBboxStations(q) ==
  {First(s, q.limit + 1) : s \in OrderedBy(stations \cap InBox, [x \in stations |-> <<x>>])}

Exists(q) == {<<s>> : s \in stations \cap {q.station}}

InReach(q) ==
  CASE q.kind = "nearby" -> {s \in stations : Distance[s] <= Radius}
    [] q.kind = "bbox" -> stations \cap InBox
    [] OTHER -> stations \cap {q.station}

(* The first statement; a station nobody knows is 404.                     *)
ReadStations ==
  /\ phase = "stations"
  /\ reach' = InReach(ask)
  /\ LET found == CASE ask.kind = "nearby" -> FetchNearbyStations(ask)
                    [] ask.kind = "bbox" -> FetchBboxStations(ask)
                    [] OTHER -> Exists(ask)
     IN  IF found = {}
         THEN phase' = "done" /\ reply' = [NoReply EXCEPT !.status = 404] /\ UNCHANGED rows
         ELSE phase' = "prices" /\ rows' \in found /\ UNCHANGED reply
  /\ UNCHANGED <<stored, stations, ask, seen>>

CANDIDATE_MAX_AGE_HOURS == 168
Wanted(q, S) ==
  {c \in stored : /\ c.station \in S
                  /\ c.observed >= Now - CANDIDATE_MAX_AGE_HOURS
                  /\ q.fuel = None \/ c.fuel = q.fuel
                  /\ q.currency = None \/ c.currency = q.currency}

(* The statement orders by station, fuel and time; only the order within   *)
(* the group of a station and a fuel matters, where rows observed at the   *)
(* same time come in any order.                                            *)
FetchCandidates(q, S) == OrderedBy(Wanted(q, S), [c \in stored |-> <<-c.observed>>])

-----------------------------------------------------------------------------
(* The answers                                                             *)

PricesOf(s, selected) == {c \in selected : c.station = s}
FuelPrice(q, i) == CHOOSE c \in i.prices : c.fuel = q.fuel

Items(q, listed, selected) ==
  LET all == [k \in DOMAIN listed |-> [station |-> listed[k],
                                       prices |-> PricesOf(listed[k], selected)]]
  IN  Keep(all, {i \in Range(all) : /\ q.fuel # None => \E c \in i.prices : c.fuel = q.fuel
                                    /\ q.only => i.prices # {}})

\* the order of an answer
Rank(q, i) ==
  IF q.sort = "price" THEN <<FuelPrice(q, i).price, Distance[i.station], i.station>>
                      ELSE <<Distance[i.station], i.station>>

(* findNearby(): 400 when prices of two currencies would be compared.      *)
FindNearby(q, selected) ==
  LET items == Items(q, rows, selected)
      found == Keep(items, {i \in Range(items) : q.max # None => FuelPrice(q, i).price <= q.max})
      currencies == {FuelPrice(q, i).currency : i \in Range(found)}
  IN  IF q.sort = "price" /\ q.currency = None /\ Cardinality(currencies) > 1
      THEN [NoReply EXCEPT !.status = 400]
      ELSE [status |-> 200, truncated |-> FALSE,
            items |-> First(SortBy(found, [i \in Range(found) |-> Rank(q, i)]), q.limit)]

(* findInBbox(): the limit first, what has no price goes afterwards.       *)
FindInBbox(q, selected) ==
  [status |-> 200, truncated |-> Len(rows) > q.limit,
   items |-> Items(q, First(rows, q.limit), selected)]

(* findLatestByStation(), in any order of the fuels                        *)
FindLatest(selected) ==
  [status |-> 200, truncated |-> FALSE,
   items |-> <<[station |-> rows[1], prices |-> selected]>>]

ReadPrices ==
  /\ phase = "prices" /\ ask.kind # "history"
  /\ seen' = stored
  /\ LET listed == IF ask.kind = "bbox" THEN First(rows, ask.limit) ELSE rows
     IN  \E candidates \in FetchCandidates(ask, Range(listed)) :
           LET selected == SelectByStationAndFuel(candidates)
           IN  reply' = CASE ask.kind = "nearby" -> FindNearby(ask, selected)
                          [] ask.kind = "bbox" -> FindInBbox(ask, selected)
                          [] ask.kind = "latest" -> FindLatest(selected)
  /\ phase' = "done"
  /\ UNCHANGED <<stored, stations, ask, rows, reach>>

(* findHistoryByStation(): in the order of time and from its start, so     *)
(* that the limit keeps the oldest.                                        *)
Period(q, S) ==
  {c \in S : /\ c.station = q.station /\ c.fuel = q.fuel
             /\ q.from # None => c.observed >= q.from
             /\ q.to # None => c.observed <= q.to}
ReadHistory ==
  /\ phase = "prices" /\ ask.kind = "history"
  /\ seen' = stored
  /\ \E s \in OrderedBy(Period(ask, stored), [c \in stored |-> <<c.observed>>]) :
       reply' = [status |-> 200, items |-> First(s, ask.limit), truncated |-> FALSE]
  /\ phase' = "done"
  /\ UNCHANGED <<stored, stations, ask, rows, reach>>

(* A statement fails, of the notice about the coverage too.                *)
FailSearch ==
  /\ phase \in {"stations", "prices"}
  /\ reply' = [NoReply EXCEPT !.status = 500]
  /\ phase' = "done"
  /\ UNCHANGED <<stored, stations, ask, rows, reach, seen>>

-----------------------------------------------------------------------------
(* Meanwhile: imports and accepted reports                                 *)
ImportStation(s) ==
  /\ stations' = stations \cup {s}
  /\ UNCHANGED <<stored, ask, phase, rows, reach, seen, reply>>

Observe(c) ==
  /\ c.station \in stations /\ c \notin stored /\ Cardinality(stored) < MaxStored
  /\ stored' = stored \cup {c}
  /\ UNCHANGED <<stations, ask, phase, rows, reach, seen, reply>>

SearchNext ==
  \/ \E q \in Questions : Ask(q)
  \/ ReadStations \/ ReadPrices \/ ReadHistory \/ FailSearch
  \/ \E s \in Station : ImportStation(s)
  \/ \E c \in Offers : Observe(c)

-----------------------------------------------------------------------------
SearchTypeOK ==
  /\ stored \subseteq Offers
  /\ stations \subseteq Station
  /\ ask \in Questions \cup {None}
  /\ phase \in {"idle", "stations", "prices", "done"}
  /\ rows \in Seq(Station)
  /\ reach \subseteq Station
  /\ seen \subseteq stored
  /\ reply.status \in {0, 200, 400, 404, 500} /\ reply.truncated \in BOOLEAN

Answered == phase = "done" /\ reply.status = 200
Candidates(q, s, f) ==
  {c \in seen : /\ c.station = s /\ c.fuel = f /\ c.observed >= Now - CANDIDATE_MAX_AGE_HOURS
                /\ q.currency = None \/ c.currency = q.currency}

(* docs/price-selection.md: "Current displayed prices are chosen by         *)
(* PriceSelectionService": the price of a fuel at a station is the best of  *)
(* what was stored when the prices were read, in whatever order the         *)
(* database returned them; and there is one whenever the preferred service  *)
(* mode has a candidate that is not excluded.                               *)
ShownPriceIsBest ==
  Answered /\ ask.kind # "history" =>
    \A k \in DOMAIN reply.items : \A f \in {c.fuel : c \in seen} :
      LET shown == {c \in reply.items[k].prices : c.fuel = f}
      IN  ask.fuel \in {None, f} =>
            shown = BestOf(Candidates(ask, reply.items[k].station, f))

(* Whether a station belongs into the answer, from what was stored.         *)
Belongs(q, s) ==
  LET best(f) == BestOf(Candidates(q, s, f))
  IN  /\ q.fuel # None => best(q.fuel) # {}
      /\ q.only => \E c \in seen : best(c.fuel) # {}
      /\ q.kind = "nearby" /\ q.max # None => \A c \in best(q.fuel) : c.price <= q.max
ItemOf(q, s) ==
  [station |-> s,
   prices |-> UNION {BestOf(Candidates(q, s, c.fuel)) : c \in {d \in seen : q.fuel \in {None, d.fuel}}}]

(* Nothing is left out silently.  A station in the radius that belongs into *)
(* the answer is in it, or the answer is full and everything in it comes    *)
(* before that station; one on the map is missing only if the answer says   *)
(* "truncated"; an observation of the period is missing from the history    *)
(* only if the history is full.                                             *)
NothingIsLeftOutSilently ==
  Answered =>
    LET shown == {reply.items[k].station : k \in DOMAIN reply.items}
        missing == {s \in reach : Belongs(ask, s)} \ shown
    IN  CASE ask.kind = "nearby" ->
               missing # {} => /\ Len(reply.items) = ask.limit
                               /\ \A s \in missing : \A k \in DOMAIN reply.items :
                                    Precedes(Rank(ask, reply.items[k]), Rank(ask, ItemOf(ask, s)))
          [] ask.kind = "bbox" -> missing # {} => reply.truncated
          [] ask.kind = "history" ->
               Len(reply.items) < ask.limit => Range(reply.items) = Period(ask, seen)
          [] OTHER -> TRUE
=============================================================================
