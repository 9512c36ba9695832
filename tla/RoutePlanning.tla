---------------------------- MODULE RoutePlanning ----------------------------
(***************************************************************************)
(* RouteStationsService: where to refuel on the way.  A base route, the    *)
(* priced stations in a corridor around it, a shortlist of them, and for   *)
(* each of these the detour it would cost, asked from OSRM by a few        *)
(* workers at once; then the savings and their order.                      *)
(*                                                                         *)
(* Prices are in 1/10000 of the currency, distances in metres, volumes in  *)
(* litres; the price of a station is the one PriceSelection selects.       *)
(***************************************************************************)
EXTENDS Ordering, HttpClient

CONSTANTS
  Stop,        \* stations in the corridor, their ids in order
  OffRoute,    \* their distance to the route
  Markets,     \* bound: what their prices may be, and how old, by station
  Lengths,     \* bound: how long the direct route may be
  Extra,       \* how much longer the way over a station is
  Trips,       \* bound: the requests
  CORRIDOR_CANDIDATE_POOL, DETOUR_CANDIDATE_COUNT, DETOUR_CONCURRENCY,
  Absent       \* a parameter or value that is not there

TripType == [kind : {"route", "stations"}, limit : Nat,
             sort : {"price", "detour", "distance_to_route", "effective_saving"},
             maxPrice : {Absent} \cup Nat, maxAge : {Absent} \cup Nat,
             reference : {Absent} \cup Nat, litres : Nat, consumption : Nat]

(* A shortlist has room for the cheapest and for the closest: the code's   *)
(* has twelve places.                                                      *)
ASSUME RoutePlanningAssumption ==
  /\ Stop \subseteq Nat /\ IsFiniteSet(Stop)
  /\ OffRoute \in [Stop -> Nat]
  /\ Absent \notin Nat /\ Absent \notin Trips
  /\ Markets \subseteq [Stop -> [price : {Absent} \cup Nat, age : Nat]]
  /\ Lengths \subseteq Nat /\ Extra \in [Stop -> Int]
  /\ Trips \subseteq TripType
  /\ CORRIDOR_CANDIDATE_POOL \in Nat \ {0}
  /\ DETOUR_CANDIDATE_COUNT \in Nat \ {0, 1}
  /\ DETOUR_CONCURRENCY \in Nat \ {0}

VARIABLES
  trip,        \* the request
  stage,
  length,      \* history: how long the direct route really is
  routeCache,  \* the length Redis has for it, or Absent
  base,        \* the length the request goes on with
  corridor,    \* the candidates, in order
  pool,        \* the shortlist, in order
  nextIndex,   \* the next of the shortlist to be taken
  current,     \* what each worker has taken, 0 for nothing
  results,     \* the detour of each of the shortlist, Absent until known or failed
  plan         \* the answer

routeVars == <<trip, stage, length, routeCache, base, corridor, pool, nextIndex,
               current, results, plan>>

Worker == 1..DETOUR_CONCURRENCY
NoPlan == [status |-> 0, reference |-> Absent, items |-> <<>>]

RouteInit ==
  /\ trip = Absent /\ stage = "idle"
  /\ length \in Lengths /\ routeCache = Absent /\ base = Absent
  /\ corridor = <<>> /\ pool = <<>>
  /\ nextIndex = 1 /\ current = [w \in Worker |-> 0] /\ results = <<>>
  /\ plan = NoPlan

-----------------------------------------------------------------------------
(* OSRM                                                                    *)

(* The statuses of OsrmRoutingProvider.route(): an address that is not     *)
(* configured, an answer in another form or with another code, an answer   *)
(* that there is no route.                                                 *)
Refusals == {[answer |-> a, body |-> "none"] : a \in Attempt \ {"ok"}}
            \cup {[answer |-> "ok", body |-> b] : b \in {"malformed", "NoRoute", "other code"}}
            \cup {[answer |-> "none", body |-> "no OSRM_BASE_URL"]}
StatusOf(r) ==
  CASE r.body = "no OSRM_BASE_URL" -> 503
    [] r.body = "NoRoute" -> 422
    [] r.answer = "timeout" -> 504
    [] r.answer \in {"4xx", "429"} -> 400
    [] OTHER -> 502

Fail(status) == plan' = [NoPlan EXCEPT !.status = status] /\ stage' = "done"

Plan(t) ==
  /\ stage = "idle"
  /\ trip' = t /\ stage' = "base"
  /\ UNCHANGED <<length, routeCache, base, corridor, pool, nextIndex, current, results, plan>>

Based(metres) ==
  /\ base' = metres
  /\ IF trip.kind = "route"
     THEN stage' = "done" /\ plan' = [NoPlan EXCEPT !.status = 200]
     ELSE stage' = "corridor" /\ UNCHANGED plan

(* RoutingService.route() for the direct route: from the cache, or else    *)
(* from OSRM and then into the cache, which may fail both times.           *)
RouteFromCache ==
  /\ stage = "base" /\ routeCache # Absent
  /\ Based(routeCache)
  /\ UNCHANGED <<trip, length, routeCache, corridor, pool, nextIndex, current, results>>

RouteFromProvider ==
  /\ stage = "base"
  /\ \/ Based(length) /\ routeCache' \in {length, routeCache}
     \/ \E r \in Refusals : Fail(StatusOf(r)) /\ UNCHANGED <<base, routeCache>>
  /\ UNCHANGED <<trip, length, corridor, pool, nextIndex, current, results>>

(* The roads change; what is cached does not, until it expires.            *)
Reroute ==
  /\ stage = "idle"
  /\ length' \in Lengths
  /\ routeCache' \in {routeCache, Absent}
  /\ UNCHANGED <<trip, stage, base, corridor, pool, nextIndex, current, results, plan>>

-----------------------------------------------------------------------------
(* RouteCorridorService.findCandidates()                                   *)

(* The stations nearest to the route, three times as many as are kept;     *)
(* prices of the currency and the fuel are selected for them.              *)
CorridorStations ==
  First(CHOOSE s \in OrderedBy(Stop, [x \in Stop |-> <<OffRoute[x], x>>]) : TRUE,
        3 * CORRIDOR_CANDIDATE_POOL)
FindCandidates(t, market) ==
  LET kept == Keep(CorridorStations,
                {s \in Stop : /\ market[s].price # Absent
                              /\ t.maxPrice # Absent => market[s].price <= t.maxPrice
                              /\ t.maxAge # Absent => market[s].age <= t.maxAge})
      row(s) == [id |-> s, off |-> OffRoute[s], price |-> market[s].price]
      found == [i \in 1..Least(Len(kept), CORRIDOR_CANDIDATE_POOL) |-> row(kept[i])]
  IN  SortBy(found, [r \in Range(found) |-> <<r.off, r.price, r.id>>])

(* The cheapest half and the closest half, each station once.              *)
SelectDetourCandidates(s, count) ==
  LET half == (count + 1) \div 2
      cheapest == First(SortBy(s, [r \in Range(s) |-> <<r.price, r.off>>]), half)
      closest == First(SortBy(s, [r \in Range(s) |-> <<r.off, r.price>>]), half)
  IN  First(cheapest \o Keep(closest, Range(s) \ Range(cheapest)), count)

(* SavingsCalculatorService.medianPrice(), rounded to what a price has     *)
MedianPrice(s) ==
  LET sorted == SortBy(s, [r \in Range(s) |-> <<r.price>>])
      mid == Len(s) \div 2
  IN  IF Len(s) % 2 = 1 THEN sorted[mid + 1].price
      ELSE (sorted[mid].price + sorted[mid + 1].price + 1) \div 2

FindCorridor ==
  /\ stage = "corridor"
  /\ \/ \E market \in Markets :
          LET found == FindCandidates(trip, market)
              reference == IF trip.reference # Absent THEN trip.reference
                           ELSE IF found = <<>> THEN Absent ELSE MedianPrice(found)
          IN  /\ corridor' = found
              /\ IF reference = Absent
                 THEN /\ plan' = [NoPlan EXCEPT !.status = 200] /\ stage' = "done"
                      /\ UNCHANGED <<pool, results>>
                 ELSE /\ pool' = SelectDetourCandidates(found, DETOUR_CANDIDATE_COUNT)
                      /\ results' = [i \in DOMAIN pool' |-> Absent]
                      /\ plan' = [plan EXCEPT !.reference = reference]
                      /\ stage' = "detours"
     \/ Fail(500) /\ UNCHANGED <<corridor, pool, results>>
  /\ UNCHANGED <<trip, length, routeCache, base, nextIndex, current>>

-----------------------------------------------------------------------------
(* mapWithConcurrency() and computeDetour()                                *)

Take(w) ==
  /\ stage = "detours" /\ current[w] = 0 /\ nextIndex <= Len(pool)
  /\ current' = [current EXCEPT ![w] = nextIndex]
  /\ nextIndex' = nextIndex + 1
  /\ UNCHANGED <<trip, stage, length, routeCache, base, corridor, pool, results, plan>>

\* A faulty ComputeDetour: the result goes where the counter is by then.
ComputeDetourAtCounter(w) ==
  /\ current[w] # 0
  /\ \/ results' = [results EXCEPT ![nextIndex - 1] =
                      Most(0, length + Extra[pool[current[w]].id] - base)]
     \/ results' = [results EXCEPT ![nextIndex - 1] = Absent]
  /\ current' = [current EXCEPT ![w] = 0]
  /\ UNCHANGED <<trip, stage, length, routeCache, base, corridor, pool, nextIndex, plan>>

(* The way over the station, never from the cache, against the direct      *)
(* route; whatever goes wrong leaves the station out.                      *)
ComputeDetour(w) ==
  /\ current[w] # 0
  /\ \/ results' = [results EXCEPT ![current[w]] =
                      Most(0, length + Extra[pool[current[w]].id] - base)]
     \/ results' = [results EXCEPT ![current[w]] = Absent]
  /\ current' = [current EXCEPT ![w] = 0]
  /\ UNCHANGED <<trip, stage, length, routeCache, base, corridor, pool, nextIndex, plan>>

-----------------------------------------------------------------------------
(* The savings                                                             *)

(* Decimal.toFixed(4): half away from zero                                 *)
FormatDecimal(x, unit) ==
  IF x >= 0 THEN (2 * x + unit) \div (2 * unit) ELSE -((unit - 2 * x) \div (2 * unit))

(* The litres times the difference, less what the detour burns at the      *)
(* reference price; consumption is per 100 km, that is per 100000 metres.  *)
EffectiveSaving(t, reference, price, metres) ==
  FormatDecimal(100000 * (reference - price) * t.litres - metres * t.consumption * reference,
                100000)

RankedItems(t, reference) ==
  LET answered == Keep([i \in DOMAIN pool |-> i], {i \in DOMAIN pool : results[i] # Absent})
      item(i) == [id |-> pool[i].id, off |-> pool[i].off, price |-> pool[i].price,
                  detour |-> results[i],
                  saving |-> EffectiveSaving(t, reference, pool[i].price, results[i])]
  IN  [k \in DOMAIN answered |-> item(answered[k])]

SortKey(sort, i) ==
  CASE sort = "price" -> <<i.price, i.detour>>
    [] sort = "detour" -> <<i.detour, i.price>>
    [] sort = "distance_to_route" -> <<i.off, -i.saving>>
    [] sort = "effective_saving" -> <<-i.saving, i.detour, i.price>>

RankStations ==
  /\ stage = "detours" /\ nextIndex > Len(pool) /\ \A w \in Worker : current[w] = 0
  /\ LET ranked == RankedItems(trip, plan.reference)
         sorted == SortBy(ranked, [i \in Range(ranked) |-> SortKey(trip.sort, i)])
     IN  plan' = [plan EXCEPT !.status = 200, !.items = First(sorted, trip.limit)]
  /\ stage' = "done"
  /\ UNCHANGED <<trip, length, routeCache, base, corridor, pool, nextIndex, current, results>>

(* The next request finds the cache as this one left it.                   *)
NextTrip ==
  /\ stage = "done" /\ trip.kind = "route" /\ plan.status = 200
  /\ stage' = "idle" /\ trip' = Absent /\ base' = Absent /\ plan' = NoPlan
  /\ UNCHANGED <<length, routeCache, corridor, pool, nextIndex, current, results>>

RouteStep ==
  \/ RouteFromCache \/ RouteFromProvider \/ FindCorridor \/ RankStations
  \/ \E w \in Worker : Take(w) \/ ComputeDetour(w)
RouteNext == (\E t \in Trips : Plan(t)) \/ RouteStep \/ Reroute \/ NextTrip

-----------------------------------------------------------------------------
RouteTypeOK ==
  /\ trip \in Trips \cup {Absent}
  /\ stage \in {"idle", "base", "corridor", "detours", "done"}
  /\ {routeCache, base} \subseteq Lengths \cup {Absent} /\ length \in Lengths
  /\ Len(corridor) <= CORRIDOR_CANDIDATE_POOL /\ Len(pool) <= DETOUR_CANDIDATE_COUNT
  /\ nextIndex \in 1..(Len(pool) + 1) /\ current \in [Worker -> 0..Len(pool)]
  /\ results \in [DOMAIN pool -> Nat \cup {Absent}]
  /\ plan.status \in {0, 200, 400, 422, 500, 502, 503, 504}

(* Whatever order the workers' answers come in (docs/routing.md: "4         *)
(* parallel route requests", "individual detour failures skip that          *)
(* candidate"), a station is shown with the detour over itself, stations    *)
(* are left out only by failure or by the limit, and then none of them      *)
(* would come before one that is shown.                                     *)
Planned == stage = "done" /\ plan.status = 200 /\ trip.kind = "stations"
PlanIsWhatWasAnswered ==
  Planned /\ plan.reference # Absent =>
    LET answered == {i \in DOMAIN pool : results[i] # Absent}
        detour(i) == Most(0, length + Extra[pool[i].id] - base)
        item(i) == [id |-> pool[i].id, off |-> pool[i].off, price |-> pool[i].price,
                    detour |-> detour(i),
                    saving |-> EffectiveSaving(trip, plan.reference, pool[i].price, detour(i))]
        left == {item(i) : i \in answered} \ Range(plan.items)
    IN  /\ Range(plan.items) \subseteq {item(i) : i \in answered}
        /\ left # {} => Len(plan.items) = trip.limit
        /\ \A i \in left : \A k \in DOMAIN plan.items :
             ~Precedes(SortKey(trip.sort, i), SortKey(trip.sort, plan.items[k]))

(* docs/routing.md, on the shortlist: "This avoids optimizing on price      *)
(* alone": the cheapest station of the corridor and the closest are among   *)
(* those the detour is computed for, and none of them twice.                *)
ShortlistKeepsExtremes ==
  stage = "detours" /\ corridor # <<>> =>
    /\ \E i \in DOMAIN pool : \A r \in Range(corridor) : pool[i].price <= r.price
    /\ \E i \in DOMAIN pool : \A r \in Range(corridor) : pool[i].off <= r.off
    /\ Cardinality({r.id : r \in Range(pool)}) = Len(pool)

(* mapWithConcurrency(): no two workers have the same station of the       *)
(* shortlist, none goes back to one that was answered, and the plan waits  *)
(* until all were taken and nobody is busy any more.                       *)
EachIsTakenOnce ==
  /\ \A v, w \in Worker : v # w /\ current[v] = current[w] => current[v] = 0
  /\ \A w \in Worker : current[w] < nextIndex
  /\ \A i \in DOMAIN pool : results[i] # Absent =>
       i < nextIndex /\ \A w \in Worker : current[w] # i
  /\ Planned /\ plan.reference # Absent =>
       nextIndex = Len(pool) + 1 /\ \A w \in Worker : current[w] = 0
=============================================================================
