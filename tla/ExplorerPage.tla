----------------------------- MODULE ExplorerPage -----------------------------
(***************************************************************************)
(* The main page of the web application (HomeExplorer): filters and route  *)
(* in the URL, the ends of the route also in the state of the component,   *)
(* and the requests for nearby stations, stations of the map, the stations *)
(* along a route and the name of a point.                                  *)
(*                                                                         *)
(* An action is an event and the rendering after it, with the effects that *)
(* rendering runs (Rendered).  router.replace is a transition, rendered    *)
(* later than the state set with it; until then a rendering sees the old   *)
(* URL.  A request that was called off or overtaken has no effect any more *)
(* and is dropped.                                                         *)
(* Radius and sort order are filters as the fuel is one, and are left out, *)
(* as is the fuel a signed-in user prefers.                                *)
(***************************************************************************)
EXTENDS Naturals

CONSTANTS
  Place, NoPlace,   \* points on the map
  Fallback,         \* Paris
  Fuel, NoFuel,
  Link,             \* bound: the URLs the page is opened with
  MaxMoves          \* bound: events of the user and the device

ASSUME ExplorerAssumption ==
  /\ Fallback \in Place /\ NoPlace \notin Place /\ NoFuel \notin Fuel
  /\ MaxMoves \in Nat

End == {"from", "to"}
Slot == {"nearby", "bbox", "route"}
Url == [fuel : Fuel \cup {NoFuel}, place : Place \cup {NoPlace},
        from : Place \cup {NoPlace}, to : Place \cup {NoPlace}, named : SUBSET End]

ASSUME LinkAssumption == Link \subseteq Url

VARIABLES
  url, nextUrl,  \* as rendered, and as last asked of the router
  ends,          \* routeOrigin, routeDestination
  picking,       \* mapPickMode
  planned,       \* autoPlanAttemptedRef
  device,        \* userLocation
  fuelTypes,     \* fetched or not
  asked,         \* by slot, the last question
  flights,       \* requests under way that still count
  panel,         \* by slot, what is on display and the question it answers
  busy,          \* slots that show that they are loading
  lookup,        \* the reverse geocoding under way
  dismissed,     \* history: how the user did away with the route, if so
  moves

pageVars == <<url, nextUrl, ends, picking, planned, device, fuelTypes, asked,
              flights, panel, busy, lookup, dismissed, moves>>

NoEnds == [e \in End |-> NoPlace]
PageQuestion == [from : Place \cup {NoPlace}, to : Place \cup {NoPlace},
                 fuel : Fuel \cup {NoFuel}]
Asking(from, to, fuel) == [from |-> from, to |-> to, fuel |-> fuel]
Unasked == Asking(NoPlace, NoPlace, NoFuel)
NoLookup == [end |-> "none", at |-> NoPlace, other |-> NoPlace, base |-> <<>>]

-----------------------------------------------------------------------------
(* What a rendering derives from URL and state.                            *)
Effective(u, s, e) == IF s[e] # NoPlace THEN s[e] ELSE u[e]
SelectedFuel(u, loaded) == IF loaded THEN u.fuel ELSE NoFuel
SearchCenter(u, s, d) ==
  IF \A e \in End : Effective(u, s, e) # NoPlace THEN Effective(u, s, "from")
  ELSE IF u.place # NoPlace THEN u.place ELSE d
NearbyQuestion ==
  Asking(SearchCenter(url, ends, device), NoPlace,
         SelectedFuel(url, fuelTypes = "loaded"))

(* A new request of a slot aborts the one before and outnumbers it.        *)
CallOff(under, new) == {f \in under : \A n \in new : n.slot # f.slot}

(* The ends in the URL that have no name there.  Their objects are new in  *)
(* every rendering, so they are looked up each time; the second lookup     *)
(* calls off the first.                                                    *)
Unnamed(u) == {e \in End : u[e] # NoPlace /\ e \notin u.named}
LookUpUnnamed(u, otherwise) ==
  IF Unnamed(u) = {} THEN otherwise
  ELSE LET e == IF "to" \in Unnamed(u) THEN "to" ELSE "from"
       IN [NoLookup EXCEPT !.end = e, !.at = u[e]]

Empty(shown, slot) == [shown EXCEPT ![slot] = [what |-> "nothing", q |-> Unasked]]
Whole(u) == NoPlace \notin {u.from, u.to}

(* A rendering and its effects, after an event that leaves the requests    *)
(* under and the slots waiting and asks for wanted, shows shown, looks up  *)
(* started and leaves tried in autoPlanAttemptedRef.  New filters or a new *)
(* centre ask for the nearby stations; a URL that holds a whole route is   *)
(* planned, once.                                                          *)
RenderedAfter(under, waiting, wanted, shown, started, tried) ==
  LET here == [slot |-> "nearby", q |-> NearbyQuestion']
      whole == [slot |-> "route", q |-> Asking(url'.from, url'.to, here.q.fuel)]
      plans == /\ ~tried /\ Whole(url') /\ here.q.fuel # NoFuel
               /\ shown["route"].what # "answer"
               /\ "route" \notin waiting \cup {w.slot : w \in wanted}
      new == wanted \cup (IF here.q = asked["nearby"] THEN {} ELSE {here})
                    \cup (IF plans THEN {whole} ELSE {})
  IN
  /\ planned' = (tried \/ plans)
  /\ asked' = [s \in Slot |-> IF \E f \in new : f.slot = s
                              THEN (CHOOSE f \in new : f.slot = s).q ELSE asked[s]]
  /\ flights' = CallOff(under, new) \cup new
  /\ panel' = IF plans THEN Empty(shown, "route") ELSE shown
  /\ busy' = waiting \cup ({f.slot : f \in new} \ {"bbox"})
  /\ lookup' = LookUpUnnamed(url', started)

Rendered(wanted, shown, started, tried) ==
  RenderedAfter(flights, busy, wanted, shown, started, tried)

(* updateSearchParams replaces the URL that the rendering saw, not the one *)
(* asked for since.                                                        *)
ReplaceUrl(u) == nextUrl' = u /\ UNCHANGED url

ExplorerInit ==
  /\ url \in Link /\ nextUrl = url /\ ends = NoEnds
  /\ picking = "none" /\ planned = FALSE
  /\ device = Fallback /\ fuelTypes = "loading"
  /\ asked = [s \in Slot |-> IF s = "nearby" THEN NearbyQuestion ELSE Unasked]
  /\ flights = {[slot |-> "nearby", q |-> NearbyQuestion]}
  /\ panel = [s \in Slot |-> [what |-> "nothing", q |-> Unasked]]
  /\ busy = {"nearby"}
  /\ lookup = LookUpUnnamed(url, NoLookup)
  /\ dismissed = "no" /\ moves = 0

Move == moves < MaxMoves /\ moves' = moves + 1

-----------------------------------------------------------------------------
(* What the browser and the API answer.                                    *)
FuelTypesAnswered(result) ==
  /\ fuelTypes = "loading" /\ fuelTypes' = result
  /\ UNCHANGED <<url, nextUrl, ends, picking, device, dismissed, moves>>
  /\ Rendered({}, panel, lookup, planned)

(* Without a position the page stays at the fallback.                      *)
Located(p) ==
  /\ Move /\ device = Fallback /\ device' = p
  /\ UNCHANGED <<url, nextUrl, ends, picking, fuelTypes, dismissed>>
  /\ Rendered({}, panel, lookup, planned)

UrlReplaced ==
  /\ url # nextUrl /\ url' = nextUrl
  /\ UNCHANGED <<nextUrl, ends, picking, device, fuelTypes, dismissed, moves>>
  /\ Rendered({}, panel, lookup, planned)

(* A request ends.  One for the map that fails leaves what is shown, and   *)
(* after a failed plan the route in the URL has its one try.               *)
Land(f, what) ==
  LET shown == IF what = "error" /\ f.slot = "bbox"
               THEN [panel EXCEPT !["bbox"].what = IF @ = "nothing" THEN @ ELSE "kept"]
               ELSE [panel EXCEPT ![f.slot] = [what |-> what, q |-> f.q]]
  IN
  /\ f \in flights
  /\ UNCHANGED <<url, nextUrl, ends, picking, device, fuelTypes, dismissed, moves>>
  /\ RenderedAfter(flights \ {f}, busy \ {f.slot}, {}, shown, lookup, planned)

(* The name of an end found in the URL goes to the state, if that has no   *)
(* end yet; that of a picked end goes with both ends, as they were when it *)
(* was picked, into the URL as it was then.  A name may be too long for    *)
(* the URL.                                                                *)
NameAnswered(short) ==
  /\ lookup # NoLookup
  /\ IF lookup.base = <<>>
     THEN /\ ends' = [ends EXCEPT ![lookup.end] = IF @ = NoPlace THEN lookup.at ELSE @]
          /\ UNCHANGED <<url, nextUrl>>
     ELSE /\ ends' = [e \in End |-> IF e = lookup.end THEN lookup.at ELSE lookup.other]
          /\ ReplaceUrl([lookup.base EXCEPT
               !.place = NoPlace, !.from = ends'["from"], !.to = ends'["to"],
               !.named = IF short THEN @ \cup {lookup.end} ELSE @ \ {lookup.end}])
  /\ UNCHANGED <<picking, device, fuelTypes, dismissed, moves>>
  /\ Rendered({}, panel, NoLookup, planned)

NameFailed ==
  /\ lookup # NoLookup /\ lookup' = NoLookup
  /\ UNCHANGED <<url, nextUrl, ends, picking, planned, device, fuelTypes, asked,
                 flights, panel, busy, dismissed, moves>>

-----------------------------------------------------------------------------
(* What the user does.                                                     *)
ChangeFuel(f) ==
  /\ Move /\ fuelTypes = "loaded"
  /\ ReplaceUrl([url EXCEPT !.fuel = f])
  /\ UNCHANGED <<ends, picking, device, fuelTypes, dismissed>>
  /\ Rendered({}, panel, lookup, planned)

(* A route that was done away with may come back: a request for it goes    *)
(* on, and a URL that holds both ends, or gets them when a picked end has  *)
(* its name, is planned unless that was tried.                             *)
ComesBack(tried) ==
  \/ \E f \in flights : f.slot = "route"
  \/ ~tried /\ (Whole(url) \/ lookup.base # <<>>)
Dismissed(tried) == dismissed' = IF ComesBack(tried) THEN "hastily" ELSE "cleanly"

\* A faulty SelectMapPlace: as when a route is cleared, it may be planned anew.
SelectMapPlaceAnew(p) ==
  /\ Move
  /\ ReplaceUrl(IF p = NoPlace THEN [url EXCEPT !.place = NoPlace]
                ELSE [url EXCEPT !.place = p, !.from = NoPlace, !.to = NoPlace, !.named = {}])
  /\ ends' = IF p = NoPlace THEN ends ELSE NoEnds
  /\ IF p = NoPlace THEN UNCHANGED dismissed ELSE Dismissed(planned)
  /\ UNCHANGED <<picking, device, fuelTypes>>
  /\ Rendered({}, IF p # NoPlace /\ panel["route"].what = "answer"
                  THEN Empty(panel, "route") ELSE panel, lookup, FALSE)

(* A place chosen on the map ends the route, and one that is cleared does  *)
(* not bring it back.                                                      *)
SelectMapPlace(p) ==
  /\ Move
  /\ ReplaceUrl(IF p = NoPlace THEN [url EXCEPT !.place = NoPlace]
                ELSE [url EXCEPT !.place = p, !.from = NoPlace, !.to = NoPlace, !.named = {}])
  /\ ends' = IF p = NoPlace THEN ends ELSE NoEnds
  /\ IF p = NoPlace THEN UNCHANGED dismissed ELSE Dismissed(planned)
  /\ UNCHANGED <<picking, device, fuelTypes>>
  /\ Rendered({}, IF p # NoPlace /\ panel["route"].what = "answer"
                  THEN Empty(panel, "route") ELSE panel, lookup, planned)

(* syncRouteUrl: both ends into the state and the URL, the place out of it *)
SyncRouteUrl(at, named) ==
  /\ ends' = at
  /\ ReplaceUrl([url EXCEPT !.place = NoPlace, !.from = at["from"], !.to = at["to"],
                            !.named = {e \in named : at[e] # NoPlace}])

Shown == [e \in End |-> Effective(url, ends, e)]

(* An end is the result of a search, with a name short enough or not, or   *)
(* the user's own position, without one.                                   *)
SetEnd(e, p, short) ==
  /\ Move
  /\ SyncRouteUrl([Shown EXCEPT ![e] = p],
                  IF short THEN url.named \cup {e} ELSE url.named \ {e})
  /\ picking' = "none" /\ dismissed' = "no"
  /\ UNCHANGED <<device, fuelTypes>>
  /\ Rendered({}, panel, lookup, planned)

(* Picking on the map begins, for the one end or the other, or is called   *)
(* off.                                                                    *)
StartPick(e) ==
  /\ Move /\ picking # e /\ picking' = e
  /\ UNCHANGED <<url, nextUrl, ends, device, fuelTypes, dismissed>>
  /\ Rendered({}, panel, lookup, planned)

(* A click on the map picks the end, with its coordinates for a name, and  *)
(* the name is looked up.                                                  *)
PickOnMap(p) ==
  /\ Move /\ picking # "none" /\ picking' = "none" /\ dismissed' = "no"
  /\ SyncRouteUrl([Shown EXCEPT ![picking] = p], url.named \cup {picking})
  /\ UNCHANGED <<device, fuelTypes>>
  /\ Rendered({}, panel,
       [end |-> picking, at |-> p, base |-> url,
        other |-> Shown[CHOOSE e \in End : e # picking]], planned)

PlanRoute ==
  LET fuel == SelectedFuel(url, fuelTypes = "loaded") IN
  /\ Move /\ "route" \notin busy /\ fuel # NoFuel /\ \A e \in End : Shown[e] # NoPlace
  /\ SyncRouteUrl(Shown, url.named) /\ dismissed' = "no"
  /\ UNCHANGED <<picking, device, fuelTypes>>
  /\ Rendered({[slot |-> "route", q |-> Asking(Shown["from"], Shown["to"], fuel)]},
              IF panel["route"].what = "error" THEN Empty(panel, "route") ELSE panel,
              lookup, planned)

(* The route is cleared and may be planned once more, at once while the    *)
(* URL still holds it.                                                     *)
ClearRoute ==
  /\ Move /\ \A e \in End : Shown[e] # NoPlace
  /\ SyncRouteUrl(NoEnds, {}) /\ Dismissed(FALSE)
  /\ UNCHANGED <<picking, device, fuelTypes>>
  /\ Rendered({}, Empty(panel, "route"), lookup, FALSE)

(* The map has come to rest, and both delays are over.                     *)
MoveMap(p) ==
  /\ Move
  /\ UNCHANGED <<url, nextUrl, ends, picking, device, fuelTypes, dismissed>>
  /\ Rendered({[slot |-> "bbox",
                 q |-> Asking(p, NoPlace, SelectedFuel(url, fuelTypes = "loaded"))]},
              panel, lookup, planned)

RequestEnds == \E f \in flights, what \in {"answer", "error"} : Land(f, what)

ExplorerStep ==
  \/ \E r \in {"loaded", "failed"} : FuelTypesAnswered(r)
  \/ UrlReplaced
  \/ RequestEnds
  \/ \E short \in BOOLEAN : NameAnswered(short)
  \/ NameFailed

ExplorerMove ==
  \/ \E p \in Place : Located(p) \/ PickOnMap(p) \/ MoveMap(p)
  \/ \E f \in Fuel \cup {NoFuel} : ChangeFuel(f)
  \/ \E p \in Place \cup {NoPlace} : SelectMapPlace(p)
  \/ \E e \in End, p \in Place, short \in BOOLEAN : SetEnd(e, p, short)
  \/ \E e \in End \cup {"none"} : StartPick(e)
  \/ PlanRoute \/ ClearRoute

ExplorerNext == ExplorerStep \/ ExplorerMove

-----------------------------------------------------------------------------
ExplorerTypeOK ==
  /\ url \in Url /\ nextUrl \in Url
  /\ ends \in [End -> Place \cup {NoPlace}]
  /\ picking \in End \cup {"none"} /\ planned \in BOOLEAN
  /\ device \in Place /\ fuelTypes \in {"loading", "loaded", "failed"}
  /\ asked \in [Slot -> PageQuestion]
  /\ flights \subseteq [slot : Slot, q : PageQuestion]
  /\ panel \in [Slot -> [what : {"nothing", "answer", "error", "kept"}, q : PageQuestion]]
  /\ busy \subseteq Slot \ {"bbox"} /\ dismissed \in {"no", "hastily", "cleanly"}

(* The page shows answers to what it asked last, and the nearby stations   *)
(* for the filters it shows: no earlier answer comes after a later         *)
(* question, and a panel that says it is loading has a request under way   *)
(* (docs/frontend.md:62 "GET /stations/nearby powers the ranked list").  A *)
(* route that the user did away with stays away: neither shown nor asked   *)
(* for until the user names an end or plans again.  The code keeps to that *)
(* only of a route that nothing brings back at that moment (ComesBack):    *)
(* else the late answer, or the URL not replaced yet, does.                *)
PageAnswersLastQuestion ==
  /\ \A s \in Slot : panel[s].what = "answer" /\ (\A f \in flights : f.slot # s)
                     => panel[s].q = asked[s]
  /\ asked["nearby"] = NearbyQuestion
  /\ busy = {f.slot : f \in flights} \ {"bbox"}
  /\ dismissed = "cleanly" => /\ panel["route"].what # "answer"
                              /\ \A f \in flights : f.slot # "route"
=============================================================================
