----------------------------- MODULE FuelEuProofs -----------------------------
(***************************************************************************)
(* What the parts that answer people promise, as theorems of the           *)
(* specification that the run checks, for any places, filters, texts,      *)
(* users, stations, callers and clients, and however many events there     *)
(* are.  The pages of the web application are proved here, with the types  *)
(* of their state; search, routes, sessions, the interval to Nominatim and *)
(* imports in the modules this one extends, each for a step of its part.   *)
(* A step of the whole is one of a part and leaves the others alone        *)
(* (StepOfAPart).                                                          *)
(***************************************************************************)
EXTENDS FuelEu, SearchAndRouteProofs, ServicesProofs

-----------------------------------------------------------------------------
(* The map: a map that has its style and waits for no delay was announced. *)

MapInv == map \in {"loading", "loaded"} /\ timer \in BOOLEAN /\ ViewportIsTold

(* A rendering either leaves the map where it is or begins a new one.      *)
LEMMA RendersInv ==
  ASSUME MapInv, NEW new, Renders(new)
  PROVE  MapInv'
BY DEF MapInv, ViewportIsTold, Renders

(* Every step of the map keeps it.                                         *)
LEMMA MapNextInv == MapInv /\ [MapNext]_mapVars => MapInv'
<1> SUFFICES ASSUME MapInv, [MapNext]_mapVars PROVE MapInv'
  OBVIOUS
<1>1. CASE MapStep
  BY <1>1 DEF MapStep, StyleLoaded, EmitViewport, MapInv, ViewportIsTold
<1>2. ASSUME NEW p \in Point, MapMoved(p) PROVE MapInv'
  BY <1>2 DEF MapMoved, MapInv, ViewportIsTold
<1>3. ASSUME NEW p \in Point, NEW s \in Pin, ClickMap(p, s) PROVE MapInv'
  BY <1>3, RendersInv DEF ClickMap
<1>4. CASE PageGives
  BY <1>4, RendersInv DEF PageGives
<1>5. CASE UNCHANGED mapVars
  BY <1>5 DEF mapVars, MapInv, ViewportIsTold
<1> QED BY <1>1, <1>2, <1>3, <1>4, <1>5 DEF MapNext

-----------------------------------------------------------------------------
(* The field to search for a place.                                        *)

BoxInv == BoxAnswersLastSearch /\ hits.count \in Nat /\ activeIndex \in Nat

(* A search replaces the one before, or none begins.                       *)
LEMMA RunSearchInv ==
  ASSUME BoxInv, NEW text \in Text, RunSearch(text), UNCHANGED activeIndex
  PROVE  BoxInv'
<1> USE DEF BoxInv, BoxAnswersLastSearch, RunSearch, NoResults, Done
<1>1. CASE text \in TooShort
  BY <1>1
<1>2. CASE text \notin TooShort
  BY <1>2, PlaceSearchAssumption
<1> QED BY <1>1, <1>2

(* Every step of the field keeps it.                                       *)
LEMMA BoxNextInv == SearchBoxTypeOK /\ BoxInv /\ [SearchBoxNext]_boxVars => BoxInv'
<1> SUFFICES ASSUME SearchBoxTypeOK, BoxInv, [SearchBoxNext]_boxVars PROVE BoxInv'
  OBVIOUS
<1>1. CASE DelayOver
  BY <1>1, RunSearchInv DEF DelayOver, SearchBoxTypeOK
<1>2. CASE Submit
  BY <1>2, RunSearchInv DEF Submit, SearchBoxTypeOK
<1>3. ASSUME NEW text \in searching PROVE wanted = text /\ wanted # NoText
  BY <1>3, PlaceSearchAssumption DEF SearchBoxTypeOK, BoxInv, BoxAnswersLastSearch
<1> USE DEF BoxInv, BoxAnswersLastSearch, NoResults, EndSearch, Done
<1>4. ASSUME NEW text \in searching, NEW n \in 0..2, SearchAnswered(text, n) PROVE BoxInv'
  BY <1>3, <1>4 DEF SearchAnswered
<1>5. ASSUME NEW text \in searching, SearchFailed(text) PROVE BoxInv'
  BY <1>3, <1>5 DEF SearchFailed
<1>6. ASSUME NEW text \in Text, Type(text) \/ Select(text) PROVE BoxInv'
  BY <1>6 DEF Type, Select
<1>7. CASE Clear
  BY <1>7 DEF Clear
<1>8. ASSUME NEW key \in {"Escape", "ArrowDown", "ArrowUp"}, HandleKeyDown(key) PROVE BoxInv'
  <2>1. UNCHANGED <<searching, hits, status, wanted>>
    BY <1>8 DEF HandleKeyDown
  <2>2. activeIndex' = IF key = "Escape" \/ hits.count = 0 THEN 0
                       ELSE IF key = "ArrowDown"
                       THEN IF activeIndex >= hits.count THEN 1 ELSE activeIndex + 1
                       ELSE IF activeIndex <= 1 THEN hits.count ELSE activeIndex - 1
    BY <1>8 DEF HandleKeyDown
  <2>3. /\ activeIndex' \in Nat /\ (hits.count > 0 => activeIndex' <= hits.count)
        /\ hits.count = 0 => activeIndex' = 0
    <3>1. activeIndex \in Nat /\ hits.count \in Nat
      OBVIOUS
    <3>2. PICK at, count : at = activeIndex /\ count = hits.count
      OBVIOUS
    <3> HIDE DEF BoxInv, BoxAnswersLastSearch, NoResults, EndSearch, Done
    <3>3. /\ activeIndex' \in Nat /\ (count > 0 => activeIndex' <= count)
          /\ count = 0 => activeIndex' = 0
      <4>1. at \in Nat /\ count \in Nat
        BY <3>1, <3>2
      <4>2. CASE activeIndex' = 0 /\ (key = "Escape" \/ count = 0)
        BY <4>1, <4>2
      <4>3. CASE activeIndex' = (IF at >= count THEN 1 ELSE at + 1) /\ count # 0
        BY <4>1, <4>3
      <4>4. CASE activeIndex' = (IF at <= 1 THEN count ELSE at - 1) /\ count # 0 /\ at <= 2
        BY <4>1, <4>4
      <4>5. at <= 2
        BY <3>2 DEF SearchBoxTypeOK
      <4> QED BY <2>2, <3>2, <4>2, <4>3, <4>4, <4>5
    <3> QED BY <3>2, <3>3
  <2>4. ~isOpen /\ hits.count = 0 => ~isOpen'
    BY <1>8 DEF HandleKeyDown, SearchBoxTypeOK
  <2> QED BY <2>1, <2>2, <2>3, <2>4
<1>9. CASE UNCHANGED boxVars
  BY <1>9 DEF boxVars
<1> QED
  BY <1>1, <1>2, <1>4, <1>5, <1>6, <1>7, <1>8, <1>9 DEF SearchBoxNext, SearchBoxStep

-----------------------------------------------------------------------------
(* The main page: one request of a slot counts, the one asked last.        *)

IsRequest(f) == f = [slot |-> f.slot, q |-> f.q] /\ f.slot \in Slot

IsPanel(shown) ==
  /\ shown = [s \in Slot |-> shown[s]]
  /\ \A s \in Slot : shown[s] = [what |-> shown[s].what, q |-> shown[s].q]

(* The requests under, the slots that wait for them and what is shown fit. *)
Fits(under, waiting, shown) ==
  /\ \A f \in under : IsRequest(f) /\ f.q = asked[f.slot]
  /\ IsPanel(shown)
  /\ \A s \in Slot : shown[s].what = "answer" /\ (\A f \in under : f.slot # s)
                     => shown[s].q = asked[s]
  /\ waiting = {f.slot : f \in under} \ {"bbox"}

(* No route is asked for or shown, and none will be by itself.             *)
Gone(under, shown, tried, started) ==
  /\ \A f \in under : f.slot # "route"
  /\ shown["route"].what # "answer"
  /\ tried \/ (started.base = <<>> /\ ~Whole(url) /\ ~Whole(nextUrl))

PageInv ==
  /\ Fits(flights, busy, panel)
  /\ asked["nearby"] = NearbyQuestion
  /\ dismissed = "cleanly" => Gone(flights, panel, planned, lookup)

(* What a slot shows may be taken away.                                    *)
LEMMA EmptyFits ==
  ASSUME NEW under, NEW waiting, NEW shown, Fits(under, waiting, shown), NEW s \in Slot
  PROVE  Fits(under, waiting, Empty(shown, s))
BY DEF Fits, IsPanel, Empty

(* New requests, one of a slot, overtake those under way.                  *)
LEMMA NewRequests ==
  ASSUME NEW under, NEW waiting, NEW shown, Fits(under, waiting, shown),
         NEW new, \A f \in new : IsRequest(f),
         \A f, g \in new : f.slot = g.slot => f = g,
         flights' = CallOff(under, new) \cup new,
         asked' = [s \in Slot |-> IF \E f \in new : f.slot = s
                                  THEN (CHOOSE f \in new : f.slot = s).q ELSE asked[s]],
         panel' = shown, busy' = waiting \cup ({f.slot : f \in new} \ {"bbox"})
  PROVE  Fits(flights, busy, panel)'
<1>1. \A f \in new : asked'[f.slot] = f.q
  <2> SUFFICES ASSUME NEW f \in new PROVE asked'[f.slot] = f.q
    OBVIOUS
  <2>1. (CHOOSE g \in new : g.slot = f.slot) = f
    OBVIOUS
  <2> QED BY <2>1 DEF IsRequest
<1>2. \A s \in Slot : (\A f \in new : f.slot # s) => asked'[s] = asked[s]
  OBVIOUS
<1>3. \A f \in flights' : IsRequest(f) /\ f.q = asked'[f.slot]
  BY <1>1, <1>2 DEF CallOff, Fits, IsRequest
<1>4. IsPanel(panel')
  BY DEF Fits
<1>5. ASSUME NEW s \in Slot, panel'[s].what = "answer", \A f \in flights' : f.slot # s
      PROVE  panel'[s].q = asked'[s]
  <2>1. \A f \in new : f.slot # s
    BY <1>5
  <2>2. \A f \in under : f.slot # s
    BY <1>5, <2>1 DEF CallOff
  <2> QED BY <1>2, <1>5, <2>1, <2>2 DEF Fits
<1>6. busy' = {f.slot : f \in flights'} \ {"bbox"}
  <2>1. waiting = {f.slot : f \in under} \ {"bbox"}
    BY DEF Fits
  <2>2. {f.slot : f \in flights'} = {f.slot : f \in under} \cup {f.slot : f \in new}
    BY DEF CallOff
  <2> QED BY <2>1, <2>2
<1> QED BY <1>3, <1>4, <1>5, <1>6 DEF Fits, IsPanel

(* A rendering asks for the nearby stations when they are not those asked  *)
(* for, and for a route at most once; it asks for none where none will be. *)
LEMMA RenderedInv ==
  ASSUME NEW under, NEW waiting, NEW shown, Fits(under, waiting, shown),
         NEW more, \A f \in more : IsRequest(f) /\ f.slot # "nearby",
         \A f, g \in more : f = g, NEW started, NEW tried,
         RenderedAfter(under, waiting, more, shown, started, tried),
         /\ dismissed' = "cleanly"
         => /\ \A f \in under \cup more : f.slot # "route"
            /\ shown["route"].what # "answer"
            /\ tried \/ (started.base = <<>> /\ ~Whole(url') /\ ~Whole(nextUrl'))
  PROVE  PageInv'
<1> DEFINE here == [slot |-> "nearby", q |-> NearbyQuestion']
           whole == [slot |-> "route", q |-> Asking(url'.from, url'.to, here.q.fuel)]
           plans == /\ ~tried /\ Whole(url') /\ here.q.fuel # NoFuel
                    /\ shown["route"].what # "answer"
                    /\ "route" \notin waiting \cup {w.slot : w \in more}
           new == more \cup (IF here.q = asked["nearby"] THEN {} ELSE {here})
                         \cup (IF plans THEN {whole} ELSE {})
           display == IF plans THEN Empty(shown, "route") ELSE shown
<1>1. /\ asked' = [s \in Slot |-> IF \E f \in new : f.slot = s
                                  THEN (CHOOSE f \in new : f.slot = s).q ELSE asked[s]]
      /\ flights' = CallOff(under, new) \cup new
      /\ panel' = display
      /\ busy' = waiting \cup ({f.slot : f \in new} \ {"bbox"})
      /\ planned' = (tried \/ plans)
      /\ lookup' = LookUpUnnamed(url', started)
  BY DEF RenderedAfter
<1>2. /\ here.slot = "nearby" /\ here.q = NearbyQuestion' /\ whole.slot = "route"
      /\ IsRequest(here) /\ IsRequest(whole)
  BY DEF IsRequest, Slot
<1>3. plans => ~tried /\ Whole(url') /\ \A f \in more : f.slot # "route"
  OBVIOUS
<1>4. \A f \in new : f \in more \/ (f = here /\ here.q # asked["nearby"]) \/ (f = whole /\ plans)
  OBVIOUS
<1>5. here.q # asked["nearby"] => here \in new
  OBVIOUS
<1>6. Fits(under, waiting, display) /\ (~plans => display = shown)
  BY EmptyFits DEF Slot
<1> HIDE DEF here, whole, plans, new, display
<1>7. \A f \in new : IsRequest(f)
  BY <1>2, <1>4
<1>8. \A f, g \in new : f.slot = g.slot => f = g
  BY <1>2, <1>3, <1>4
<1>9. asked'["nearby"] = NearbyQuestion'
  <2>1. "nearby" \in Slot
    BY DEF Slot
  <2>2. CASE here.q = asked["nearby"]
    BY <1>1, <1>2, <1>4, <2>1, <2>2
  <2>3. CASE here.q # asked["nearby"]
    <3>1. (CHOOSE f \in new : f.slot = "nearby") = here
      BY <1>2, <1>5, <1>8, <2>3
    <3> QED BY <1>1, <1>2, <1>5, <2>1, <2>3, <3>1
  <2> QED BY <2>2, <2>3
<1>10. Fits(flights, busy, panel)'
  BY <1>1, <1>6, <1>7, <1>8, NewRequests
<1>11. ASSUME dismissed' = "cleanly" PROVE Gone(flights, panel, planned, lookup)'
  <2>1. ~plans
    BY <1>3, <1>11
  <2>2. lookup'.base \in {<<>>, started.base}
    BY <1>1 DEF LookUpUnnamed, NoLookup
  <2>3. \A f \in flights' : f.slot # "route"
    BY <1>1, <1>2, <1>4, <1>11, <2>1 DEF CallOff
  <2> QED BY <1>1, <1>6, <1>11, <2>1, <2>2, <2>3 DEF Gone, Whole
<1> QED BY <1>9, <1>10, <1>11 DEF PageInv

(* A request that counts ends: it was the last of its slot.                *)
LEMMA LandInv ==
  ASSUME PageInv, NEW f, NEW what, Land(f, what)
  PROVE  PageInv'
<1> DEFINE shown == IF what = "error" /\ f.slot = "bbox"
                    THEN [panel EXCEPT !["bbox"].what = IF @ = "nothing" THEN @ ELSE "kept"]
                    ELSE [panel EXCEPT ![f.slot] = [what |-> what, q |-> f.q]]
           under == flights \ {f}
           waiting == busy \ {f.slot}
<1>1. /\ f \in flights /\ UNCHANGED <<url, nextUrl, dismissed>>
      /\ RenderedAfter(under, waiting, {}, shown, lookup, planned)
  BY DEF Land
<1>2. \A g \in flights : IsRequest(g) /\ g.q = asked[g.slot] /\ (g.slot = f.slot => g = f)
  BY <1>1 DEF PageInv, Fits, IsRequest
<1>3. /\ IsPanel(shown)
      /\ \A s \in Slot : s # f.slot => shown[s] = panel[s]
      /\ shown[f.slot].what = "answer" => shown[f.slot].q = f.q
  <2>1. f.slot \in Slot /\ IsPanel(panel)
    BY <1>1, <1>2 DEF PageInv, Fits, IsRequest
  <2>2. CASE what = "error" /\ f.slot = "bbox"
    <3>1. PICK w : w # "answer" /\ w = IF panel["bbox"].what = "nothing" THEN "nothing" ELSE "kept"
      OBVIOUS
    <3>2. [panel["bbox"] EXCEPT !.what = w] = [what |-> w, q |-> panel["bbox"].q]
      BY <2>1, <2>2 DEF IsPanel
    <3>3. shown = [panel EXCEPT !["bbox"] = [what |-> w, q |-> panel["bbox"].q]]
      BY <2>2, <3>1, <3>2
    <3> HIDE DEF shown
    <3> QED BY <2>1, <2>2, <3>1, <3>3 DEF IsPanel
  <2>3. CASE ~(what = "error" /\ f.slot = "bbox")
    BY <2>1, <2>3 DEF IsPanel
  <2> QED BY <2>2, <2>3
<1> HIDE DEF shown
<1>4. Fits(under, waiting, shown)
  <2>1. \A g \in under : IsRequest(g) /\ g.q = asked[g.slot]
    BY <1>2
  <2>2. ASSUME NEW s \in Slot, shown[s].what = "answer", \A g \in under : g.slot # s
        PROVE  shown[s].q = asked[s]
    <3>1. CASE s = f.slot
      BY <1>1, <1>2, <1>3, <2>2, <3>1
    <3>2. CASE s # f.slot
      BY <1>1, <1>3, <2>2, <3>2 DEF PageInv, Fits
    <3> QED BY <3>1, <3>2
  <2>3. waiting = {g.slot : g \in under} \ {"bbox"}
    <3>1. {g.slot : g \in under} = {g.slot : g \in flights} \ {f.slot}
      BY <1>1, <1>2
    <3> QED BY <3>1 DEF PageInv, Fits
  <2> QED BY <1>3, <2>1, <2>2, <2>3 DEF Fits
<1>5. dismissed' = "cleanly"
      => /\ \A g \in under \cup {} : g.slot # "route"
         /\ shown["route"].what # "answer"
         /\ planned \/ (lookup.base = <<>> /\ ~Whole(url') /\ ~Whole(nextUrl'))
  BY <1>1, <1>3 DEF PageInv, Gone, Whole, Slot
<1> HIDE DEF under, waiting
<1> QED BY <1>1, <1>4, <1>5, RenderedInv

(* A rendering after an event that asks for nothing of its own, and leaves *)
(* a route that is gone as it is.                                          *)
LEMMA PlainRendering ==
  ASSUME PageInv, NEW shown \in {panel, Empty(panel, "route")}, NEW started, NEW tried,
         Rendered({}, shown, started, tried),
         dismissed' = "cleanly"
         => /\ \A f \in flights : f.slot # "route"
            /\ shown["route"].what # "answer"
            /\ tried \/ (started.base = <<>> /\ ~Whole(url') /\ ~Whole(nextUrl'))
  PROVE  PageInv'
<1>1. Fits(flights, busy, shown)
  BY EmptyFits DEF PageInv, Slot
<1>2. RenderedAfter(flights, busy, {}, shown, started, tried)
  BY DEF Rendered
<1> QED BY <1>1, <1>2, RenderedInv

(* The same with a request for the map or for a route.                     *)
LEMMA AskingRendering ==
  ASSUME PageInv, NEW shown \in {panel, Empty(panel, "route")}, NEW started, NEW tried,
         NEW slot \in {"bbox", "route"}, NEW q,
         Rendered({[slot |-> slot, q |-> q]}, shown, started, tried),
         dismissed' = "cleanly"
         => /\ \A f \in flights : f.slot # "route"
            /\ slot # "route" /\ shown["route"].what # "answer"
            /\ tried \/ (started.base = <<>> /\ ~Whole(url') /\ ~Whole(nextUrl'))
  PROVE  PageInv'
<1>1. PICK f : f = [slot |-> slot, q |-> q]
  OBVIOUS
<1>2. IsRequest(f) /\ f.slot # "nearby" /\ f.slot = slot
  BY <1>1 DEF IsRequest, Slot
<1>3. PICK more : more = {f}
  OBVIOUS
<1>4. RenderedAfter(flights, busy, more, shown, started, tried)
  BY <1>1, <1>3 DEF Rendered
<1>5. /\ \A g \in more : IsRequest(g) /\ g.slot # "nearby"
      /\ \A g, h \in more : g = h
      /\ dismissed' = "cleanly" => \A g \in flights \cup more : g.slot # "route"
  BY <1>2, <1>3
<1>6. Fits(flights, busy, shown)
  BY EmptyFits DEF PageInv, Slot
<1> QED BY <1>4, <1>5, <1>6, RenderedInv

(* A route that is gone stays so where a URL without a route is asked for, *)
(* or the one asked for is rendered.                                       *)
LEMMA StaysGone ==
  ASSUME PageInv, UNCHANGED dismissed,
         url' \in {url, nextUrl},
         nextUrl' = nextUrl \/ (nextUrl'.from = url.from /\ nextUrl'.to = url.to)
  PROVE  dismissed' = "cleanly"
         => /\ \A f \in flights : f.slot # "route"
            /\ panel["route"].what # "answer"
            /\ planned \/ (lookup.base = <<>> /\ ~Whole(url') /\ ~Whole(nextUrl'))
BY DEF PageInv, Gone, Whole

(* Every step of the page keeps it.                                        *)
LEMMA PageNextInv == url \in Url /\ PageInv /\ [ExplorerNext]_pageVars => PageInv'
<1> SUFFICES ASSUME url \in Url, PageInv, [ExplorerNext]_pageVars PROVE PageInv'
  OBVIOUS
<1>1. ASSUME NEW r \in {"loaded", "failed"}, FuelTypesAnswered(r) PROVE PageInv'
  BY <1>1, PlainRendering, StaysGone DEF FuelTypesAnswered
<1>2. CASE UrlReplaced
  BY <1>2, PlainRendering, StaysGone DEF UrlReplaced
<1>3. CASE RequestEnds
  BY <1>3, LandInv DEF RequestEnds
<1>4. ASSUME NEW short \in BOOLEAN, NameAnswered(short) PROVE PageInv'
  <2>1. dismissed' = "cleanly"
        => /\ \A f \in flights : f.slot # "route"
           /\ panel["route"].what # "answer"
           /\ planned \/ (NoLookup.base = <<>> /\ ~Whole(url') /\ ~Whole(nextUrl'))
    BY <1>4 DEF NameAnswered, PageInv, Gone, NoLookup, Whole
  <2> QED BY <1>4, <2>1, PlainRendering DEF NameAnswered
<1>5. CASE NameFailed
  <2>1. UNCHANGED <<url, nextUrl, ends, planned, device, fuelTypes, asked, flights, panel, busy,
                    dismissed>> /\ lookup'.base = <<>>
    BY <1>5 DEF NameFailed, NoLookup
  <2> QED
    BY <2>1
    DEF PageInv, Fits, Gone, Whole, IsPanel, IsRequest, NearbyQuestion, SearchCenter,
        Effective, SelectedFuel
<1>6. CASE UNCHANGED pageVars
  BY <1>6
  DEF pageVars, PageInv, Fits, Gone, Whole, IsPanel, IsRequest, NearbyQuestion, SearchCenter,
      Effective, SelectedFuel
<1>7. ASSUME NEW p \in Place, Located(p) PROVE PageInv'
  BY <1>7, PlainRendering, StaysGone DEF Located
<1>8. ASSUME NEW p \in Place, PickOnMap(p) PROVE PageInv'
  BY <1>8, PlainRendering DEF PickOnMap
<1>9. ASSUME NEW p \in Place, MoveMap(p) PROVE PageInv'
  BY <1>9, AskingRendering, StaysGone DEF MoveMap
<1>10. ASSUME NEW f \in Fuel \cup {NoFuel}, ChangeFuel(f) PROVE PageInv'
  <2>1. url' = url /\ nextUrl' = [url EXCEPT !.fuel = f] /\ UNCHANGED dismissed
    BY <1>10 DEF ChangeFuel, ReplaceUrl
  <2>2. nextUrl'.from = url.from /\ nextUrl'.to = url.to
    BY <2>1 DEF Url
  <2> QED BY <1>10, <2>1, <2>2, PlainRendering, StaysGone DEF ChangeFuel
<1>11. ASSUME NEW p \in Place \cup {NoPlace}, SelectMapPlace(p) PROVE PageInv'
  <2>1. CASE p = NoPlace
    <3>1. /\ url' = url /\ nextUrl' = [url EXCEPT !.place = NoPlace] /\ UNCHANGED dismissed
          /\ Rendered({}, panel, lookup, planned)
      BY <1>11, <2>1 DEF SelectMapPlace, ReplaceUrl
    <3>2. nextUrl'.from = url.from /\ nextUrl'.to = url.to
      BY <3>1 DEF Url
    <3> QED BY <3>1, <3>2, PlainRendering, StaysGone
  <2>2. CASE p # NoPlace
    <3> DEFINE shown == IF panel["route"].what = "answer" THEN Empty(panel, "route") ELSE panel
    <3>1. /\ url' = url
          /\ nextUrl' = [url EXCEPT !.place = p, !.from = NoPlace, !.to = NoPlace, !.named = {}]
          /\ Dismissed(planned) /\ Rendered({}, shown, lookup, planned)
      BY <1>11, <2>2 DEF SelectMapPlace, ReplaceUrl
    <3>2. ~Whole(nextUrl')
      BY <3>1 DEF Whole, Url
    <3>3. shown["route"].what # "answer" /\ shown \in {panel, Empty(panel, "route")}
      BY DEF Empty, PageInv, Fits, IsPanel, Slot
    <3>4. dismissed' = "cleanly"
          => /\ \A f \in flights : f.slot # "route"
             /\ planned \/ (lookup.base = <<>> /\ ~Whole(url') /\ ~Whole(nextUrl'))
      BY <3>1, <3>2 DEF Dismissed, ComesBack
    <3> HIDE DEF shown
    <3> QED BY <3>1, <3>3, <3>4, PlainRendering
  <2> QED BY <2>1, <2>2
<1>12. ASSUME NEW e \in End, NEW p \in Place, NEW short \in BOOLEAN, SetEnd(e, p, short)
       PROVE  PageInv'
  BY <1>12, PlainRendering DEF SetEnd
<1>13. ASSUME NEW e \in End \cup {"none"}, StartPick(e) PROVE PageInv'
  BY <1>13, PlainRendering, StaysGone DEF StartPick
<1>14. CASE PlanRoute
  <2>1. CASE panel["route"].what = "error"
    BY <1>14, <2>1, AskingRendering DEF PlanRoute
  <2>2. CASE panel["route"].what # "error"
    BY <1>14, <2>2, AskingRendering DEF PlanRoute
  <2> QED BY <2>1, <2>2
<1>15. CASE ClearRoute
  <2> DEFINE shown == Empty(panel, "route")
  <2>1. /\ url' = url /\ Dismissed(FALSE) /\ Rendered({}, shown, lookup, FALSE)
        /\ nextUrl' = [url EXCEPT !.place = NoPlace, !.from = NoEnds["from"],
                                  !.to = NoEnds["to"], !.named = {e \in {} : NoEnds[e] # NoPlace}]
    BY <1>15 DEF ClearRoute, SyncRouteUrl, ReplaceUrl
  <2>2. ~Whole(nextUrl')
    BY <2>1 DEF Whole, NoEnds, End, Url
  <2>3. shown["route"].what # "answer" /\ shown \in {panel, Empty(panel, "route")}
    BY DEF Empty, PageInv, Fits, IsPanel, Slot
  <2>4. dismissed' = "cleanly"
        => /\ \A f \in flights : f.slot # "route"
           /\ lookup.base = <<>> /\ ~Whole(url') /\ ~Whole(nextUrl')
    BY <2>1, <2>2 DEF Dismissed, ComesBack
  <2> HIDE DEF shown
  <2> QED BY <2>1, <2>3, <2>4, PlainRendering
<1> QED
  BY <1>1, <1>2, <1>3, <1>4, <1>5, <1>6, <1>7, <1>8, <1>9, <1>10, <1>11, <1>12, <1>13, <1>14, <1>15
  DEF ExplorerNext, ExplorerStep, ExplorerMove

-----------------------------------------------------------------------------
(* Who is signed in: the one call about it that is under way will tell the *)
(* page; and the favourites are known but for what changes of them.        *)

(* A call as the page makes it and the API answers it.                     *)
CallIs(c) ==
  /\ c = [kind |-> c.kind, user |-> c.user, station |-> c.station, remove |-> c.remove,
          served |-> c.served, result |-> c.result]
  /\ c.kind \in {"me", "load", "favorites", "login", "logout", "toggle", "save"}
  /\ c.user \in User \cup {NoUser}
  /\ c.kind = "toggle" => c.station \in Starred
  /\ c.result.user \in User \cup {NoUser} /\ c.result.favorites \subseteq Starred

AuthTypes == AuthTypeOK /\ \A c \in calls : CallIs(c)

AuthState == [status : {"loading", "anonymous", "authenticated"},
              user : User \cup {NoUser}, favorites : SUBSET Starred]

LEMMA CallIsOne ==
  ASSUME NEW kind \in {"me", "load", "favorites", "login", "logout", "toggle", "save"},
         NEW u \in User \cup {NoUser}, NEW s, NEW remove, kind = "toggle" => s \in Starred
  PROVE  CallIs(Call(kind, u, s, remove))
<1> DEFINE c == Call(kind, u, s, remove)
<1>1. /\ c.kind = kind /\ c.user = u /\ c.station = s
      /\ c.result.user = NoUser /\ c.result.favorites = {}
      /\ c = [kind |-> c.kind, user |-> c.user, station |-> c.station, remove |-> c.remove,
              served |-> c.served, result |-> c.result]
  BY DEF Call
<1> HIDE DEF c
<1>2. CallIs(c)
  BY <1>1 DEF CallIs
<1> QED BY <1>2 DEF c

Known ==
  /\ auth.user = cookie
  /\ auth.status = IF cookie = NoUser THEN "anonymous" ELSE "authenticated"

LeadsThere(c) ==
  /\ c.kind = "me" /\ c.served = TRUE =>
       c.result.user = cookie /\ (c.result.ok <=> cookie # NoUser)
  /\ c.kind = "load" => cookie # NoUser /\ c.user = cookie
  /\ c.kind = "login" => c.user \in User /\ IF c.served = TRUE THEN cookie = c.user ELSE Known
  /\ c.kind = "logout" => IF c.served = TRUE THEN cookie = NoUser ELSE Known

WhoInv ==
  "who" \notin doubt =>
    /\ \A c, d \in calls : Identity(c) /\ Identity(d) => c = d
    /\ (\A c \in calls : ~Identity(c)) => Known
    /\ \A c \in calls : LeadsThere(c)

LoginDone(c) == c.kind = "login" /\ c.served = TRUE
Changed(c) == c.kind = "toggle" /\ c.served = TRUE
Fetching(c) == c.kind \in {"me", "load", "favorites"} \/ LoginDone(c)

TellsFavorites(c) ==
  c.served = TRUE =>
    /\ c.kind \in {"load", "favorites", "toggle"} => c.result.ok
    /\ c.kind \in {"load", "favorites"} => c.result.favorites = FavoritesOf(cookie)

FavoritesInv ==
  /\ auth.status # "authenticated" => auth.favorites = {}
  /\ \A c, d \in calls : c.kind = "toggle" /\ d.kind = "toggle" /\ c.station = d.station => c = d
  /\ doubt = {} =>
       /\ \A c, d \in calls : Clash(c, d) => c = d
       /\ cookie # NoUser /\ (\A c \in calls : ~LoginDone(c)) =>
            \A c \in calls : TellsFavorites(c)
       /\ cookie # NoUser /\ (\A c \in calls : ~Fetching(c)) =>
            /\ \A c \in calls : Changed(c) => (c.station \in FavoritesOf(cookie) <=> ~c.remove)
            /\ \A s \in Starred : (\A c \in calls : ~(Changed(c) /\ c.station = s)) =>
                 (s \in auth.favorites <=> s \in FavoritesOf(cookie))

AuthInv == WhoInv /\ FavoritesInv

LEMMA ClashIs ==
  ASSUME NEW c, NEW d
  PROVE  Clash(c, d) <=> \/ c.kind = "favorites" /\ d.kind \in {"favorites", "toggle"}
                         \/ c.kind = "toggle" /\ d.kind \in {"favorites", "load"}
                         \/ c.kind = "load" /\ d.kind = "toggle"
BY DEF Clash

(* Calls that start without a doubt meet none they clash with.             *)
LEMMA NoMeeting ==
  ASSUME NEW rest, NEW next, Doubt(Meeting(rest, next))
  PROVE  /\ "who" \notin doubt' => /\ "who" \notin doubt
                                   /\ \A c \in next, d \in rest : ~(Identity(c) /\ Identity(d))
         /\ doubt' = {} => doubt = {} /\ \A c \in next, d \in rest : ~Clash(c, d)
<1>1. doubt' = doubt \cup Meeting(rest, next)
  BY DEF Doubt
<1>2. ASSUME NEW c \in next, NEW d \in rest
      PROVE  /\ Identity(c) /\ Identity(d) => "who" \in Meeting(rest, next)
             /\ Clash(c, d) => "favorites" \in Meeting(rest, next)
  BY DEF Meeting
<1>3. "who" \notin doubt' => "who" \notin doubt /\ "who" \notin Meeting(rest, next)
  BY <1>1
<1>4. doubt' = {} => doubt = {} /\ "favorites" \notin Meeting(rest, next)
  BY <1>1
<1> QED BY <1>2, <1>3, <1>4

(* While no user is fetched the page knows its user.                       *)
LEMMA KnownWhenSettled ==
  ASSUME WhoInv, "who" \notin doubt, cookie # NoUser,
         \A c \in calls : Identity(c) => ~Fetching(c)
  PROVE  Known
<1>1. CASE \A c \in calls : ~Identity(c)
  BY <1>1 DEF WhoInv
<1>2. ASSUME NEW c \in calls, Identity(c) PROVE Known
  BY <1>2 DEF WhoInv, Identity, Fetching, LoginDone, LeadsThere
<1> QED BY <1>1, <1>2

(* That is what the property says of a page without calls.                 *)
LEMMA AuthInvSuffices == AuthTypes /\ AuthInv => PageKnowsUser
<1> SUFFICES ASSUME AuthTypes, AuthInv PROVE PageKnowsUser
  OBVIOUS
<1>1. "who" \notin doubt /\ (\A c \in calls : ~Identity(c)) => Known
  BY DEF AuthInv, WhoInv
<1>2. ASSUME doubt = {}, calls = {} PROVE auth.favorites = FavoritesOf(cookie)
  <2>1. Known
    BY <1>1, <1>2
  <2>2. CASE cookie = NoUser
    <3>1. auth.favorites = {}
      BY <2>1, <2>2 DEF AuthInv, FavoritesInv, Known
    <3>2. FavoritesOf(cookie) = {}
      BY <2>2, SignedInAssumption DEF AuthTypes, AuthTypeOK, FavoritesOf
    <3> QED BY <3>1, <3>2
  <2>3. CASE cookie # NoUser
    <3>1. \A s \in Starred : s \in auth.favorites <=> s \in FavoritesOf(cookie)
      BY <1>2, <2>3 DEF AuthInv, FavoritesInv
    <3>2. auth.favorites \subseteq Starred /\ FavoritesOf(cookie) \subseteq Starred
      BY DEF AuthTypes, AuthTypeOK, FavoritesOf
    <3> QED BY <3>1, <3>2
  <2> QED BY <2>2, <2>3
<1> QED BY <1>1, <1>2 DEF PageKnowsUser, Known

(* A call that is served is as it was, with its answer.                    *)
LEMMA ServedIs ==
  ASSUME AuthTypes, NEW c \in calls, Serve(c)
  PROVE  /\ CallIs(c) /\ c.served # TRUE /\ UNCHANGED <<auth, doubt>>
         /\ \E d : /\ calls' = (calls \ {c}) \cup {d}
                   /\ d.kind = c.kind /\ d.user = c.user /\ d.station = c.station
                   /\ d.remove = c.remove /\ d.served = TRUE
                   /\ d.result.ok <=> (c.kind \in {"login", "logout"} \/ cookie # NoUser)
                   /\ d.result.user = cookie /\ d.result.favorites = FavoritesOf(cookie)
<1>1. CallIs(c) /\ c.served # TRUE /\ UNCHANGED <<auth, doubt>>
  BY DEF Serve, AuthTypes
<1>2. PICK ok : ok = (c.kind \in {"login", "logout"} \/ cookie # NoUser)
  OBVIOUS
<1> DEFINE d == [c EXCEPT !.served = TRUE,
                          !.result = [ok |-> ok, user |-> cookie,
                                      favorites |-> FavoritesOf(cookie)]]
<1>3. calls' = (calls \ {c}) \cup {d}
  BY <1>2, Zenon DEF Serve
<1>4. PICK x : x = d
  OBVIOUS
<1>5. /\ x.kind = c.kind /\ x.user = c.user /\ x.station = c.station
      /\ x.remove = c.remove /\ x.served = TRUE
      /\ x.result.ok = ok /\ x.result.user = cookie
      /\ x.result.favorites = FavoritesOf(cookie)
  BY <1>1, <1>4 DEF CallIs
<1>6. x.result.ok <=> (c.kind \in {"login", "logout"} \/ cookie # NoUser)
  BY <1>2, <1>5, Zenon
<1>7. calls' = (calls \ {c}) \cup {x}
  BY <1>3, <1>4
<1> HIDE DEF d
<1> QED BY <1>1, <1>5, <1>6, <1>7

(* The API serves a call.                                                  *)
LEMMA ServeInv ==
  ASSUME AuthTypes, AuthInv, NEW c \in calls, Serve(c)
  PROVE  AuthInv'
<1>1. /\ CallIs(c) /\ c.served # TRUE /\ auth' = auth /\ doubt' = doubt
      /\ NoUser \notin User /\ cookie \in User \cup {NoUser}
  BY ServedIs, SignedInAssumption DEF AuthTypes, AuthTypeOK
<1>2. PICK d : /\ calls' = (calls \ {c}) \cup {d}
               /\ d.kind = c.kind /\ d.user = c.user /\ d.station = c.station
               /\ d.remove = c.remove /\ d.served = TRUE
               /\ d.result.ok <=> (c.kind \in {"login", "logout"} \/ cookie # NoUser)
               /\ d.result.user = cookie /\ d.result.favorites = FavoritesOf(cookie)
  BY ServedIs
<1>3. cookie' = CASE c.kind = "login" -> c.user
                  [] c.kind = "logout" -> NoUser
                  [] OTHER -> cookie
  BY DEF Serve
<1>4. Identity(d) <=> Identity(c)
  BY <1>2 DEF Identity
<1>5. ASSUME "who" \notin doubt PROVE WhoInv'
  <2>1. /\ \A e, f \in calls : Identity(e) /\ Identity(f) => e = f
        /\ (\A e \in calls : ~Identity(e)) => Known
        /\ \A e \in calls : LeadsThere(e)
    BY <1>5 DEF AuthInv, WhoInv
  <2>2. \A e, f \in calls' : Identity(e) /\ Identity(f) => e = f
    BY <1>2, <1>4, <2>1
  <2>3. CASE Identity(c)
    <3>1. LeadsThere(d)'
      <4>1. LeadsThere(c)
        BY <2>1
      <4>2. CASE c.kind = "login"
        BY <1>2, <1>3, <4>1, <4>2 DEF LeadsThere
      <4>3. CASE c.kind = "logout"
        BY <1>2, <1>3, <4>3 DEF LeadsThere
      <4>4. CASE c.kind \in {"me", "load"}
        BY <1>2, <1>3, <4>1, <4>4 DEF LeadsThere
      <4> QED BY <2>3, <4>2, <4>3, <4>4 DEF Identity
    <3>2. \A e \in calls' : e = d \/ ~Identity(e)
      BY <1>2, <2>1, <2>3
    <3>3. \A e \in calls' : LeadsThere(e)'
      BY <3>1, <3>2 DEF Identity, LeadsThere
    <3> QED BY <1>2, <1>4, <2>2, <2>3, <3>3 DEF WhoInv
  <2>4. CASE ~Identity(c)
    <3>1. cookie' = cookie
      BY <1>3, <2>4 DEF Identity
    <3>2. Known' <=> Known
      BY <1>1, <3>1 DEF Known
    <3>3. \A e \in calls' : LeadsThere(e)'
      BY <1>2, <1>4, <2>1, <2>4, <3>1, <3>2 DEF Identity, LeadsThere
    <3>4. (\A e \in calls' : ~Identity(e)) => \A e \in calls : ~Identity(e)
      BY <1>2, <2>4
    <3> QED BY <2>1, <2>2, <3>2, <3>3, <3>4 DEF WhoInv
  <2> QED BY <2>3, <2>4
<1>6. FavoritesInv'
  <2>1. auth'.status # "authenticated" => auth'.favorites = {}
    BY <1>1 DEF AuthInv, FavoritesInv
  <2>2. \A e, f \in calls' : e.kind = "toggle" /\ f.kind = "toggle" /\ e.station = f.station => e = f
    BY <1>2 DEF AuthInv, FavoritesInv
  <2> SUFFICES ASSUME doubt = {}
               PROVE  /\ \A e, f \in calls' : Clash(e, f) => e = f
                      /\ cookie' # NoUser /\ (\A e \in calls' : ~LoginDone(e)) =>
                           \A e \in calls' : TellsFavorites(e)'
                      /\ cookie' # NoUser /\ (\A e \in calls' : ~Fetching(e)) =>
                           /\ \A e \in calls' : Changed(e) =>
                                (e.station \in FavoritesOf(cookie)' <=> ~e.remove)
                           /\ \A s \in Starred :
                                (\A e \in calls' : ~(Changed(e) /\ e.station = s)) =>
                                (s \in auth'.favorites <=> s \in FavoritesOf(cookie)')
    BY <1>1, <2>1, <2>2 DEF FavoritesInv
  <2>3. /\ \A e, f \in calls : Clash(e, f) => e = f
        /\ cookie # NoUser /\ (\A e \in calls : ~LoginDone(e)) =>
             \A e \in calls : TellsFavorites(e)
        /\ cookie # NoUser /\ (\A e \in calls : ~Fetching(e)) =>
             /\ \A e \in calls : Changed(e) => (e.station \in FavoritesOf(cookie) <=> ~e.remove)
             /\ \A s \in Starred : (\A e \in calls : ~(Changed(e) /\ e.station = s)) =>
                  (s \in auth.favorites <=> s \in FavoritesOf(cookie))
    BY DEF AuthInv, FavoritesInv
  <2>4. \A e, f \in calls' : Clash(e, f) => e = f
    BY <1>2, <2>3, ClashIs
  <2>5. CASE c.kind = "login"
    <3>1. d \in calls' /\ LoginDone(d)
      BY <1>2, <2>5 DEF LoginDone
    <3> QED BY <2>4, <3>1 DEF Fetching
  <2>6. CASE c.kind = "logout"
    BY <1>3, <2>4, <2>6
  <2>7. CASE c.kind \notin {"login", "logout"}
    <3>1. /\ cookie' = cookie /\ ~LoginDone(c) /\ ~LoginDone(d)
          /\ (Fetching(d) <=> Fetching(c)) /\ ~Changed(c)
      BY <1>1, <1>2, <1>3, <2>7 DEF LoginDone, Fetching, Changed
    <3>2. CASE c.kind # "toggle"
      <4>1. FavoritesOf(cookie)' = FavoritesOf(cookie)
        BY <3>1, <3>2 DEF Serve, FavoritesOf
      <4>2. cookie # NoUser => TellsFavorites(d)'
        BY <1>2, <2>7, <3>2, <4>1 DEF TellsFavorites
      <4>3. \A e \in calls' : e \in calls \/ e = d
        BY <1>2
      <4>4. \A e : TellsFavorites(e) => TellsFavorites(e)'
        BY <4>1 DEF TellsFavorites
      <4>5. cookie' # NoUser /\ (\A e \in calls' : ~LoginDone(e)) =>
              \A e \in calls' : TellsFavorites(e)'
        BY <1>2, <2>3, <3>1, <4>2, <4>3, <4>4
      <4>6. ~Changed(d)
        BY <1>2, <3>2 DEF Changed
      <4>7. (\A e \in calls' : ~Fetching(e)) => \A e \in calls : ~Fetching(e)
        BY <1>2, <3>1
      <4>8. ASSUME NEW s, \A e \in calls' : ~(Changed(e) /\ e.station = s)
            PROVE  \A e \in calls : ~(Changed(e) /\ e.station = s)
        BY <1>2, <3>1, <4>8
      <4> QED BY <1>1, <2>3, <2>4, <3>1, <4>1, <4>3, <4>5, <4>6, <4>7, <4>8
    <3>3. CASE c.kind = "toggle"
      <4>1. /\ Changed(d) /\ c.station \in Starred
            /\ cookie # NoUser =>
                 userFavorites' = IF c.remove THEN userFavorites \ {<<cookie, c.station>>}
                                  ELSE userFavorites \cup {<<cookie, c.station>>}
        BY <1>1, <1>2, <3>3 DEF Changed, CallIs, Serve
      <4>2. cookie # NoUser =>
              /\ c.station \in FavoritesOf(cookie)' <=> ~c.remove
              /\ \A s \in Starred : s # c.station =>
                   (s \in FavoritesOf(cookie)' <=> s \in FavoritesOf(cookie))
        BY <3>1, <4>1 DEF FavoritesOf
      <4>3. \A e \in calls : e.kind \notin {"load", "favorites"}
        BY <2>3, <3>3, ClashIs
      <4>4. \A e \in calls : TellsFavorites(e) => TellsFavorites(e)'
        BY <4>3 DEF TellsFavorites
      <4>5. cookie # NoUser => TellsFavorites(d)'
        BY <1>2, <3>3 DEF TellsFavorites
      <4>6. cookie' # NoUser /\ (\A e \in calls' : ~LoginDone(e)) =>
              \A e \in calls' : TellsFavorites(e)'
        BY <1>2, <2>3, <3>1, <4>4, <4>5
      <4>7. (\A e \in calls' : ~Fetching(e)) => \A e \in calls : ~Fetching(e)
        BY <1>2, <3>1
      <4>8. \A e \in calls \ {c} : Changed(e) => e.station # c.station
        BY <3>3 DEF Changed, AuthInv, FavoritesInv
      <4>9. ASSUME cookie' # NoUser, \A e \in calls' : ~Fetching(e)
            PROVE  \A e \in calls' : Changed(e) =>
                     (e.station \in FavoritesOf(cookie)' <=> ~e.remove)
        <5>1. \A e \in calls : Changed(e) => (e.station \in FavoritesOf(cookie) <=> ~e.remove)
          BY <2>3, <3>1, <4>7, <4>9
        <5>2. \A e \in calls : Changed(e) => e.station \in Starred
          BY DEF Changed, AuthTypes, CallIs
        <5>3. ASSUME NEW e \in calls \ {c}, Changed(e)
              PROVE  e.station \in FavoritesOf(cookie)' <=> ~e.remove
          BY <3>1, <4>2, <4>8, <4>9, <5>1, <5>2, <5>3
        <5>4. d.station \in FavoritesOf(cookie)' <=> ~d.remove
          BY <1>2, <3>1, <4>2, <4>9
        <5> QED BY <1>2, <5>3, <5>4
      <4>10. ASSUME cookie' # NoUser, \A e \in calls' : ~Fetching(e),
                    NEW s \in Starred, \A e \in calls' : ~(Changed(e) /\ e.station = s)
             PROVE  s \in auth'.favorites <=> s \in FavoritesOf(cookie)'
        <5>1. s # c.station
          BY <1>2, <4>1, <4>10
        <5>2. \A e \in calls : ~(Changed(e) /\ e.station = s)
          BY <1>2, <3>1, <4>10
        <5>3. s \in auth.favorites <=> s \in FavoritesOf(cookie)
          BY <2>3, <3>1, <4>7, <4>10, <5>2
        <5> QED BY <1>1, <3>1, <4>2, <4>10, <5>1, <5>3
      <4> QED BY <2>4, <4>6, <4>9, <4>10
    <3> QED BY <3>2, <3>3
  <2> QED BY <2>5, <2>6, <2>7
<1> QED BY <1>1, <1>5, <1>6 DEF AuthInv, WhoInv

(* What is left of the calls, and what starts, keeps who is signed in.     *)
LEMMA WhoKept ==
  ASSUME WhoInv, cookie' = cookie,
         NEW rest \in SUBSET calls, NEW next, calls' = rest \cup next, \A d, e \in next : d = e,
         "who" \notin doubt' =>
           /\ "who" \notin doubt
           /\ \A d \in next, e \in rest : ~(Identity(d) /\ Identity(e))
           /\ \A d \in next : LeadsThere(d)'
           /\ (Known => Known') \/ \A e \in rest : ~Identity(e)
           /\ (\A e \in calls' : ~Identity(e)) => Known'
  PROVE  WhoInv'
<1> SUFFICES ASSUME "who" \notin doubt'
             PROVE  /\ \A d, e \in calls' : Identity(d) /\ Identity(e) => d = e
                    /\ \A e \in calls' : LeadsThere(e)'
  BY DEF WhoInv
<1>1. \A d, e \in calls' : Identity(d) /\ Identity(e) => d = e
  BY DEF WhoInv
<1>2. ASSUME NEW e \in rest PROVE LeadsThere(e)'
  <2>1. LeadsThere(e)
    BY DEF WhoInv
  <2>2. CASE Identity(e)
    BY <2>1, <2>2 DEF LeadsThere
  <2>3. CASE ~Identity(e)
    BY <2>3 DEF LeadsThere, Identity
  <2> QED BY <2>2, <2>3
<1> QED BY <1>1, <1>2

(* The same of the favourites: a call that starts is not served.           *)
LeavesFavorites(rest, next) ==
  /\ cookie' = cookie /\ FavoritesOf(cookie)' = FavoritesOf(cookie)
  /\ rest \in SUBSET calls /\ calls' = rest \cup next
  /\ \A d, e \in next : d = e
  /\ \A d \in next : d.served = FALSE
  /\ \A d \in next, e \in rest : d.kind = "toggle" /\ e.kind = "toggle" => d.station # e.station
  /\ auth'.status # "authenticated" => auth'.favorites = {}
  /\ doubt' = {} => doubt = {} /\ \A d \in next, e \in rest : ~Clash(d, e)
  /\ doubt' = {} /\ cookie # NoUser =>
       /\ (\A e \in calls' : ~LoginDone(e)) => \A e \in rest : TellsFavorites(e)
       /\ (\A e \in calls' : ~Fetching(e)) =>
            /\ \A e \in rest : Changed(e) => (e.station \in FavoritesOf(cookie) <=> ~e.remove)
            /\ \A s \in Starred : (\A e \in rest : ~(Changed(e) /\ e.station = s)) =>
                 (s \in auth'.favorites <=> s \in FavoritesOf(cookie))

LEMMA FavoritesKept ==
  ASSUME FavoritesInv, NEW rest, NEW next, LeavesFavorites(rest, next)
  PROVE  FavoritesInv'
<1> USE DEF LeavesFavorites
<1>1. \A d \in next : ~Changed(d) /\ TellsFavorites(d)'
  BY DEF Changed, TellsFavorites
<1>2. \A e : TellsFavorites(e) => TellsFavorites(e)'
  BY DEF TellsFavorites
<1>3. \A d, e \in calls' : d.kind = "toggle" /\ e.kind = "toggle" /\ d.station = e.station => d = e
  BY DEF FavoritesInv
<1>4. ASSUME doubt' = {} PROVE \A d, e \in calls' : Clash(d, e) => d = e
  <2>1. \A d, e \in rest : Clash(d, e) => d = e
    BY <1>4 DEF FavoritesInv
  <2>2. \A d \in next, e \in rest : ~Clash(d, e) /\ ~Clash(e, d)
    BY <1>4, ClashIs
  <2> QED BY <2>1, <2>2
<1>5. \A e \in calls' : e \in rest \/ e \in next
  OBVIOUS
<1>6. ASSUME doubt' = {}, cookie' # NoUser, \A e \in calls' : ~LoginDone(e)
      PROVE  \A e \in calls' : TellsFavorites(e)'
  BY <1>1, <1>2, <1>5, <1>6
<1>7. ASSUME doubt' = {}, cookie' # NoUser, \A e \in calls' : ~Fetching(e)
      PROVE  /\ \A e \in calls' : Changed(e) => (e.station \in FavoritesOf(cookie)' <=> ~e.remove)
             /\ \A s \in Starred : (\A e \in calls' : ~(Changed(e) /\ e.station = s)) =>
                  (s \in auth'.favorites <=> s \in FavoritesOf(cookie)')
  BY <1>1, <1>5, <1>7
<1> QED BY <1>3, <1>4, <1>6, <1>7 DEF FavoritesInv

(* What an answer makes of the page.                                       *)
Starts(next, kind) == \E x : next = {x} /\ x.kind = kind /\ x.served = FALSE

Answers(c, next, a) ==
  \/ /\ c.kind = "me" /\ c.result.ok /\ a = auth
     /\ Starts(next, "load") /\ \A x \in next : x.user = c.result.user
  \/ c.kind = "me" /\ ~c.result.ok /\ next = {} /\ a = Anonymous
  \/ /\ c.kind = "load" /\ next = {}
     /\ a = SignedInAs(c.user, IF c.result.ok THEN c.result.favorites ELSE {})
  \/ c.kind = "favorites" /\ c.result.ok /\ next = {} /\ a = WithFavorites(c.result.favorites)
  \/ c.kind = "login" /\ Starts(next, "favorites") /\ a = SignedInAs(c.user, {})
  \/ c.kind = "logout" /\ next = {} /\ a = Anonymous
  \/ /\ c.kind = "toggle" /\ c.result.ok /\ next = {}
     /\ a = WithFavorites(IF c.remove THEN auth.favorites \ {c.station}
                          ELSE auth.favorites \cup {c.station})
  \/ c.kind = "save" /\ c.result.ok /\ Starts(next, "me") /\ a = auth
  \/ c.kind \in {"favorites", "toggle", "save"} /\ ~c.result.ok /\ next = {} /\ a = auth

LEMMA AuthAnswerIs ==
  ASSUME AuthTypes, NEW c \in calls, AuthAnswer(c)
  PROVE  /\ CallIs(c) /\ c.served = TRUE /\ UNCHANGED cookie
         /\ FavoritesOf(cookie)' = FavoritesOf(cookie)
         /\ \E next, a : After(c, next, a) /\ Answers(c, next, a)
<1>1. /\ CallIs(c) /\ c.served = TRUE /\ UNCHANGED cookie
      /\ FavoritesOf(cookie)' = FavoritesOf(cookie)
      /\ c.kind \in {"me", "load", "favorites", "login", "logout", "toggle", "save"}
  BY DEF AuthTypes, CallIs, AuthAnswer, FavoritesOf
<1>2. \A u : /\ Starts({Plain("load", u)}, "load") /\ \A x \in {Plain("load", u)} : x.user = u
             /\ Starts({Plain("favorites", u)}, "favorites") /\ Starts({Plain("me", u)}, "me")
  <2> TAKE u
  <2>1. ASSUME NEW kind PROVE /\ Starts({Plain(kind, u)}, kind)
                              /\ \A x \in {Plain(kind, u)} : x.user = u
    <3>1. PICK x : x = Plain(kind, u)
      OBVIOUS
    <3>2. x.kind = kind /\ x.served = FALSE /\ x.user = u
      BY <3>1 DEF Plain, Call
    <3> QED BY <3>1, <3>2 DEF Starts
  <2> QED BY <2>1
<1>3. CASE c.kind = "me"
  <2>1. CASE c.result.ok
    <3>1. After(c, {Plain("load", c.result.user)}, auth)
      BY <1>3, <2>1 DEF AuthAnswer
    <3>2. Answers(c, {Plain("load", c.result.user)}, auth)
      BY <1>2, <1>3, <2>1 DEF Answers
    <3> QED BY <1>1, <3>1, <3>2
  <2>2. CASE ~c.result.ok
    <3>1. After(c, {}, Anonymous)
      BY <1>3, <2>2 DEF AuthAnswer
    <3> QED BY <1>1, <1>3, <2>2, <3>1 DEF Answers
  <2> QED BY <2>1, <2>2
<1>4. CASE c.kind = "load"
  <2>1. After(c, {}, SignedInAs(c.user, IF c.result.ok THEN c.result.favorites ELSE {}))
    BY <1>4 DEF AuthAnswer
  <2> QED BY <1>1, <1>4, <2>1 DEF Answers
<1>5. CASE c.kind = "login"
  <2>1. After(c, {Plain("favorites", NoUser)}, SignedInAs(c.user, {}))
    BY <1>5 DEF AuthAnswer, SetAuthenticated
  <2>2. Answers(c, {Plain("favorites", NoUser)}, SignedInAs(c.user, {}))
    BY <1>2, <1>5 DEF Answers
  <2> QED BY <1>1, <2>1, <2>2
<1>6. CASE c.kind = "logout"
  <2>1. After(c, {}, Anonymous)
    BY <1>6 DEF AuthAnswer
  <2> QED BY <1>1, <1>6, <2>1 DEF Answers
<1>7. CASE c.kind \in {"favorites", "toggle", "save"} /\ ~c.result.ok
  <2>1. After(c, {}, auth)
    BY <1>7 DEF AuthAnswer
  <2> QED BY <1>1, <1>7, <2>1 DEF Answers
<1>8. CASE c.kind = "favorites" /\ c.result.ok
  <2>1. After(c, {}, WithFavorites(c.result.favorites))
    BY <1>8 DEF AuthAnswer
  <2> QED BY <1>1, <1>8, <2>1 DEF Answers
<1>9. CASE c.kind = "toggle" /\ c.result.ok
  <2>1. After(c, {}, WithFavorites(IF c.remove THEN auth.favorites \ {c.station}
                                   ELSE auth.favorites \cup {c.station}))
    BY <1>9 DEF AuthAnswer
  <2> QED BY <1>1, <1>9, <2>1 DEF Answers
<1>10. CASE c.kind = "save" /\ c.result.ok
  <2>1. After(c, {Plain("me", NoUser)}, auth)
    BY <1>10 DEF AuthAnswer
  <2>2. Answers(c, {Plain("me", NoUser)}, auth)
    BY <1>2, <1>10 DEF Answers
  <2> QED BY <1>1, <2>1, <2>2
<1> QED BY <1>1, <1>3, <1>4, <1>5, <1>6, <1>7, <1>8, <1>9, <1>10

(* An answer keeps who is signed in: the page knows, or asks on.           *)
LEMMA AnswerKeepsWho ==
  ASSUME AuthTypes, AuthInv, NEW c \in calls, CallIs(c), c.served = TRUE, UNCHANGED cookie,
         NEW next, NEW a, After(c, next, a), Answers(c, next, a)
  PROVE  WhoInv'
<1>1. calls' = (calls \ {c}) \cup next /\ auth' = a /\ Doubt(Meeting(calls \ {c}, next))
  BY DEF After
<1>2. \A d, e \in next : d = e
  BY DEF Answers, Starts
<1>3. "who" \notin doubt' => /\ "who" \notin doubt
                             /\ \A d \in next, e \in calls \ {c} : ~(Identity(d) /\ Identity(e))
  BY <1>1, NoMeeting
<1>4. ASSUME "who" \notin doubt'
      PROVE  /\ \A d \in next : LeadsThere(d)'
             /\ (Known => Known') \/ \A e \in calls \ {c} : ~Identity(e)
             /\ (\A e \in calls' : ~Identity(e)) => Known'
  <2>1. /\ \A e, f \in calls : Identity(e) /\ Identity(f) => e = f
        /\ (\A e \in calls : ~Identity(e)) => Known
        /\ LeadsThere(c) /\ NoUser \notin User
    BY <1>3, <1>4, SignedInAssumption DEF AuthInv, WhoInv
  <2>2. CASE Identity(c)
    <3>1. \A e \in calls \ {c} : ~Identity(e)
      BY <2>1, <2>2
    <3>2. CASE next = {}
      <4>1. Known'
        BY <1>1, <2>1, <2>2, <3>2
        DEF Answers, Starts, Identity, LeadsThere, Known, Anonymous, SignedInAs
      <4> QED BY <3>1, <3>2, <4>1
    <3>3. CASE c.kind = "me" /\ c.result.ok /\ Starts(next, "load")
      <4>1. PICK x : next = {x} /\ x.kind = "load" /\ x.user = c.result.user
        BY <3>3 DEF Answers, Starts
      <4>2. cookie # NoUser /\ x.user = cookie
        BY <2>1, <3>3, <4>1 DEF LeadsThere
      <4>3. LeadsThere(x)' /\ Identity(x) /\ x \in calls'
        BY <1>1, <4>1, <4>2 DEF LeadsThere, Identity
      <4> QED BY <3>1, <4>1, <4>3
    <3>4. CASE c.kind = "login" /\ Starts(next, "favorites")
      <4>1. PICK x : next = {x} /\ x.kind = "favorites"
        BY <3>4 DEF Starts
      <4>2. LeadsThere(x)'
        BY <4>1 DEF LeadsThere
      <4>3. Known'
        BY <1>1, <2>1, <3>4 DEF Answers, LeadsThere, Known, SignedInAs
      <4> QED BY <3>1, <4>1, <4>2, <4>3
    <3> QED BY <2>2, <3>2, <3>3, <3>4 DEF Answers, Identity
  <2>3. CASE ~Identity(c)
    <3>1. auth'.user = auth.user /\ auth'.status = auth.status
      BY <1>1, <2>3 DEF Answers, Identity, WithFavorites, AuthTypes, AuthTypeOK
    <3>2. Known' <=> Known
      BY <3>1 DEF Known
    <3>3. \A d \in next : LeadsThere(d)' /\ Identity(d)
      BY <2>3 DEF Answers, Starts, Identity, LeadsThere
    <3>4. (\A e \in calls' : ~Identity(e)) => \A e \in calls : ~Identity(e)
      BY <1>1, <2>3
    <3> QED BY <2>1, <3>2, <3>3, <3>4
  <2> QED BY <2>2, <2>3
<1> QED
  <2>1. PICK rest : rest = calls \ {c}
    OBVIOUS
  <2> QED BY <1>1, <1>2, <1>3, <1>4, <2>1, WhoKept DEF AuthInv

(* And what is known of the favourites.                                    *)
LEMMA AnswerKeepsFavorites ==
  ASSUME AuthTypes, AuthInv, NEW c \in calls, CallIs(c), c.served = TRUE, UNCHANGED cookie,
         FavoritesOf(cookie)' = FavoritesOf(cookie),
         NEW next, NEW a, After(c, next, a), Answers(c, next, a)
  PROVE  FavoritesInv'
<1>1. calls' = (calls \ {c}) \cup next /\ auth' = a /\ Doubt(Meeting(calls \ {c}, next))
  BY DEF After
<1>2. /\ \A d, e \in next : d = e
      /\ \A d \in next : d.served = FALSE /\ d.kind \in {"load", "favorites", "me"}
      /\ next = {} \/ \E x \in next : Fetching(x)
  BY DEF Answers, Starts, Fetching
<1>3. /\ "who" \notin doubt' => "who" \notin doubt
      /\ doubt' = {} => doubt = {} /\ \A d \in next, e \in calls \ {c} : ~Clash(d, e)
  BY <1>1, NoMeeting
<1>4. /\ auth.status # "authenticated" => auth.favorites = {}
      /\ auth.favorites \subseteq Starred
      /\ \A f : /\ WithFavorites(f).status = auth.status
                /\ auth.status = "authenticated" => WithFavorites(f).favorites = f
                /\ auth.status # "authenticated" => WithFavorites(f).favorites = {}
  BY DEF AuthInv, FavoritesInv, WithFavorites, AuthTypes, AuthTypeOK
<1>5. auth'.status # "authenticated" => auth'.favorites = {}
  BY <1>1, <1>4 DEF Answers, Anonymous, SignedInAs
<1>6. ASSUME doubt' = {}, cookie # NoUser
      PROVE  /\ (\A e \in calls' : ~LoginDone(e)) => \A e \in calls \ {c} : TellsFavorites(e)
             /\ (\A e \in calls' : ~Fetching(e)) =>
                  /\ \A e \in calls \ {c} :
                       Changed(e) => (e.station \in FavoritesOf(cookie) <=> ~e.remove)
                  /\ \A s \in Starred : (\A e \in calls \ {c} : ~(Changed(e) /\ e.station = s)) =>
                       (s \in auth'.favorites <=> s \in FavoritesOf(cookie))
  <2>1. /\ \A e, f \in calls : Clash(e, f) => e = f
        /\ (\A e \in calls : ~LoginDone(e)) => \A e \in calls : TellsFavorites(e)
        /\ (\A e \in calls : ~Fetching(e)) =>
             /\ \A e \in calls : Changed(e) => (e.station \in FavoritesOf(cookie) <=> ~e.remove)
             /\ \A s \in Starred : (\A e \in calls : ~(Changed(e) /\ e.station = s)) =>
                  (s \in auth.favorites <=> s \in FavoritesOf(cookie))
    BY <1>3, <1>6 DEF AuthInv, FavoritesInv
  <2>2. /\ "who" \notin doubt /\ \A e, f \in calls : Identity(e) /\ Identity(f) => e = f
        /\ LeadsThere(c) /\ WhoInv
    BY <1>3, <1>6 DEF AuthInv, WhoInv
  <2>3. CASE c.kind = "login"
    <3>1. PICK x \in next : x.kind = "favorites" /\ Fetching(x)
      BY <2>3 DEF Answers, Starts, Fetching
    <3>2. \A e \in calls \ {c} : e.kind \notin {"favorites", "toggle"}
      BY <1>3, <1>6, <3>1, ClashIs
    <3>3. \A e \in calls \ {c} : e.kind # "load"
      BY <2>2, <2>3 DEF Identity
    <3>4. \A e \in calls \ {c} : TellsFavorites(e)
      BY <3>2, <3>3 DEF TellsFavorites
    <3> QED BY <1>1, <3>1, <3>4
  <2>4. CASE c.kind # "login"
    <3>1. (\A e \in calls' : ~LoginDone(e)) => \A e \in calls : TellsFavorites(e)
      BY <1>1, <2>1, <2>4 DEF LoginDone
    <3> SUFFICES ASSUME \A e \in calls' : ~Fetching(e)
                 PROVE  /\ \A e \in calls \ {c} :
                             Changed(e) => (e.station \in FavoritesOf(cookie) <=> ~e.remove)
                        /\ \A s \in Starred :
                             (\A e \in calls \ {c} : ~(Changed(e) /\ e.station = s)) =>
                             (s \in auth'.favorites <=> s \in FavoritesOf(cookie))
      BY <3>1
    <3>2. next = {} /\ TellsFavorites(c)
      BY <1>1, <1>2, <3>1 DEF Fetching
    <3>3. CASE c.kind = "me" \/ c.kind = "logout"
      BY <1>6, <2>2, <3>2, <3>3 DEF Answers, Starts, LeadsThere
    <3>4. CASE c.kind = "load"
      <4>1. auth'.favorites = FavoritesOf(cookie)
        BY <1>1, <3>2, <3>4 DEF Answers, TellsFavorites, SignedInAs
      <4>2. \A e \in calls \ {c} : ~Changed(e)
        BY <2>1, <3>4, ClashIs DEF Changed
      <4> QED BY <4>1, <4>2
    <3>5. CASE c.kind \in {"favorites", "toggle"}
      <4>1. \A e \in calls : Identity(e) => ~Fetching(e)
        BY <1>1, <3>5 DEF Identity
      <4>2. auth.status = "authenticated" /\ c.result.ok
        BY <1>6, <2>2, <3>2, <3>5, <4>1, KnownWhenSettled DEF Known, TellsFavorites
      <4>3. CASE c.kind = "favorites"
        <5>1. auth'.favorites = FavoritesOf(cookie)
          BY <1>1, <1>4, <3>2, <4>2, <4>3 DEF Answers, TellsFavorites
        <5>2. \A e \in calls \ {c} : ~Changed(e)
          BY <2>1, <4>3, ClashIs DEF Changed
        <5> QED BY <5>1, <5>2
      <4>4. CASE c.kind = "toggle"
        <5>1. \A e \in calls : ~Fetching(e)
          BY <1>1, <4>4 DEF Fetching, LoginDone
        <5>2. auth'.favorites = IF c.remove THEN auth.favorites \ {c.station}
                                ELSE auth.favorites \cup {c.station}
          BY <1>1, <1>4, <4>2, <4>4 DEF Answers
        <5>3. Changed(c) /\ (c.station \in FavoritesOf(cookie) <=> ~c.remove)
          BY <2>1, <4>4, <5>1 DEF Changed
        <5>4. ASSUME NEW s \in Starred, \A e \in calls \ {c} : ~(Changed(e) /\ e.station = s)
              PROVE  s \in auth'.favorites <=> s \in FavoritesOf(cookie)
          <6>1. CASE s = c.station
            BY <5>2, <5>3, <6>1
          <6>2. CASE s # c.station
            <7>1. \A e \in calls : ~(Changed(e) /\ e.station = s)
              BY <5>4, <6>2
            <7> QED BY <2>1, <5>1, <5>2, <6>2, <7>1
          <6> QED BY <6>1, <6>2
        <5> QED BY <2>1, <5>1, <5>4
      <4> QED BY <3>5, <4>3, <4>4
    <3>6. CASE c.kind = "save"
      <4>1. \A e \in calls : ~Fetching(e)
        BY <1>1, <3>6 DEF Fetching, LoginDone
      <4>2. auth' = auth /\ ~Changed(c)
        BY <1>1, <3>2, <3>6 DEF Answers, Starts, Changed
      <4> QED BY <2>1, <4>1, <4>2
    <3> QED BY <2>4, <3>3, <3>4, <3>5, <3>6 DEF CallIs
  <2> QED BY <2>3, <2>4
<1> QED
  <2>1. PICK rest : rest = calls \ {c}
    OBVIOUS
  <2>2. rest \in SUBSET calls /\ calls' = rest \cup next /\ \A d \in next : d.kind # "toggle"
    BY <1>1, <1>2, <2>1
  <2>3. doubt' = {} /\ cookie # NoUser
        => /\ (\A e \in calls' : ~LoginDone(e)) => \A e \in rest : TellsFavorites(e)
           /\ (\A e \in calls' : ~Fetching(e)) =>
                /\ \A e \in rest : Changed(e) => (e.station \in FavoritesOf(cookie) <=> ~e.remove)
                /\ \A s \in Starred : (\A e \in rest : ~(Changed(e) /\ e.station = s)) =>
                     (s \in auth'.favorites <=> s \in FavoritesOf(cookie))
    BY <1>6, <2>1
  <2>4. doubt' = {} => doubt = {} /\ \A d \in next, e \in rest : ~Clash(d, e)
    BY <1>3, <2>1
  <2>5. LeavesFavorites(rest, next)
    BY <1>2, <1>5, <2>2, <2>3, <2>4 DEF LeavesFavorites
  <2> QED BY <2>5, FavoritesKept DEF AuthInv

(* A call that is lost while nothing is in doubt was not served.           *)
LEMMA LoseCallInv ==
  ASSUME AuthTypes, AuthInv, NEW c \in calls, LoseCall(c)
  PROVE  AuthInv'
<1>1. PICK rest : rest = calls \ {c}
  OBVIOUS
<1>2. /\ calls' = rest \cup {} /\ rest \in SUBSET calls /\ cookie' = cookie /\ CallIs(c)
      /\ FavoritesOf(cookie)' = FavoritesOf(cookie)
      /\ auth' = CASE c.kind = "me" -> Anonymous
                   [] c.kind = "load" -> SignedInAs(c.user, {})
                   [] OTHER -> auth
  BY <1>1 DEF LoseCall, FavoritesOf, AuthTypes
<1>3. /\ "who" \notin doubt' => "who" \notin doubt /\ c.kind # "me" /\ ~LoginDone(c)
                                /\ ~(c.kind = "logout" /\ c.served = TRUE)
      /\ doubt' = {} => /\ doubt = {} /\ c.kind \notin {"me", "load", "favorites"}
                        /\ ~LoginDone(c) /\ ~Changed(c)
  BY DEF LoseCall, Doubt, LoginDone, Changed
<1>4. ASSUME "who" \notin doubt'
      PROVE  /\ (Known => Known') \/ \A e \in rest : ~Identity(e)
             /\ (\A e \in calls' : ~Identity(e)) => Known'
  <2>1. /\ \A e, f \in calls : Identity(e) /\ Identity(f) => e = f
        /\ (\A e \in calls : ~Identity(e)) => Known
        /\ LeadsThere(c)
    BY <1>3, <1>4 DEF AuthInv, WhoInv
  <2>2. CASE c.kind = "load"
    <3>1. Known'
      BY <1>2, <2>1, <2>2 DEF LeadsThere, Known, SignedInAs
    <3> QED BY <3>1
  <2>3. CASE c.kind # "load"
    <3>1. Known' <=> Known
      BY <1>2, <1>3, <1>4, <2>3 DEF Known
    <3>2. Identity(c) => Known
      BY <1>3, <1>4, <2>1, <2>3 DEF Identity, LeadsThere, LoginDone
    <3>3. (\A e \in calls' : ~Identity(e)) /\ ~Identity(c) => \A e \in calls : ~Identity(e)
      BY <1>1, <1>2
    <3> QED BY <2>1, <3>1, <3>2, <3>3
  <2> QED BY <2>2, <2>3
<1>5. WhoInv'
  BY <1>2, <1>3, <1>4, WhoKept DEF AuthInv
<1>6. auth'.status # "authenticated" => auth'.favorites = {}
  BY <1>2 DEF AuthInv, FavoritesInv, Anonymous, SignedInAs
<1>7. ASSUME doubt' = {}
      PROVE  /\ (\A e \in calls' : ~LoginDone(e)) => \A e \in calls : ~LoginDone(e)
             /\ (\A e \in calls' : ~Fetching(e)) => \A e \in calls : ~Fetching(e)
             /\ \A s : (\A e \in rest : ~(Changed(e) /\ e.station = s)) =>
                         \A e \in calls : ~(Changed(e) /\ e.station = s)
             /\ auth' = auth
  BY <1>1, <1>2, <1>3, <1>7 DEF Fetching
<1>8. FavoritesInv'
  <2>1. LeavesFavorites(rest, {})
    BY <1>2, <1>3, <1>6, <1>7 DEF AuthInv, FavoritesInv, LeavesFavorites
  <2> QED BY <2>1, FavoritesKept DEF AuthInv
<1> QED BY <1>5, <1>8 DEF AuthInv

(* A call is made from what the page shows.                                *)
LEMMA ClickInv ==
  ASSUME AuthTypes, AuthInv, NEW c, Click(c), c.served = FALSE,
         c.kind \in {"login", "logout", "save", "toggle"}, c.kind = "login" => c.user \in User,
         c.kind = "toggle" => \A e \in calls : e.station # c.station
  PROVE  AuthInv'
<1>1. PICK next : next = {c}
  OBVIOUS
<1>2. /\ calls' = calls \cup next /\ auth' = auth /\ cookie' = cookie
      /\ FavoritesOf(cookie)' = FavoritesOf(cookie) /\ Doubt(Meeting(calls, next))
  BY <1>1 DEF Click, FavoritesOf
<1>3. Known' <=> Known
  BY <1>2 DEF Known
<1>4. /\ "who" \notin doubt' => /\ "who" \notin doubt
                                /\ \A d \in next, e \in calls : ~(Identity(d) /\ Identity(e))
      /\ doubt' = {} => doubt = {} /\ \A d \in next, e \in calls : ~Clash(d, e)
  BY <1>2, NoMeeting
<1>5. WhoInv'
  <2>1. ASSUME "who" \notin doubt'
        PROVE  /\ \A d \in next : LeadsThere(d)'
               /\ (\A e \in calls' : ~Identity(e)) => Known'
    <3>1. (\A e \in calls : ~Identity(e)) => Known
      BY <1>4, <2>1 DEF AuthInv, WhoInv
    <3>2. CASE c.kind \in {"login", "logout"}
      <4>1. Known'
        BY <1>1, <1>3, <1>4, <2>1, <3>1, <3>2 DEF Identity
      <4> QED BY <1>1, <3>2, <4>1 DEF LeadsThere
    <3>3. CASE c.kind \notin {"login", "logout"}
      <4>1. LeadsThere(c)'
        BY <3>3 DEF LeadsThere
      <4> QED BY <1>1, <1>2, <1>3, <3>1, <4>1
    <3> QED BY <3>2, <3>3
  <2> QED BY <1>1, <1>2, <1>3, <1>4, <2>1, WhoKept DEF AuthInv
<1>6. FavoritesInv'
  <2>1. /\ (\A e \in calls' : ~LoginDone(e)) => \A e \in calls : ~LoginDone(e)
        /\ (\A e \in calls' : ~Fetching(e)) => \A e \in calls : ~Fetching(e)
    BY <1>2
  <2>2. /\ \A d, e \in next : d = e
        /\ \A d \in next : d.served = FALSE
        /\ \A d \in next, e \in calls :
             d.kind = "toggle" /\ e.kind = "toggle" => d.station # e.station
    BY <1>1
  <2>3. doubt' = {} /\ cookie # NoUser
        => /\ (\A e \in calls' : ~LoginDone(e)) => \A e \in calls : TellsFavorites(e)
           /\ (\A e \in calls' : ~Fetching(e)) =>
                /\ \A e \in calls : Changed(e) => (e.station \in FavoritesOf(cookie) <=> ~e.remove)
                /\ \A s \in Starred : (\A e \in calls : ~(Changed(e) /\ e.station = s)) =>
                     (s \in auth'.favorites <=> s \in FavoritesOf(cookie))
    BY <1>2, <1>4, <2>1 DEF AuthInv, FavoritesInv
  <2>4. calls \in SUBSET calls /\ (auth'.status # "authenticated" => auth'.favorites = {})
    BY <1>2 DEF AuthInv, FavoritesInv
  <2>5. LeavesFavorites(calls, next)
    BY <1>2, <1>4, <2>2, <2>3, <2>4 DEF LeavesFavorites
  <2> QED BY <2>5, FavoritesKept DEF AuthInv
<1> QED BY <1>5, <1>6 DEF AuthInv

(* Every step of the page and the API keeps it.                            *)
LEMMA AuthNextInv == AuthTypes /\ AuthInv /\ [AuthNext]_authVars => AuthInv'
<1> SUFFICES ASSUME AuthTypes, AuthInv, [AuthNext]_authVars PROVE AuthInv'
  OBVIOUS
<1>1. CASE AuthStep
  <2>1. ASSUME NEW c \in calls, AuthAnswer(c) PROVE AuthInv'
    <3>1. PICK next, a : After(c, next, a) /\ Answers(c, next, a)
      BY <2>1, AuthAnswerIs
    <3> QED BY <2>1, <3>1, AuthAnswerIs, AnswerKeepsWho, AnswerKeepsFavorites DEF AuthInv
  <2> QED BY <1>1, <2>1, ServeInv, LoseCallInv DEF AuthStep
<1>2. ASSUME NEW u \in User, LogIn(u) PROVE AuthInv'
  <2>1. PICK c : c = Call("login", u, "none", FALSE) /\ Click(c)
    BY <1>2 DEF LogIn, Plain
  <2>2. c.kind = "login" /\ c.user = u /\ c.served = FALSE
    BY <2>1 DEF Call
  <2> QED BY <2>1, <2>2, ClickInv
<1>3. ASSUME NEW s \in Starred, ToggleFavorite(s) PROVE AuthInv'
  <2>1. PICK remove : remove = (s \in auth.favorites)
    OBVIOUS
  <2>2. PICK c : /\ c = Call("toggle", NoUser, s, remove)
                 /\ Click(c) /\ \A e \in calls : e.station # s
    BY <1>3, <2>1, Zenon DEF ToggleFavorite
  <2>3. c.kind = "toggle" /\ c.station = s /\ c.served = FALSE
    BY <2>2 DEF Call
  <2> QED BY <2>2, <2>3, ClickInv
<1>4. ASSUME NEW kind \in {"logout", "save"}, Click(Plain(kind, NoUser)) PROVE AuthInv'
  <2>1. PICK c : c = Call(kind, NoUser, "none", FALSE) /\ Click(c)
    BY <1>4 DEF Plain
  <2>2. c.kind = kind /\ c.served = FALSE
    BY <2>1 DEF Call
  <2> QED BY <2>1, <2>2, ClickInv
<1>5. CASE UNCHANGED authVars
  <2>1. FavoritesOf(cookie)' = FavoritesOf(cookie) /\ cookie' = cookie /\ auth' = auth
        /\ calls' = calls /\ doubt' = doubt
    BY <1>5 DEF authVars, FavoritesOf
  <2>2. WhoInv'
    BY <2>1 DEF AuthInv, WhoInv, Known, LeadsThere
  <2>3. FavoritesInv'
    BY <2>1 DEF AuthInv, FavoritesInv, TellsFavorites
  <2> QED BY <2>2, <2>3 DEF AuthInv
<1> QED BY <1>1, <1>2, <1>3, <1>4, <1>5 DEF AuthNext, LogOut, SavePreferences

-----------------------------------------------------------------------------
(* The page of a station.                                                  *)

IsListRequest(r) ==
  /\ r = ListRequest(r.kind, r.nr, r.since)
  /\ r.kind \in {"load", "reload", "vote"} /\ r.since \in Nat

IsUpload(u) == u = [nr |-> u.nr, photo |-> u.photo, at |-> u.at]

IsSubmission(f) ==
  /\ f = [nr |-> f.nr, form |-> f.form, image |-> f.image, board |-> f.board, left |-> f.left]
  /\ f.left \in Nat

StationTypes ==
  /\ version \in Nat /\ prices \in Nat /\ listed \in Nat /\ acts \in Nat
  /\ pricesTold \in Nat /\ listTold \in Nat /\ priceLoads \subseteq Nat
  /\ mode \in {"manual", "photo"} /\ submitting \in BOOLEAN /\ listLoading \in BOOLEAN
  /\ listError \in BOOLEAN
  /\ candidates = [board |-> candidates.board, count |-> candidates.count]
  /\ candidates.count \in Nat
  /\ \A r \in listLoads : IsListRequest(r)
  /\ \A u \in uploads : IsUpload(u)
  /\ \A f \in sending : IsSubmission(f)

(* Nothing is asked before the page is shown.                              *)
NothingBefore == opened # "shown" => listLoads = {} /\ sending = {}

(* A form is busy only with what is under way, and the manual form knows   *)
(* nothing of photos.                                                      *)
FormsAreBusy ==
  /\ photoPhase \in {"uploading", "processing"} => uploads # {}
  /\ photoPhase = "submitting" \/ submitting => \E f \in sending : f.form = form
  /\ mode = "manual" => photoPhase = "idle" /\ photo = NoPicture /\ uploads = {}

(* At most one load of the list counts, and the list says so.              *)
OneLoadCounts ==
  /\ listLoading <=> \E r \in listLoads : r.kind = "load"
  /\ \A r, s \in listLoads : r.kind = "load" /\ s.kind = "load" => r = s

(* Unless uploads met, a form whose one upload is under way has no         *)
(* candidates; those it has are of the picture it would refer to; and      *)
(* reports refer to what they stem from.                                   *)
PicturesAgree ==
  "photo" \notin mixed =>
    /\ \A u, v \in uploads : u = v
    /\ \A u \in uploads : u.at = "poll" => imageId \in {NoPicture, u.photo}
    /\ uploads # {} \/ photoPhase = "idle" => candidates.count = 0
    /\ candidates.count # 0 => imageId \in {NoPicture, candidates.board}
    /\ \A f \in sending : f.image = f.board
    /\ \A s \in sent : s.image = s.board

(* Unless an older answer came last, or the newest load failed.            *)
PricesFollow ==
  "prices" \notin mixed /\ pricesTold \notin priceLoads => prices >= pricesTold

ListFollows ==
  "list" \notin mixed /\ (\A r \in Reading : r.since # listTold)
  => listError \/ listed >= listTold

StationInv ==
  /\ StationTypes /\ NothingBefore /\ FormsAreBusy /\ OneLoadCounts
  /\ PicturesAgree /\ PricesFollow /\ ListFollows

LEMMA StationBegins == StationInit => StationInv
<1> SUFFICES ASSUME StationInit PROVE StationInv
  OBVIOUS
<1>1. /\ listLoads = {} /\ sending = {} /\ sent = {} /\ uploads = {} /\ priceLoads = {}
      /\ version = 1 /\ prices = 1 /\ pricesTold = 1 /\ listed = 0 /\ listTold = 0 /\ acts = 0
      /\ mode = "manual" /\ submitting = FALSE /\ listLoading = FALSE /\ listError = FALSE
      /\ photo = NoPicture /\ imageId = NoPicture /\ photoPhase = "idle"
      /\ candidates = [board |-> NoPicture, count |-> 0]
  BY DEF StationInit, NoCandidates
<1>2. StationTypes
  BY <1>1 DEF StationTypes
<1>3. NothingBefore /\ FormsAreBusy
  BY <1>1 DEF NothingBefore, FormsAreBusy
<1>4. OneLoadCounts
  BY <1>1 DEF OneLoadCounts
<1>5. PicturesAgree
  BY <1>1 DEF PicturesAgree
<1>6. PricesFollow /\ ListFollows
  BY <1>1 DEF PricesFollow, ListFollows, Reading
<1> QED BY <1>2, <1>3, <1>4, <1>5, <1>6 DEF StationInv

(* A request of the list is what it was made of.                           *)
LEMMA ListRequestFields ==
  ASSUME NEW kind \in {"load", "reload", "vote"}, NEW nr, NEW since \in Nat
  PROVE  /\ IsListRequest(ListRequest(kind, nr, since))
         /\ ListRequest(kind, nr, since).kind = kind
         /\ ListRequest(kind, nr, since).since = since
BY DEF ListRequest, IsListRequest

(* What concerns the forms alone.                                          *)
FormInv == FormsAreBusy /\ PicturesAgree

(* What concerns the list and the prices alone.                            *)
AnswersInv == OneLoadCounts /\ PricesFollow /\ ListFollows

LEMMA AnswersUntouched ==
  ASSUME AnswersInv, UNCHANGED <<priceVars, listVars>>, mixed' \cap {"prices", "list"} =
         mixed \cap {"prices", "list"}
  PROVE  AnswersInv'
BY DEF AnswersInv, OneLoadCounts, PricesFollow, ListFollows, Reading, priceVars, listVars

LEMMA FormsUntouched ==
  ASSUME FormInv, UNCHANGED <<formVars, sending, sent>>, "photo" \in mixed => "photo" \in mixed'
  PROVE  FormInv'
BY DEF FormInv, FormsAreBusy, PicturesAgree, formVars

(* The list asks again, and the requests of votes stay.                    *)
LEMMA ListLoaded ==
  ASSUME StationTypes, OneLoadCounts, NEW v \in Nat, LoadList(v)
  PROVE  /\ OneLoadCounts' /\ ListFollows'
         /\ \A r \in listLoads' : IsListRequest(r)
         /\ listTold' = v /\ listed' = listed /\ listLoading' = TRUE /\ listError' = listError
<1> DEFINE new == ListRequest("load", 0, v)
<1>1. IsListRequest(new) /\ new.kind = "load" /\ new.since = v
  BY ListRequestFields
<1> HIDE DEF new
<1>2. /\ listLoads' = {r \in listLoads : r.kind # "load"} \cup {new}
      /\ listLoading' = TRUE /\ listTold' = v /\ listed' = listed /\ listError' = listError
  BY DEF LoadList, new
<1>3. OneLoadCounts'
  BY <1>1, <1>2 DEF OneLoadCounts
<1>5. new \in Reading'
  BY <1>1, <1>2 DEF Reading
<1>6. ListFollows'
  BY <1>1, <1>2, <1>5 DEF ListFollows
<1>7. \A r \in listLoads' : IsListRequest(r)
  BY <1>1, <1>2 DEF StationTypes
<1> QED BY <1>2, <1>3, <1>6, <1>7

(* The answers to the page, the prices, the list and the votes.            *)
LEMMA PageLoadedInv ==
  ASSUME StationInv, PageLoaded PROVE StationInv'
<1>1. listLoads = {} /\ sending = {}
  BY DEF PageLoaded, StationInv, NothingBefore
<1>2. UNCHANGED <<version, formVars, sending, priceVars, sent, mixed>>
  BY DEF PageLoaded
<1>3. acts' \in Nat
  BY DEF PageLoaded, Counted, StationInv, StationTypes
<1>4. FormInv'
  BY <1>2, FormsUntouched DEF StationInv, FormInv
<1>5. PricesFollow'
  BY <1>2 DEF StationInv, PricesFollow, priceVars
<1>6. CASE opened' = "shown" /\ LoadList(version)
  <2>1. /\ OneLoadCounts' /\ ListFollows' /\ \A r \in listLoads' : IsListRequest(r)
        /\ listTold' = version /\ listed' = listed /\ listLoading' = TRUE
        /\ listError' = listError
    BY <1>1, <1>6, ListLoaded DEF StationInv, StationTypes
  <2>2. StationTypes'
    BY <1>2, <1>3, <2>1 DEF StationInv, StationTypes, formVars, priceVars
  <2> QED BY <1>4, <1>5, <1>6, <2>1, <2>2 DEF StationInv, NothingBefore, FormInv
<1>7. CASE UNCHANGED listVars
  <2>1. OneLoadCounts' /\ ListFollows'
    BY <1>2, <1>7 DEF StationInv, OneLoadCounts, ListFollows, Reading, listVars
  <2>2. StationTypes'
    BY <1>2, <1>3, <1>7 DEF StationInv, StationTypes, formVars, priceVars, listVars
  <2> QED BY <1>1, <1>2, <1>4, <1>5, <1>7, <2>1, <2>2
          DEF StationInv, NothingBefore, FormInv, listVars
<1> QED BY <1>6, <1>7 DEF PageLoaded

LEMMA PricesAnsweredInv ==
  ASSUME StationInv, NEW since \in priceLoads, PricesAnswered(since) PROVE StationInv'
<1>1. /\ UNCHANGED <<opened, version, formVars, sending, pricesTold, listVars, sent>>
      /\ priceLoads' = priceLoads \ {since}
  BY DEF PricesAnswered
<1>2. \/ /\ prices' \in since..version /\ acts' = acts
         /\ mixed' = IF Overtaken(since, pricesTold, priceLoads) THEN mixed \cup {"prices"} ELSE mixed
      \/ /\ acts' = acts + 1 /\ prices' = prices
         /\ mixed' = IF since = pricesTold THEN mixed \cup {"prices"} ELSE mixed
  BY DEF PricesAnswered, Counted, Mixed
<1>3. prices' \in Nat /\ acts' \in Nat
  BY <1>2 DEF StationInv, StationTypes
<1>4. StationTypes'
  BY <1>1, <1>3 DEF StationInv, StationTypes, formVars, listVars
<1>5. FormInv'
  BY <1>1, <1>2, FormsUntouched DEF StationInv, FormInv
<1>6. OneLoadCounts' /\ ListFollows' /\ NothingBefore'
  BY <1>1, <1>2 DEF StationInv, OneLoadCounts, ListFollows, Reading, listVars, NothingBefore
<1>7. PricesFollow'
  BY <1>1, <1>2 DEF StationInv, StationTypes, PricesFollow, Overtaken
<1> QED BY <1>4, <1>5, <1>6, <1>7 DEF StationInv, FormInv

LEMMA ListAnsweredInv ==
  ASSUME StationInv, NEW r \in listLoads, r.kind # "vote", ListAnswered(r) PROVE StationInv'
<1>1. /\ UNCHANGED <<opened, version, formVars, sending, priceVars, listTold, sent>>
      /\ listLoads' = listLoads \ {r}
      /\ listLoading' = (listLoading /\ r.kind # "load")
  BY DEF ListAnswered
<1>2. \/ /\ listed' \in r.since..version /\ listError' = FALSE /\ acts' = acts
         /\ mixed' = IF Overtaken(r.since, listTold, {q.since : q \in Reading})
                     THEN mixed \cup {"list"} ELSE mixed
      \/ acts' = acts + 1 /\ listError' = TRUE /\ listed' = listed /\ mixed' = mixed
  BY DEF ListAnswered, Counted, Mixed
<1>3. r.since \in Nat /\ listed' \in Nat /\ acts' \in Nat /\ listError' \in BOOLEAN
  <2>1. r.since \in Nat /\ version \in Nat /\ listed \in Nat /\ acts \in Nat
    BY DEF StationInv, StationTypes, IsListRequest
  <2>2. listError' = FALSE \/ listError' = TRUE
    BY <1>2
  <2>3. listed' \in Nat /\ acts' \in Nat
    BY <1>2, <2>1
  <2> QED BY <2>1, <2>2, <2>3
<1>4. StationTypes'
  BY <1>1, <1>3 DEF StationInv, StationTypes, formVars, priceVars
<1>5. FormInv'
  BY <1>1, <1>2, FormsUntouched DEF StationInv, FormInv
<1>6. PricesFollow' /\ NothingBefore'
  BY <1>1, <1>2 DEF StationInv, PricesFollow, priceVars, NothingBefore
<1>7. OneLoadCounts'
  BY <1>1 DEF StationInv, StationTypes, OneLoadCounts
<1>8. Reading' = Reading \ {r} /\ r \in Reading
  BY <1>1 DEF Reading
<1>9. ASSUME "list" \notin mixed', \A q \in Reading' : q.since # listTold
      PROVE  listError' \/ listed' >= listTold
  <2>1. version \in Nat /\ listTold \in Nat
    BY DEF StationInv, StationTypes
  <2>2. CASE listError' = TRUE
    BY <2>2
  <2>3. CASE /\ listed' \in r.since..version
             /\ mixed' = IF Overtaken(r.since, listTold, {q.since : q \in Reading})
                         THEN mixed \cup {"list"} ELSE mixed
    <3>1. r.since >= listTold \/ listTold \in {q.since : q \in Reading}
      BY <1>3, <1>9, <2>1, <2>3 DEF Overtaken
    <3>2. r.since >= listTold
      BY <1>3, <1>8, <1>9, <2>1, <3>1
    <3> QED BY <1>3, <2>1, <2>3, <3>2
  <2> QED BY <1>2, <2>2, <2>3
<1>10. ListFollows'
  BY <1>1, <1>9 DEF ListFollows
<1> QED BY <1>4, <1>5, <1>6, <1>7, <1>10 DEF StationInv, FormInv

LEMMA VoteInv ==
  ASSUME StationInv, Vote PROVE StationInv'
<1> DEFINE new == ListRequest("vote", acts', 0)
<1>1. IsListRequest(new) /\ new.kind = "vote"
  BY ListRequestFields
<1>2. /\ UNCHANGED <<opened, version, formVars, sending, priceVars, listed, listLoading,
                     listError, listTold, sent, mixed>>
      /\ listLoads' = listLoads \cup {new} /\ opened = "shown" /\ acts' = acts + 1
  BY DEF Vote, Act, Counted
<1> HIDE DEF new
<1>3. StationTypes'
  BY <1>1, <1>2 DEF StationInv, StationTypes, formVars, priceVars
<1>4. FormInv'
  BY <1>2, FormsUntouched DEF StationInv, FormInv
<1>5. Reading' = Reading
  BY <1>1, <1>2 DEF Reading
<1>6. OneLoadCounts' /\ PricesFollow' /\ ListFollows' /\ NothingBefore'
  BY <1>1, <1>2, <1>5
     DEF StationInv, OneLoadCounts, PricesFollow, ListFollows, priceVars, NothingBefore
<1> QED BY <1>3, <1>4, <1>6 DEF StationInv, FormInv

LEMMA VoteAnsweredInv ==
  ASSUME StationInv, NEW r \in listLoads, r.kind = "vote", VoteAnswered(r) PROVE StationInv'
<1>1. UNCHANGED <<opened, formVars, sending, priceVars, listed, listLoading, sent, mixed>>
  BY DEF VoteAnswered
<1>3. FormInv'
  BY <1>1, FormsUntouched DEF StationInv, FormInv
<1>5. PricesFollow' /\ NothingBefore'
  BY <1>1 DEF StationInv, PricesFollow, priceVars, NothingBefore
<1>6. version \in Nat /\ acts \in Nat /\ listTold \in Nat
  BY DEF StationInv, StationTypes
<1>7. CASE /\ version' = version + 1 /\ UNCHANGED <<listError, acts>>
           /\ listLoads' = (listLoads \ {r}) \cup {ListRequest("reload", r.nr, version')}
           /\ listTold' = version'
  <2> DEFINE new == ListRequest("reload", r.nr, version')
  <2>1. IsListRequest(new) /\ new.kind = "reload" /\ new.since = version'
    BY <1>6, <1>7, ListRequestFields
  <2>2. listLoads' = (listLoads \ {r}) \cup {new}
    BY <1>7
  <2> HIDE DEF new
  <2>3. StationTypes'
    BY <1>1, <1>6, <1>7, <2>1, <2>2 DEF StationInv, StationTypes, formVars, priceVars
  <2>4. OneLoadCounts'
    BY <1>1, <2>1, <2>2 DEF StationInv, OneLoadCounts
  <2>5. new \in Reading'
    BY <2>1, <2>2 DEF Reading
  <2>6. ListFollows'
    BY <1>7, <2>1, <2>5 DEF ListFollows
  <2> QED BY <1>3, <1>5, <2>3, <2>4, <2>6 DEF StationInv, FormInv
<1>8. CASE /\ Counted /\ version' \in {version, version + 1} /\ listError' = TRUE
           /\ listLoads' = listLoads \ {r}
           /\ UNCHANGED listTold
  <2>1. StationTypes'
    BY <1>1, <1>6, <1>8 DEF StationInv, StationTypes, formVars, priceVars, Counted
  <2>2. OneLoadCounts'
    BY <1>1, <1>8 DEF StationInv, OneLoadCounts
  <2>3. Reading' = Reading
    BY <1>8 DEF Reading
  <2>4. ListFollows'
    BY <1>1, <1>8, <2>3 DEF StationInv, ListFollows
  <2> QED BY <1>3, <1>5, <2>1, <2>2, <2>4 DEF StationInv, FormInv
<1> QED BY <1>7, <1>8 DEF VoteAnswered

(* What the user does in the forms.                                        *)
LEMMA ToggleModeInv ==
  ASSUME StationInv, ToggleMode PROVE StationInv'
<1>1. UNCHANGED <<opened, version, sending, priceVars, listVars, sent, mixed, acts>>
  BY DEF ToggleMode
<1>2. AnswersInv'
  BY <1>1, AnswersUntouched DEF StationInv, AnswersInv
<1>3. StationTypes' /\ NothingBefore'
  BY <1>1 DEF StationInv, StationTypes, NothingBefore, ToggleMode, NoCandidates, priceVars, listVars
<1>4. FormsAreBusy' /\ PicturesAgree'
  BY <1>1 DEF StationInv, FormsAreBusy, PicturesAgree, ToggleMode, NoCandidates
<1> QED BY <1>2, <1>3, <1>4 DEF StationInv, AnswersInv

LEMMA SendReportsInv ==
  ASSUME StationInv, Act, NEW image, NEW board, NEW n \in Nat, SendReports(image, board, n),
         UNCHANGED <<version, priceVars, listVars, mode, form, photo, imageId, candidates,
                     uploads, sent, mixed>>,
         submitting' \in BOOLEAN,
         \/ photoPhase' = photoPhase
         \/ mode = "photo" /\ photoPhase' = "submitting",
         "photo" \notin mixed => image = board
  PROVE  StationInv'
<1>1. PICK f : /\ f = [nr |-> acts', form |-> form, image |-> image, board |-> board, left |-> n]
               /\ sending' = sending \cup {f}
  BY DEF SendReports
<1>2. IsSubmission(f) /\ f.form = form /\ f.image = image /\ f.board = board
  BY <1>1 DEF IsSubmission
<1>3. opened = "shown" /\ opened' = opened /\ acts' = acts + 1
  BY DEF Act, Counted
<1>4. AnswersInv'
  BY AnswersUntouched DEF StationInv, AnswersInv
<1>5. StationTypes' /\ NothingBefore'
  BY <1>1, <1>2, <1>3 DEF StationInv, StationTypes, NothingBefore, priceVars, listVars
<1>6. FormsAreBusy'
  BY <1>1, <1>2 DEF StationInv, FormsAreBusy
<1>7. PicturesAgree'
  BY <1>1, <1>2 DEF StationInv, PicturesAgree
<1> QED BY <1>4, <1>5, <1>6, <1>7 DEF StationInv, AnswersInv

LEMMA SubmitManualInv ==
  ASSUME StationInv, SubmitManual PROVE StationInv'
BY SendReportsInv DEF SubmitManual

LEMMA ConfirmSubmitInv ==
  ASSUME StationInv, NEW n \in 1..2, ConfirmSubmit(n) PROVE StationInv'
<1>1. mode = "photo"
  BY DEF ConfirmSubmit, StationInv, StationTypes, FormsAreBusy
<1>2. candidates.count \in Nat /\ candidates.count > 0
  BY DEF ConfirmSubmit, StationInv, StationTypes
<1>3. "photo" \notin mixed => imageId = candidates.board
  BY <1>2 DEF ConfirmSubmit, StationInv, StationTypes, PicturesAgree
<1>4. submitting' \in BOOLEAN
  BY DEF ConfirmSubmit, StationInv, StationTypes
<1> QED BY <1>1, <1>3, <1>4, SendReportsInv DEF ConfirmSubmit

(* Steps of the form that send nothing.                                    *)
LEMMA FormStepInv ==
  ASSUME StationInv, UNCHANGED <<version, priceVars, listVars, mode, form, sending, sent>>,
         UNCHANGED opened, submitting' = submitting, acts' \in Nat,
         mixed' \cap {"prices", "list"} = mixed \cap {"prices", "list"},
         candidates' = [board |-> candidates'.board, count |-> candidates'.count],
         candidates'.count \in Nat, \A u \in uploads' : IsUpload(u),
         FormsAreBusy', PicturesAgree'
  PROVE  StationInv'
<1>1. AnswersInv'
  BY AnswersUntouched DEF StationInv, AnswersInv
<1>2. StationTypes' /\ NothingBefore'
  BY DEF StationInv, StationTypes, NothingBefore, priceVars, listVars
<1> QED BY <1>1, <1>2 DEF StationInv, AnswersInv

LEMMA ChoosePhotoInv ==
  ASSUME StationInv, NEW p \in Picture \cup {NoPicture}, ChoosePhoto(p) PROVE StationInv'
<1>1. FormsAreBusy' /\ PicturesAgree'
  BY DEF ChoosePhoto, StationInv, FormsAreBusy, PicturesAgree, NoCandidates
<1>2. /\ candidates' = [board |-> candidates'.board, count |-> candidates'.count]
      /\ candidates'.count \in Nat
  BY DEF ChoosePhoto, NoCandidates
<1> QED BY <1>1, <1>2, FormStepInv DEF ChoosePhoto, StationInv, StationTypes

LEMMA UploadInv ==
  ASSUME StationInv, Upload PROVE StationInv'
<1>1. PICK u : /\ u = [nr |-> acts', photo |-> photo, at |-> "upload"]
               /\ uploads' = uploads \cup {u}
  BY DEF Upload
<1>2. IsUpload(u)
  BY <1>1 DEF IsUpload
<1>3. FormsAreBusy'
  BY <1>1 DEF Upload, StationInv, FormsAreBusy
<1>5. mixed' = IF uploads # {} THEN mixed \cup {"photo"} ELSE mixed
  BY DEF Upload, Mixed
<1>6. PicturesAgree'
  BY <1>1, <1>5 DEF Upload, StationInv, PicturesAgree
<1>4. acts' \in Nat
  BY DEF Upload, Act, Counted, StationInv, StationTypes
<1> QED BY <1>1, <1>2, <1>3, <1>4, <1>5, <1>6, FormStepInv DEF Upload, Act, StationInv, StationTypes

LEMMA UploadAnsweredInv ==
  ASSUME StationInv, NEW u \in uploads, UploadAnswered(u) PROVE StationInv'
<1>1. PICK v : v = [u EXCEPT !.at = "poll"] /\ uploads' = (uploads \ {u}) \cup {v}
  BY DEF UploadAnswered
<1>2. IsUpload(v) /\ v.photo = u.photo /\ v.at = "poll"
  BY <1>1 DEF IsUpload, StationInv, StationTypes
<1>3. FormsAreBusy' /\ PicturesAgree'
  BY <1>1, <1>2 DEF UploadAnswered, OutsideUpload, StationInv, FormsAreBusy, PicturesAgree
<1> QED BY <1>1, <1>2, <1>3, FormStepInv
        DEF UploadAnswered, OutsideUpload, StationInv, StationTypes

LEMMA PollAnsweredInv ==
  ASSUME StationInv, NEW u \in uploads, NEW n \in 0..2, PollAnswered(u, n) PROVE StationInv'
<1>1. /\ candidates' = [board |-> candidates'.board, count |-> candidates'.count]
      /\ candidates'.count \in Nat
      /\ candidates'.count > 0 => candidates'.board = u.photo
  BY DEF PollAnswered, NoCandidates
<1>2. mode = "photo"
  BY DEF StationInv, StationTypes, FormsAreBusy
<1>3. FormsAreBusy' /\ PicturesAgree'
  BY <1>1, <1>2 DEF PollAnswered, OutsideUpload, StationInv, FormsAreBusy, PicturesAgree
<1> QED BY <1>1, <1>3, FormStepInv DEF PollAnswered, OutsideUpload, StationInv, StationTypes

LEMMA UploadFailsInv ==
  ASSUME StationInv, NEW u \in uploads, UploadFails(u) PROVE StationInv'
<1>1. FormsAreBusy' /\ PicturesAgree'
  BY DEF UploadFails, OutsideUpload, StationInv, FormsAreBusy, PicturesAgree
<1>2. acts' \in Nat
  BY DEF UploadFails, Counted, StationInv, StationTypes
<1> QED BY <1>1, <1>2, FormStepInv DEF UploadFails, OutsideUpload, StationInv, StationTypes

(* A submission ends, and its form with it when that is still mounted.     *)
LEMMA SubmissionEnds ==
  ASSUME StationInv, NEW f \in sending, NEW ending \in {"done", "review"},
         sending' = sending \ {f}, FormGoesTo(f, ending),
         \/ sent' = sent
         \/ sent' = sent \cup {[image |-> f.image, board |-> f.board]},
         "photo" \in mixed => "photo" \in mixed'
  PROVE  /\ FormInv' /\ submitting' \in BOOLEAN
         /\ UNCHANGED <<mode, candidates, uploads>>
<1>1. /\ UNCHANGED <<mode, form, photo, imageId, candidates, uploads>>
      /\ submitting' = (submitting /\ f.form # form)
      /\ photoPhase' = IF f.form = form /\ mode = "photo" THEN ending ELSE photoPhase
  BY DEF FormGoesTo
<1>2. FormsAreBusy'
  BY <1>1 DEF StationInv, StationTypes, FormsAreBusy
<1>3. PicturesAgree'
  BY <1>1 DEF StationInv, PicturesAgree
<1> QED BY <1>1, <1>2, <1>3 DEF FormInv

LEMMA ReportAcceptedInv ==
  ASSUME StationInv, NEW f \in sending, ReportAccepted(f) PROVE StationInv'
<1>1. /\ version' = version + 1 /\ opened' = opened /\ acts' = acts /\ mixed' = mixed
      /\ sent' = sent \cup {[image |-> f.image, board |-> f.board]}
      /\ version \in Nat /\ opened = "shown"
  BY DEF ReportAccepted, StationInv, StationTypes, NothingBefore
<1>2. CASE sending' = sending \ {f} /\ FormGoesTo(f, "done") /\ ReportSubmitted
  <2>1. /\ priceLoads' = priceLoads \cup {version'} /\ pricesTold' = version' /\ prices' = prices
        /\ LoadList(version')
    BY <1>2 DEF ReportSubmitted
  <2>2. FormInv' /\ submitting' \in BOOLEAN /\ UNCHANGED <<mode, candidates, uploads>>
    BY <1>1, <1>2, <2>1, SubmissionEnds
  <2>3. /\ OneLoadCounts' /\ ListFollows' /\ \A r \in listLoads' : IsListRequest(r)
        /\ listTold' = version' /\ listed' = listed /\ listLoading' = TRUE
        /\ listError' = listError
    <3>1. version' \in Nat
      BY <1>1
    <3>2. StationTypes /\ OneLoadCounts /\ LoadList(version')
      BY <2>1 DEF StationInv
    <3> QED BY <3>1, <3>2, ListLoaded
  <2>4. PricesFollow'
    BY <1>1, <2>1 DEF StationInv, PricesFollow
  <2>5. StationTypes' /\ NothingBefore'
    BY <1>1, <1>2, <2>1, <2>2, <2>3 DEF StationInv, StationTypes, NothingBefore
  <2> QED BY <2>2, <2>3, <2>4, <2>5 DEF StationInv, FormInv
<1>3. CASE /\ f.left > 1
           /\ sending' = (sending \ {f}) \cup {[f EXCEPT !.left = @ - 1]}
           /\ UNCHANGED <<formVars, priceVars, listVars>>
  <2>1. PICK g : g = [f EXCEPT !.left = @ - 1] /\ sending' = (sending \ {f}) \cup {g}
    BY <1>3
  <2>2. IsSubmission(g) /\ g.form = f.form /\ g.image = f.image /\ g.board = f.board
    BY <1>3, <2>1 DEF StationInv, StationTypes, IsSubmission
  <2>3. AnswersInv'
    BY <1>1, <1>3, AnswersUntouched DEF StationInv, AnswersInv
  <2>4. StationTypes' /\ NothingBefore'
    BY <1>1, <1>3, <2>1, <2>2 DEF StationInv, StationTypes, NothingBefore, formVars,
       priceVars, listVars
  <2>5. FormsAreBusy'
    BY <1>3, <2>1, <2>2 DEF StationInv, FormsAreBusy, formVars
  <2>6. PicturesAgree'
    <3>1. "photo" \notin mixed => f.image = f.board
      BY DEF StationInv, PicturesAgree
    <3>2. UNCHANGED <<photo, photoPhase, imageId, candidates, uploads, mixed>>
      BY <1>1, <1>3 DEF formVars
    <3>3. SUFFICES ASSUME "photo" \notin mixed
                   PROVE  /\ \A h \in sending' : h.image = h.board
                          /\ \A s \in sent' : s.image = s.board
      BY <3>2 DEF StationInv, PicturesAgree
    <3>4. \A h \in sending' : h.image = h.board
      BY <2>1, <2>2, <3>1, <3>3 DEF StationInv, PicturesAgree
    <3>5. \A s \in sent' : s.image = s.board
      BY <1>1, <3>1, <3>3 DEF StationInv, PicturesAgree
    <3> QED BY <3>4, <3>5
  <2> QED BY <2>3, <2>4, <2>5, <2>6 DEF StationInv, AnswersInv
<1> QED BY <1>2, <1>3 DEF ReportAccepted

LEMMA ReportFailsInv ==
  ASSUME StationInv, NEW f \in sending, ReportFails(f) PROVE StationInv'
<1>1. /\ UNCHANGED <<opened, priceVars, listVars, mixed>> /\ acts' = acts + 1
      /\ sending' = sending \ {f} /\ FormGoesTo(f, "review")
      /\ \/ version' = version /\ sent' = sent
         \/ version' = version + 1 /\ sent' = sent \cup {[image |-> f.image, board |-> f.board]}
  BY DEF ReportFails, Counted
<1>2. FormInv' /\ submitting' \in BOOLEAN /\ UNCHANGED <<mode, candidates, uploads>>
  BY <1>1, SubmissionEnds
<1>3. AnswersInv'
  BY <1>1, AnswersUntouched DEF StationInv, AnswersInv
<1>4. StationTypes' /\ NothingBefore'
  BY <1>1, <1>2 DEF StationInv, StationTypes, NothingBefore, priceVars, listVars
<1> QED BY <1>2, <1>3, <1>4 DEF StationInv, FormInv, AnswersInv

(* Every step of the page of a station keeps it.                           *)
LEMMA StationNextInv == StationInv /\ [StationNext]_stationVars => StationInv'
<1> SUFFICES ASSUME StationInv, [StationNext]_stationVars PROVE StationInv'
  OBVIOUS
<1>1. CASE StationStep
  BY <1>1, PageLoadedInv, PricesAnsweredInv, ListAnsweredInv, VoteAnsweredInv,
     UploadAnsweredInv, UploadFailsInv, PollAnsweredInv, ReportAcceptedInv, ReportFailsInv
     DEF StationStep
<1>2. CASE Vote \/ ToggleMode \/ SubmitManual \/ Upload
  BY <1>2, VoteInv, ToggleModeInv, SubmitManualInv, UploadInv
<1>3. ASSUME NEW p \in Picture \cup {NoPicture}, ChoosePhoto(p) PROVE StationInv'
  BY <1>3, ChoosePhotoInv
<1>4. ASSUME NEW n \in 1..2, ConfirmSubmit(n) PROVE StationInv'
  BY <1>4, ConfirmSubmitInv
<1>5. CASE UNCHANGED stationVars
  <2>1. AnswersInv'
    BY <1>5, AnswersUntouched DEF StationInv, AnswersInv, stationVars
  <2>2. FormInv'
    BY <1>5, FormsUntouched DEF StationInv, FormInv, stationVars
  <2>3. StationTypes' /\ NothingBefore'
    BY <1>5 DEF StationInv, StationTypes, NothingBefore, stationVars, formVars, priceVars, listVars
  <2> QED BY <2>1, <2>2, <2>3 DEF StationInv, AnswersInv, FormInv
<1> QED BY <1>1, <1>2, <1>3, <1>4, <1>5 DEF StationNext

-----------------------------------------------------------------------------
(* The parts together.                                                     *)

(* What the pages are like when they are opened.                           *)
LEMMA PagesBegin ==
  /\ MapInit => MapInv
  /\ SearchBoxInit => BoxInv
  /\ ExplorerInit => PageInv
  /\ AuthInit => AuthInv
  /\ StationInit => StationInv
<1>1. MapInit => MapInv
  BY DEF MapInit, MapInv, ViewportIsTold
<1>2. SearchBoxInit => BoxInv
  BY DEF SearchBoxInit, BoxInv, BoxAnswersLastSearch, NoResults
<1>3. ASSUME ExplorerInit PROVE PageInv
  <2>1. /\ asked["nearby"] = NearbyQuestion /\ dismissed = "no"
        /\ flights = {[slot |-> "nearby", q |-> NearbyQuestion]}
        /\ panel = [s \in Slot |-> [what |-> "nothing", q |-> Unasked]]
        /\ busy = {"nearby"}
    BY <1>3 DEF ExplorerInit, Slot
  <2>2. \A f \in flights : IsRequest(f) /\ f.q = asked[f.slot]
    BY <2>1 DEF IsRequest, Slot
  <2>3. IsPanel(panel) /\ \A s \in Slot : panel[s].what # "answer"
    BY <2>1 DEF IsPanel
  <2>4. busy = {f.slot : f \in flights} \ {"bbox"}
    BY <2>1
  <2> QED BY <2>1, <2>2, <2>3, <2>4 DEF PageInv, Fits
<1>4. ASSUME AuthInit PROVE AuthInv
  <2>1. PICK c : c = Plain("me", NoUser) /\ calls = {c}
    BY <1>4 DEF AuthInit
  <2>2. c.kind = "me" /\ c.served = FALSE
    BY <2>1 DEF Plain, Call
  <2>3. WhoInv
    BY <2>1, <2>2 DEF WhoInv, LeadsThere, Identity
  <2>4. auth.favorites = {}
    BY <1>4 DEF AuthInit, Anonymous
  <2>5. FavoritesInv
    BY <2>1, <2>2, <2>4 DEF FavoritesInv, TellsFavorites, Fetching
  <2> QED BY <2>3, <2>5 DEF AuthInv
<1> QED BY <1>1, <1>2, <1>3, <1>4, StationBegins

(* Only one part moves: a step of the whole is one of a part or leaves it. *)
LEMMA StepOfAPart ==
  [Next]_vars =>
    /\ [ExplorerNext]_pageVars /\ [SearchBoxNext]_boxVars
    /\ [AuthNext]_authVars /\ [MapNext]_mapVars
    /\ [StationNext]_stationVars
    /\ [AccountsNext]_accountVars /\ [GeoNext]_geoVars
    /\ [SearchNext]_searchVars /\ [RouteNext]_routeVars
    /\ [FetchNext]_fetchVars
<1> SUFFICES ASSUME [Next]_vars
             PROVE  /\ [ExplorerNext]_pageVars /\ [SearchBoxNext]_boxVars
                    /\ [AuthNext]_authVars /\ [MapNext]_mapVars
                    /\ [StationNext]_stationVars
                    /\ [AccountsNext]_accountVars /\ [GeoNext]_geoVars
                    /\ [SearchNext]_searchVars /\ [RouteNext]_routeVars
                    /\ [FetchNext]_fetchVars
  OBVIOUS
<1>1. CASE UNCHANGED vars
  BY <1>1 DEF vars
<1>2. ASSUME NEW p, p # "page", Only(p) PROVE UNCHANGED pageVars
  BY <1>2, Zenon DEF Only
<1>3. ASSUME NEW p, p # "box", Only(p) PROVE UNCHANGED boxVars
  BY <1>3, Zenon DEF Only
<1>4. ASSUME NEW p, p # "auth", Only(p) PROVE UNCHANGED authVars
  BY <1>4, Zenon DEF Only
<1>5. ASSUME NEW p, p # "map", Only(p) PROVE UNCHANGED mapVars
  BY <1>5, Zenon DEF Only
<1>6. ASSUME NEW p, p # "accounts", Only(p) PROVE UNCHANGED accountVars
  BY <1>6, Zenon DEF Only
<1>7. ASSUME NEW p, p # "geocoding", Only(p) PROVE UNCHANGED geoVars
  BY <1>7, Zenon DEF Only
<1>8. ASSUME NEW p, p # "station", Only(p) PROVE UNCHANGED stationVars
  BY <1>8, Zenon DEF Only
<1>9. ASSUME NEW p, p # "search", Only(p) PROVE UNCHANGED searchVars
  BY <1>9, Zenon DEF Only
<1>10. ASSUME NEW p, p # "route", Only(p) PROVE UNCHANGED routeVars
  BY <1>10, Zenon DEF Only
<1>11. ASSUME NEW p, p # "fetch", Only(p) PROVE UNCHANGED fetchVars
  BY <1>11, Zenon DEF Only
<1>12. CASE Next
  <2>1. CASE Only("search") /\ SearchNext
    BY <1>2, <1>3, <1>4, <1>5, <1>6, <1>7, <1>8, <1>10, <1>11, <2>1
  <2>2. CASE Only("route") /\ RouteNext
    BY <1>2, <1>3, <1>4, <1>5, <1>6, <1>7, <1>8, <1>9, <1>11, <2>2
  <2>3. CASE Only("geocoding") /\ GeoNext
    BY <1>2, <1>3, <1>4, <1>5, <1>6, <1>8, <1>9, <1>10, <1>11, <2>3
  <2>4. CASE Only("fetch") /\ FetchNext
    BY <1>2, <1>3, <1>4, <1>5, <1>6, <1>7, <1>8, <1>9, <1>10, <2>4
  <2>5. CASE Only("accounts") /\ AccountsNext
    BY <1>2, <1>3, <1>4, <1>5, <1>7, <1>8, <1>9, <1>10, <1>11, <2>5
  <2>6. CASE Only("page") /\ ExplorerNext
    BY <1>3, <1>4, <1>5, <1>6, <1>7, <1>8, <1>9, <1>10, <1>11, <2>6
  <2>7. CASE Only("box") /\ SearchBoxNext
    BY <1>2, <1>4, <1>5, <1>6, <1>7, <1>8, <1>9, <1>10, <1>11, <2>7
  <2>8. CASE Only("auth") /\ AuthNext
    BY <1>2, <1>3, <1>5, <1>6, <1>7, <1>8, <1>9, <1>10, <1>11, <2>8
  <2>9. CASE Only("map") /\ MapNext
    BY <1>2, <1>3, <1>4, <1>6, <1>7, <1>8, <1>9, <1>10, <1>11, <2>9
  <2>10. CASE Only("station") /\ StationNext
    BY <1>2, <1>3, <1>4, <1>5, <1>6, <1>7, <1>9, <1>10, <1>11, <2>10
  <2> QED BY <1>12, <2>1, <2>2, <2>3, <2>4, <2>5, <2>6, <2>7, <2>8, <2>9, <2>10 DEF Next
<1> QED BY <1>1, <1>12

(* Sessions end as told in the whole (auth.service.ts and the guard).      *)
THEOREM SessionsEndInAll == Spec => []SessionsEndAsTold
<1>1. Spec => AccountsSpec
  <2>1. Init => AccountsInit
    BY DEF Init
  <2>2. [Next]_vars => [AccountsNext]_accountVars
    BY StepOfAPart
  <2> QED BY <2>1, <2>2, PTL DEF Spec, AccountsSpec
<1> QED BY <1>1, SessionsEnd, PTL

(* The interval between requests to Nominatim is kept in the whole, as far *)
(* as a caller can see the others (geocoding.throttle.ts).                 *)
THEOREM IntervalIsKeptInAll == Spec => []IntervalToRequestsSeen
<1>1. Spec => GeoSpec
  <2>1. Init => GeoInit
    BY DEF Init
  <2>2. [Next]_vars => [GeoNext]_geoVars
    BY StepOfAPart
  <2> QED BY <2>1, <2>2, PTL DEF Spec, GeoSpec
<1> QED BY <1>1, IntervalIsKept, PTL

-----------------------------------------------------------------------------
(* What readers are shown, and what an import makes of a feed.             *)

ReadersInv == SearchInv /\ RouteInv /\ EachIsTakenOnce /\ FetchInv

LEMMA ReadersBegin == Init => ReadersInv
BY SearchInitInv, RouteInitInv, NobodyTakesAtFirst, FetchInitInv, RoutePlanningAssumption
   DEF Init, ReadersInv

LEMMA ReadersNext == ReadersInv /\ [Next]_vars => ReadersInv'
BY StepOfAPart, SearchNextInv, RouteNextInv, SharedNext, FetchNextInv, RoutePlanningAssumption,
   ProviderFetchAssumption DEF ReadersInv

(* The inductive invariant of search, route planning and imports.          *)
THEOREM ReadersInvariant == Spec => []ReadersInv
BY ReadersBegin, ReadersNext, PTL DEF Spec

(* The price shown of a fuel at a station is the best of the candidates    *)
(* that were stored when the prices were read, in whatever order the       *)
(* database returned them (StationsQueryService, PriceSelectionService),   *)
(* for any observations and questions.                                     *)
THEOREM BestPriceIsShown == Spec => []ShownPriceIsBest
BY ReadersInvariant, SearchInvSuffices, PTL DEF ReadersInv

(* An answer leaves out nothing silently: a nearby station that belongs    *)
(* into it is missing only when it is full, and then comes after all that  *)
(* are in it; one on the map only if the answer says that it is truncated; *)
(* an observation only from a full history (StationsQueryService,          *)
(* PricesService), for any stations, questions and limits.                 *)
THEOREM NothingLeftOut == Spec => []NothingIsLeftOutSilently
BY ReadersInvariant, SearchInvSuffices, PTL DEF ReadersInv

(* The plan of a route shows stations with the detours the workers were    *)
(* answered for them, in whatever order they were; stations are left out   *)
(* by a failure or by the limit only, and then none that sorts before one  *)
(* shown; the shortlist has the cheapest and the closest of the corridor   *)
(* and none twice (RouteStationsService, mapWithConcurrency()), for any    *)
(* prices, distances, trips and failures of the router.                    *)
THEOREM PlanOfRouteIsSound == Spec => []PlanIsSound
<1>1. ReadersInv => PlanIsSound
  BY RouteInvSuffices, RoutePlanningAssumption DEF ReadersInv, PlanIsSound
<1> QED BY <1>1, ReadersInvariant, PTL

(* An import that gets to its end has every answer but those Germany may   *)
(* miss, keeps each good record with its prices, counts the others as      *)
(* skipped and leaves an error for them where the provider reports it      *)
(* (fetch() and normalize() of the seven providers), for any feeds and     *)
(* failures.                                                               *)
THEOREM FeedsAreAccountedFor == Spec => []FeedIsAccountedFor
BY ReadersInvariant, FetchInvSuffices, PTL DEF ReadersInv

-----------------------------------------------------------------------------
(* The types of the pages' state.                                          *)

LEMMA BoxTypeNext == SearchBoxTypeOK /\ [SearchBoxNext]_boxVars => SearchBoxTypeOK'
<1> SUFFICES ASSUME SearchBoxTypeOK, [SearchBoxNext]_boxVars PROVE SearchBoxTypeOK'
  OBVIOUS
<1>1. TooShort \subseteq Text /\ MaxTyped \in Nat
  BY PlaceSearchAssumption
<1> USE <1>1 DEF SearchBoxTypeOK
<1>2. NoResults \in [for : Text \cup {NoText}, count : 0..2]
  BY DEF NoResults
<1>3. ASSUME NEW text \in Text, RunSearch(text)
      PROVE  /\ searching' \subseteq Text \ TooShort
             /\ hits' \in [for : Text \cup {NoText}, count : 0..2]
             /\ status' \in {"idle", "searching", "results", "empty", "error"}
             /\ isOpen' \in BOOLEAN /\ wanted' \in Text \cup {NoText}
  <2>1. CASE text \in TooShort
    BY <1>2, <1>3, <2>1 DEF RunSearch, Done
  <2>2. CASE text \notin TooShort
    BY <1>3, <2>2 DEF RunSearch
  <2> QED BY <2>1, <2>2
<1>4. CASE DelayOver
  BY <1>3, <1>4 DEF DelayOver
<1>5. CASE Submit
  BY <1>3, <1>5 DEF Submit
<1>6. ASSUME NEW text \in searching, NEW n \in 0..2, SearchAnswered(text, n) PROVE SearchBoxTypeOK'
  <2>1. [for |-> text, count |-> n] \in [for : Text \cup {NoText}, count : 0..2]
    OBVIOUS
  <2> QED BY <1>6, <2>1 DEF SearchAnswered
<1>7. ASSUME NEW text \in searching, SearchFailed(text) PROVE SearchBoxTypeOK'
  BY <1>2, <1>7 DEF SearchFailed
<1>8. ASSUME EndSearch, query' \in Text, selectedLabel' \in BOOLEAN PROVE SearchBoxTypeOK'
  <2>1. hits' \in [for : Text \cup {NoText}, count : 0..2]
    BY <1>2, <1>8 DEF EndSearch
  <2>2. /\ delayed' \in Text \cup {NoText} /\ searching' \subseteq Text \ TooShort
        /\ typed' \in 0..MaxTyped /\ activeIndex' \in 0..2
        /\ status' \in {"idle", "searching", "results", "empty", "error"}
        /\ wanted' \in Text \cup {NoText}
    BY <1>8 DEF EndSearch, Done
  <2>3. isOpen' \in BOOLEAN
    BY <1>8, Zenon DEF EndSearch
  <2> QED BY <1>8, <2>1, <2>2, <2>3
<1>9. ASSUME NEW text \in Text, Type(text) \/ Select(text) PROVE SearchBoxTypeOK'
  <2>1. CASE Type(text)
    BY <2>1 DEF Type
  <2>2. CASE Select(text)
    BY <1>8, <2>2 DEF Select
  <2> QED BY <1>9, <2>1, <2>2
<1>10. CASE Clear
  BY <1>1, <1>10, <1>8 DEF Clear
<1>11. ASSUME NEW key \in {"Escape", "ArrowDown", "ArrowUp"}, HandleKeyDown(key)
       PROVE  SearchBoxTypeOK'
  <2>1. hits.count \in 0..2 /\ isOpen \in BOOLEAN /\ activeIndex \in 0..2
    OBVIOUS
  <2>2. isOpen' \in BOOLEAN
    BY <1>11, <2>1 DEF HandleKeyDown
  <2>3. activeIndex' \in 0..2
    BY <1>11, <2>1 DEF HandleKeyDown
  <2> QED BY <1>11, <2>2, <2>3 DEF HandleKeyDown
<1>12. CASE UNCHANGED boxVars
  BY <1>12 DEF boxVars
<1> QED
  BY <1>4, <1>5, <1>6, <1>7, <1>9, <1>10, <1>11, <1>12 DEF SearchBoxNext, SearchBoxStep

(* What is drawn, of whatever the map was given.                           *)
Drawing == [user : Point \cup {NoPoint}, stations : SUBSET Pin, selected : Pin \cup {NoPin},
            ends : (Point \cup {NoPoint}) \X (Point \cup {NoPoint})]

LEMMA RendersType ==
  ASSUME MapTypeOK, NEW new \in Given, Renders(new)
  PROVE  MapTypeOK'
<1>1. /\ Paris \in Point /\ NoPoint \notin Point /\ MaxGiven \in Nat
  BY StationMapAssumption
<1>2. changes' \in 0..MaxGiven /\ given' \in Given /\ told' \in Point \cup {NoPoint}
  BY <1>1 DEF MapTypeOK, Renders
<1>3. CASE Center(new) # Center(given)
  <2>1. Center(new) \in Point
    <3>1. /\ new.ends[1] \in Point \cup {NoPoint} /\ new.ends[2] \in Point \cup {NoPoint}
          /\ new.place \in Point \cup {NoPoint} /\ new.user \in Point \cup {NoPoint}
      BY DEF Given
    <3> QED BY <1>1, <3>1 DEF Center
  <2>2. Blank \in Drawing
    BY DEF Blank, Drawing, Endless
  <2>3. map' = "loading" /\ view' = Center(new) /\ timer' = FALSE /\ drawn' = Blank
    BY <1>3 DEF Renders
  <2> QED BY <1>2, <2>1, <2>2, <2>3 DEF MapTypeOK, Drawing
<1>4. CASE Center(new) = Center(given)
  <2>1. UNCHANGED <<map, view, timer>>
    BY <1>4 DEF Renders
  <2>2. PICK fresh : drawn' = [l \in Layer |-> IF l \in fresh THEN new[l] ELSE drawn[l]]
    <3>1. PICK denied : drawn' = [l \in Layer |->
                                   IF map = "loaded" /\ l \in Stale(new) \ denied
                                   THEN new[l] ELSE drawn[l]]
      BY <1>4 DEF Renders
    <3> DEFINE fresh == IF map = "loaded" THEN Stale(new) \ denied ELSE {}
    <3>2. drawn' = [l \in Layer |-> IF l \in fresh THEN new[l] ELSE drawn[l]]
      BY <3>1
    <3> QED BY <3>2
  <2>3. /\ DOMAIN drawn' = {"user", "stations", "selected", "ends"}
        /\ drawn'["user"] = IF "user" \in fresh THEN new.user ELSE drawn.user
        /\ drawn'["stations"] = IF "stations" \in fresh THEN new.stations ELSE drawn.stations
        /\ drawn'["selected"] = IF "selected" \in fresh THEN new.selected ELSE drawn.selected
        /\ drawn'["ends"] = IF "ends" \in fresh THEN new.ends ELSE drawn.ends
    BY <2>2 DEF Layer
  <2>4. drawn' = [user |-> drawn'["user"], stations |-> drawn'["stations"],
                  selected |-> drawn'["selected"], ends |-> drawn'["ends"]]
    BY <2>2, <2>3 DEF Layer
  <2>5. /\ drawn'["user"] \in Point \cup {NoPoint} /\ drawn'["stations"] \in SUBSET Pin
        /\ drawn'["selected"] \in Pin \cup {NoPin}
        /\ drawn'["ends"] \in (Point \cup {NoPoint}) \X (Point \cup {NoPoint})
    BY <2>3 DEF MapTypeOK, Given
  <2>6. drawn' \in Drawing
    BY <2>4, <2>5 DEF Drawing
  <2> QED BY <1>2, <2>1, <2>6 DEF MapTypeOK, Drawing
<1> QED BY <1>3, <1>4

LEMMA MapTypeNext == MapTypeOK /\ [MapNext]_mapVars => MapTypeOK'
<1> SUFFICES ASSUME MapTypeOK, [MapNext]_mapVars PROVE MapTypeOK'
  OBVIOUS
<1>1. CASE MapStep
  BY <1>1 DEF MapStep, StyleLoaded, EmitViewport, MapTypeOK
<1>2. ASSUME NEW p \in Point, MapMoved(p) PROVE MapTypeOK'
  BY <1>2, StationMapAssumption DEF MapMoved, MapTypeOK
<1>3. ASSUME NEW p \in Point \cup {NoPoint}, NEW e \in 1..2
      PROVE  /\ [given EXCEPT !.ends[e] = p] \in Given
             /\ [given EXCEPT !.ends[e] = p, !.pick = FALSE] \in Given
  <2>1. given \in Given
    BY DEF MapTypeOK
  <2>2. [given.ends EXCEPT ![e] = p] \in (Point \cup {NoPoint}) \X (Point \cup {NoPoint})
    <3>1. PICK a \in Point \cup {NoPoint}, b \in Point \cup {NoPoint} : given.ends = <<a, b>>
      BY <2>1 DEF Given
    <3> QED BY <3>1
  <2> QED BY <2>1, <2>2 DEF Given
<1>4. ASSUME NEW p \in Point, NEW s \in Pin, ClickMap(p, s) PROVE MapTypeOK'
  <2>1. [given EXCEPT !.selected = s] \in Given
    BY DEF MapTypeOK, Given
  <2> QED BY <1>3, <1>4, <2>1, RendersType DEF ClickMap
<1>5. CASE PageGives
  <2>1. /\ \A p \in Point : [given EXCEPT !.user = p] \in Given
        /\ \A p \in Point \cup {NoPoint} : [given EXCEPT !.place = p] \in Given
        /\ \A found \in SUBSET Pin : [given EXCEPT !.stations = found] \in Given
        /\ \A s \in Pin \cup {NoPin} : [given EXCEPT !.selected = s] \in Given
        /\ [given EXCEPT !.pick = ~@] \in Given
    BY DEF MapTypeOK, Given
  <2> QED BY <1>3, <1>5, <2>1, RendersType DEF PageGives
<1>6. CASE UNCHANGED mapVars
  BY <1>6 DEF mapVars, MapTypeOK
<1> QED BY <1>1, <1>2, <1>4, <1>5, <1>6 DEF MapNext

LEMMA AuthAfter ==
  ASSUME AuthTypes, NEW c, NEW next, NEW a \in AuthState, After(c, next, a),
         \A d \in next : CallIs(d),
         UNCHANGED <<cookie, userFavorites, clicks>>
  PROVE  AuthTypes'
<1>1. /\ auth' \in AuthState /\ calls' = (calls \ {c}) \cup next
      /\ doubt' \subseteq {"who", "favorites"}
  BY DEF After, Doubt, Meeting, AuthTypes, AuthTypeOK
<1>2. \A d \in calls' : CallIs(d)
  BY <1>1 DEF AuthTypes
<1>3. \A d \in calls' : d.kind \in {"me", "load", "favorites", "login", "logout", "toggle", "save"}
  BY <1>2 DEF CallIs
<1>4. AuthTypeOK'
  BY <1>1, <1>3 DEF AuthTypes, AuthTypeOK, AuthState
<1> QED BY <1>2, <1>4 DEF AuthTypes, CallIs

LEMMA AuthTypeNext == AuthTypes /\ [AuthNext]_authVars => AuthTypes'
<1> SUFFICES ASSUME AuthTypes, [AuthNext]_authVars PROVE AuthTypes'
  OBVIOUS
<1>1. /\ auth \in AuthState /\ cookie \in User \cup {NoUser} /\ userFavorites \subseteq User \X Starred
      /\ clicks \in 0..MaxClicks /\ doubt \subseteq {"who", "favorites"} /\ MaxClicks \in Nat
      /\ \A c \in calls : CallIs(c)
  BY SignedInAssumption DEF AuthTypes, AuthTypeOK, AuthState
<1>2. /\ Anonymous \in AuthState
      /\ \A u \in User \cup {NoUser}, f \in SUBSET Starred : SignedInAs(u, f) \in AuthState
      /\ \A f \in SUBSET Starred : WithFavorites(f) \in AuthState
      /\ \A u : FavoritesOf(u) \subseteq Starred
  BY <1>1 DEF AuthState, Anonymous, SignedInAs, WithFavorites, FavoritesOf
<1>3. ASSUME NEW c \in calls, Serve(c) PROVE AuthTypes'
  <2> DEFINE answer == [ok |-> c.kind \in {"login", "logout"} \/ cookie # NoUser,
                        user |-> cookie, favorites |-> FavoritesOf(cookie)]
             d == [c EXCEPT !.served = TRUE, !.result = answer]
  <2>1. /\ calls' = (calls \ {c}) \cup {d} /\ UNCHANGED <<auth, clicks, doubt>>
        /\ cookie' \in {c.user, NoUser, cookie}
    BY <1>3 DEF Serve
  <2>2. CallIs(c)
    BY <1>1
  <2>3. CallIs(d)
    <3>1. answer.user = cookie /\ answer.favorites \subseteq Starred
      BY <1>2
    <3>2. PICK y : y = answer
      OBVIOUS
    <3> HIDE DEF answer
    <3>3. PICK x : x = [c EXCEPT !.served = TRUE, !.result = y]
      OBVIOUS
    <3>4. c = [kind |-> c.kind, user |-> c.user, station |-> c.station, remove |-> c.remove,
               served |-> c.served, result |-> c.result]
      BY <2>2 DEF CallIs
    <3>5. /\ x.kind = c.kind /\ x.user = c.user /\ x.station = c.station /\ x.result = y
          /\ x = [kind |-> x.kind, user |-> x.user, station |-> x.station, remove |-> x.remove,
                  served |-> x.served, result |-> x.result]
      BY <3>3, <3>4
    <3>6. CallIs(x)
      BY <1>1, <2>2, <3>1, <3>2, <3>5 DEF CallIs
    <3> QED BY <3>2, <3>3, <3>6
  <2>4. userFavorites' \subseteq User \X Starred
    <3>1. CASE c.kind = "toggle" /\ cookie # NoUser
      <4>1. cookie \in User /\ c.station \in Starred
        BY <1>1, <2>2, <3>1 DEF CallIs
      <4>2. userFavorites' \in {userFavorites \ {<<cookie, c.station>>},
                                userFavorites \cup {<<cookie, c.station>>}}
        BY <1>3, <3>1 DEF Serve
      <4> QED BY <1>1, <4>1, <4>2
    <3>2. CASE ~(c.kind = "toggle" /\ cookie # NoUser)
      <4>1. userFavorites' = userFavorites
        BY <1>3, <3>2 DEF Serve
      <4> QED BY <1>1, <4>1
    <3> QED BY <3>1, <3>2
  <2> HIDE DEF d, answer
  <2>5. \A e \in calls' : CallIs(e)
    BY <1>1, <2>1, <2>3
  <2>6. cookie' \in User \cup {NoUser}
    BY <1>1, <2>1, <2>2 DEF CallIs
  <2>7. \A e \in calls' : e.kind \in {"me", "load", "favorites", "login", "logout", "toggle", "save"}
    BY <2>5 DEF CallIs
  <2>8. AuthTypeOK'
    BY <1>1, <2>1, <2>4, <2>6, <2>7 DEF AuthTypeOK, AuthState
  <2> QED BY <2>5, <2>8 DEF AuthTypes, CallIs
<1>4. ASSUME NEW c \in calls, AuthAnswer(c) PROVE AuthTypes'
  <2>1. /\ CallIs(c) /\ UNCHANGED <<cookie, userFavorites, clicks>>
        /\ c.kind \in {"me", "load", "favorites", "login", "logout", "toggle", "save"}
        /\ c.user \in User \cup {NoUser} /\ c.result.user \in User \cup {NoUser}
        /\ c.result.favorites \subseteq Starred
        /\ c.kind = "toggle" => c.station \in Starred
    BY <1>1, <1>4 DEF AuthAnswer, CallIs
  <2>2. /\ CallIs(Plain("load", c.result.user)) /\ CallIs(Plain("me", NoUser))
        /\ CallIs(Plain("favorites", NoUser))
    BY <2>1, CallIsOne DEF Plain
  <2>3. PICK next, a : After(c, next, a) /\ a \in AuthState /\ \A d \in next : CallIs(d)
    <3>1. CASE c.kind = "me" /\ c.result.ok
      BY <1>1, <1>4, <2>2, <3>1 DEF AuthAnswer
    <3>2. CASE c.kind = "me" /\ ~c.result.ok
      BY <1>2, <1>4, <3>2 DEF AuthAnswer
    <3>3. CASE c.kind = "load"
      <4>1. After(c, {}, SignedInAs(c.user, IF c.result.ok THEN c.result.favorites ELSE {}))
        BY <1>4, <3>3 DEF AuthAnswer
      <4> QED BY <1>2, <2>1, <4>1
    <3>4. CASE c.kind = "favorites" /\ c.result.ok
      BY <1>2, <1>4, <2>1, <3>4 DEF AuthAnswer
    <3>5. CASE c.kind = "login"
      <4>1. After(c, {Plain("favorites", NoUser)}, SignedInAs(c.user, {}))
        BY <1>4, <3>5 DEF AuthAnswer, SetAuthenticated
      <4> QED BY <1>2, <2>1, <2>2, <4>1
    <3>6. CASE c.kind = "logout"
      BY <1>2, <1>4, <3>6 DEF AuthAnswer
    <3>7. CASE c.kind = "toggle" /\ c.result.ok
      <4> DEFINE f == IF c.remove THEN auth.favorites \ {c.station}
                      ELSE auth.favorites \cup {c.station}
      <4>1. After(c, {}, WithFavorites(f))
        BY <1>4, <3>7 DEF AuthAnswer
      <4>2. f \in SUBSET Starred
        BY <1>1, <2>1, <3>7 DEF AuthState
      <4> HIDE DEF f
      <4> QED BY <1>2, <4>1, <4>2
    <3>8. CASE c.kind = "save" /\ c.result.ok
      BY <1>1, <1>4, <2>2, <3>8 DEF AuthAnswer
    <3>9. CASE c.kind \in {"favorites", "toggle", "save"} /\ ~c.result.ok
      BY <1>1, <1>4, <3>9 DEF AuthAnswer
    <3> QED BY <2>1, <3>1, <3>2, <3>3, <3>4, <3>5, <3>6, <3>7, <3>8, <3>9
  <2> QED BY <1>1, <2>1, <2>3, AuthAfter
<1>5. ASSUME NEW c \in calls, LoseCall(c) PROVE AuthTypes'
  <2>1. /\ CallIs(c) /\ UNCHANGED <<cookie, userFavorites, clicks>> /\ calls' \subseteq calls
        /\ auth' \in {Anonymous, SignedInAs(c.user, {}), auth}
        /\ doubt' \subseteq {"who", "favorites"}
    BY <1>1, <1>5 DEF LoseCall, Doubt
  <2>2. auth' \in AuthState
    BY <1>1, <1>2, <2>1 DEF CallIs
  <2>3. \A d \in calls' : CallIs(d)
    BY <1>1, <2>1
  <2>4. \A d \in calls' : d.kind \in {"me", "load", "favorites", "login", "logout", "toggle", "save"}
    BY <2>3 DEF CallIs
  <2>5. AuthTypeOK'
    BY <1>1, <2>1, <2>2, <2>4 DEF AuthTypeOK, AuthState
  <2> QED BY <2>3, <2>5 DEF AuthTypes, CallIs
<1>6. ASSUME NEW c, CallIs(c), Click(c) PROVE AuthTypes'
  <2>1. /\ calls' = calls \cup {c} /\ UNCHANGED <<auth, cookie, userFavorites>>
        /\ clicks < MaxClicks /\ clicks' = clicks + 1
        /\ doubt' = doubt \cup Meeting(calls, {c})
    BY <1>6 DEF Click, Doubt
  <2>2. clicks' \in 0..MaxClicks
    BY <1>1, <2>1
  <2>3. doubt' \subseteq {"who", "favorites"}
    BY <1>1, <2>1 DEF Meeting
  <2>4. \A d \in calls' : CallIs(d)
    BY <1>1, <1>6, <2>1
  <2>5. \A d \in calls' : d.kind \in {"me", "load", "favorites", "login", "logout", "toggle", "save"}
    BY <2>4 DEF CallIs
  <2>6. AuthTypeOK'
    BY <1>1, <2>1, <2>5, <2>2, <2>3 DEF AuthTypeOK, AuthState
  <2> QED BY <2>4, <2>6 DEF AuthTypes, CallIs
<1>7. ASSUME NEW u \in User, LogIn(u) PROVE AuthTypes'
  <2>1. CallIs(Plain("login", u))
    BY CallIsOne DEF Plain
  <2> QED BY <1>6, <1>7, <2>1 DEF LogIn
<1>8. ASSUME NEW s \in Starred, ToggleFavorite(s) PROVE AuthTypes'
  <2>1. CallIs(Call("toggle", NoUser, s, s \in auth.favorites))
    BY CallIsOne
  <2> QED BY <1>6, <1>8, <2>1 DEF ToggleFavorite
<1>9. CASE LogOut \/ SavePreferences
  <2>1. CallIs(Plain("logout", NoUser)) /\ CallIs(Plain("save", NoUser))
    BY CallIsOne DEF Plain
  <2> QED BY <1>6, <1>9, <2>1 DEF LogOut, SavePreferences
<1>10. CASE UNCHANGED authVars
  BY <1>10 DEF authVars, AuthTypes, AuthTypeOK, CallIs
<1> QED BY <1>3, <1>4, <1>5, <1>7, <1>8, <1>9, <1>10 DEF AuthNext, AuthStep

StationFormTypes ==
  /\ mode \in {"manual", "photo"} /\ form \in 0..MaxForms /\ submitting \in BOOLEAN
  /\ photo \in Picture \cup {NoPicture} /\ imageId \in Picture \cup {NoPicture}
  /\ photoPhase \in {"idle", "uploading", "processing", "review", "submitting", "done"}
  /\ candidates \in [board : Picture \cup {NoPicture}, count : 0..2]
  /\ uploads \subseteq [nr : 1..MaxActs, photo : Picture, at : {"upload", "poll"}]

SendingTypes == \A f \in sending : f.nr \in 1..MaxActs /\ f.left \in 1..2

StationPriceTypes ==
  prices \in 0..version /\ pricesTold \in 0..version /\ priceLoads \subseteq 0..version

ListType == [kind : {"load", "reload", "vote"}, nr : 0..MaxActs, since : 0..version]

StationListTypes ==
  /\ listed \in 0..version /\ listTold \in 0..version /\ listLoads \subseteq ListType
  /\ listLoading \in BOOLEAN /\ listError \in BOOLEAN

StationOtherTypes ==
  /\ opened \in {"loading", "shown", "error"} /\ version \in Nat
  /\ mixed \subseteq {"photo", "prices", "list"} /\ acts \in 0..MaxActs

LEMMA StationTypeParts ==
  StationTypeOK <=> /\ StationFormTypes /\ SendingTypes /\ StationPriceTypes /\ StationListTypes
                    /\ StationOtherTypes
BY DEF StationTypeOK, StationFormTypes, SendingTypes, StationPriceTypes, StationListTypes,
       StationOtherTypes, ListType

(* A version that grows leaves what was about the earlier one.             *)
LEMMA StationStays ==
  ASSUME StationOtherTypes, version' \in Nat, version' >= version
  PROVE  /\ StationPriceTypes /\ UNCHANGED priceVars => StationPriceTypes'
         /\ StationListTypes /\ UNCHANGED listVars => StationListTypes'
         /\ StationFormTypes /\ UNCHANGED formVars => StationFormTypes'
         /\ SendingTypes /\ UNCHANGED sending => SendingTypes'
         /\ ListType \subseteq ListType'
<1>1. 0..version \subseteq 0..version'
  BY DEF StationOtherTypes
<1>2. ListType \subseteq ListType'
  BY <1>1 DEF ListType
<1>3. StationPriceTypes /\ UNCHANGED priceVars => StationPriceTypes'
  BY <1>1 DEF StationPriceTypes, priceVars
<1>4. StationListTypes /\ UNCHANGED listVars => StationListTypes'
  BY <1>1, <1>2 DEF StationListTypes, listVars
<1>5. StationFormTypes /\ UNCHANGED formVars => StationFormTypes'
  BY DEF StationFormTypes, formVars
<1> QED BY <1>2, <1>3, <1>4, <1>5 DEF SendingTypes

LEMMA ListLoadTypes ==
  ASSUME StationListTypes, StationOtherTypes, version' \in Nat, version' >= version,
         NEW v \in 0..version', LoadList(v)
  PROVE  StationListTypes'
<1>1. MaxActs \in Nat /\ 0 \in 0..MaxActs
  BY StationPageAssumption
<1>2. 0..version \subseteq 0..version' /\ ListType \subseteq ListType'
  BY StationStays DEF StationOtherTypes
<1>3. ListRequest("load", 0, v) \in ListType'
  BY <1>1 DEF ListRequest, ListType
<1> HIDE DEF ListType
<1> QED BY <1>2, <1>3 DEF LoadList, StationListTypes

StationTyped ==
  /\ StationFormTypes /\ SendingTypes /\ StationPriceTypes /\ StationListTypes
  /\ StationOtherTypes
  /\ \A f \in sending : IsSubmission(f)

LEMMA CountedActs ==
  ASSUME StationOtherTypes, Counted
  PROVE  acts' \in 1..MaxActs
BY StationPageAssumption DEF StationOtherTypes, Counted

LEMMA PageLoadedTypes == StationTyped /\ PageLoaded => StationTyped'
<1> SUFFICES ASSUME StationTyped, PageLoaded PROVE StationTyped'
  OBVIOUS
<1>1. /\ version' = version /\ version \in Nat /\ version \in 0..version' /\ version' \in Nat
      /\ version' >= version
      /\ UNCHANGED <<formVars, sending, priceVars, sent, mixed>>
      /\ opened' \in {"loading", "shown", "error"}
  BY DEF PageLoaded, StationTyped, StationOtherTypes
<1>2. acts' \in 0..MaxActs
  BY CountedActs DEF PageLoaded, StationTyped, StationOtherTypes
<1>3. StationListTypes'
  BY <1>1, ListLoadTypes, StationStays DEF PageLoaded, StationTyped
<1>4. StationPriceTypes' /\ StationFormTypes' /\ SendingTypes'
  BY <1>1, StationStays DEF StationTyped
<1>5. StationOtherTypes'
  BY <1>1, <1>2 DEF StationTyped, StationOtherTypes
<1> QED BY <1>1, <1>3, <1>4, <1>5 DEF StationTyped, IsSubmission

LEMMA PricesAnsweredTypes ==
  ASSUME StationTyped, NEW since \in priceLoads, PricesAnswered(since)
  PROVE  StationTyped'
<1>1. /\ version' = version /\ version \in Nat /\ version' \in Nat /\ version' >= version
      /\ UNCHANGED <<opened, formVars, sending, pricesTold, listVars, sent>>
      /\ since \in 0..version
  BY DEF PricesAnswered, StationTyped, StationOtherTypes, StationPriceTypes
<1>2. acts' \in 0..MaxActs /\ mixed' \subseteq {"photo", "prices", "list"}
  <2>1. acts' = acts \/ Counted
    BY DEF PricesAnswered
  <2>2. acts' \in 0..MaxActs
    BY <2>1, CountedActs DEF StationTyped, StationOtherTypes
  <2>3. mixed' \subseteq mixed \cup {"prices", "list"}
    BY DEF PricesAnswered, Mixed
  <2> QED BY <2>2, <2>3 DEF StationTyped, StationOtherTypes
<1>3. prices' \in 0..version /\ priceLoads' \subseteq 0..version
  BY <1>1 DEF PricesAnswered, StationTyped, StationPriceTypes
<1>4. StationListTypes' /\ StationFormTypes' /\ SendingTypes'
  BY <1>1, StationStays DEF StationTyped
<1>5. StationPriceTypes' /\ StationOtherTypes'
  BY <1>1, <1>2, <1>3 DEF StationTyped, StationOtherTypes, StationPriceTypes
<1> QED BY <1>1, <1>4, <1>5 DEF StationTyped, IsSubmission

LEMMA ListAnsweredTypes ==
  ASSUME StationTyped, NEW r \in listLoads, ListAnswered(r)
  PROVE  StationTyped'
<1>1. /\ version' = version /\ version \in Nat /\ version' \in Nat /\ version' >= version
      /\ UNCHANGED <<opened, formVars, sending, priceVars, listTold, sent>>
      /\ r.since \in 0..version
  BY DEF ListAnswered, StationTyped, StationOtherTypes, StationListTypes, ListType
<1>2. acts' \in 0..MaxActs /\ mixed' \subseteq {"photo", "prices", "list"}
  <2>1. acts' = acts \/ Counted
    BY DEF ListAnswered
  <2>2. acts' \in 0..MaxActs
    BY <2>1, CountedActs DEF StationTyped, StationOtherTypes
  <2>3. mixed' \subseteq mixed \cup {"list"}
    BY DEF ListAnswered, Mixed
  <2> QED BY <2>2, <2>3 DEF StationTyped, StationOtherTypes
<1>3. listed' \in 0..version /\ listLoads' \subseteq ListType
  BY <1>1 DEF ListAnswered, StationTyped, StationListTypes
<1>4. listError' \in BOOLEAN
  BY DEF ListAnswered, StationTyped, StationListTypes
<1>5. listLoading' \in BOOLEAN
  BY DEF ListAnswered, StationTyped, StationListTypes
<1>6. StationPriceTypes' /\ StationFormTypes' /\ SendingTypes' /\ ListType \subseteq ListType'
  BY <1>1, StationStays DEF StationTyped
<1>7. StationListTypes'
  BY <1>1, <1>3, <1>4, <1>5, <1>6 DEF StationTyped, StationListTypes
<1>8. StationOtherTypes'
  BY <1>1, <1>2 DEF StationTyped, StationOtherTypes
<1> QED BY <1>1, <1>6, <1>7, <1>8 DEF StationTyped, IsSubmission

LEMMA VoteTypes == StationTyped /\ Vote => StationTyped'
<1> SUFFICES ASSUME StationTyped, Vote PROVE StationTyped'
  OBVIOUS
<1>1. /\ version' = version /\ version \in Nat /\ version' \in Nat /\ version' >= version
      /\ UNCHANGED <<opened, formVars, sending, priceVars, listed, listLoading, listError,
                     listTold, sent, mixed>>
      /\ listLoads' = listLoads \cup {ListRequest("vote", acts', 0)}
  BY DEF Vote, Act, StationTyped, StationOtherTypes
<1>2. acts' \in 1..MaxActs
  BY CountedActs DEF Vote, Act, StationTyped
<1>3. ListRequest("vote", acts', 0) \in ListType
  BY <1>1, <1>2 DEF ListRequest, ListType
<1>4. StationPriceTypes' /\ StationFormTypes' /\ SendingTypes' /\ ListType \subseteq ListType'
  BY <1>1, StationStays DEF StationTyped
<1>5. StationListTypes'
  <2> HIDE DEF ListType
  <2> QED BY <1>1, <1>3, <1>4 DEF StationTyped, StationListTypes
<1>6. StationOtherTypes'
  BY <1>1, <1>2 DEF StationTyped, StationOtherTypes
<1> QED BY <1>1, <1>4, <1>5, <1>6 DEF StationTyped, IsSubmission

LEMMA VoteAnsweredTypes ==
  ASSUME StationTyped, NEW r \in listLoads, VoteAnswered(r)
  PROVE  StationTyped'
<1>1. /\ version \in Nat /\ version' \in {version, version + 1}
      /\ UNCHANGED <<opened, formVars, sending, priceVars, listed, listLoading, sent>>
      /\ r \in ListType
  BY DEF VoteAnswered, StationTyped, StationOtherTypes, StationListTypes
<1>2. version' \in Nat /\ version' >= version /\ version' \in 0..version'
  BY <1>1
<1>3. acts' \in 0..MaxActs /\ mixed' \subseteq {"photo", "prices", "list"}
  <2>1. acts' = acts \/ Counted
    BY DEF VoteAnswered
  <2>2. acts' \in 0..MaxActs
    BY <2>1, CountedActs DEF StationTyped, StationOtherTypes
  <2>3. mixed' \subseteq mixed \cup {"prices", "list"}
    BY DEF VoteAnswered
  <2> QED BY <2>2, <2>3 DEF StationTyped, StationOtherTypes
<1>4. ListRequest("reload", r.nr, version') \in ListType'
  BY <1>1, <1>2 DEF ListRequest, ListType
<1>5. /\ StationPriceTypes' /\ StationFormTypes' /\ SendingTypes' /\ ListType \subseteq ListType'
      /\ 0..version \subseteq 0..version'
  BY <1>1, <1>2, StationStays DEF StationTyped
<1>6. listLoads' \subseteq ListType' /\ listTold' \in 0..version' /\ listed' \in 0..version'
  BY <1>1, <1>2, <1>4, <1>5 DEF VoteAnswered, StationTyped, StationListTypes
<1>7. listError' \in BOOLEAN /\ listLoading' \in BOOLEAN
  BY <1>1 DEF VoteAnswered, StationTyped, StationListTypes
<1>8. StationListTypes' /\ StationOtherTypes'
  BY <1>1, <1>2, <1>3, <1>6, <1>7 DEF StationTyped, StationListTypes, StationOtherTypes
<1> QED BY <1>1, <1>5, <1>8 DEF StationTyped, IsSubmission

LEMMA ToggleModeTypes == StationTyped /\ ToggleMode => StationTyped'
<1> SUFFICES ASSUME StationTyped, ToggleMode PROVE StationTyped'
  OBVIOUS
<1>1. /\ version' = version /\ version \in Nat /\ version' \in Nat /\ version' >= version
      /\ UNCHANGED <<opened, sending, priceVars, listVars, sent, mixed, acts>>
      /\ form' = form + 1 /\ form < MaxForms /\ mode' \in {"manual", "photo"}
      /\ submitting' = FALSE /\ photo' = NoPicture /\ imageId' = NoPicture
      /\ photoPhase' = "idle" /\ candidates' = NoCandidates /\ uploads' = {}
  BY DEF ToggleMode, StationTyped, StationOtherTypes
<1>2. NoCandidates \in [board : Picture \cup {NoPicture}, count : 0..2]
  BY DEF NoCandidates
<1>3. form' \in 0..MaxForms
  BY <1>1, StationPageAssumption DEF StationTyped, StationFormTypes
<1>4. candidates' \in [board : Picture \cup {NoPicture}, count : 0..2]
  BY <1>1, <1>2
<1>5. StationFormTypes'
  BY <1>1, <1>3, <1>4 DEF StationFormTypes
<1>6. StationPriceTypes' /\ StationListTypes' /\ SendingTypes'
  BY <1>1, StationStays DEF StationTyped
<1>7. StationOtherTypes'
  BY <1>1 DEF StationTyped, StationOtherTypes
<1> QED BY <1>1, <1>5, <1>6, <1>7 DEF StationTyped, IsSubmission

(* What is sent is a report of the form, of so many prices.                *)
LEMMA SentTypes ==
  ASSUME StationTyped, acts' \in 1..MaxActs, NEW image, NEW board, NEW n \in 1..2,
         SendReports(image, board, n)
  PROVE  SendingTypes' /\ \A f \in sending' : IsSubmission(f)
<1> DEFINE f == [nr |-> acts', form |-> form, image |-> image, board |-> board, left |-> n]
<1>1. sending' = sending \cup {f}
  BY DEF SendReports
<1>2. f.nr \in 1..MaxActs /\ f.left \in 1..2 /\ IsSubmission(f)
  BY DEF IsSubmission
<1> HIDE DEF f
<1> QED BY <1>1, <1>2 DEF StationTyped, SendingTypes

LEMMA SubmitManualTypes == StationTyped /\ SubmitManual => StationTyped'
<1> SUFFICES ASSUME StationTyped, SubmitManual PROVE StationTyped'
  OBVIOUS
<1>1. /\ version' = version /\ version \in Nat /\ version' \in Nat /\ version' >= version
      /\ UNCHANGED <<opened, mode, form, photo, imageId, photoPhase, candidates, uploads,
                     priceVars, listVars, sent, mixed>>
      /\ submitting' = TRUE /\ SendReports(NoPicture, NoPicture, 1) /\ Counted
  BY DEF SubmitManual, Act, StationTyped, StationOtherTypes
<1>2. acts' \in 1..MaxActs
  BY <1>1, CountedActs DEF StationTyped
<1>3. SendingTypes' /\ \A f \in sending' : IsSubmission(f)
  BY <1>1, <1>2, SentTypes
<1>4. StationFormTypes'
  BY <1>1 DEF StationTyped, StationFormTypes
<1>5. StationPriceTypes' /\ StationListTypes'
  BY <1>1, StationStays DEF StationTyped
<1>6. StationOtherTypes'
  BY <1>1, <1>2 DEF StationTyped, StationOtherTypes
<1> QED BY <1>3, <1>4, <1>5, <1>6 DEF StationTyped

LEMMA ConfirmSubmitTypes ==
  ASSUME StationTyped, NEW n \in 1..2, ConfirmSubmit(n)
  PROVE  StationTyped'
<1>1. /\ version' = version /\ version \in Nat /\ version' \in Nat /\ version' >= version
      /\ UNCHANGED <<opened, mode, form, submitting, photo, imageId, candidates, uploads,
                     priceVars, listVars, sent, mixed>>
      /\ photoPhase' = "submitting" /\ SendReports(imageId, candidates.board, n) /\ Counted
  BY DEF ConfirmSubmit, Act, StationTyped, StationOtherTypes
<1>2. acts' \in 1..MaxActs
  BY <1>1, CountedActs DEF StationTyped
<1>3. SendingTypes' /\ \A f \in sending' : IsSubmission(f)
  BY <1>1, <1>2, SentTypes
<1>4. StationFormTypes'
  BY <1>1 DEF StationTyped, StationFormTypes
<1>5. StationPriceTypes' /\ StationListTypes'
  BY <1>1, StationStays DEF StationTyped
<1>6. StationOtherTypes'
  BY <1>1, <1>2 DEF StationTyped, StationOtherTypes
<1> QED BY <1>3, <1>4, <1>5, <1>6 DEF StationTyped

(* What only the forms know of.                                            *)
LEMMA FormStepTypes ==
  ASSUME StationTyped, StationFormTypes', UNCHANGED <<opened, version, sending, priceVars, listVars>>,
         acts' \in 0..MaxActs, mixed' \subseteq {"photo", "prices", "list"}
  PROVE  StationTyped'
<1>1. version' = version /\ version \in Nat /\ version' \in Nat /\ version' >= version
  BY DEF StationTyped, StationOtherTypes
<1>2. StationPriceTypes' /\ StationListTypes' /\ SendingTypes'
  BY <1>1, StationStays DEF StationTyped
<1>3. StationOtherTypes'
  BY <1>1 DEF StationTyped, StationOtherTypes
<1> QED BY <1>2, <1>3 DEF StationTyped, IsSubmission

LEMMA ChoosePhotoTypes ==
  ASSUME StationTyped, NEW p \in Picture \cup {NoPicture}, ChoosePhoto(p)
  PROVE  StationTyped'
<1>1. candidates' \in [board : Picture \cup {NoPicture}, count : 0..2]
  BY DEF ChoosePhoto, NoCandidates
<1>2. /\ UNCHANGED <<opened, version, mode, form, submitting, uploads, sending, priceVars,
                     listVars, sent, acts>>
      /\ photo' = p /\ imageId' = NoPicture /\ photoPhase' = "idle"
  BY DEF ChoosePhoto
<1>3. StationFormTypes'
  BY <1>1, <1>2 DEF StationTyped, StationFormTypes
<1>4. mixed' \subseteq {"photo", "prices", "list"} /\ acts' \in 0..MaxActs
  BY DEF ChoosePhoto, StationTyped, StationOtherTypes
<1> QED BY <1>2, <1>3, <1>4, FormStepTypes

LEMMA UploadTypes == StationTyped /\ Upload => StationTyped'
<1> SUFFICES ASSUME StationTyped, Upload PROVE StationTyped'
  OBVIOUS
<1>1. /\ UNCHANGED <<opened, version, mode, form, submitting, photo, imageId, candidates, sending,
                     priceVars, listVars, sent>>
      /\ photoPhase' = "uploading" /\ photo # NoPicture /\ Counted
      /\ uploads' = uploads \cup {[nr |-> acts', photo |-> photo, at |-> "upload"]}
  BY DEF Upload, Act
<1>2. acts' \in 1..MaxActs
  BY <1>1, CountedActs DEF StationTyped
<1>3. [nr |-> acts', photo |-> photo, at |-> "upload"]
        \in [nr : 1..MaxActs, photo : Picture, at : {"upload", "poll"}]
  BY <1>1, <1>2 DEF StationTyped, StationFormTypes
<1>4. StationFormTypes'
  BY <1>1, <1>3 DEF StationTyped, StationFormTypes
<1>5. mixed' \subseteq {"photo", "prices", "list"} /\ acts' \in 0..MaxActs
  <2>1. mixed' \subseteq mixed \cup {"photo"}
    BY DEF Upload, Mixed
  <2> QED BY <1>2, <2>1 DEF StationTyped, StationOtherTypes
<1> QED BY <1>1, <1>4, <1>5, FormStepTypes

LEMMA UploadStepTypes ==
  ASSUME StationTyped, NEW u \in uploads,
         \/ UploadAnswered(u) \/ UploadFails(u) \/ \E n \in 0..2 : PollAnswered(u, n)
  PROVE  StationTyped'
<1> DEFINE UploadType == [nr : 1..MaxActs, photo : Picture, at : {"upload", "poll"}]
<1>1. u \in UploadType /\ uploads \subseteq UploadType
  BY DEF StationTyped, StationFormTypes
<1>2. UNCHANGED OutsideUpload
  BY DEF UploadAnswered, UploadFails, PollAnswered
<1>3. mixed' \subseteq {"photo", "prices", "list"} /\ UNCHANGED <<mode, form, submitting, photo>>
  BY <1>2 DEF StationTyped, StationOtherTypes, OutsideUpload
<1>4. acts' \in 0..MaxActs
  <2>1. acts' = acts \/ Counted
    BY DEF UploadAnswered, UploadFails, PollAnswered
  <2> QED BY <2>1, CountedActs DEF StationTyped, StationOtherTypes
<1>5. uploads' \subseteq UploadType
  <2>1. [u EXCEPT !.at = "poll"] \in UploadType
    BY <1>1
  <2>2. uploads' \subseteq uploads \cup {[u EXCEPT !.at = "poll"]}
    BY DEF UploadAnswered, UploadFails, PollAnswered
  <2> HIDE DEF UploadType
  <2> QED BY <1>1, <2>1, <2>2
<1>6. imageId' \in Picture \cup {NoPicture}
  BY <1>1 DEF UploadAnswered, UploadFails, PollAnswered, StationTyped, StationFormTypes
<1>7. photoPhase' \in {"idle", "processing", "review"}
  BY DEF UploadAnswered, UploadFails, PollAnswered
<1>8. candidates' \in [board : Picture \cup {NoPicture}, count : 0..2]
  <2>1. CASE UploadAnswered(u) \/ UploadFails(u)
    BY <2>1 DEF UploadAnswered, UploadFails, StationTyped, StationFormTypes
  <2>2. ASSUME NEW n \in 0..2, PollAnswered(u, n)
        PROVE  candidates' \in [board : Picture \cup {NoPicture}, count : 0..2]
    BY <1>1, <2>2 DEF PollAnswered, NoCandidates
  <2> QED BY <2>1, <2>2
<1>9. StationFormTypes'
  BY <1>3, <1>5, <1>6, <1>7, <1>8 DEF StationTyped, StationFormTypes
<1> QED BY <1>2, <1>3, <1>4, <1>9, FormStepTypes DEF OutsideUpload

(* A submission that is over leaves the forms typed.                       *)
LEMMA FormGoesTypes ==
  ASSUME StationTyped, NEW f, NEW ending \in {"done", "review"}, FormGoesTo(f, ending)
  PROVE  StationFormTypes'
<1>1. /\ UNCHANGED <<mode, form, photo, imageId, candidates, uploads>>
      /\ photoPhase' \in {photoPhase, ending}
  BY DEF FormGoesTo
<1>2. submitting' \in BOOLEAN
  BY DEF FormGoesTo, StationTyped, StationFormTypes
<1> QED BY <1>1, <1>2 DEF StationTyped, StationFormTypes

LEMMA ReportAcceptedTypes ==
  ASSUME StationTyped, NEW f \in sending, ReportAccepted(f)
  PROVE  StationTyped'
<1>1. /\ version \in Nat /\ version' = version + 1 /\ UNCHANGED <<opened, acts>>
      /\ f.nr \in 1..MaxActs /\ f.left \in 1..2 /\ IsSubmission(f)
  BY DEF ReportAccepted, StationTyped, StationOtherTypes, SendingTypes
<1>2. version' \in Nat /\ version' >= version /\ version' \in 0..version' /\ 0..version \subseteq 0..version'
  BY <1>1
<1>3. CASE /\ f.left = 1 /\ sending' = sending \ {f} /\ FormGoesTo(f, "done") /\ ReportSubmitted
  <2>1. StationFormTypes'
    BY <1>3, FormGoesTypes
  <2>2. SendingTypes' /\ \A g \in sending' : IsSubmission(g)
    BY <1>3 DEF StationTyped, SendingTypes
  <2>3. /\ priceLoads' = priceLoads \cup {version'} /\ pricesTold' = version' /\ prices' = prices
        /\ LoadList(version') /\ mixed' = mixed
    BY <1>3 DEF ReportAccepted, ReportSubmitted
  <2>4. StationPriceTypes'
    BY <1>2, <2>3 DEF StationTyped, StationPriceTypes
  <2>5. StationListTypes'
    BY <1>2, <2>3, ListLoadTypes DEF StationTyped
  <2>6. StationOtherTypes'
    BY <1>1, <1>2, <2>3 DEF StationTyped, StationOtherTypes
  <2> QED BY <2>1, <2>2, <2>4, <2>5, <2>6 DEF StationTyped
<1>4. CASE /\ f.left > 1
           /\ sending' = (sending \ {f}) \cup {[f EXCEPT !.left = @ - 1]}
           /\ UNCHANGED <<formVars, priceVars, listVars, mixed>>
  <2>1. PICK g : g = [f EXCEPT !.left = @ - 1]
    OBVIOUS
  <2>2. g.nr \in 1..MaxActs /\ g.left \in 1..2 /\ IsSubmission(g)
    BY <1>1, <1>4, <2>1 DEF IsSubmission
  <2>3. SendingTypes' /\ \A h \in sending' : IsSubmission(h)
    BY <1>4, <2>1, <2>2 DEF StationTyped, SendingTypes
  <2>4. StationPriceTypes' /\ StationListTypes' /\ StationFormTypes'
    BY <1>2, <1>4, StationStays DEF StationTyped
  <2>5. StationOtherTypes'
    BY <1>1, <1>2, <1>4 DEF StationTyped, StationOtherTypes
  <2> QED BY <2>3, <2>4, <2>5 DEF StationTyped
<1> QED BY <1>3, <1>4 DEF ReportAccepted

LEMMA ReportFailsTypes ==
  ASSUME StationTyped, NEW f \in sending, ReportFails(f)
  PROVE  StationTyped'
<1>1. /\ version \in Nat /\ version' \in {version, version + 1}
      /\ UNCHANGED <<opened, priceVars, listVars, mixed>>
      /\ Counted /\ sending' = sending \ {f} /\ FormGoesTo(f, "review")
  BY DEF ReportFails, StationTyped, StationOtherTypes
<1>2. version' \in Nat /\ version' >= version
  BY <1>1
<1>3. acts' \in 1..MaxActs
  BY <1>1, CountedActs DEF StationTyped
<1>4. SendingTypes' /\ \A g \in sending' : IsSubmission(g)
  BY <1>1 DEF StationTyped, SendingTypes
<1>5. StationPriceTypes' /\ StationListTypes'
  BY <1>1, <1>2, StationStays DEF StationTyped
<1>6. StationFormTypes'
  BY <1>1, FormGoesTypes
<1>7. StationOtherTypes'
  BY <1>1, <1>2, <1>3 DEF StationTyped, StationOtherTypes
<1> QED BY <1>4, <1>5, <1>6, <1>7 DEF StationTyped

LEMMA StationTypeNext == StationTyped /\ [StationNext]_stationVars => StationTyped'
<1> SUFFICES ASSUME StationTyped, [StationNext]_stationVars PROVE StationTyped'
  OBVIOUS
<1>1. CASE StationStep
  BY <1>1, PageLoadedTypes, PricesAnsweredTypes, ListAnsweredTypes, VoteAnsweredTypes,
     UploadStepTypes, ReportAcceptedTypes, ReportFailsTypes DEF StationStep
<1>2. CASE Vote \/ ToggleMode \/ SubmitManual \/ Upload
  BY <1>2, VoteTypes, ToggleModeTypes, SubmitManualTypes, UploadTypes
<1>3. ASSUME NEW p \in Picture \cup {NoPicture}, ChoosePhoto(p) PROVE StationTyped'
  BY <1>3, ChoosePhotoTypes
<1>4. ASSUME NEW n \in 1..2, ConfirmSubmit(n) PROVE StationTyped'
  BY <1>4, ConfirmSubmitTypes
<1>5. CASE UNCHANGED stationVars
  <2>1. StationFormTypes'
    BY <1>5 DEF stationVars, formVars, StationTyped, StationFormTypes
  <2>2. acts' \in 0..MaxActs /\ mixed' \subseteq {"photo", "prices", "list"}
    BY <1>5 DEF stationVars, StationTyped, StationOtherTypes
  <2>3. UNCHANGED <<opened, version, sending, priceVars, listVars>>
    BY <1>5 DEF stationVars
  <2> QED BY <2>1, <2>2, <2>3, FormStepTypes
<1> QED BY <1>1, <1>2, <1>3, <1>4, <1>5 DEF StationNext

LookupIs ==
  lookup = NoLookup \/
  lookup \in [end : End, at : Place \cup {NoPlace}, other : Place \cup {NoPlace},
              base : Url \cup {<<>>}]

PanelType == [what : {"nothing", "answer", "error", "kept"}, q : PageQuestion]

ExplorerTyped == ExplorerTypeOK /\ LookupIs

(* What is read from a URL and the state is a question about places.       *)
LEMMA QuestionIs ==
  ASSUME NEW u \in Url, NEW s \in [End -> Place \cup {NoPlace}], NEW d \in Place
  PROVE  /\ \A e \in End : Effective(u, s, e) \in Place \cup {NoPlace}
         /\ SearchCenter(u, s, d) \in Place \cup {NoPlace}
         /\ \A loaded : SelectedFuel(u, loaded) \in Fuel \cup {NoFuel}
<1>1. /\ u["from"] \in Place \cup {NoPlace} /\ u["to"] \in Place \cup {NoPlace}
      /\ u.place \in Place \cup {NoPlace} /\ u.fuel \in Fuel \cup {NoFuel}
  BY DEF Url
<1>2. \A e \in End : Effective(u, s, e) \in Place \cup {NoPlace}
  BY <1>1 DEF Effective, End
<1>3. SearchCenter(u, s, d) \in Place \cup {NoPlace}
  BY <1>1, <1>2 DEF SearchCenter, End
<1>4. \A loaded : SelectedFuel(u, loaded) \in Fuel \cup {NoFuel}
  BY <1>1 DEF SelectedFuel
<1> QED BY <1>2, <1>3, <1>4

LEMMA AskingIs ==
  ASSUME NEW from \in Place \cup {NoPlace}, NEW to \in Place \cup {NoPlace},
         NEW fuel \in Fuel \cup {NoFuel}
  PROVE  Asking(from, to, fuel) \in PageQuestion
BY DEF Asking, PageQuestion

LEMMA LookUpIs ==
  ASSUME NEW u \in Url, NEW otherwise,
         \/ otherwise = NoLookup
         \/ otherwise \in [end : End, at : Place \cup {NoPlace}, other : Place \cup {NoPlace},
                           base : Url \cup {<<>>}],
         lookup' = LookUpUnnamed(u, otherwise)
  PROVE  LookupIs'
<1>1. CASE Unnamed(u) = {}
  BY <1>1 DEF LookUpUnnamed, LookupIs
<1>2. CASE Unnamed(u) # {}
  <2>1. PICK e \in {"from", "to"} : lookup' = [NoLookup EXCEPT !.end = e, !.at = u[e]]
    BY <1>2 DEF LookUpUnnamed
  <2>2. u["from"] \in Place \cup {NoPlace} /\ u["to"] \in Place \cup {NoPlace}
    BY DEF Url
  <2>3. lookup' = [end |-> e, at |-> u[e], other |-> NoPlace, base |-> <<>>]
    BY <2>1 DEF NoLookup
  <2>4. u[e] \in Place \cup {NoPlace}
    BY <2>2
  <2> QED BY <2>3, <2>4 DEF LookupIs, End
<1> QED BY <1>1, <1>2

LEMMA EmptyType ==
  ASSUME NEW shown \in [Slot -> PanelType]
  PROVE  Empty(shown, "route") \in [Slot -> PanelType]
<1>1. [what |-> "nothing", q |-> Unasked] \in PanelType
  BY DEF PanelType, Unasked, Asking, PageQuestion
<1> QED BY <1>1 DEF Empty

LEMMA RenderedTypes ==
  ASSUME ExplorerTyped, url' \in Url, nextUrl' \in Url, ends' \in [End -> Place \cup {NoPlace}],
         picking' \in End \cup {"none"}, device' \in Place,
         fuelTypes' \in {"loading", "loaded", "failed"},
         dismissed' \in {"no", "hastily", "cleanly"},
         NEW under, under \subseteq flights, NEW waiting, waiting \subseteq busy, NEW more, more \subseteq [slot : Slot, q : PageQuestion],
         NEW shown \in [Slot -> PanelType], NEW started, NEW tried \in BOOLEAN,
         \/ started = NoLookup
         \/ started \in [end : End, at : Place \cup {NoPlace}, other : Place \cup {NoPlace},
                         base : Url \cup {<<>>}],
         RenderedAfter(under, waiting, more, shown, started, tried)
  PROVE  ExplorerTyped'
<1> DEFINE here == [slot |-> "nearby", q |-> NearbyQuestion']
           whole == [slot |-> "route", q |-> Asking(url'.from, url'.to, here.q.fuel)]
           plans == /\ ~tried /\ Whole(url') /\ here.q.fuel # NoFuel
                    /\ shown["route"].what # "answer"
                    /\ "route" \notin waiting \cup {w.slot : w \in more}
           new == more \cup (IF here.q = asked["nearby"] THEN {} ELSE {here})
                         \cup (IF plans THEN {whole} ELSE {})
           Flights == [slot : Slot, q : PageQuestion]
<1>1. /\ planned' = (tried \/ plans)
      /\ asked' = [s \in Slot |-> IF \E f \in new : f.slot = s
                                  THEN (CHOOSE f \in new : f.slot = s).q ELSE asked[s]]
      /\ flights' = CallOff(under, new) \cup new
      /\ panel' = IF plans THEN Empty(shown, "route") ELSE shown
      /\ busy' = waiting \cup ({f.slot : f \in new} \ {"bbox"})
      /\ lookup' = LookUpUnnamed(url', started)
  BY DEF RenderedAfter
<1>2. NearbyQuestion' \in PageQuestion
  <2>1. /\ SearchCenter(url, ends, device)' \in Place \cup {NoPlace}
        /\ SelectedFuel(url, fuelTypes = "loaded")' \in Fuel \cup {NoFuel}
    BY QuestionIs DEF SearchCenter, Effective, SelectedFuel
  <2> QED BY <2>1 DEF NearbyQuestion, Asking, PageQuestion
<1>3. here \in Flights /\ here.q.fuel \in Fuel \cup {NoFuel}
  BY <1>2 DEF Slot, PageQuestion
<1>4. whole \in Flights
  <2>1. url'.from \in Place \cup {NoPlace} /\ url'.to \in Place \cup {NoPlace}
    BY DEF Url
  <2>2. Asking(url'.from, url'.to, here.q.fuel) \in PageQuestion
    BY <1>3, <2>1 DEF Asking, PageQuestion
  <2> QED BY <2>2 DEF Slot
<1>5. new \subseteq Flights
  <2> HIDE DEF here, whole, plans, Flights
  <2>1. more \subseteq Flights
    BY DEF Flights
  <2> QED BY <1>3, <1>4, <2>1
<1>6. planned' \in BOOLEAN
  <2> HIDE DEF plans
  <2> QED BY <1>1
<1> HIDE DEF here, whole, plans, new
<1>7. flights' \subseteq Flights
  BY <1>1, <1>5 DEF ExplorerTyped, ExplorerTypeOK, CallOff
<1>8. asked' \in [Slot -> PageQuestion]
  <2>1. ASSUME NEW s \in Slot, \E f \in new : f.slot = s
        PROVE  (CHOOSE f \in new : f.slot = s).q \in PageQuestion
    <3>1. (CHOOSE f \in new : f.slot = s) \in new
      BY <2>1
    <3> QED BY <1>5, <3>1
  <2> QED BY <1>1, <2>1 DEF ExplorerTyped, ExplorerTypeOK
<1>9. busy' \subseteq Slot \ {"bbox"}
  <2>1. \A f \in new : f.slot \in Slot
    BY <1>5
  <2> QED BY <1>1, <2>1 DEF ExplorerTyped, ExplorerTypeOK
<1>10. LookupIs'
  BY <1>1, LookUpIs
<1>11. panel' \in [Slot -> [what : {"nothing", "answer", "error", "kept"}, q : PageQuestion]]
  <2>1. Empty(shown, "route") \in [Slot -> PanelType]
    BY EmptyType
  <2> QED BY <1>1, <2>1 DEF PanelType
<1> QED BY <1>6, <1>7, <1>8, <1>9, <1>10, <1>11 DEF ExplorerTyped, ExplorerTypeOK

(* What an event of the page may replace the URL by.                       *)
LEMMA UrlWith ==
  ASSUME NEW u \in Url, NEW from \in Place \cup {NoPlace}, NEW to \in Place \cup {NoPlace},
         NEW named \in SUBSET End
  PROVE  /\ [u EXCEPT !.place = NoPlace, !.from = from, !.to = to, !.named = named] \in Url
         /\ [u EXCEPT !.place = NoPlace] \in Url
         /\ \A p \in Place : [u EXCEPT !.place = p, !.from = NoPlace, !.to = NoPlace,
                                       !.named = {}] \in Url
         /\ \A f \in Fuel \cup {NoFuel} : [u EXCEPT !.fuel = f] \in Url
BY DEF Url

LEMMA SyncTypes ==
  ASSUME ExplorerTyped, NEW at \in [End -> Place \cup {NoPlace}], NEW named \in SUBSET End,
         SyncRouteUrl(at, named)
  PROVE  url' \in Url /\ nextUrl' \in Url /\ ends' \in [End -> Place \cup {NoPlace}]
<1> DEFINE kept == {e \in named : at[e] # NoPlace}
<1>1. at["from"] \in Place \cup {NoPlace} /\ at["to"] \in Place \cup {NoPlace} /\ kept \in SUBSET End
  BY DEF End
<1>2. /\ nextUrl' = [url EXCEPT !.place = NoPlace, !.from = at["from"], !.to = at["to"],
                                !.named = kept]
      /\ url' = url /\ ends' = at
  BY DEF SyncRouteUrl, ReplaceUrl
<1>3. url \in Url
  BY DEF ExplorerTyped, ExplorerTypeOK
<1> HIDE DEF kept
<1>4. [url EXCEPT !.place = NoPlace, !.from = at["from"], !.to = at["to"], !.named = kept] \in Url
  BY <1>1, <1>3, UrlWith
<1> QED BY <1>2, <1>3, <1>4

LEMMA ShownTypes ==
  ASSUME ExplorerTyped
  PROVE  /\ Shown \in [End -> Place \cup {NoPlace}]
         /\ \A e \in End, p \in Place \cup {NoPlace} :
              [Shown EXCEPT ![e] = p] \in [End -> Place \cup {NoPlace}]
         /\ NoEnds \in [End -> Place \cup {NoPlace}]
         /\ url.named \in SUBSET End
<1>1. \A e \in End : Effective(url, ends, e) \in Place \cup {NoPlace}
  BY QuestionIs DEF ExplorerTyped, ExplorerTypeOK
<1>2. Shown \in [End -> Place \cup {NoPlace}]
  BY <1>1 DEF Shown
<1>3. NoEnds \in [End -> Place \cup {NoPlace}]
  BY DEF NoEnds
<1>4. url.named \in SUBSET End
  BY DEF ExplorerTyped, ExplorerTypeOK, Url
<1> HIDE DEF Shown
<1> QED BY <1>2, <1>3, <1>4

LEMMA PanelTypes ==
  ASSUME ExplorerTyped
  PROVE  panel \in [Slot -> PanelType] /\ Empty(panel, "route") \in [Slot -> PanelType]
BY EmptyType DEF ExplorerTyped, ExplorerTypeOK, PanelType

(* An event that asks for nothing of its own, or for one thing.            *)
LEMMA PlainTypes ==
  ASSUME ExplorerTyped, url' \in Url, nextUrl' \in Url, ends' \in [End -> Place \cup {NoPlace}],
         picking' \in End \cup {"none"}, device' \in Place,
         fuelTypes' \in {"loading", "loaded", "failed"},
         dismissed' \in {"no", "hastily", "cleanly"},
         NEW shown \in [Slot -> PanelType], NEW tried \in BOOLEAN,
         \/ Rendered({}, shown, lookup, tried)
         \/ Rendered({}, shown, NoLookup, tried)
         \/ \E f \in [slot : Slot, q : PageQuestion] : Rendered({f}, shown, lookup, tried)
  PROVE  ExplorerTyped'
<1>1. CASE Rendered({}, shown, lookup, tried)
  BY <1>1, RenderedTypes DEF Rendered, ExplorerTyped, LookupIs
<1>2. CASE Rendered({}, shown, NoLookup, tried)
  BY <1>2, RenderedTypes DEF Rendered
<1>3. ASSUME NEW f \in [slot : Slot, q : PageQuestion], Rendered({f}, shown, lookup, tried)
      PROVE  ExplorerTyped'
  <2>1. PICK more : more = {f}
    OBVIOUS
  <2>2. more \subseteq [slot : Slot, q : PageQuestion] /\ Rendered(more, shown, lookup, tried)
    BY <1>3, <2>1
  <2> QED BY <2>2, RenderedTypes DEF Rendered, ExplorerTyped, LookupIs
<1> QED BY <1>1, <1>2, <1>3

LEMMA NameTypes ==
  ASSUME ExplorerTyped, NEW short \in BOOLEAN, NameAnswered(short)
  PROVE  ExplorerTyped'
<1>1. /\ lookup \in [end : End, at : Place \cup {NoPlace}, other : Place \cup {NoPlace},
                     base : Url \cup {<<>>}]
      /\ url \in Url /\ nextUrl \in Url /\ ends \in [End -> Place \cup {NoPlace}]
      /\ picking \in End \cup {"none"} /\ device \in Place
      /\ fuelTypes \in {"loading", "loaded", "failed"} /\ planned \in BOOLEAN
      /\ dismissed \in {"no", "hastily", "cleanly"}
  BY DEF NameAnswered, ExplorerTyped, LookupIs, ExplorerTypeOK
<1>2. lookup.end \in End /\ lookup.at \in Place \cup {NoPlace} /\ lookup.other \in Place \cup {NoPlace}
  BY <1>1
<1>3. url' \in Url /\ nextUrl' \in Url /\ ends' \in [End -> Place \cup {NoPlace}]
  <2>1. CASE lookup.base = <<>>
    <3>1. /\ ends' = [ends EXCEPT ![lookup.end] = IF @ = NoPlace THEN lookup.at ELSE @]
          /\ UNCHANGED <<url, nextUrl>>
      BY <2>1 DEF NameAnswered
    <3> QED BY <1>1, <1>2, <3>1
  <2>2. CASE lookup.base # <<>>
    <3> DEFINE named == IF short THEN lookup.base.named \cup {lookup.end}
                        ELSE lookup.base.named \ {lookup.end}
    <3>1. lookup.base \in Url
      BY <1>1, <2>2
    <3>2. named \in SUBSET End
      BY <1>2, <3>1 DEF Url
    <3>3. ends' = [e \in End |-> IF e = lookup.end THEN lookup.at ELSE lookup.other] /\ url' = url
      BY <2>2 DEF NameAnswered, ReplaceUrl
    <3>4. ends' \in [End -> Place \cup {NoPlace}]
      BY <1>2, <3>3
    <3>5. ends'["from"] \in Place \cup {NoPlace} /\ ends'["to"] \in Place \cup {NoPlace}
      BY <3>4 DEF End
    <3>6. nextUrl' = [lookup.base EXCEPT !.place = NoPlace, !.from = ends'["from"],
                                         !.to = ends'["to"], !.named = named]
      BY <2>2 DEF NameAnswered, ReplaceUrl
    <3> HIDE DEF named
    <3>7. nextUrl' \in Url
      BY <3>1, <3>2, <3>5, <3>6, UrlWith
    <3> QED BY <1>1, <3>3, <3>4, <3>7
  <2> QED BY <2>1, <2>2
<1>4. Rendered({}, panel, NoLookup, planned) /\ UNCHANGED <<picking, device, fuelTypes, dismissed>>
  BY DEF NameAnswered
<1> QED BY <1>1, <1>3, <1>4, PanelTypes, PlainTypes

LEMMA LandTypes ==
  ASSUME ExplorerTyped, NEW f, NEW what \in {"answer", "error"}, Land(f, what)
  PROVE  ExplorerTyped'
<1> DEFINE shown == IF what = "error" /\ f.slot = "bbox"
                    THEN [panel EXCEPT !["bbox"].what = IF @ = "nothing" THEN @ ELSE "kept"]
                    ELSE [panel EXCEPT ![f.slot] = [what |-> what, q |-> f.q]]
<1>1. /\ f \in flights /\ UNCHANGED <<url, nextUrl, ends, picking, device, fuelTypes, dismissed>>
      /\ RenderedAfter(flights \ {f}, busy \ {f.slot}, {}, shown, lookup, planned)
  BY DEF Land
<1>2. panel \in [Slot -> PanelType] /\ f \in [slot : Slot, q : PageQuestion]
  BY <1>1, PanelTypes DEF ExplorerTyped, ExplorerTypeOK
<1>3. shown \in [Slot -> PanelType]
  <2>1. PICK w \in {"nothing", "kept"} :
          w = IF panel["bbox"].what = "nothing" THEN "nothing" ELSE "kept"
    OBVIOUS
  <2>2. [panel["bbox"] EXCEPT !.what = w] \in PanelType
    BY <1>2 DEF PanelType, Slot
  <2>3. [panel EXCEPT !["bbox"].what = IF @ = "nothing" THEN @ ELSE "kept"]
          = [panel EXCEPT !["bbox"] = [panel["bbox"] EXCEPT !.what = w]]
    BY <2>1
  <2>4. [what |-> what, q |-> f.q] \in PanelType
    BY <1>2 DEF PanelType
  <2> QED BY <1>2, <2>2, <2>3, <2>4
<1> HIDE DEF shown
<1>4. PICK under, waiting : under = flights \ {f} /\ waiting = busy \ {f.slot}
  OBVIOUS
<1>5. under \subseteq flights /\ waiting \subseteq busy
  BY <1>4
<1>6. RenderedAfter(under, waiting, {}, shown, lookup, planned)
  BY <1>1, <1>4
<1>7. /\ url' \in Url /\ nextUrl' \in Url /\ ends' \in [End -> Place \cup {NoPlace}]
      /\ picking' \in End \cup {"none"} /\ device' \in Place
      /\ fuelTypes' \in {"loading", "loaded", "failed"}
      /\ dismissed' \in {"no", "hastily", "cleanly"} /\ planned \in BOOLEAN
  BY <1>1 DEF ExplorerTyped, ExplorerTypeOK
<1>8. PICK more : more = {}
  OBVIOUS
<1>9. more \subseteq [slot : Slot, q : PageQuestion]
      /\ RenderedAfter(under, waiting, more, shown, lookup, planned)
  BY <1>6, <1>8
<1> QED BY <1>3, <1>5, <1>7, <1>9, RenderedTypes DEF ExplorerTyped, LookupIs

LEMMA PageTypeNext == ExplorerTyped /\ [ExplorerNext]_pageVars => ExplorerTyped'
<1> SUFFICES ASSUME ExplorerTyped, [ExplorerNext]_pageVars PROVE ExplorerTyped'
  OBVIOUS
<1>1. /\ url \in Url /\ nextUrl \in Url /\ ends \in [End -> Place \cup {NoPlace}]
      /\ picking \in End \cup {"none"} /\ device \in Place
      /\ fuelTypes \in {"loading", "loaded", "failed"} /\ planned \in BOOLEAN
      /\ dismissed \in {"no", "hastily", "cleanly"}
      /\ panel \in [Slot -> PanelType] /\ Empty(panel, "route") \in [Slot -> PanelType]
  BY PanelTypes DEF ExplorerTyped, ExplorerTypeOK
<1>2. ASSUME NEW r \in {"loaded", "failed"}, FuelTypesAnswered(r) PROVE ExplorerTyped'
  BY <1>1, <1>2, PlainTypes DEF FuelTypesAnswered
<1>3. CASE UrlReplaced
  BY <1>1, <1>3, PlainTypes DEF UrlReplaced
<1>4. CASE RequestEnds
  BY <1>4, LandTypes DEF RequestEnds
<1>5. ASSUME NEW short \in BOOLEAN, NameAnswered(short) PROVE ExplorerTyped'
  BY <1>5, NameTypes
<1>6. CASE NameFailed \/ UNCHANGED pageVars
  <2>1. /\ UNCHANGED <<url, nextUrl, ends, picking, planned, device, fuelTypes, asked,
                       flights, panel, busy, dismissed>>
        /\ lookup' \in {NoLookup, lookup}
    BY <1>6 DEF NameFailed, pageVars
  <2> QED BY <2>1 DEF ExplorerTyped, ExplorerTypeOK, LookupIs
<1>7. ASSUME NEW p \in Place, Located(p) PROVE ExplorerTyped'
  BY <1>1, <1>7, PlainTypes DEF Located
<1>8. ASSUME NEW p \in Place, PickOnMap(p) PROVE ExplorerTyped'
  <2> DEFINE started == [end |-> picking, at |-> p, base |-> url,
                         other |-> Shown[CHOOSE e \in End : e # picking]]
  <2>1. picking \in End /\ picking' = "none" /\ dismissed' = "no" /\ UNCHANGED <<device, fuelTypes>>
    BY <1>1, <1>8 DEF PickOnMap
  <2>2. [Shown EXCEPT ![picking] = p] \in [End -> Place \cup {NoPlace}]
    BY <2>1, ShownTypes
  <2>3. url.named \cup {picking} \in SUBSET End
    BY <2>1, ShownTypes
  <2>4. SyncRouteUrl([Shown EXCEPT ![picking] = p], url.named \cup {picking})
    BY <1>8 DEF PickOnMap
  <2>5. url' \in Url /\ nextUrl' \in Url /\ ends' \in [End -> Place \cup {NoPlace}]
    BY <2>2, <2>3, <2>4, SyncTypes
  <2>6. Shown[CHOOSE e \in End : e # picking] \in Place \cup {NoPlace}
    <3>1. \E e \in End : e # picking
      BY DEF End
    <3>2. (CHOOSE e \in End : e # picking) \in End
      BY <3>1
    <3> QED BY <3>2, ShownTypes
  <2>7. started \in [end : End, at : Place \cup {NoPlace}, other : Place \cup {NoPlace},
                     base : Url \cup {<<>>}]
    BY <1>1, <2>1, <2>6
  <2>8. Rendered({}, panel, started, planned)
    BY <1>8 DEF PickOnMap
  <2> HIDE DEF started
  <2> QED BY <1>1, <2>1, <2>5, <2>7, <2>8, RenderedTypes DEF Rendered
<1>9. ASSUME NEW p \in Place, MoveMap(p) PROVE ExplorerTyped'
  <2> DEFINE f == [slot |-> "bbox",
                   q |-> Asking(p, NoPlace, SelectedFuel(url, fuelTypes = "loaded"))]
  <2>1. f \in [slot : Slot, q : PageQuestion]
    BY <1>1, QuestionIs, AskingIs DEF Slot
  <2>2. /\ Rendered({f}, panel, lookup, planned)
        /\ UNCHANGED <<url, nextUrl, ends, picking, device, fuelTypes, dismissed>>
    BY <1>9 DEF MoveMap
  <2> HIDE DEF f
  <2> QED BY <1>1, <2>1, <2>2, PlainTypes
<1>10. ASSUME NEW f \in Fuel \cup {NoFuel}, ChangeFuel(f) PROVE ExplorerTyped'
  <2>1. [url EXCEPT !.fuel = f] \in Url
    BY <1>1 DEF Url
  <2> QED BY <1>1, <1>10, <2>1, PlainTypes DEF ChangeFuel, ReplaceUrl
<1>11. ASSUME NEW p \in Place \cup {NoPlace}, SelectMapPlace(p) PROVE ExplorerTyped'
  <2>1. NoEnds \in [End -> Place \cup {NoPlace}]
    BY ShownTypes
  <2>2. /\ url' = url /\ UNCHANGED <<picking, device, fuelTypes>>
        /\ ends' \in [End -> Place \cup {NoPlace}]
        /\ dismissed' \in {"no", "hastily", "cleanly"}
    BY <1>1, <1>11, <2>1 DEF SelectMapPlace, ReplaceUrl, Dismissed
  <2>3. CASE p = NoPlace
    <3>1. nextUrl' = [url EXCEPT !.place = NoPlace] /\ Rendered({}, panel, lookup, planned)
      BY <1>11, <2>3 DEF SelectMapPlace, ReplaceUrl
    <3>2. nextUrl' \in Url
      BY <1>1, <3>1 DEF Url
    <3> QED BY <1>1, <2>2, <3>1, <3>2, PlainTypes
  <2>4. CASE p # NoPlace
    <3> DEFINE shown == IF panel["route"].what = "answer" THEN Empty(panel, "route") ELSE panel
    <3>1. /\ nextUrl' = [url EXCEPT !.place = p, !.from = NoPlace, !.to = NoPlace, !.named = {}]
          /\ Rendered({}, shown, lookup, planned)
      BY <1>11, <2>4 DEF SelectMapPlace, ReplaceUrl
    <3>2. nextUrl' \in Url
      BY <1>1, <3>1 DEF Url
    <3>3. shown \in [Slot -> PanelType]
      BY <1>1
    <3> HIDE DEF shown
    <3> QED BY <1>1, <2>2, <3>1, <3>2, <3>3, PlainTypes
  <2> QED BY <2>3, <2>4
<1>12. ASSUME NEW e \in End, NEW p \in Place, NEW short \in BOOLEAN, SetEnd(e, p, short)
       PROVE  ExplorerTyped'
  <2>1. PICK named \in SUBSET End : SyncRouteUrl([Shown EXCEPT ![e] = p], named)
    <3>1. url.named \cup {e} \in SUBSET End /\ url.named \ {e} \in SUBSET End
      BY ShownTypes
    <3>2. CASE short
      <4>1. SyncRouteUrl([Shown EXCEPT ![e] = p], url.named \cup {e})
        BY <1>12, <3>2 DEF SetEnd
      <4> QED BY <3>1, <4>1
    <3>3. CASE ~short
      <4>1. SyncRouteUrl([Shown EXCEPT ![e] = p], url.named \ {e})
        BY <1>12, <3>3 DEF SetEnd
      <4> QED BY <3>1, <4>1
    <3> QED BY <3>2, <3>3
  <2>2. [Shown EXCEPT ![e] = p] \in [End -> Place \cup {NoPlace}]
    BY ShownTypes
  <2>3. url' \in Url /\ nextUrl' \in Url /\ ends' \in [End -> Place \cup {NoPlace}]
    BY <2>1, <2>2, SyncTypes
  <2> QED BY <1>1, <1>12, <2>3, PlainTypes DEF SetEnd
<1>13. ASSUME NEW e \in End \cup {"none"}, StartPick(e) PROVE ExplorerTyped'
  BY <1>1, <1>13, PlainTypes DEF StartPick
<1>14. CASE PlanRoute
  <2> DEFINE f == [slot |-> "route",
                   q |-> Asking(Shown["from"], Shown["to"],
                                SelectedFuel(url, fuelTypes = "loaded"))]
             shown == IF panel["route"].what = "error" THEN Empty(panel, "route") ELSE panel
  <2>1. Shown["from"] \in Place \cup {NoPlace} /\ Shown["to"] \in Place \cup {NoPlace}
    BY ShownTypes DEF End
  <2>2. f \in [slot : Slot, q : PageQuestion]
    BY <1>1, <2>1, QuestionIs, AskingIs DEF Slot
  <2>3. shown \in [Slot -> PanelType]
    BY <1>1
  <2>4. /\ Rendered({f}, shown, lookup, planned) /\ SyncRouteUrl(Shown, url.named)
        /\ UNCHANGED <<picking, device, fuelTypes>> /\ dismissed' = "no"
    BY <1>14 DEF PlanRoute
  <2>5. url' \in Url /\ nextUrl' \in Url /\ ends' \in [End -> Place \cup {NoPlace}]
    BY <2>4, ShownTypes, SyncTypes
  <2> HIDE DEF f, shown
  <2> QED BY <1>1, <2>2, <2>3, <2>4, <2>5, PlainTypes
<1>15. CASE ClearRoute
  <2>1. url' \in Url /\ nextUrl' \in Url /\ ends' \in [End -> Place \cup {NoPlace}]
    BY <1>15, ShownTypes, SyncTypes DEF ClearRoute
  <2>2. dismissed' \in {"no", "hastily", "cleanly"}
    BY <1>15 DEF ClearRoute, Dismissed
  <2> QED BY <1>1, <1>15, <2>1, <2>2, PlainTypes DEF ClearRoute
<1> QED
  BY <1>2, <1>3, <1>4, <1>5, <1>6, <1>7, <1>8, <1>9, <1>10, <1>11, <1>12, <1>13, <1>14, <1>15
  DEF ExplorerNext, ExplorerStep, ExplorerMove

(* The pages begin with state of these types.                              *)
LEMMA FirstBoxMapTypes ==
  /\ SearchBoxInit => SearchBoxTypeOK
  /\ MapInit => MapTypeOK
<1>1. ASSUME SearchBoxInit PROVE SearchBoxTypeOK
  <2>1. /\ query \in Text /\ hits \in [for : Text \cup {NoText}, count : 0..2]
        /\ typed \in 0..MaxTyped /\ wanted = NoText
    BY <1>1, PlaceSearchAssumption DEF SearchBoxInit, NoResults
  <2>2. isOpen \in BOOLEAN /\ selectedLabel \in BOOLEAN
    BY <1>1, Zenon DEF SearchBoxInit
  <2>3. /\ delayed = NoText /\ searching = {} /\ activeIndex = 0
        /\ status \in {"idle", "searching", "results", "empty", "error"}
    BY <1>1 DEF SearchBoxInit
  <2> QED BY <2>1, <2>2, <2>3 DEF SearchBoxTypeOK
<1>2. ASSUME MapInit PROVE MapTypeOK
  <2>1. given \in Given
    BY <1>2 DEF MapInit, Given, Endless
  <2>2. drawn \in Drawing
    BY <1>2 DEF MapInit, Drawing, Blank, Endless
  <2>3. timer \in BOOLEAN
    BY <1>2, Zenon DEF MapInit
  <2>4. /\ map \in {"loading", "loaded"} /\ view \in Point /\ told \in Point \cup {NoPoint}
        /\ changes \in 0..MaxGiven
    BY <1>2, StationMapAssumption DEF MapInit
  <2> QED BY <2>1, <2>2, <2>3, <2>4 DEF MapTypeOK, Drawing
<1> QED BY <1>1, <1>2

LEMMA FirstAuthTypes == AuthInit => AuthTypes
<1> SUFFICES ASSUME AuthInit PROVE AuthTypes
  OBVIOUS
<1>1. CallIs(Plain("me", NoUser))
  BY CallIsOne DEF Plain
<1>2. \A c \in calls : CallIs(c)
  BY <1>1 DEF AuthInit
<1>3. \A c \in calls : c.kind \in {"me", "load", "favorites", "login", "logout", "toggle", "save"}
  BY <1>2 DEF CallIs
<1>4. auth \in AuthState
  BY DEF AuthInit, AuthState, Anonymous
<1> QED BY <1>2, <1>3, <1>4, SignedInAssumption DEF AuthInit, AuthTypes, AuthTypeOK, AuthState

LEMMA FirstStationTypes == StationInit => StationTyped
<1> SUFFICES ASSUME StationInit PROVE StationTyped
  OBVIOUS
<1>1. candidates \in [board : Picture \cup {NoPicture}, count : 0..2]
  BY DEF StationInit, NoCandidates
<1>2. submitting \in BOOLEAN /\ listLoading \in BOOLEAN /\ listError \in BOOLEAN
  BY Zenon DEF StationInit
<1> QED
  BY <1>1, <1>2, StationPageAssumption
  DEF StationInit, StationTyped, StationFormTypes, SendingTypes, StationPriceTypes,
      StationListTypes, StationOtherTypes

LEMMA FirstLookUp ==
  ASSUME url \in Url, lookup = LookUpUnnamed(url, NoLookup)
  PROVE  LookupIs
<1>1. CASE Unnamed(url) = {}
  BY <1>1 DEF LookUpUnnamed, LookupIs
<1>2. CASE Unnamed(url) # {}
  <2>1. PICK e \in {"from", "to"} : lookup = [NoLookup EXCEPT !.end = e, !.at = url[e]]
    BY <1>2 DEF LookUpUnnamed
  <2>2. url["from"] \in Place \cup {NoPlace} /\ url["to"] \in Place \cup {NoPlace}
    BY DEF Url
  <2>3. lookup = [end |-> e, at |-> url[e], other |-> NoPlace, base |-> <<>>]
    BY <2>1 DEF NoLookup
  <2>4. url[e] \in Place \cup {NoPlace}
    BY <2>2
  <2> QED BY <2>3, <2>4 DEF LookupIs, End
<1> QED BY <1>1, <1>2

LEMMA FirstPageTypes == ExplorerInit => ExplorerTyped
<1> SUFFICES ASSUME ExplorerInit PROVE ExplorerTyped
  OBVIOUS
<1>1. /\ url \in Url /\ nextUrl \in Url /\ device \in Place
      /\ ends \in [End -> Place \cup {NoPlace}]
  BY LinkAssumption, ExplorerAssumption DEF ExplorerInit, NoEnds
<1>2. NearbyQuestion \in PageQuestion
  <2>1. /\ SearchCenter(url, ends, device) \in Place \cup {NoPlace}
        /\ SelectedFuel(url, fuelTypes = "loaded") \in Fuel \cup {NoFuel}
    BY <1>1, QuestionIs
  <2> QED BY <2>1, AskingIs DEF NearbyQuestion
<1>3. Unasked \in PageQuestion
  BY AskingIs DEF Unasked
<1>4. /\ asked \in [Slot -> PageQuestion]
      /\ flights \subseteq [slot : Slot, q : PageQuestion]
      /\ panel \in [Slot -> [what : {"nothing", "answer", "error", "kept"}, q : PageQuestion]]
      /\ busy \subseteq Slot \ {"bbox"}
  BY <1>2, <1>3 DEF ExplorerInit, Slot
<1>5. planned \in BOOLEAN
  BY Zenon DEF ExplorerInit
<1>6. LookupIs
  BY <1>1, FirstLookUp DEF ExplorerInit
<1>7. /\ picking \in End \cup {"none"} /\ fuelTypes \in {"loading", "loaded", "failed"}
      /\ dismissed \in {"no", "hastily", "cleanly"}
  BY DEF ExplorerInit
<1> QED BY <1>1, <1>4, <1>5, <1>6, <1>7 DEF ExplorerTyped, ExplorerTypeOK

TypesInv ==
  /\ ReadersInv /\ AccountsInv /\ GeoInv
  /\ SearchBoxTypeOK /\ MapTypeOK /\ AuthTypes /\ StationTyped /\ ExplorerTyped

(* The inductive invariant of the types: of each part, its type invariant, *)
(* with what that needs to be kept.                                        *)
THEOREM TypesInvariant == Spec => []TypesInv
<1>1. Init => TypesInv
  <2> SUFFICES ASSUME Init PROVE TypesInv
    OBVIOUS
  <2>1. ReadersInv
    BY ReadersBegin
  <2>2. AccountsInv /\ GeoInv
    BY AccountsInitInv, GeoInitInv DEF Init
  <2>3. SearchBoxTypeOK /\ MapTypeOK
    BY FirstBoxMapTypes DEF Init
  <2>4. AuthTypes /\ StationTyped /\ ExplorerTyped
    BY FirstAuthTypes, FirstStationTypes, FirstPageTypes DEF Init
  <2> QED BY <2>1, <2>2, <2>3, <2>4 DEF TypesInv
<1>2. TypesInv /\ [Next]_vars => TypesInv'
  <2> SUFFICES ASSUME TypesInv, [Next]_vars PROVE TypesInv'
    OBVIOUS
  <2>1. ReadersInv'
    BY ReadersNext DEF TypesInv
  <2>2. AccountsInv' /\ GeoInv'
    BY StepOfAPart, AccountsNextInv, GeoNextInv DEF TypesInv
  <2>3. SearchBoxTypeOK' /\ MapTypeOK' /\ AuthTypes' /\ StationTyped' /\ ExplorerTyped'
    BY StepOfAPart, BoxTypeNext, MapTypeNext, AuthTypeNext, StationTypeNext, PageTypeNext
       DEF TypesInv
  <2> QED BY <2>1, <2>2, <2>3 DEF TypesInv
<1> QED BY <1>1, <1>2, PTL DEF Spec

(* Type correctness of the whole: the search and the plan, the throttle,   *)
(* the feeds, the sessions, and every page of the web application.         *)
THEOREM TypeCorrect == Spec => []TypeOK
<1>1. TypesInv => TypeOK
  <2> SUFFICES ASSUME TypesInv PROVE TypeOK
    OBVIOUS
  <2>1. SearchTypeOK /\ RouteTypeOK /\ FetchTypeOK
    BY SearchInvSuffices, RouteInvSuffices, FetchInvSuffices, RoutePlanningAssumption
       DEF TypesInv, ReadersInv
  <2>2. AccountsTypeOK /\ GeoTypeOK
    BY DEF TypesInv, AccountsInv, GeoInv
  <2>3. AuthTypeOK /\ ExplorerTypeOK /\ StationTypeOK /\ SearchBoxTypeOK /\ MapTypeOK
    BY StationTypeParts DEF TypesInv, AuthTypes, ExplorerTyped, StationTyped
  <2> QED BY <2>1, <2>2, <2>3 DEF TypeOK
<1> QED BY <1>1, TypesInvariant, PTL

PagesInv == MapInv /\ BoxInv /\ PageInv /\ AuthInv /\ StationInv

(* The inductive invariant of the pages, next to that of their types.      *)
THEOREM PagesInvariant == Spec => []PagesInv
<1>1. Init => PagesInv
  BY PagesBegin DEF Init, PagesInv
<1>2. TypesInv /\ PagesInv /\ [Next]_vars => PagesInv'
  <2> SUFFICES ASSUME TypesInv, PagesInv, [Next]_vars PROVE PagesInv'
    OBVIOUS
  <2>1. url \in Url /\ AuthTypes /\ SearchBoxTypeOK
    BY DEF TypesInv, ExplorerTyped, ExplorerTypeOK
  <2> QED
    BY <2>1, StepOfAPart, MapNextInv, BoxNextInv, PageNextInv, AuthNextInv, StationNextInv
       DEF PagesInv
<1> QED BY <1>1, <1>2, TypesInvariant, PTL DEF Spec

(* The main page shows answers to what it asked last, a route that was     *)
(* done away with and that nothing brings back at that moment stays away,  *)
(* and the map has told its viewport (HomeExplorer, StationMap), for any   *)
(* places, filters, URLs and however many events.                          *)
THEOREM MainPageTrue == Spec => []MainPageIsTrue
<1>1. PagesInv => MainPageIsTrue
  BY DEF PagesInv, MapInv, PageInv, Fits, Gone, MainPageIsTrue, PageAnswersLastQuestion
<1> QED BY <1>1, PagesInvariant, PTL

(* The place field lists the results of the last search, none when it is   *)
(* done with at rest (PlaceSearch), for any texts.                         *)
THEOREM BoxAnswersLast == Spec => []BoxAnswersLastSearch
<1>1. PagesInv => BoxAnswersLastSearch
  BY DEF PagesInv, BoxInv
<1> QED BY <1>1, PagesInvariant, PTL

(* The page knows who is signed in whatever calls that leave the user      *)
(* alone are under way, and that user's favourites at rest, unless calls   *)
(* met or were lost in one of the ways set apart (AuthProvider), for any   *)
(* users, stations and clicks.                                             *)
THEOREM UserIsKnown == Spec => []PageKnowsUser
<1>1. TypesInv /\ PagesInv => PageKnowsUser
  BY AuthInvSuffices DEF TypesInv, PagesInv
<1> QED BY <1>1, PagesInvariant, TypesInvariant, PTL

(* The page of a station shows prices and reports no older than the last   *)
(* load that was answered, and its form the candidates of the photo it     *)
(* holds, except where loads or uploads overtook each other                *)
(* (StationDetailView, PhotoReportForm), for any photos and acts.          *)
THEOREM StationPageTrue == Spec => []StationPageIsTrue
<1>1. PagesInv => StationPageIsTrue
  BY DEF PagesInv, StationInv, StationPageIsTrue, FormsAreBusy, OneLoadCounts, PicturesAgree,
         PricesFollow, ListFollows
<1> QED BY <1>1, PagesInvariant, PTL
=============================================================================
