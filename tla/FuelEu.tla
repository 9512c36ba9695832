-------------------------------- MODULE FuelEu --------------------------------
(***************************************************************************)
(* The parts of the program that answer people, side by side: five of the  *)
(* API and five of the web application.  They share no variable: what one *)
(* takes from another is in the environment of its module.  A behaviour is *)
(* therefore one of a part, and the checks of them all are those of this   *)
(* specification.                                                          *)
(***************************************************************************)
EXTENDS StationSearch, RoutePlanning, Geocoding, ProviderFetch, Accounts,
        ExplorerPage, PlaceSearch, SignedIn, StationMap, StationPage

VARIABLE part  \* the part that the behaviour is about

vars == <<part, searchVars, routeVars, geoVars, fetchVars, accountVars,
          pageVars, boxVars, authVars, mapVars, stationVars>>

Init ==
  /\ part \in {"search", "route", "geocoding", "fetch", "accounts", "page", "box", "auth", "map",
               "station"}
  /\ SearchInit /\ RouteInit /\ GeoInit /\ FetchInit /\ AccountsInit
  /\ ExplorerInit /\ SearchBoxInit /\ AuthInit /\ MapInit /\ StationInit

  /\ part # "route" => length = CHOOSE metres \in Lengths : TRUE
  /\ part # "page" => url = CHOOSE link \in Link : TRUE
  /\ part # "box" => query = CHOOSE text \in TooShort : TRUE
  /\ part # "auth" => cookie = NoUser /\ userFavorites = {}

(* No other part moves.                                                    *)
Only(p) ==
  /\ part = p /\ UNCHANGED part
  /\ IF p = "search"    THEN TRUE ELSE UNCHANGED searchVars
  /\ IF p = "route"     THEN TRUE ELSE UNCHANGED routeVars
  /\ IF p = "geocoding" THEN TRUE ELSE UNCHANGED geoVars
  /\ IF p = "fetch"     THEN TRUE ELSE UNCHANGED fetchVars
  /\ IF p = "accounts"  THEN TRUE ELSE UNCHANGED accountVars
  /\ IF p = "page"      THEN TRUE ELSE UNCHANGED pageVars
  /\ IF p = "box"       THEN TRUE ELSE UNCHANGED boxVars
  /\ IF p = "auth"      THEN TRUE ELSE UNCHANGED authVars
  /\ IF p = "map"       THEN TRUE ELSE UNCHANGED mapVars
  /\ IF p = "station"   THEN TRUE ELSE UNCHANGED stationVars

Next ==
  \/ Only("search") /\ SearchNext
  \/ Only("route") /\ RouteNext
  \/ Only("geocoding") /\ GeoNext
  \/ Only("fetch") /\ FetchNext
  \/ Only("accounts") /\ AccountsNext
  \/ Only("page") /\ ExplorerNext
  \/ Only("box") /\ SearchBoxNext
  \/ Only("auth") /\ AuthNext
  \/ Only("map") /\ MapNext
  \/ Only("station") /\ StationNext

(* What goes on by itself: a statement or a request that was sent ends,    *)
(* one way or the other, and time passes.                                  *)
Step ==
  \/ Only("route") /\ RouteStep
  \/ Only("geocoding") /\ Tick
  \/ Only("fetch") /\ FetchStep
  \/ Only("page") /\ RequestEnds
  \/ Only("box") /\ SearchBoxStep
  \/ Only("auth") /\ AuthStep
  \/ Only("map") /\ MapStep
  \/ Only("station") /\ StationStep

(* The same of what one caller of the geocoder or one client waits for.    *)
ActorStep(x) ==
  \/ Only("geocoding") /\ x \in Caller /\ GeoStep(x)
  \/ Only("accounts") /\ x \in Client /\ Handle(x)

Fairness == WF_vars(Step) /\ \A x \in Caller \cup Client : WF_vars(ActorStep(x))

Spec == Init /\ [][Next]_vars /\ Fairness

-----------------------------------------------------------------------------
TypeOK ==
  /\ SearchTypeOK /\ RouteTypeOK /\ GeoTypeOK /\ FetchTypeOK /\ AccountsTypeOK
  /\ ExplorerTypeOK /\ SearchBoxTypeOK /\ AuthTypeOK /\ MapTypeOK
  /\ StationTypeOK

(* The plan of a route, the shortlist it was made from, and how the        *)
(* workers shared that.                                                    *)
PlanIsSound == PlanIsWhatWasAnswered /\ ShortlistKeepsExtremes /\ EachIsTakenOnce

(* The main page: its lists and its route are answers to what was asked    *)
(* last, and the stations on its map were asked for at the viewport shown. *)
MainPageIsTrue == PageAnswersLastQuestion /\ ViewportIsTold

(* Somebody waits: for a route, for a place, for the throttle, for an      *)
(* import, for the answer about an account, or in a page.                  *)
Waits(x) ==
  CASE part = "route" -> stage \notin {"idle", "done"}
    [] part = "geocoding" -> x \in Caller /\ geo[x].at \notin {"idle", "done"}
    [] part = "fetch" -> source # NoSource /\ outcome \notin {"failed", "normalized"}
    [] part = "accounts" -> x \in Client /\ call[x].at # "idle"
    [] part = "page" -> flights # {}
    [] part = "box" -> searching # {}
    [] part = "auth" -> calls # {}
    [] part = "map" -> timer
    [] part = "station" ->
         opened = "loading" \/ priceLoads # {} \/ listLoads # {} \/ uploads # {} \/ sending # {}
    [] OTHER -> FALSE

(* Whatever was asked comes to an end, with an answer or a failure: nobody *)
(* sleeps for the throttle for ever, and no page asks again and again by   *)
(* itself.                                                                 *)
EveryRequestEnds == \A x \in Caller \cup Client : Waits(x) ~> ~Waits(x)
=============================================================================
