------------------------------ MODULE StationMap ------------------------------
(***************************************************************************)
(* The map of the main page (StationMap): a MapLibre map in an effect of   *)
(* React, and one effect for each layer that copies what the page gives    *)
(* into the map.                                                           *)
(*                                                                         *)
(* Effects run after a rendering in which something they read has changed, *)
(* in the order they are written.  The first builds the map anew when the  *)
(* centre has changed; the ones of the layers do nothing while the map has *)
(* no style.  MapLibre is external: it fires load when the style is there, *)
(* and isStyleLoaded may deny it later too, while a layer takes its data.  *)
(***************************************************************************)
EXTENDS Naturals

CONSTANTS
  Point, NoPoint,  \* where a map can look, where somebody or something is
  Paris,           \* the fallback
  Pin, NoPin,      \* stations
  DeniesLater,     \* does isStyleLoaded deny a style that was there?
  MaxGiven         \* bound: how often the page or the user changes something

ASSUME StationMapAssumption ==
  /\ Paris \in Point /\ NoPoint \notin Point /\ NoPin \notin Pin
  /\ DeniesLater \in BOOLEAN /\ MaxGiven \in Nat

VARIABLES
  given,   \* the props, with what initialCenter is made of
  map,     \* the map has its style or waits for it
  view,    \* where the map looks: getBounds
  timer,   \* the delay after a move runs
  told,    \* the viewport the page was told last
  drawn,   \* what each layer of this map shows
  changes

mapVars == <<given, map, view, timer, told, drawn, changes>>

Layer == {"user", "stations", "selected", "ends"}
Given == [user : Point \cup {NoPoint}, place : Point \cup {NoPoint},
          stations : SUBSET Pin, selected : Pin \cup {NoPin},
          ends : (Point \cup {NoPoint}) \X (Point \cup {NoPoint}), pick : BOOLEAN]
Endless == <<NoPoint, NoPoint>>

(* initialCenter: the start of a whole route, or the place of the URL, or  *)
(* the user.                                                               *)
Center(g) ==
  IF NoPoint \notin {g.ends[1], g.ends[2]} THEN g.ends[1]
  ELSE IF g.place # NoPoint THEN g.place
  ELSE IF g.user # NoPoint THEN g.user ELSE Paris

(* The layers of a style that has just come have no data.                  *)
Blank == [user |-> NoPoint, stations |-> {}, selected |-> NoPin, ends |-> Endless]

(* The effects that have something to do.  The ends of a route are new     *)
(* objects in every rendering.                                             *)
Stale(new) ==
  {l \in Layer : new[l] # given[l]} \cup IF new.ends # Endless THEN {"ends"} ELSE {}

(* A rendering with new props, and its effects: of the old map, its delay  *)
(* included, nothing stays.                                                *)
Renders(new) ==
  /\ changes < MaxGiven /\ changes' = changes + 1
  /\ given' = new /\ UNCHANGED told
  /\ IF Center(new) # Center(given)
     THEN map' = "loading" /\ view' = Center(new) /\ timer' = FALSE /\ drawn' = Blank
     ELSE /\ UNCHANGED <<map, view, timer>>
          /\ \E denied \in IF DeniesLater THEN SUBSET Stale(new) ELSE {{}} :
               drawn' = [l \in Layer |->
                          IF map = "loaded" /\ l \in Stale(new) \ denied
                          THEN new[l] ELSE drawn[l]]

MapInit ==
  /\ given = [user |-> NoPoint, place |-> NoPoint, stations |-> {}, selected |-> NoPin,
              ends |-> Endless, pick |-> FALSE]
  /\ map = "loading" /\ view = Paris /\ timer = FALSE
  /\ told = NoPoint /\ drawn = Blank /\ changes = 0

-----------------------------------------------------------------------------
StyleLoaded ==
  /\ map = "loading" /\ map' = "loaded" /\ told' = view
  /\ UNCHANGED <<given, view, timer, drawn, changes>>

(* moveend, of the user's hand or of flyTo and fitBounds.                  *)
MapMoved(p) ==
  /\ changes < MaxGiven /\ changes' = changes + 1
  /\ view' = p /\ timer' = TRUE
  /\ UNCHANGED <<given, map, told, drawn>>

EmitViewport ==
  /\ timer /\ timer' = FALSE /\ told' = view
  /\ UNCHANGED <<given, map, view, drawn, changes>>

(* A click picks a point while one is picked, and else selects the station *)
(* that it met.                                                            *)
ClickMap(p, s) ==
  /\ map = "loaded"
  /\ \/ given.pick /\ \E e \in 1..2 : Renders([given EXCEPT !.ends[e] = p, !.pick = FALSE])
     \/ ~given.pick /\ s \in drawn.stations /\ Renders([given EXCEPT !.selected = s])

(* The page: the position was granted, once; a place or the ends of a      *)
(* route; the stations that were found; a station picked in the list; the  *)
(* button that begins to pick a point; or nothing that the map is given.   *)
PageGives ==
  \/ \E p \in Point : given.user = NoPoint /\ Renders([given EXCEPT !.user = p])
  \/ \E p \in Point \cup {NoPoint} : Renders([given EXCEPT !.place = p])
  \/ \E p \in Point \cup {NoPoint}, e \in 1..2 : Renders([given EXCEPT !.ends[e] = p])
  \/ \E found \in SUBSET Pin : Renders([given EXCEPT !.stations = found])
  \/ \E s \in Pin \cup {NoPin} : Renders([given EXCEPT !.selected = s])
  \/ Renders([given EXCEPT !.pick = ~@])

MapStep == StyleLoaded \/ EmitViewport
MapNext ==
  \/ MapStep
  \/ \E p \in Point : MapMoved(p)
  \/ \E p \in Point, s \in Pin : ClickMap(p, s)
  \/ PageGives

MapSpec == MapInit /\ [][MapNext]_mapVars

-----------------------------------------------------------------------------
MapTypeOK ==
  /\ given \in Given
  /\ map \in {"loading", "loaded"} /\ view \in Point /\ timer \in BOOLEAN
  /\ told \in Point \cup {NoPoint}
  /\ drawn \in [user : Point \cup {NoPoint}, stations : SUBSET Pin, selected : Pin \cup {NoPin},
                ends : (Point \cup {NoPoint}) \X (Point \cup {NoPoint})]
  /\ changes \in 0..MaxGiven

(* The page loads the stations of the viewport it was told, and that is    *)
(* the one on display, also of a map built anew (docs/frontend.md:63 "GET  *)
(* /stations/bbox adds map markers when the user pans/zooms outside the    *)
(* nearby set").                                                           *)
ViewportIsTold == map = "loaded" /\ ~timer => told = view

(* The user is on the map (docs/frontend.md:81 "If granted -> use device   *)
(* coordinates for nearby search and user marker").  It fails: a map that  *)
(* is built anew around the position that came has no style yet when the   *)
(* position is to be drawn, and nobody draws it when it has.               *)
UserMarkerIsShown == map = "loaded" /\ given.user # NoPoint => drawn.user = given.user
=============================================================================
