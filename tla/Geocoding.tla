------------------------------ MODULE Geocoding ------------------------------
(***************************************************************************)
(* GeocodingService: concurrent searches for places and names of points,   *)
(* answered from Redis or else by Nominatim, which asks for a minimum      *)
(* interval between requests; GeocodingRequestThrottle makes callers wait. *)
(*                                                                         *)
(* Time is discrete and relative: what counts is how long ago the last     *)
(* request was, up to the interval.  A sleep lasts at least as long as it  *)
(* was set to.                                                             *)
(***************************************************************************)
EXTENDS Integers

CONSTANTS
  Caller,
  Question,       \* what may be asked: [kind : {"search", "reverse"}, key]
  minIntervalMs,
  NotCached, Nobody

ASSUME GeocodingAssumption ==
  /\ minIntervalMs \in Nat
  /\ \A q \in Question : q.kind \in {"search", "reverse"}

VARIABLES
  elapsed,     \* time since lastRequestAt; minIntervalMs also stands for longer, and for null
  quiet,       \* history: time since a request was last sent, capped likewise
  geo,         \* each caller: where it is, what it asks, how long it still sleeps, the answer;
               \* gap: time from the newest request it could see to its own
  geoCache     \* what Redis holds under the key of a question

geoVars == <<elapsed, quiet, geo, geoCache>>

\* what Nominatim knows: results with coordinates, none with any, or no place
Answer == {"found", "none"}
GeoPhase == {"idle", "slot", "sleeping", "asking", "filling", "done"}
NoCaller == [at |-> "idle", ask |-> Nobody, left |-> 0, gap |-> 0, got |-> Nobody, status |-> 0]
Ended(status) == [NoCaller EXCEPT !.at = "done", !.status = status]

GeoInit ==
  /\ elapsed = minIntervalMs /\ quiet = minIntervalMs
  /\ geo = [c \in Caller |-> NoCaller]
  /\ geoCache = [q \in Question |-> NotCached]

(* An empty list is an answer; a point without an address is 404.          *)
StatusFor(q, answer) == IF q.kind = "reverse" /\ answer = "none" THEN 404 ELSE 200

(* getSearch() and getReverse(): an empty list and the text 'null' are     *)
(* hits as well; without Redis, or when it fails, nothing is.              *)
GeoLookup(c) ==
  /\ geo[c].at = "idle"
  /\ \E q \in Question :
       \/ /\ geoCache[q] # NotCached
          /\ geo' = [geo EXCEPT ![c] = Ended(StatusFor(q, geoCache[q]))]
       \/ geo' = [geo EXCEPT ![c] = [NoCaller EXCEPT !.at = "slot", !.ask = q]]
  /\ UNCHANGED <<elapsed, quiet, geoCache>>

Send(c, gap) ==
  /\ quiet' = 0
  /\ geo' = [geo EXCEPT ![c].at = "asking", ![c].gap = gap, ![c].left = 0]

Sleep(c) ==
  /\ geo' = [geo EXCEPT ![c].at = "sleeping", ![c].gap = quiet, ![c].left = minIntervalMs - elapsed]
  /\ UNCHANGED <<elapsed, quiet>>

\* A faulty WaitForSlot: a request that need not wait leaves no trace.
WaitUnnoticed(c) ==
  /\ geo[c].at = "slot"
  /\ IF elapsed < minIntervalMs THEN Sleep(c) ELSE Send(c, quiet) /\ UNCHANGED elapsed
  /\ UNCHANGED geoCache

(* waitForSlot(): the field is read before the sleep, and written after it.*)
WaitForSlot(c) ==
  /\ geo[c].at = "slot"
  /\ IF elapsed < minIntervalMs THEN Sleep(c) ELSE Send(c, quiet) /\ elapsed' = 0
  /\ UNCHANGED geoCache

Awake(c) ==
  /\ geo[c].at = "sleeping" /\ geo[c].left = 0
  /\ elapsed' = 0 /\ Send(c, geo[c].gap)
  /\ UNCHANGED geoCache

(* How NominatimGeocodingProvider.fetchJson() can fail, and what it makes  *)
(* of it: no address configured, 429, another status, too large, no JSON,  *)
(* another form, no answer in time, no connection.                         *)
GeoFailures ==
  [unconfigured |-> 503, limited |-> 429, rejected |-> 400, broken |-> 502, large |-> 502,
   malformed |-> 502, late |-> 504, unreachable |-> 502]

(* search(), reverse(): results without coordinates are dropped, a reverse *)
(* answer with an error in it or without coordinates is none.              *)
Respond(c) ==
  /\ geo[c].at = "asking"
  /\ \/ \E a \in Answer : geo' = [geo EXCEPT ![c].at = "filling", ![c].gap = 0, ![c].got = a]
     \/ \E f \in DOMAIN GeoFailures : geo' = [geo EXCEPT ![c] = Ended(GeoFailures[f])]
  /\ UNCHANGED <<elapsed, quiet, geoCache>>

(* setSearch(), setReverse(), which may fail without anyone's noticing.    *)
FillCache(c) ==
  /\ geo[c].at = "filling"
  /\ geoCache' \in {geoCache, [geoCache EXCEPT ![geo[c].ask] = geo[c].got]}
  /\ geo' = [geo EXCEPT ![c] = Ended(StatusFor(geo[c].ask, geo[c].got))]
  /\ UNCHANGED <<elapsed, quiet>>

\* the answer goes out; the caller may ask again
Leave(c) ==
  /\ geo[c].at = "done" /\ geo' = [geo EXCEPT ![c] = NoCaller]
  /\ UNCHANGED <<elapsed, quiet, geoCache>>

\* GEOCODING_CACHE_TTL_SECONDS after it was set
ForgetAnswer(q) ==
  /\ geoCache[q] # NotCached
  /\ geoCache' = [geoCache EXCEPT ![q] = NotCached]
  /\ UNCHANGED <<elapsed, quiet, geo>>

Later(t) == IF t < minIntervalMs THEN t + 1 ELSE t

Tick ==
  /\ elapsed' = Later(elapsed) /\ quiet' = Later(quiet)
  /\ geo' = [c \in Caller |->
       IF geo[c].at # "sleeping" THEN geo[c]
       ELSE [geo[c] EXCEPT !.gap = Later(@), !.left = IF @ > 0 THEN @ - 1 ELSE 0]]
  /\ UNCHANGED geoCache

GeoStep(c) == WaitForSlot(c) \/ Awake(c) \/ Respond(c) \/ FillCache(c)
GeoNext ==
  \/ \E c \in Caller : GeoLookup(c) \/ GeoStep(c) \/ Leave(c)
  \/ \E q \in Question : ForgetAnswer(q)
  \/ Tick

GeoSpec == GeoInit /\ [][GeoNext]_geoVars

-----------------------------------------------------------------------------
GeoStatus == {0, 200, 404} \cup {GeoFailures[f] : f \in DOMAIN GeoFailures}

GeoTypeOK ==
  /\ elapsed \in 0..minIntervalMs /\ quiet \in 0..minIntervalMs
  /\ geo \in [Caller -> [at : GeoPhase, ask : Question \cup {Nobody}, left : 0..minIntervalMs,
                         gap : 0..minIntervalMs, got : Answer \cup {Nobody},
                         status : GeoStatus]]
  /\ geoCache \in [Question -> Answer \cup {NotCached}]

(* geocoding.throttle.ts:8, "Ensures a minimum interval between outgoing    *)
(* provider requests", as far as the code keeps it: a request that was      *)
(* sent before another one chose its time is at least the interval away     *)
(* from it.  Callers that sleep at the same time have not seen each other,  *)
(* and go out together.                                                     *)
IntervalToRequestsSeen ==
  \A c \in Caller : geo[c].at = "asking" => geo[c].gap = minIntervalMs
=============================================================================
