---------------------------- MODULE ProviderFetch ----------------------------
(***************************************************************************)
(* fetch() and normalize() of the seven providers: the requests of one     *)
(* import, one after the other or at once, what a failure of each of them  *)
(* means, and what all the answers amount to.                              *)
(*                                                                         *)
(* The requests are numbered: areas of the grid or chunks of station ids,  *)
(* pages, fuels, tables.  Number 0 is one made before the first of these.  *)
(* Waiting between requests and before a retry is left out.                *)
(***************************************************************************)
EXTENDS ProviderFeeds, HttpClient

CONSTANTS
  Table,      \* bound: the records that an answer may hold, in order
  MaxUnits,   \* bound: areas, chunks and pages
  Source,     \* bound: the kinds of import
  NoSource

(* Italy has two tables, and Austria is asked for two fuels.               *)
ASSUME ProviderFetchAssumption ==
  /\ Table \subseteq Seq(FeedRecord)
  /\ MaxUnits \in Nat \ {0, 1}
  /\ NoSource \notin Source
  /\ Source \subseteq {"germany", "germanyPrices", "france", "spain", "italy",
                       "slovenia", "croatia", "austria"}

VARIABLES
  source,     \* what is being fetched
  inFlight,   \* requests under way, and how often each was repeated
  answered,   \* the answers, by request
  lost,       \* requests given up (metrics.chunksFailed), and how they ended
  outcome,    \* of the fetch
  result      \* of the normalisation

fetchVars == <<source, inFlight, answered, lost, outcome, result>>

(* An answer of the form asked for: its records, whether there are more    *)
(* pages, and whether it says when it was made, where either is told.      *)
(* Germany's prices are told by id.                                        *)
FeedAnswer(u) ==
  [rows : {t \in Table : source = "germanyPrices" => \A i \in DOMAIN t : t[i].named},
   more : IF source \in {"france", "slovenia"} /\ u < MaxUnits THEN BOOLEAN ELSE {FALSE},
   dated : IF source \in {"spain", "italy"} THEN BOOLEAN ELSE {TRUE}]

(* Austria is asked by a client of its own, and tables are no JSON.        *)
Failure ==
  CASE source = "italy" -> Attempt \ {"ok", "not-json"}
    [] source = "austria" -> {"not-json", "429", "5xx", "4xx", "network", "other-form"}
    [] OTHER -> (Attempt \ {"ok"}) \cup {"other-form"}

NoResult == [stations |-> {}, skipped |-> 0, errors |-> 0]
Nothing == [u \in {} |-> 0]

FetchInit ==
  /\ source = NoSource
  /\ inFlight = Nothing /\ answered = Nothing /\ lost = Nothing
  /\ outcome = "none" /\ result = NoResult

-----------------------------------------------------------------------------
FirstRequests(s) ==
  CASE s \in {"france", "slovenia"} -> {0}
    [] s = "italy" -> {1, 2}
    [] OTHER -> {1}

(* Without an API key, a place to search around, or stations to ask about  *)
(* nothing is sent: the first two are errors, the last an empty result.    *)
StartFetch(s) ==
  /\ source = NoSource /\ source' = s
  /\ \/ /\ inFlight' = [u \in FirstRequests(s) |-> 0]
        /\ UNCHANGED outcome
     \/ /\ s \in {"germany", "germanyPrices", "austria"} /\ outcome' = "failed"
        /\ UNCHANGED inFlight
     \/ /\ s = "germanyPrices" /\ outcome' = "fetched"
        /\ UNCHANGED inFlight
  /\ UNCHANGED <<answered, lost, result>>

Retries(u) ==
  CASE source = "austria" -> 0
    [] source = "france" /\ u = 0 -> 2
    [] OTHER -> 3

Without(f, u) == [v \in DOMAIN f \ {u} |-> f[v]]
With(f, u, x) == [v \in DOMAIN f \cup {u} |-> IF v = u THEN x ELSE f[v]]

(* Request u is over; another one follows, or the fetch is.                *)
Next1(u, more) ==
  /\ inFlight' = IF more THEN With(Without(inFlight, u), u + 1, 0) ELSE Without(inFlight, u)
  /\ outcome' = IF more \/ DOMAIN inFlight # {u} THEN "none" ELSE "fetched"

Give(u, x, more) == answered' = With(answered, u, x) /\ Next1(u, more) /\ UNCHANGED lost
Lose(u, a, more) == lost' = With(lost, u, a) /\ Next1(u, more) /\ UNCHANGED answered
Throw == outcome' = "failed" /\ inFlight' = Nothing /\ UNCHANGED <<answered, lost>>

(* How each provider takes the end of a request: a is the outcome of the   *)
(* last attempt, x the answer if it has the expected form.                 *)

\* A faulty GermanyAnswer: whatever fails costs one area.
GermanyGoesOn(u, a, x) ==
  IF a = "ok" THEN Give(u, x, u < MaxUnits) ELSE Lose(u, a, u < MaxUnits)

(* An area or chunk that fails is passed over, unless it was refused for   *)
(* good.                                                                   *)
GermanyAnswer(u, a, x) ==
  IF a = "ok" THEN Give(u, x, u < MaxUnits)
  ELSE IF IsHttpFetchError(a) /\ HasStatus(a) /\ ~Retryable(a) THEN Throw
  ELSE Lose(u, a, u < MaxUnits)

(* What the catalogue says is not used, nor needed.                        *)
FranceAnswer(u, a, x) ==
  IF u = 0 THEN Next1(0, TRUE) /\ UNCHANGED <<answered, lost>>
  ELSE IF a = "ok" THEN Give(u, x, x.more) ELSE Throw

SpainAnswer(u, a, x) == IF a = "ok" /\ x.dated THEN Give(u, x, FALSE) ELSE Throw

(* Any text is a table: a row that cannot be read is counted, no more.     *)
ItalyAnswer(u, a, x) == IF a = "ok" THEN Give(u, x, FALSE) ELSE Throw

(* A list of franchises of another form is an empty one.                   *)
SloveniaAnswer(u, a, x) ==
  IF a \notin {"ok", "other-form"} \/ (u > 0 /\ a # "ok") THEN Throw
  ELSE IF u = 0 THEN Next1(0, TRUE) /\ UNCHANGED <<answered, lost>>
  ELSE Give(u, x, x.more)

CroatiaAnswer(u, a, x) == IF a = "ok" THEN Give(u, x, FALSE) ELSE Throw

AustriaAnswer(u, a, x) ==
  IF a = "ok" /\ \A i \in DOMAIN x.rows : AustriaReadable(x.rows[i])
  THEN Give(u, x, u < 2) ELSE Throw

TakeAnswer(u, a, x) ==
  CASE source \in {"germany", "germanyPrices"} -> GermanyAnswer(u, a, x)
    [] source = "france"   -> FranceAnswer(u, a, x)
    [] source = "spain"    -> SpainAnswer(u, a, x)
    [] source = "italy"    -> ItalyAnswer(u, a, x)
    [] source = "slovenia" -> SloveniaAnswer(u, a, x)
    [] source = "croatia"  -> CroatiaAnswer(u, a, x)
    [] source = "austria"  -> AustriaAnswer(u, a, x)

(* One attempt: it is repeated, or the provider goes on with what it is.   *)
Request(u) ==
  /\ outcome = "none" /\ u \in DOMAIN inFlight
  /\ \/ \E a \in Failure :
          IF TriedAgain(a, inFlight[u], Retries(u))
          THEN inFlight' = [inFlight EXCEPT ![u] = @ + 1] /\ UNCHANGED <<answered, lost, outcome>>
          ELSE TakeAnswer(u, a, NoSource)
     \/ \E x \in FeedAnswer(u) : TakeAnswer(u, "ok", x)
  /\ UNCHANGED <<source, result>>

-----------------------------------------------------------------------------
(* What was sent, by request and row.                                      *)
Rows == UNION {{<<u, i>> : i \in DOMAIN answered[u].rows} : u \in DOMAIN answered}
Row(at) == answered[at[1]].rows[at[2]]
Before(at, other) == at[1] < other[1] \/ (at[1] = other[1] /\ at[2] < other[2])
(* The records that the client hands on.  German stations are put into a   *)
(* map by id: of those found in several areas the last one counts, and a   *)
(* row without an id is passed over.  So is a Croatian row that cannot be  *)
(* read.  Neither leaves a trace.                                          *)
FoundLater(at) ==
  {other \in Rows : Row(other).named /\ Row(other).id = Row(at).id /\ Before(at, other)}
StationById == {at \in Rows : Row(at).named /\ FoundLater(at) = {}}
ParseCroatiaFeed == {at \in Rows : CroatiaReadable(Row(at))}
Records ==
  CASE source = "germany" -> StationById
    [] source = "croatia" -> ParseCroatiaFeed
    [] OTHER -> Rows

NormalizeRecord(r) ==
  CASE source = "germany"       -> GermanyListRecord(r)
    [] source = "germanyPrices" -> GermanyPriceRecord(r)
    [] source = "france"        -> FranceRecord(r)
    [] source = "spain"         -> SpainRecord(r)
    [] source = "slovenia"      -> SloveniaRecord(r)
    [] source = "croatia"       -> CroatiaRecord(r)
    [] source = "austria"       -> AustriaRecord(r)

NormalizeRecords ==
  LET done == [at \in Records |-> NormalizeRecord(Row(at))]
      kept == {at \in Records : done[at].prices # {}}
  IN  [stations |-> {[id |-> Row(at).id, from |-> {at}, placed |-> source # "germanyPrices",
                      prices |-> done[at].prices] : at \in kept},
       skipped  |-> Cardinality(Records \ kept),
       errors   |-> SumFunctionOnSet([at \in Records |-> done[at].errors], Records)]

(* The rows of the second table are joined by station.  The line of the    *)
(* columns' names counts as a row that is skipped.                         *)
NormalizeItaly ==
  LET stationRows == {at \in Rows : at[1] = 1}
      priceRows   == {at \in Rows : at[1] = 2}
      done == [at \in priceRows |-> ItalyRecord(Row(at), answered[2].dated)]
      kept == {at \in priceRows : done[at].prices # {}}
      of(i) == {at \in kept : Row(at).id = i}
      found(i) == {at \in stationRows : Row(at).id = i /\ ItalyStations(Row(at))}
      placed(i) == \E at \in found(i) : /\ ParseItalyCoordinates(Row(at))
                                       /\ \A other \in found(i) : ~Before(at, other)
      count(at) == Cardinality(Row(at).prices) - Cardinality(done[at].prices)
  IN  [stations |-> {[id |-> i, from |-> of(i), placed |-> placed(i),
                      prices |-> UNION {done[at].prices : at \in of(i)}]
                      : i \in {Row(at).id : at \in kept}},
       skipped  |-> 1 + Cardinality({at \in stationRows : ~ItalyStations(Row(at))})
                      + SumFunctionOnSet([at \in priceRows |-> count(at)], priceRows),
       errors   |-> SumFunctionOnSet([at \in priceRows |-> done[at].errors], priceRows)]

Normalize ==
  /\ outcome = "fetched" /\ outcome' = "normalized"
  /\ result' = IF source = "italy" THEN NormalizeItaly ELSE NormalizeRecords
  /\ UNCHANGED <<source, inFlight, answered, lost>>

FetchStep == (\E u \in DOMAIN inFlight : Request(u)) \/ Normalize
FetchNext == (\E s \in Source : StartFetch(s)) \/ FetchStep

-----------------------------------------------------------------------------
FetchTypeOK ==
  /\ source \in Source \cup {NoSource}
  /\ DOMAIN inFlight \subseteq 0..MaxUnits /\ DOMAIN answered \subseteq 1..MaxUnits
  /\ \A u \in DOMAIN inFlight : inFlight[u] \in 0..3
  /\ DOMAIN answered \cap DOMAIN lost = {}
  /\ outcome \in {"none", "fetched", "failed", "normalized"}
  /\ result.skipped \in Nat /\ result.errors \in Nat

Good(r) == r.wellFormed /\ r.position = "home" /\ Amounts(r) = {"plain"}
Told(r) == {p \in Usable(Columns(r)) : p.stamped}

(* There was nothing to keep of it: no price at all, and no other fault.   *)
Unpriced(r) ==
  CASE source = "germanyPrices" -> ParseGermanyPriceValue(r) = {}
    [] source = "austria" -> r.position # "zero" /\ ParseAustriaPriceAmount(r) = {}
    [] OTHER -> FALSE

(* An error must tell of it: a row of which nothing was kept though there   *)
(* was something; in Italy, a price that was sent and not kept.             *)
Faulty(at) ==
  IF source = "italy"
  THEN at[1] = 2 /\ \E p \in ItalyPriceRows(Row(at)) \cap Columns(Row(at)) :
                      p.product \notin Aliased \/ p.amount # "plain"
  ELSE /\ \A s \in result.stations : at \notin s.from
       /\ ~Unpriced(Row(at))

(* docs/ingestion.md:50, "Malformed rows are skipped and recorded in        *)
(* ingestion_errors; the run continues when safe".  An import that gets to  *)
(* its end has an answer to every request but those of Germany that failed  *)
(* for the moment.  Every row that was good is kept with its prices, unless *)
(* a later row is the same German station.  Every record that the client    *)
(* handed on is kept or counted as skipped, and each that had a fault has   *)
(* an error; no price is kept that is none.  The promise is broken before   *)
(* that: Germany's rows without an id, Croatia's that cannot be read        *)
(* (Records) and Germany's lost areas are neither counted nor recorded, and *)
(* Italy's stations that cannot be read are counted only.  What is said of  *)
(* all rows here is that no good one is among them.                         *)
FeedIsAccountedFor ==
  outcome = "normalized" =>
    /\ \A u \in 1..MaxUnits : u \in DOMAIN lost =>
         source \in {"germany", "germanyPrices"} /\ lost[u] \notin {"4xx", "too-large"}
    /\ \A at \in Rows : Good(Row(at)) /\ Told(Row(at)) # {} /\ (source = "italy" => at[1] = 2) =>
         \/ \E s \in result.stations : at \in s.from /\ Told(Row(at)) \subseteq s.prices
         \/ source = "germany" /\ FoundLater(at) # {}
    /\ source # "italy" => Cardinality(result.stations) + result.skipped = Cardinality(Records)
    /\ \A s \in result.stations : \A p \in s.prices :
         p.product \in Aliased /\ p.amount \in {"plain"} \cup (IF source = "austria" THEN {"high"} ELSE {})
    /\ result.errors >= Cardinality({at \in Records : Faulty(at)})
=============================================================================
