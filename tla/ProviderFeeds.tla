---------------------------- MODULE ProviderFeeds ----------------------------
(***************************************************************************)
(* What each of the seven providers' parser and normaliser makes of the    *)
(* records it is given: a station with the prices that can be used, or a   *)
(* record that is skipped, and how many errors are told.                   *)
(*                                                                         *)
(* A record is abstracted to what they tell apart.  Names, addresses and   *)
(* metadata are left out.                                                  *)
(***************************************************************************)
EXTENDS Ordering

CONSTANTS
  Aliased,      \* products in fuelAliasMap
  Unsupported   \* products the program does not read or knows it has no fuel for

ASSUME ProviderFeedsAssumption == Aliased \cap Unsupported = {}

(* plain is a price over 0 and up to 20, high one over 20, null what stands *)
(* for none, text a value that is not a price at all.                       *)
Amount == {"plain", "high", "zero", "null", "text"}

(* In the country; elsewhere on earth; latitude and longitude 0; not on     *)
(* earth; not told.                                                         *)
Position == {"home", "abroad", "zero", "off", "none"}

(* A row that is no object, or has no id of the form asked for, is not      *)
(* named.                                                                   *)
PriceType == [product : STRING, amount : Amount, stamped : BOOLEAN]
RecordType == [id : Nat, named : BOOLEAN, wellFormed : BOOLEAN, position : Position,
               prices : SUBSET PriceType]
FeedRecord == {r \in RecordType : IsFiniteSet(r.prices) /\ (r.wellFormed => r.named)}

Amounts(r) == {p.amount : p \in r.prices}
Of(r, amounts) == {p \in r.prices : p.amount \in amounts}
\* the fields a provider is read for
Columns(r) == {p \in r.prices : p.product \notin Unsupported}
Usable(ps) == {p \in ps : p.product \in Aliased}
Unknown(ps) == Cardinality({p \in ps : p.product \notin Aliased})

(* The common course of a record.  complaints: errors about single prices. *)
Skip(errors) == [prices |-> {}, errors |-> errors]
Normalized(readable, located, prices, complaints) ==
  IF ~readable \/ ~located THEN Skip(1)                 \* VALIDATION_FAILED, INVALID_COORDINATES
  ELSE IF prices = {} THEN Skip(complaints + 1)         \* NO_PRICES
  ELSE [prices |-> prices, errors |-> complaints]

-----------------------------------------------------------------------------
(* Germany.  A price may be false; what is not in range is left out.  Of a *)
(* known station only the prices are told, under its id.                   *)
GermanyReadable(r) ==
  /\ r.wellFormed /\ r.position # "none"
  /\ \A p \in Columns(r) : p.amount # "text"
ParseGermanyPriceValue(r) == {p \in Columns(r) : p.amount = "plain"}
GermanyListRecord(r) ==
  LET ps == ParseGermanyPriceValue(r)
  IN  Normalized(GermanyReadable(r), r.position # "off", Usable(ps), Unknown(ps))
GermanyPriceRecord(r) ==
  LET ps == ParseGermanyPriceValue(r)
  IN  [prices |-> Usable(ps), errors |-> Unknown(ps)]

-----------------------------------------------------------------------------
(* France.  A price out of range spoils the record; each has a time.       *)
FranceReadable(r) ==
  r.wellFormed /\ \A p \in Columns(r) : p.amount \in {"plain", "null"}
FrancePriced(r) == {p \in Columns(r) : p.amount = "plain"}
ExtractFranceCoordinates(r) == r.position \notin {"off", "none"}
FrancePrices(r) == {p \in Usable(FrancePriced(r)) : p.stamped}
FranceRecord(r) ==
  Normalized(FranceReadable(r), ExtractFranceCoordinates(r), FrancePrices(r),
             Cardinality(FrancePriced(r) \ FrancePrices(r)))

-----------------------------------------------------------------------------
(* Spain.  Every field is a text; a blank price is not sold.               *)
SpainReadable(r) == r.wellFormed /\ r.position # "none"
ExtractSpainCoordinates(r) == r.position \in {"home", "abroad"}
GetSpainPriceFields(r) == {p \in Columns(r) : p.amount # "null"}
SpainRecord(r) ==
  LET fields == GetSpainPriceFields(r)
      good == {p \in fields : p.amount = "plain"}
  IN  Normalized(SpainReadable(r), ExtractSpainCoordinates(r), Usable(good),
                 Cardinality(fields \ good) + Unknown(good))

-----------------------------------------------------------------------------
(* Slovenia.  A price out of range spoils the record.                      *)
SloveniaReadable(r) ==
  r.wellFormed /\ r.position # "none" /\ Amounts(r) \subseteq {"plain", "null"}
ExtractSloveniaCoordinates(r) == r.position = "home"
GetSloveniaPriceFields(r) == {p \in Columns(r) : p.amount = "plain"}
SloveniaRecord(r) ==
  LET fields == GetSloveniaPriceFields(r)
  IN  Normalized(SloveniaReadable(r), ExtractSloveniaCoordinates(r), Usable(fields), Unknown(fields))

-----------------------------------------------------------------------------
(* Croatia.  A product without an alias is passed over.                    *)
CroatiaReadable(r) == r.wellFormed /\ r.position # "none" /\ Amounts(r) \subseteq {"plain"}
ExtractCroatiaCoordinates(r) == r.position = "home"
CroatiaRecord(r) ==
  Normalized(CroatiaReadable(r), ExtractCroatiaCoordinates(r), Usable(Of(r, {"plain"})), 0)

-----------------------------------------------------------------------------
(* Austria.  One record that cannot be read spoils the whole answer; no    *)
(* price is too high, and a station without one is skipped without a word. *)
AustriaReadable(r) ==
  r.wellFormed /\ r.position # "none" /\ Amounts(r) \cap {"text", "null"} = {}
ParseAustriaPriceAmount(r) == Of(r, {"plain", "high"})
AustriaRecord(r) ==
  LET ps == ParseAustriaPriceAmount(r)
  IN  IF r.position = "zero" THEN Skip(1) ELSE [prices |-> Usable(ps), errors |-> Unknown(ps)]

-----------------------------------------------------------------------------
(* Italy.  Two tables: the rows of the one are stations, those of the      *)
(* other single prices, which are grouped by station.  A price without a   *)
(* time gets that of the table, when it has one; a station without a place *)
(* or without a row keeps its prices.                                      *)
ItalyStations(r) == r.wellFormed
ParseItalyCoordinates(r) == ItalyStations(r) /\ r.position = "home"
\* rows without a station or a price cannot be read; they are counted, not told
ItalyPriceRows(r) == {p \in r.prices : r.named /\ p.amount # "null"}
ItalyUsable(r, dated) ==
  {p \in Usable(ItalyPriceRows(r)) : p.amount = "plain" /\ (p.stamped \/ dated)}
ItalyComplaints(r, dated) ==
  (ItalyPriceRows(r) \cap Columns(r)) \ ItalyUsable(r, dated)
ItalyRecord(r, dated) ==
  [prices |-> ItalyUsable(r, dated), errors |-> Cardinality(ItalyComplaints(r, dated))]
=============================================================================
