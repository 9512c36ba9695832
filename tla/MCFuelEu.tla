------------------------------- MODULE MCFuelEu -------------------------------
(* Small instances of the parts of FuelEu.                                 *)
EXTENDS FuelEu

CONSTANTS p1, p2

(* Observations of two petrols at three stations: official, reported and   *)
(* commercial ones, served and self-service, one too old, one in another   *)
(* currency, one whose report is doubtful, two of the same score.          *)
Offer(id, s, f, p, currency, type, trust, confidence, service, votes, observed) ==
  [id |-> id, station |-> s, fuel |-> f, price |-> p, currency |-> currency, type |-> type,
   trust |-> trust, confidence |-> confidence, mode |-> service, confirmations |-> votes[1],
   disputes |-> votes[2], observed |-> observed, received |-> observed + 1]
MCOffers == {
  Offer(1, 1, "e5", 180, "EUR", "official", 85, 0, "unknown", <<0, 0>>, 198),
  Offer(2, 1, "e5", 170, "EUR", "crowdsourced", 30, 60, "unknown", <<3, 0>>, 198),
  Offer(3, 1, "e5", 190, "EUR", "official", 85, 0, "unknown", <<0, 0>>, 20),
  Offer(4, 2, "e5", 170, "EUR", "official", 90, 0, "served", <<0, 0>>, 197),
  Offer(5, 2, "e5", 500, "EUR", "crowdsourced", 30, 40, "unknown", <<0, 1>>, 198),
  Offer(6, 2, "e10", 165, "EUR", "official", 90, 0, "self", <<0, 0>>, 150),
  Offer(7, 3, "e5", 4000, "CZK", "commercial", 70, 0, "unknown", <<0, 0>>, 170),
  Offer(8, 1, "e5", 175, "EUR", "official", 85, 0, "unknown", <<0, 0>>, 198)}
MCDistance == <<2, 1, 1>>

Nearby == [kind |-> "nearby", fuel |-> None, currency |-> None, sort |-> "distance",
           max |-> None, only |-> FALSE, limit |-> 1, station |-> 1, from |-> None, to |-> None]
MCQuestions == {
  Nearby,
  [Nearby EXCEPT !.limit = 2, !.only = TRUE],
  [Nearby EXCEPT !.sort = "price"],
  [Nearby EXCEPT !.fuel = "e5", !.sort = "price"],
  [Nearby EXCEPT !.fuel = "e5", !.sort = "price", !.currency = "EUR", !.limit = 2, !.max = 175],
  [Nearby EXCEPT !.kind = "bbox", !.limit = 2],
  [Nearby EXCEPT !.kind = "bbox", !.only = TRUE, !.fuel = "e5"],
  [Nearby EXCEPT !.kind = "latest", !.station = 2],
  [Nearby EXCEPT !.kind = "history", !.fuel = "e5", !.limit = 2],
  [Nearby EXCEPT !.kind = "history", !.fuel = "e5", !.from = 100]}

(* Five stations near a route, one of them nearer to the goal than the     *)
(* start is, and prices of them all, of some and of none.                  *)
Market(amounts) ==
  [s \in 1..5 |-> [price |-> IF amounts[s] = 0 THEN Absent ELSE amounts[s], age |-> s]]
MCMarkets == {Market(<<17, 15, 16, 0, 14>>), Market(<<15, 15, 15, 16, 0>>), Market(<<0, 0, 0, 0, 0>>)}
MCOffRoute == <<0, 300, 300, 900, 2000>>
MCExtra == <<-500, 1000, 2000, 1000, 4000>>

OnTheWay == [kind |-> "stations", sort |-> "effective_saving", limit |-> 2, maxPrice |-> Absent,
             maxAge |-> Absent, reference |-> Absent, litres |-> 40, consumption |-> 6]
MCTrips == {
  OnTheWay,
  [OnTheWay EXCEPT !.kind = "route"],
  [OnTheWay EXCEPT !.sort = "price", !.maxPrice = 15],
  [OnTheWay EXCEPT !.sort = "detour", !.reference = 20, !.limit = 1],
  [OnTheWay EXCEPT !.sort = "distance_to_route", !.maxAge = 3]}

MCQuestion == {[kind |-> "search", key |-> 1], [kind |-> "reverse", key |-> 1]}

(* Records that are read in part, doubtful ones, one without an id and     *)
(* ones in a bad place.                                                    *)
Price(product, amount, stamped) == [product |-> product, amount |-> amount, stamped |-> stamped]
Listed(id, named, wellFormed, position, offered) ==
  [id |-> id, named |-> named, wellFormed |-> wellFormed, position |-> position, prices |-> offered]
MCTable == {
  <<>>,
  <<Listed(1, TRUE, TRUE, "home", {Price("diesel", "plain", TRUE), Price("odd", "plain", TRUE)}),
    Listed(2, TRUE, TRUE, "zero", {Price("diesel", "plain", FALSE)})>>,
  <<Listed(1, TRUE, TRUE, "home", {Price("diesel", "high", TRUE), Price("petrol", "plain", TRUE)}),
    Listed(2, FALSE, FALSE, "home", {Price("diesel", "plain", TRUE)})>>,
  <<Listed(2, TRUE, TRUE, "abroad", {Price("diesel", "text", TRUE), Price("niche", "plain", TRUE)}),
    Listed(3, TRUE, TRUE, "off", {})>>,
  <<Listed(3, TRUE, TRUE, "home", {Price("diesel", "null", TRUE), Price("petrol", "zero", TRUE)}),
    Listed(1, TRUE, TRUE, "none", {Price("niche", "plain", TRUE)})>>}

(* The page as such, and a link to a route of which only the start has a   *)
(* name.                                                                   *)
Home == [fuel |-> "diesel", place |-> NoPlace, from |-> NoPlace, to |-> NoPlace, named |-> {}]
MCLink == {Home, [Home EXCEPT !.from = p1, !.to = p2, !.named = {"from"}]}
=============================================================================
