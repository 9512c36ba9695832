---------------------------- MODULE MCIngestion ----------------------------
(* Ingestion for TLC: two stations, of which one sells two fuels.          *)
EXTENDS Ingestion

CONSTANTS e1, e2, f1, f2, c1, c2, c3, p1, p2

TwoStations == {<<e1, f1>>, <<e1, f2>>, <<e2, f1>>}
TwoPlaces == {{e1}, {e1, e2}}
France == [dedup |-> "timestamp-price", decimals |-> 4, nearby |-> FALSE, refresh |-> FALSE]
Germany == [dedup |-> "price-change-only", decimals |-> 4, nearby |-> FALSE, refresh |-> TRUE]
Austria == [dedup |-> "price-change-only", decimals |-> 3, nearby |-> TRUE, refresh |-> FALSE]
AllProviders == {France, Germany, Austria}
FranceAlone == {France}
GermanyAlone == {Germany}
AustriaAlone == {Austria}
TwoCalls == [p \in Providers |-> IF p.nearby THEN {c1, c3} ELSE {c1, c2}]
FewReports == [p \in Providers |-> IF p.nearby THEN 0 ELSE 1]
TwoProcesses == [c \in Call |-> IF c = c2 THEN p2 ELSE p1]
=============================================================================
