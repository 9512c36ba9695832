--------------------------- MODULE MCPriceReports ---------------------------
(* PriceReports for TLC: up to five accounts and two calls at a time, named *)
(* prices and the cases of distance and age the bounds of a run ask for.   *)
EXTENDS PriceReports

CONSTANTS u1, u2, u3, u4, u5, q1, q2

Earned(start) == [u \in User |-> start]
Fresh == Earned(50)
Doubted == [u \in User |-> IF u = u1 THEN 49 ELSE 50]
=============================================================================
