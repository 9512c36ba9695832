------------------------ MODULE MCPriceReportsHistory ------------------------
(* PriceReportsHistory for TLC: three accounts of different reputation and *)
(* two calls at a time, or five trusted accounts and one.                  *)
EXTENDS PriceReportsHistory, TLC

CONSTANTS u1, u2, u3, u4, u5, q1, q2

Mixed == [u \in User |-> IF u = u1 THEN 49 ELSE IF u = u2 THEN 100 ELSE 1]
Trusted == [u \in User |-> 100]

Alike == Permutations(User) \cup Permutations(Request)
=============================================================================
