--------------------------- MODULE PriceSelection ---------------------------
(***************************************************************************)
(* PriceSelectionService: which of the observations of a fuel at a station *)
(* is shown as its price.                                                  *)
(*                                                                         *)
(* Times are hours, trust and confidence percent; a score is in units of   *)
(* 1/10000, where the code's floating point distinguishes no more.         *)
(***************************************************************************)
EXTENDS Ordering

CONSTANT Now  \* the hour of the search

SourceType == {"official", "commercial", "fuel_chain", "third_party", "crowdsourced", "manual"}
ServiceMode == {"self", "served", "unknown"}
CandidateType == [id : Nat, station : Nat, fuel : STRING, price : Nat, currency : STRING,
                  type : SourceType, trust : 0..100, confidence : 0..100,
                  mode : ServiceMode, confirmations : Nat, disputes : Nat,
                  observed : Int, received : Int]

\* hours up to which a price is fresh, and then ageing
FreshnessPolicy(type) ==
  CASE type = "official" -> <<6, 24>>
    [] type \in {"commercial", "fuel_chain", "third_party"} -> <<12, 48>>
    [] type = "crowdsourced" -> <<2, 8>>
    [] OTHER -> <<24, 72>>

FreshnessWeight(c) ==
  LET age == Now - c.observed
  IN  CASE age <= FreshnessPolicy(c.type)[1] -> 100
        [] age > FreshnessPolicy(c.type)[2] -> 20
        [] OTHER -> 60

(* What is stored for a report without confidence counts as zero.          *)
ConfidenceWeight(c) ==
  IF c.type = "crowdsourced"
  THEN Most(0, Least(100, c.confidence + Least(15, 3 * c.confirmations)
                                       - Least(20, 5 * c.disputes)))
  ELSE c.trust

MIN_CROWDSOURCED_SELECTION_CONFIDENCE == 50
Excluded(c) == c.type = "crowdsourced"
               /\ ConfidenceWeight(c) < MIN_CROWDSOURCED_SELECTION_CONFIDENCE
SelectionScore(c) ==
  IF Excluded(c) THEN 0
  ELSE 40 * c.trust + 35 * FreshnessWeight(c) + 25 * ConfidenceWeight(c)

ModePriority == [self |-> 3, unknown |-> 2, served |-> 1]
FilterByServiceMode(s) ==
  Keep(s, {c \in Range(s) : \A d \in Range(s) : ModePriority[d.mode] <= ModePriority[c.mode]})

\* A faulty Beats: of equal scores the first one met stays.
BeatsByScore(c, best) == SelectionScore(c) > SelectionScore(best)

(* The comparison of the loop: the score, then the later observation, then *)
(* the later arrival, then the greater id.                                 *)
Beats(c, best) ==
  LET key(d) == <<SelectionScore(d), d.observed, d.received, d.id>>
  IN  Precedes(key(best), key(c))

(* selectBestForFuel(): at most one candidate, as a set.                   *)
SelectBest(s) ==
  LET preferred == FilterByServiceMode(s)
      best[n \in 1..Len(preferred)] ==
        IF n = 1 THEN preferred[1]
        ELSE IF Beats(preferred[n], best[n - 1]) THEN preferred[n] ELSE best[n - 1]
  IN  IF s = <<>> THEN {} ELSE {c \in {best[Len(preferred)]} : SelectionScore(c) > 0}

(* selectBestByStationAndFuel(): the selected of every group.              *)
SelectByStationAndFuel(s) ==
  UNION {SelectBest(Keep(s, {c \in Range(s) : <<c.station, c.fuel>> = k})) :
           k \in {<<c.station, c.fuel>> : c \in Range(s)}}

-----------------------------------------------------------------------------
(* What is to be shown, said without an order: of the candidates in the    *)
(* preferred mode that count, the one none of them beats.                  *)
Preferred(C) == {c \in C : \A d \in C : ModePriority[d.mode] <= ModePriority[c.mode]}
BestOf(C) ==
  {c \in Preferred(C) :
     /\ ~Excluded(c)
     /\ \A d \in Preferred(C) \ {c} :
          \/ SelectionScore(c) > SelectionScore(d)
          \/ /\ SelectionScore(c) = SelectionScore(d)
             /\ \/ c.observed > d.observed
                \/ c.observed = d.observed /\ c.received > d.received
                \/ c.observed = d.observed /\ c.received = d.received /\ c.id > d.id}
=============================================================================
