------------------------ MODULE SearchAndRouteProofs ------------------------
(***************************************************************************)
(* What a reader is shown, for any stations, observations, questions,      *)
(* prices and distances: the price of a station is the best of those that  *)
(* were stored, nothing is left out of an answer silently, and the plan of *)
(* a route is what its workers were answered.                              *)
(***************************************************************************)
EXTENDS StationSearch, RoutePlanning, OrderingProofs

-----------------------------------------------------------------------------
(* Keys element by element.                                                *)

LEMMA PrecedesFour ==
  ASSUME NEW a \in Keys(4), NEW b \in Keys(4)
  PROVE  Precedes(a, b) <=>
           \/ a[1] < b[1]
           \/ a[1] = b[1] /\ a[2] < b[2]
           \/ a[1] = b[1] /\ a[2] = b[2] /\ a[3] < b[3]
           \/ a[1] = b[1] /\ a[2] = b[2] /\ a[3] = b[3] /\ a[4] < b[4]
<1> DEFINE first(i) == a[i] < b[i] /\ \A j \in 1..(i - 1) : a[j] = b[j]
<1>1. Precedes(a, b) <=> first(1) \/ first(2) \/ first(3) \/ first(4)
  <2>1. DOMAIN a = {1, 2, 3, 4}
    BY DEF Keys
  <2> QED BY <2>1 DEF Precedes
<1>2. first(1) <=> a[1] < b[1]
  OBVIOUS
<1>3. first(2) <=> a[1] = b[1] /\ a[2] < b[2]
  <2>1. 1..(2 - 1) = {1}
    OBVIOUS
  <2> QED BY <2>1
<1>4. first(3) <=> a[1] = b[1] /\ a[2] = b[2] /\ a[3] < b[3]
  <2>1. 1..(3 - 1) = {1, 2}
    OBVIOUS
  <2> QED BY <2>1
<1>5. first(4) <=> a[1] = b[1] /\ a[2] = b[2] /\ a[3] = b[3] /\ a[4] < b[4]
  <2>1. 1..(4 - 1) = {1, 2, 3}
    OBVIOUS
  <2> QED BY <2>1
<1> HIDE DEF first
<1> QED BY <1>1, <1>2, <1>3, <1>4, <1>5

-----------------------------------------------------------------------------
(* The selection of a price.                                               *)

(* Candidates, each with an id of its own.                                 *)
AreCandidates(C) == C \subseteq CandidateType /\ \A c, d \in C : c.id = d.id => c = d

LEMMA Scores ==
  ASSUME Now \in Int, NEW c \in CandidateType
  PROVE  /\ SelectionScore(c) \in Nat
         /\ SelectionScore(c) > 0 <=> ~Excluded(c)
<1>1. /\ c.trust \in 0..100 /\ c.confidence \in 0..100 /\ c.confirmations \in Nat
      /\ c.disputes \in Nat /\ c.observed \in Int
  BY DEF CandidateType
<1>2. FreshnessWeight(c) \in {20, 60, 100}
  <2> DEFINE old == Now - c.observed <= FreshnessPolicy(c.type)[1]
             late == Now - c.observed > FreshnessPolicy(c.type)[2]
  <2>1. FreshnessWeight(c) = CASE old -> 100 [] late -> 20 [] OTHER -> 60
    BY DEF FreshnessWeight
  <2> HIDE DEF old, late
  <2> QED BY <2>1
<1>3. ConfidenceWeight(c) \in 0..100
  <2> DEFINE gain == Least(15, 3 * c.confirmations)
             loss == Least(20, 5 * c.disputes)
  <2>1. gain \in Int /\ loss \in Int
    BY <1>1 DEF Least
  <2> HIDE DEF gain, loss
  <2>2. Most(0, Least(100, c.confidence + gain - loss)) \in 0..100
    <3>1. \A x \in Int : Most(0, Least(100, x)) \in 0..100
      BY DEF Most, Least
    <3>2. c.confidence + gain - loss \in Int
      BY <1>1, <2>1
    <3> QED BY <3>1, <3>2
  <2> QED BY <1>1, <2>2 DEF ConfidenceWeight, gain, loss
<1>4. PICK t \in 0..100 : t = c.trust
  BY <1>1
<1>5. PICK f \in {20, 60, 100} : f = FreshnessWeight(c)
  BY <1>2
<1>6. PICK w \in 0..100 : w = ConfidenceWeight(c)
  BY <1>3
<1>7. 40 * t + 35 * f + 25 * w \in Nat \ {0}
  OBVIOUS
<1>8. SelectionScore(c) = IF Excluded(c) THEN 0 ELSE 40 * t + 35 * f + 25 * w
  BY <1>4, <1>5, <1>6 DEF SelectionScore
<1> QED BY <1>7, <1>8

LEMMA BeatsMeans ==
  ASSUME Now \in Int, NEW c \in CandidateType, NEW d \in CandidateType
  PROVE  Beats(c, d) <=>
           \/ SelectionScore(c) > SelectionScore(d)
           \/ /\ SelectionScore(c) = SelectionScore(d)
              /\ \/ c.observed > d.observed
                 \/ c.observed = d.observed /\ c.received > d.received
                 \/ c.observed = d.observed /\ c.received = d.received /\ c.id > d.id
<1>1. /\ c.observed \in Int /\ c.received \in Int /\ c.id \in Int
      /\ d.observed \in Int /\ d.received \in Int /\ d.id \in Int
  BY DEF CandidateType
<1>2. PICK x \in Int : x = SelectionScore(c)
  BY Scores
<1>3. PICK y \in Int : y = SelectionScore(d)
  BY Scores
<1>4. Beats(c, d) <=> Precedes(<<y, d.observed, d.received, d.id>>,
                               <<x, c.observed, c.received, c.id>>)
  BY <1>2, <1>3 DEF Beats
<1>5. Precedes(<<y, d.observed, d.received, d.id>>, <<x, c.observed, c.received, c.id>>) <=>
        \/ y < x
        \/ y = x /\ d.observed < c.observed
        \/ y = x /\ d.observed = c.observed /\ d.received < c.received
        \/ y = x /\ d.observed = c.observed /\ d.received = c.received /\ d.id < c.id
  <2> DEFINE a == <<y, d.observed, d.received, d.id>>
             b == <<x, c.observed, c.received, c.id>>
  <2>1. a \in Keys(4) /\ b \in Keys(4)
    BY <1>1 DEF Keys
  <2>2. /\ a[1] = y /\ a[2] = d.observed /\ a[3] = d.received /\ a[4] = d.id
        /\ b[1] = x /\ b[2] = c.observed /\ b[3] = c.received /\ b[4] = c.id
    OBVIOUS
  <2> HIDE DEF a, b
  <2>3. Precedes(a, b) <=>
           \/ a[1] < b[1]
           \/ a[1] = b[1] /\ a[2] < b[2]
           \/ a[1] = b[1] /\ a[2] = b[2] /\ a[3] < b[3]
           \/ a[1] = b[1] /\ a[2] = b[2] /\ a[3] = b[3] /\ a[4] < b[4]
    BY <2>1, PrecedesFour
  <2> QED BY <2>2, <2>3 DEF a, b
<1>6. Beats(c, d) <=> \/ x > y
                     \/ /\ x = y
                        /\ \/ c.observed > d.observed
                           \/ c.observed = d.observed /\ c.received > d.received
                           \/ c.observed = d.observed /\ c.received = d.received /\ c.id > d.id
  BY <1>1, <1>4, <1>5
<1> QED BY <1>2, <1>3, <1>6

(* Of two candidates one beats the other.                                  *)
LEMMA BeatsOrders ==
  ASSUME Now \in Int, NEW C, AreCandidates(C), NEW b \in C, NEW c \in C, NEW d \in C
  PROVE  /\ ~Beats(c, c)
         /\ c # d => Beats(c, d) \/ Beats(d, c)
         /\ Beats(c, d) => ~Beats(d, c)
         /\ Beats(b, c) /\ Beats(c, d) => Beats(b, d)
<1>1. /\ b \in CandidateType /\ c \in CandidateType /\ d \in CandidateType
      /\ c.id = d.id => c = d
  BY DEF AreCandidates
<1>2. \A x \in {b, c, d} : SelectionScore(x) \in Int
  BY <1>1, Scores
<1>3. \A x \in {b, c, d} : x.observed \in Int /\ x.received \in Int /\ x.id \in Int
  BY <1>1 DEF CandidateType
<1>4. \A x, y \in {b, c, d} : Beats(x, y) <=>
           \/ SelectionScore(x) > SelectionScore(y)
           \/ /\ SelectionScore(x) = SelectionScore(y)
              /\ \/ x.observed > y.observed
                 \/ x.observed = y.observed /\ x.received > y.received
                 \/ x.observed = y.observed /\ x.received = y.received /\ x.id > y.id
  BY <1>1, BeatsMeans
<1> QED BY <1>1, <1>2, <1>3, <1>4

(* What is to be shown is one that beats every other, unless it is         *)
(* excluded.                                                               *)
LEMMA BestOfWinner ==
  ASSUME Now \in Int, NEW C, AreCandidates(C), NEW b \in Preferred(C),
         \A c \in Preferred(C) : ~Beats(c, b)
  PROVE  BestOf(C) = {c \in {b} : SelectionScore(c) > 0}
<1>1. Preferred(C) \subseteq C /\ C \subseteq CandidateType
  BY DEF Preferred, AreCandidates
<1>2. BestOf(C) = {c \in Preferred(C) : ~Excluded(c) /\ \A d \in Preferred(C) \ {c} : Beats(c, d)}
  <2>1. \A c, d \in Preferred(C) : Beats(c, d) <=>
           \/ SelectionScore(c) > SelectionScore(d)
           \/ /\ SelectionScore(c) = SelectionScore(d)
              /\ \/ c.observed > d.observed
                 \/ c.observed = d.observed /\ c.received > d.received
                 \/ c.observed = d.observed /\ c.received = d.received /\ c.id > d.id
    BY <1>1, BeatsMeans
  <2> QED BY <2>1 DEF BestOf
<1>3. \A c \in Preferred(C) : c # b => Beats(b, c)
  BY <1>1, BeatsOrders
<1>4. SelectionScore(b) > 0 <=> ~Excluded(b)
  BY <1>1, Scores
<1> HIDE DEF SelectionScore, Excluded
<1>5. ASSUME NEW c PROVE c \in BestOf(C) <=> c = b /\ SelectionScore(c) > 0
  BY <1>2, <1>3, <1>4
<1> QED BY <1>5

LEMMA SomeIsPreferred ==
  ASSUME NEW C, AreCandidates(C), C # {}
  PROVE  Preferred(C) # {}
<1>1. \A c \in C : c.mode \in {"self", "served", "unknown"}
  BY DEF AreCandidates, CandidateType, ServiceMode
<1>2. ModePriority["self"] = 3 /\ ModePriority["unknown"] = 2 /\ ModePriority["served"] = 1
  BY DEF ModePriority
<1>3. CASE \E c \in C : c.mode = "self"
  <2>1. PICK c \in C : c.mode = "self"
    BY <1>3
  <2>2. \A d \in C : ModePriority[d.mode] <= ModePriority[c.mode]
    BY <1>1, <1>2, <2>1
  <2> QED BY <2>2 DEF Preferred
<1>4. CASE (\A c \in C : c.mode # "self") /\ \E c \in C : c.mode = "unknown"
  <2>1. PICK c \in C : c.mode = "unknown"
    BY <1>4
  <2>2. \A d \in C : ModePriority[d.mode] <= ModePriority[c.mode]
    BY <1>1, <1>2, <1>4, <2>1
  <2> QED BY <2>2 DEF Preferred
<1>5. CASE \A c \in C : c.mode = "served"
  <2>1. PICK c \in C : TRUE
    OBVIOUS
  <2>2. \A d \in C : ModePriority[d.mode] <= ModePriority[c.mode]
    BY <1>2, <1>5, <2>1
  <2> QED BY <2>2 DEF Preferred
<1> QED BY <1>1, <1>3, <1>4, <1>5

(* The loop of selectBestForFuel(): the best of the first n.               *)
IsBest(best, s, t) ==
  /\ DOMAIN best = 1..Len(s)
  /\ best[1] = s[1]
  /\ \A n \in 2..Len(s) : best[n] = IF Beats(s[n], best[n - 1]) THEN s[n] ELSE best[n - 1]
  /\ SelectBest(t) = {c \in {best[Len(s)]} : SelectionScore(c) > 0}

LEMMA BestEquation ==
  ASSUME NEW X, NEW s \in Seq(X), s # <<>>, NEW t, t # <<>>, FilterByServiceMode(t) = s
  PROVE  \E best : IsBest(best, s, t)
<1> DEFINE len == Len(s)
           Is(g) == g = [n \in 1..len |->
                           IF n = 1 THEN s[1]
                           ELSE IF Beats(s[n], g[n - 1]) THEN s[n] ELSE g[n - 1]]
           best == CHOOSE g : Is(g)
           step == [p \in X \X (1..(len - 1)) |-> IF Beats(s[p[2] + 1], p[1]) THEN s[p[2] + 1] ELSE p[1]]
<1>1. len \in Nat \ {0} /\ \A n \in 1..len : s[n] \in X
  OBVIOUS
<1>2. step \in [X \X (1..(len - 1)) -> X]
  <2>1. \A n \in 1..(len - 1) : n + 1 \in 1..len
    BY <1>1
  <2> HIDE DEF len
  <2> QED BY <1>1, <2>1
<1>3. PICK h : IsRecursion(h, len - 1, X, s[1], step)
  <2>1. len - 1 \in Nat /\ s[1] \in X
    BY <1>1
  <2> HIDE DEF len, step
  <2> QED BY <1>2, <2>1, RecursionExists
<1> DEFINE g == [n \in 1..len |-> h[n - 1]]
<1>4. Is(g)
  <2>1. ASSUME NEW n \in 1..len
        PROVE  g[n] = IF n = 1 THEN s[1] ELSE IF Beats(s[n], g[n - 1]) THEN s[n] ELSE g[n - 1]
    <3>1. CASE n = 1
      BY <1>3, <3>1 DEF IsRecursion
    <3>2. CASE n # 1
      <4>1. n - 1 \in 1..(len - 1) /\ n - 1 \in 1..len /\ n - 1 + 1 = n /\ n - 1 - 1 \in 0..(len - 1)
        BY <1>1, <3>2
      <4>2. h[n - 1] = step[<<h[n - 1 - 1], n - 1>>] /\ h[n - 1 - 1] \in X
        BY <1>3, <4>1 DEF IsRecursion
      <4>3. step[<<h[n - 1 - 1], n - 1>>]
              = IF Beats(s[n], h[n - 1 - 1]) THEN s[n] ELSE h[n - 1 - 1]
        BY <4>1, <4>2
      <4>4. g[n] = h[n - 1] /\ g[n - 1] = h[n - 1 - 1]
        BY <4>1
      <4> HIDE DEF g, step
      <4> QED BY <3>2, <4>2, <4>3, <4>4
    <3> QED BY <3>1, <3>2
  <2>2. g = [n \in 1..len |-> g[n]]
    OBVIOUS
  <2> HIDE DEF g, len
  <2> QED BY <2>1, <2>2
<1>5. Is(best)
  <2> HIDE DEF Is
  <2> QED BY <1>4
<1>6. SelectBest(t) = {c \in {best[len]} : SelectionScore(c) > 0}
  BY DEF SelectBest
<1> HIDE DEF best
<1>7. DOMAIN best = 1..Len(s) /\ best[1] = s[1]
  BY <1>1, <1>5
<1>8. \A n \in 2..Len(s) : best[n] = IF Beats(s[n], best[n - 1]) THEN s[n] ELSE best[n - 1]
  BY <1>1, <1>5
<1> QED BY <1>6, <1>7, <1>8 DEF IsBest

(* The loop ends with a candidate that no other beats.                     *)
LEMMA BestWins ==
  ASSUME Now \in Int, NEW C, AreCandidates(C), NEW s \in Seq(C), s # <<>>,
         NEW t, NEW best, IsBest(best, s, t)
  PROVE  best[Len(s)] \in Range(s) /\ \A c \in Range(s) : ~Beats(c, best[Len(s)])
<1> DEFINE Wins(n) == /\ best[n] \in Range(s)
                      /\ \A k \in 1..n : ~Beats(s[k], best[n])
           P == {n \in 0..Len(s) : n = 0 \/ Wins(n)}
<1>1. Len(s) \in Nat \ {0} /\ \A n \in 1..Len(s) : s[n] \in C /\ s[n] \in Range(s)
  BY DEF Range
<1>2. Range(s) = {s[n] : n \in 1..Len(s)} /\ Range(s) \subseteq C
  BY <1>1 DEF Range
<1>3. 0 \in P
  BY <1>1
<1>4. ASSUME NEW n \in 1..Len(s), n - 1 \in P PROVE n \in P
  <2>1. CASE n = 1
    <3>1. best[1] = s[1] /\ 1 \in 1..Len(s)
      BY <1>1 DEF IsBest
    <3>2. ~Beats(s[1], s[1])
      BY <1>1, <3>1, BeatsOrders
    <3>3. \A k \in 1..1 : k = 1
      OBVIOUS
    <3> QED BY <1>1, <2>1, <3>1, <3>2, <3>3
  <2>2. CASE n # 1
    <3>1. n \in 2..Len(s) /\ n - 1 # 0 /\ \A k \in 1..n : k = n \/ k \in 1..(n - 1)
      BY <2>2
    <3>2. best[n] = IF Beats(s[n], best[n - 1]) THEN s[n] ELSE best[n - 1]
      BY <3>1 DEF IsBest
    <3>3. Wins(n - 1)
      BY <1>4, <3>1
    <3>4. best[n - 1] \in C /\ s[n] \in C
      BY <1>1, <1>2, <3>3
    <3>5. \A k \in 1..(n - 1) : s[k] \in C /\ ~Beats(s[k], best[n - 1])
      BY <1>1, <3>3
    <3>6. CASE Beats(s[n], best[n - 1])
      <4>1. best[n] = s[n]
        BY <3>2, <3>6
      <4>2. \A k \in 1..(n - 1) : ~Beats(s[k], s[n])
        BY <3>4, <3>5, <3>6, BeatsOrders
      <4>3. ~Beats(s[n], s[n])
        BY <3>4, BeatsOrders
      <4> QED BY <1>1, <3>1, <4>1, <4>2, <4>3
    <3>7. CASE ~Beats(s[n], best[n - 1])
      <4>1. best[n] = best[n - 1]
        BY <3>2, <3>7
      <4> QED BY <3>1, <3>3, <3>5, <3>7, <4>1
    <3> QED BY <3>6, <3>7
  <2> QED BY <2>1, <2>2
<1>5. Len(s) \in P
  <2>1. 0..Len(s) \subseteq P
    <3> HIDE DEF P
    <3> QED BY <1>1, <1>3, <1>4, InductionUpTo
  <2> QED BY <1>1, <2>1
<1> QED BY <1>1, <1>2, <1>5

(* PriceSelectionService selects the best of a fuel at a station, in       *)
(* whatever order the observations are: the loop of selectBestForFuel()    *)
(* ends with the one that beats all others.                                *)
THEOREM SelectBestIsBest ==
  ASSUME Now \in Int, NEW s \in Seq(CandidateType), AreCandidates(Range(s))
  PROVE  SelectBest(s) = BestOf(Range(s))
<1> DEFINE C == Range(s)
           t == FilterByServiceMode(s)
<1>1. CASE s = <<>>
  <2>1. C = {}
    BY <1>1 DEF Range
  <2>2. BestOf(C) = {}
    BY <2>1 DEF BestOf, Preferred
  <2>3. SelectBest(s) = {}
    BY <1>1 DEF SelectBest
  <2> QED BY <2>2, <2>3
<1>2. CASE s # <<>>
  <2>1. s \in Seq(C) /\ C # {}
    BY <1>2 DEF Range
  <2>2. t \in Seq(C) /\ Range(t) = C \cap {c \in C : \A d \in C : ModePriority[d.mode] <= ModePriority[c.mode]}
    <3> HIDE DEF C
    <3> QED BY <2>1, KeepProperties DEF FilterByServiceMode, C
  <2>3. Range(t) = Preferred(C)
    BY <2>2 DEF Preferred
  <2>4. Preferred(C) # {}
    BY <2>1, SomeIsPreferred
  <2>5. t # <<>>
    <3>1. Range(<<>>) = {}
      BY DEF Range
    <3> HIDE DEF t, C
    <3> QED BY <2>3, <2>4, <3>1
  <2> HIDE DEF C, t
  <2>6. PICK best : IsBest(best, t, s)
    BY <1>2, <2>2, <2>5, BestEquation DEF t
  <2> DEFINE b == best[Len(t)]
  <2>7. AreCandidates(C)
    BY DEF C
  <2>8. b \in Preferred(C) /\ \A c \in Preferred(C) : ~Beats(c, b)
    BY <2>2, <2>3, <2>5, <2>6, <2>7, BestWins
  <2>9. SelectBest(s) = {c \in {b} : SelectionScore(c) > 0}
    BY <2>6 DEF IsBest
  <2> HIDE DEF b
  <2>10. BestOf(C) = {c \in {b} : SelectionScore(c) > 0}
    BY <2>7, <2>8, BestOfWinner
  <2> QED BY <2>9, <2>10 DEF C
<1> QED BY <1>1, <1>2

Group(C, s, f) == {c \in C : c.station = s /\ c.fuel = f}

LEMMA SelectionIsBest ==
  ASSUME Now \in Int, NEW s \in Seq(CandidateType), AreCandidates(Range(s))
  PROVE  SelectByStationAndFuel(s) = UNION {BestOf(Group(Range(s), c.station, c.fuel)) : c \in Range(s)}
<1> DEFINE C == Range(s)
           K == {<<c.station, c.fuel>> : c \in C}
           G(k) == {c \in C : <<c.station, c.fuel>> = k}
<1>1. ASSUME NEW k PROVE SelectBest(Keep(s, G(k))) = BestOf(G(k))
  <2>1. /\ Keep(s, G(k)) \in Seq(CandidateType)
        /\ Range(Keep(s, G(k))) = C \cap G(k)
    <3> HIDE DEF G
    <3> QED BY KeepProperties
  <2>2. C \cap G(k) = G(k)
    OBVIOUS
  <2>3. AreCandidates(G(k))
    BY DEF AreCandidates
  <2> HIDE DEF G
  <2> QED BY <2>1, <2>2, <2>3, SelectBestIsBest
<1>2. SelectByStationAndFuel(s) = UNION {SelectBest(Keep(s, G(k))) : k \in K}
  BY DEF SelectByStationAndFuel
<1>3. SelectByStationAndFuel(s) = UNION {BestOf(G(k)) : k \in K}
  <2> HIDE DEF G, K
  <2> QED BY <1>1, <1>2
<1>4. \A c \in C : G(<<c.station, c.fuel>>) = Group(C, c.station, c.fuel)
  BY DEF Group
<1>5. {BestOf(G(k)) : k \in K} = {BestOf(Group(C, c.station, c.fuel)) : c \in C}
  <2>1. \A c \in C : BestOf(G(<<c.station, c.fuel>>)) = BestOf(Group(C, c.station, c.fuel))
    <3> HIDE DEF G
    <3> QED BY <1>4
  <2> HIDE DEF G
  <2> QED BY <2>1
<1> QED BY <1>3, <1>5

-----------------------------------------------------------------------------
(* The answers of a search.                                                *)

(* What ShownPriceIsBest and NothingIsLeftOutSilently say, of a question q *)
(* that found the observations C and the stations S.                       *)
Matching(q, C, s, f) ==
  {c \in C : /\ c.station = s /\ c.fuel = f /\ c.observed >= Now - CANDIDATE_MAX_AGE_HOURS
             /\ q.currency = None \/ c.currency = q.currency}
ShownAreBest(q, C, items) ==
  \A k \in DOMAIN items : \A f \in {c.fuel : c \in C} :
    q.fuel \in {None, f} =>
      {c \in items[k].prices : c.fuel = f} = BestOf(Matching(q, C, items[k].station, f))
BelongsTo(q, C, s) ==
  /\ q.fuel # None => BestOf(Matching(q, C, s, q.fuel)) # {}
  /\ q.only => \E c \in C : BestOf(Matching(q, C, s, c.fuel)) # {}
  /\ q.kind = "nearby" /\ q.max # None =>
       \A c \in BestOf(Matching(q, C, s, q.fuel)) : c.price <= q.max
ItemIn(q, C, s) ==
  [station |-> s,
   prices |-> UNION {BestOf(Matching(q, C, s, c.fuel)) : c \in {d \in C : q.fuel \in {None, d.fuel}}}]
Missing(q, C, S, items) ==
  {s \in S : BelongsTo(q, C, s)} \ {items[k].station : k \in DOMAIN items}

(* An answer to q that leaves nothing out silently.                        *)
IsComplete(q, C, S, answer) ==
  LET missing == Missing(q, C, S, answer.items)
  IN  /\ q.kind = "nearby" /\ missing # {} =>
           /\ Len(answer.items) = q.limit
           /\ \A s \in missing : \A k \in DOMAIN answer.items :
                Precedes(Rank(q, answer.items[k]), Rank(q, ItemIn(q, C, s)))
      /\ q.kind = "bbox" /\ missing # {} => answer.truncated
      /\ q.kind = "history" /\ Len(answer.items) < q.limit =>
           Range(answer.items) = Period(q, C)

LEMMA ShownPriceMeans ==
  (Answered /\ ask.kind # "history" => ShownAreBest(ask, seen, reply.items)) => ShownPriceIsBest
BY DEF ShownPriceIsBest, ShownAreBest, Candidates, Matching

LEMMA NothingLeftMeans ==
  (Answered => IsComplete(ask, seen, reach, reply)) => NothingIsLeftOutSilently
BY DEF NothingIsLeftOutSilently, IsComplete, Missing, Belongs, BelongsTo, ItemOf, ItemIn,
       Candidates, Matching

(* The selection for the stations S, when C is stored.                     *)
IsSelection(q, C, selected, S) ==
  /\ selected \subseteq C
  /\ \A c \in selected : c.station \in S /\ q.fuel \in {None, c.fuel}
  /\ \A s \in S : \A f : q.fuel \in {None, f} =>
       {c \in selected : c.station = s /\ c.fuel = f} = BestOf(Matching(q, C, s, f))

LEMMA SelectionOfWanted ==
  ASSUME Now \in Int, AreCandidates(stored), IsFiniteSet(stored), NEW q, NEW S,
         NEW candidates \in FetchCandidates(q, S)
  PROVE  IsSelection(q, stored, SelectByStationAndFuel(candidates), S)
<1> DEFINE W == Wanted(q, S)
           selected == SelectByStationAndFuel(candidates)
<1>1. W \subseteq stored /\ IsFiniteSet(W)
  BY FS_Subset DEF Wanted
<1>2. candidates \in Seq(W) /\ Range(candidates) = W
  BY <1>1, OrderedByProperties DEF FetchCandidates
<1>3. AreCandidates(W) /\ candidates \in Seq(CandidateType)
  BY <1>1, <1>2 DEF AreCandidates
<1>4. selected = UNION {BestOf(Group(W, c.station, c.fuel)) : c \in W}
  BY <1>2, <1>3, SelectionIsBest
<1>5. \A C : BestOf(C) \subseteq C
  BY DEF BestOf, Preferred
<1>6. ASSUME NEW s, NEW f
      PROVE  {c \in selected : c.station = s /\ c.fuel = f} = BestOf(Group(W, s, f))
  <2> HIDE DEF W, selected
  <2>1. \A c \in W : \A d \in Group(W, c.station, c.fuel) : d \in W /\ d.station = c.station /\ d.fuel = c.fuel
    BY DEF Group
  <2>2. ASSUME NEW c \in selected, c.station = s, c.fuel = f PROVE c \in BestOf(Group(W, s, f))
    <3>1. PICK d \in W : c \in BestOf(Group(W, d.station, d.fuel))
      BY <1>4
    <3> QED BY <1>5, <2>1, <2>2, <3>1
  <2>3. ASSUME NEW c \in BestOf(Group(W, s, f)) PROVE c \in selected /\ c.station = s /\ c.fuel = f
    <3>1. c \in W /\ c.station = s /\ c.fuel = f
      BY <1>5 DEF Group
    <3> QED BY <1>4, <3>1
  <2> QED BY <2>2, <2>3
<1>7. selected \subseteq W
  <2> HIDE DEF W, selected
  <2>1. \A c \in W : Group(W, c.station, c.fuel) \subseteq W
    BY DEF Group
  <2> QED BY <1>4, <1>5, <2>1
<1>8. \A c \in W : c.station \in S /\ q.fuel \in {None, c.fuel}
  BY DEF Wanted
<1>9. ASSUME NEW s \in S, NEW f, q.fuel \in {None, f}
      PROVE  Group(W, s, f) = Matching(q, stored, s, f)
  BY <1>9 DEF Group, Wanted, Matching
<1> HIDE DEF W, selected
<1>10. selected \subseteq stored
  BY <1>1, <1>7
<1>11. \A c \in selected : c.station \in S /\ q.fuel \in {None, c.fuel}
  BY <1>7, <1>8
<1>12. \A s \in S : \A f : q.fuel \in {None, f} =>
         {c \in selected : c.station = s /\ c.fuel = f} = BestOf(Matching(q, stored, s, f))
  BY <1>6, <1>9
<1> QED BY <1>10, <1>11, <1>12 DEF IsSelection, selected

ItemFor(s, selected) == [station |-> s, prices |-> PricesOf(s, selected)]
Wants(q, i) == /\ q.fuel # None => \E c \in i.prices : c.fuel = q.fuel
               /\ q.only => i.prices # {}

(* Items that carry what was selected for their station show the best.     *)
LEMMA SelectedAreBest ==
  ASSUME NEW q, NEW C, NEW S, NEW selected, IsSelection(q, C, selected, S),
         NEW items, \A k \in DOMAIN items : \E s \in S : items[k] = ItemFor(s, selected)
  PROVE  ShownAreBest(q, C, items)
<1> SUFFICES ASSUME NEW k \in DOMAIN items, NEW f, q.fuel \in {None, f}
             PROVE  {c \in items[k].prices : c.fuel = f} = BestOf(Matching(q, C, items[k].station, f))
  BY DEF ShownAreBest
<1>1. PICK s \in S : items[k] = ItemFor(s, selected)
  OBVIOUS
<1>2. items[k].station = s /\ items[k].prices = {c \in selected : c.station = s}
  BY <1>1 DEF ItemFor, PricesOf
<1>3. {c \in items[k].prices : c.fuel = f} = {c \in selected : c.station = s /\ c.fuel = f}
  BY <1>2
<1>4. {c \in selected : c.station = s /\ c.fuel = f} = BestOf(Matching(q, C, s, f))
  BY DEF IsSelection
<1> QED BY <1>2, <1>3, <1>4

(* What was selected for a station is what its item ought to be, and a     *)
(* station that belongs into the answer passes the filter.                 *)
LEMMA SelectedIsItem ==
  ASSUME NEW q, NEW C, NEW S, NEW selected, IsSelection(q, C, selected, S), NEW s \in S
  PROVE  /\ ItemFor(s, selected) = ItemIn(q, C, s)
         /\ BelongsTo(q, C, s) => Wants(q, ItemFor(s, selected))
<1> DEFINE prices == {c \in selected : c.station = s}
           best(f) == BestOf(Matching(q, C, s, f))
           D == {d \in C : q.fuel \in {None, d.fuel}}
<1>1. ItemFor(s, selected) = [station |-> s, prices |-> prices]
  BY DEF ItemFor, PricesOf
<1>2. \A f : q.fuel \in {None, f} => {c \in selected : c.station = s /\ c.fuel = f} = best(f)
  BY DEF IsSelection
<1>3. \A c \in selected : c \in C /\ q.fuel \in {None, c.fuel}
  BY DEF IsSelection
<1> HIDE DEF best
<1>4. prices = UNION {best(c.fuel) : c \in D}
  <2>1. ASSUME NEW c \in prices PROVE c \in D /\ c \in best(c.fuel)
    BY <1>2, <1>3
  <2>2. ASSUME NEW d \in D, NEW c \in best(d.fuel) PROVE c \in prices
    BY <1>2
  <2> QED BY <2>1, <2>2
<1>5. ItemIn(q, C, s) = [station |-> s, prices |-> UNION {best(c.fuel) : c \in D}]
  BY DEF ItemIn, best
<1>6. ASSUME BelongsTo(q, C, s) PROVE Wants(q, ItemFor(s, selected))
  <2>1. /\ q.fuel # None => best(q.fuel) # {}
        /\ q.only => \E c \in C : best(c.fuel) # {}
    BY <1>6 DEF BelongsTo, best
  <2>2. q.fuel # None => \E c \in prices : c.fuel = q.fuel
    BY <1>2, <2>1
  <2>3. q.only => prices # {}
    <3> SUFFICES ASSUME q.only, q.fuel = None PROVE prices # {}
      BY <2>2
    <3>1. PICK c \in C : best(c.fuel) # {}
      BY <2>1
    <3> QED BY <1>2, <3>1
  <2> QED BY <1>1, <2>2, <2>3 DEF Wants
<1> QED BY <1>1, <1>4, <1>5, <1>6

ItemsFor(S, selected) == {ItemFor(s, selected) : s \in S}

LEMMA ItemsAre ==
  ASSUME NEW q, NEW listed \in Seq(Station), NEW selected
  PROVE  /\ Items(q, listed, selected) \in Seq(ItemsFor(Range(listed), selected))
         /\ \A i : i \in Range(Items(q, listed, selected)) <=>
                    i \in ItemsFor(Range(listed), selected) /\ Wants(q, i)
<1> DEFINE I == {ItemFor(s, selected) : s \in Range(listed)}
           all == [k \in DOMAIN listed |-> [station |-> listed[k],
                                            prices |-> PricesOf(listed[k], selected)]]
           kept == {i \in Range(all) : /\ q.fuel # None => \E c \in i.prices : c.fuel = q.fuel
                                       /\ q.only => i.prices # {}}
<1>1. DOMAIN listed = 1..Len(listed) /\ Len(listed) \in Nat
  OBVIOUS
<1>2. \A k \in DOMAIN listed : all[k] = ItemFor(listed[k], selected) /\ all[k] \in I
  BY DEF ItemFor, Range
<1>3. Range(all) = I
  BY <1>2 DEF Range
<1>4. all \in Seq(I)
  <2>1. all \in [1..Len(listed) -> I]
    BY <1>1, <1>2
  <2> HIDE DEF all, I
  <2> QED BY <1>1, <2>1
<1>5. kept = {i \in I : Wants(q, i)}
  BY <1>3 DEF Wants
<1> HIDE DEF all, I, kept
<1>6. Keep(all, kept) \in Seq(I) /\ Range(Keep(all, kept)) = I \cap kept
  BY <1>3, <1>4, KeepProperties
<1>7. Items(q, listed, selected) = Keep(all, kept)
  BY DEF Items, all, kept
<1> QED BY <1>5, <1>6, <1>7 DEF I, ItemsFor

(* What a sort or a limit leaves are elements of what there was.           *)
LEMMA FirstRange ==
  ASSUME NEW X, NEW s \in Seq(X), NEW n \in Nat
  PROVE  Range(First(s, n)) \subseteq Range(s)
BY FirstProperties DEF Range

(* The keys of an order have one length, and two stations have not the     *)
(* same key.                                                               *)
LEMMA RanksDiffer ==
  ASSUME StationSearchAssumption, NEW q \in QuestionType, ValidateNearby(q),
         NEW selected, selected \subseteq CandidateType,
         NEW I, \A i \in I : (\E s \in Station : i = ItemFor(s, selected)) /\ Wants(q, i)
  PROVE  LET n == IF q.sort = "price" THEN 3 ELSE 2
         IN  /\ \A i \in I : Rank(q, i) \in Keys(n)
             /\ \A i, j \in I : Rank(q, i) = Rank(q, j) => i.station = j.station
<1>1. ASSUME NEW i \in I PROVE Distance[i.station] \in Int /\ i.station \in Int
  BY DEF ItemFor, StationSearchAssumption
<1>2. CASE q.sort = "price"
  <2>1. ASSUME NEW i \in I PROVE FuelPrice(q, i).price \in Int
    <3>1. q.fuel # None
      BY <1>2 DEF ValidateNearby
    <3>2. \E c \in i.prices : c.fuel = q.fuel
      BY <3>1 DEF Wants
    <3>3. FuelPrice(q, i) \in i.prices
      BY <3>2 DEF FuelPrice
    <3>4. i.prices \subseteq CandidateType
      BY DEF ItemFor, PricesOf
    <3> QED BY <3>3, <3>4 DEF CandidateType
  <2>2. \A i \in I : Rank(q, i) = <<FuelPrice(q, i).price, Distance[i.station], i.station>>
    BY <1>2 DEF Rank
  <2>3. \A i \in I : Rank(q, i) \in Keys(3) /\ Rank(q, i)[3] = i.station
    <3> SUFFICES ASSUME NEW i \in I PROVE Rank(q, i) \in Keys(3) /\ Rank(q, i)[3] = i.station
      OBVIOUS
    <3>1. PICK a, b, c \in Int : a = FuelPrice(q, i).price /\ b = Distance[i.station] /\ c = i.station
      BY <1>1, <2>1
    <3>2. <<a, b, c>> \in Keys(3) /\ <<a, b, c>>[3] = c
      BY DEF Keys
    <3> QED BY <2>2, <3>1, <3>2
  <2> QED BY <1>2, <2>3
<1>3. CASE q.sort # "price"
  <2>1. \A i \in I : Rank(q, i) = <<Distance[i.station], i.station>>
    BY <1>3 DEF Rank
  <2>2. \A i \in I : Rank(q, i) \in Keys(2) /\ Rank(q, i)[2] = i.station
    <3> SUFFICES ASSUME NEW i \in I PROVE Rank(q, i) \in Keys(2) /\ Rank(q, i)[2] = i.station
      OBVIOUS
    <3>1. PICK b, c \in Int : b = Distance[i.station] /\ c = i.station
      BY <1>1
    <3>2. <<b, c>> \in Keys(2) /\ <<b, c>>[2] = c
      BY DEF Keys
    <3> QED BY <2>1, <3>1, <3>2
  <2> QED BY <1>3, <2>2
<1> QED BY <1>2, <1>3

IsNearby(items, q, C, S, selected) ==
  LET missing == Missing(q, C, S, items)
  IN  /\ \A k \in DOMAIN items : \E s \in S : items[k] = ItemFor(s, selected)
      /\ missing # {} =>
           /\ Len(items) = q.limit
           /\ \A s \in missing : \A k \in DOMAIN items :
                Precedes(Rank(q, items[k]), Rank(q, ItemIn(q, C, s)))

(* findNearby(): every item is of a station that was read, with what was   *)
(* selected for it; a station that belongs into the answer is in it or     *)
(* comes after all that are.                                               *)
LEMMA NearbyIsComplete ==
  ASSUME StationSearchAssumption, NEW q \in QuestionType, q.kind = "nearby", ValidateNearby(q),
         NEW r \in Seq(Station), r = rows, NEW C, AreCandidates(C),
         NEW selected, IsSelection(q, C, selected, Range(r)),
         FindNearby(q, selected).status = 200
  PROVE  IsNearby(FindNearby(q, selected).items, q, C, Range(r), selected)
<1> DEFINE S == Range(r)
           I == ItemsFor(Range(r), selected)
           all == Items(q, r, selected)
           cheap == {i \in Range(all) : q.max # None => FuelPrice(q, i).price <= q.max}
           found == Keep(all, cheap)
           key == [i \in Range(found) |-> Rank(q, i)]
           t == SortBy(found, key)
           items == First(t, q.limit)
           n == IF q.sort = "price" THEN 3 ELSE 2
<1>1. S \subseteq Station /\ selected \subseteq CandidateType
  <2>1. S \subseteq Station
    BY DEF Range
  <2> QED BY <2>1 DEF IsSelection, AreCandidates
<1>2. all \in Seq(I) /\ \A i : i \in Range(all) <=> i \in I /\ Wants(q, i)
  BY ItemsAre
<1>3. found \in Seq(I) /\ Range(found) = Range(all) \cap cheap
  <2> HIDE DEF all, cheap, I
  <2> QED BY <1>2, KeepProperties
<1>4. Range(found) = {i \in I : Wants(q, i) /\ (q.max # None => FuelPrice(q, i).price <= q.max)}
  <2> HIDE DEF all, found, I
  <2> QED BY <1>2, <1>3
<1>5. /\ \A i \in Range(found) : Rank(q, i) \in Keys(n)
      /\ \A i, j \in Range(found) : Rank(q, i) = Rank(q, j) => i.station = j.station
  <2>1. \A i \in Range(found) : (\E s \in Station : i = ItemFor(s, selected)) /\ Wants(q, i)
    BY <1>1, <1>4 DEF ItemsFor
  <2> HIDE DEF found
  <2> QED BY <1>1, <2>1, RanksDiffer
<1> HIDE DEF found
<1>6. \A i \in Range(found) : key[i] = Rank(q, i)
  OBVIOUS
<1>7. /\ t \in Seq(I) /\ Len(t) = Len(found) /\ Range(t) = Range(found) /\ Sorted(t, key)
  <2>1. n \in Nat
    OBVIOUS
  <2>2. IsKeyOf(key, Range(found), n)
    BY <1>5, <1>6, <2>1 DEF IsKeyOf
  <2> HIDE DEF key, I, n
  <2>3. found \in Seq(I)
    BY <1>3
  <2>4. SortBy(found, key) \in Seq(I)
    BY <2>2, <2>3, SortProperties
  <2>5. Len(SortBy(found, key)) = Len(found)
    BY <2>2, <2>3, SortProperties
  <2>6. Range(SortBy(found, key)) = Range(found)
    BY <2>2, <2>3, SortProperties
  <2>7. Sorted(SortBy(found, key), key)
    BY <2>2, <2>3, SortProperties
  <2> QED BY <2>4, <2>5, <2>6, <2>7
<1>8. q.limit \in Nat
  BY DEF QuestionType
<1>9. FindNearby(q, selected).items = items
  <2> DEFINE bad == [NoReply EXCEPT !.status = 400]
             good == [status |-> 200, truncated |-> FALSE, items |-> items]
  <2>1. FindNearby(q, selected) = bad \/ FindNearby(q, selected) = good
    BY DEF FindNearby, found
  <2>2. bad.status = 400 /\ good.items = items
    BY DEF NoReply
  <2> HIDE DEF items, bad, good
  <2> QED BY <2>1, <2>2
<1> HIDE DEF t, key, I, S
<1>10. /\ items \in Seq(I) /\ Len(items) = Least(q.limit, Len(t))
       /\ \A k \in 1..Len(items) : k \in 1..Len(t) /\ items[k] = t[k]
  BY <1>7, <1>8, FirstProperties
<1> HIDE DEF items
<1>11. DOMAIN items = 1..Len(items) /\ DOMAIN t = 1..Len(t) /\ Len(t) \in Nat
  BY <1>7, <1>10
<1>12. \A k \in DOMAIN items : items[k] \in I
  BY <1>10, <1>11
<1>13. \A k \in DOMAIN items : \E s \in S : items[k] = ItemFor(s, selected)
  BY <1>12 DEF I, S, ItemsFor
<1>14. ASSUME NEW s \in Missing(q, C, S, items)
       PROVE  /\ Len(items) = q.limit
              /\ \A k \in DOMAIN items : Precedes(Rank(q, items[k]), Rank(q, ItemIn(q, C, s)))
  <2> DEFINE i == ItemFor(s, selected)
  <2>1. s \in S /\ BelongsTo(q, C, s) /\ \A k \in DOMAIN items : items[k].station # s
    BY <1>14 DEF Missing
  <2>2. i = ItemIn(q, C, s) /\ Wants(q, i) /\ i.station = s
    BY <2>1, SelectedIsItem DEF S, ItemFor
  <2>3. i \in I
    BY <2>1 DEF I, S, ItemsFor
  <2>4. q.max # None => FuelPrice(q, i).price <= q.max
    <3> SUFFICES ASSUME q.max # None PROVE FuelPrice(q, i).price <= q.max
      OBVIOUS
    <3>1. q.fuel # None
      BY DEF ValidateNearby
    <3>2. \E c \in i.prices : c.fuel = q.fuel
      BY <2>2, <3>1 DEF Wants
    <3>3. FuelPrice(q, i) \in i.prices /\ FuelPrice(q, i).fuel = q.fuel
      BY <3>2 DEF FuelPrice
    <3>4. i.prices = {c \in selected : c.station = s}
      BY DEF ItemFor, PricesOf
    <3>5. {c \in selected : c.station = s /\ c.fuel = q.fuel} = BestOf(Matching(q, C, s, q.fuel))
      BY <2>1 DEF IsSelection, S
    <3>6. FuelPrice(q, i) \in BestOf(Matching(q, C, s, q.fuel))
      BY <3>3, <3>4, <3>5
    <3> QED BY <2>1, <3>6 DEF BelongsTo
  <2>5. i \in Range(found)
    BY <1>4, <2>2, <2>3, <2>4 DEF I
  <2> HIDE DEF i
  <2>6. PICK j \in 1..Len(t) : t[j] = i
    BY <1>7, <1>11, <2>5 DEF Range
  <2>7. ~(j \in 1..Len(items))
    BY <1>10, <1>11, <2>1, <2>2, <2>6
  <2>8. Len(items) = q.limit /\ q.limit < j
    BY <1>8, <1>10, <1>11, <2>7 DEF Least
  <2>9. ASSUME NEW k \in DOMAIN items PROVE Precedes(Rank(q, items[k]), Rank(q, i))
    <3>1. k \in 1..Len(t) /\ k < j /\ items[k] = t[k]
      BY <1>8, <1>10, <1>11, <2>8
    <3>2. t[k] \in Range(found)
      <4>1. t[k] \in Range(t)
        BY <1>11, <3>1 DEF Range
      <4> QED BY <1>7, <4>1
    <3>3. ~Precedes(Rank(q, i), Rank(q, t[k]))
      BY <1>6, <1>7, <1>11, <2>5, <2>6, <3>1, <3>2 DEF Sorted
    <3>4. Rank(q, i) # Rank(q, t[k])
      BY <1>5, <2>1, <2>2, <2>5, <3>1, <3>2
    <3>5. n \in Nat /\ Rank(q, i) \in Keys(n) /\ Rank(q, t[k]) \in Keys(n)
      BY <1>5, <2>5, <3>2
    <3> HIDE DEF n
    <3> QED BY <3>1, <3>3, <3>4, <3>5, PrecedesTotal
  <2> QED BY <2>2, <2>8, <2>9
<1> QED BY <1>9, <1>13, <1>14 DEF S, IsNearby

(* findInBbox(): what belongs into the answer is missing only if there     *)
(* were more stations than the limit.                                      *)
LEMMA BboxIsComplete ==
  ASSUME StationSearchAssumption, NEW q \in QuestionType, q.kind = "bbox",
         rows \in Seq(Station), NEW C, NEW S, Len(rows) <= q.limit => Range(rows) = S,
         NEW selected, IsSelection(q, C, selected, Range(First(rows, q.limit)))
  PROVE  LET answer == FindInBbox(q, selected)
         IN  /\ \A k \in DOMAIN answer.items :
                  \E s \in Range(First(rows, q.limit)) : answer.items[k] = ItemFor(s, selected)
             /\ Missing(q, C, S, answer.items) # {} => answer.truncated
<1> DEFINE listed == First(rows, q.limit)
           I == ItemsFor(Range(listed), selected)
           items == Items(q, listed, selected)
<1>1. q.limit \in Nat /\ Len(rows) \in Nat
  BY DEF QuestionType
<1>2. /\ listed \in Seq(Station) /\ Len(listed) = Least(q.limit, Len(rows))
      /\ \A k \in 1..Len(listed) : k \in 1..Len(rows) /\ listed[k] = rows[k]
  BY <1>1, FirstProperties
<1> HIDE DEF listed
<1>3. items \in Seq(I) /\ \A i : i \in Range(items) <=> i \in I /\ Wants(q, i)
  BY <1>2, ItemsAre
<1>4. FindInBbox(q, selected).items = items /\ FindInBbox(q, selected).truncated = (Len(rows) > q.limit)
  BY DEF FindInBbox, listed
<1>5. \A k \in DOMAIN items : \E s \in Range(listed) : items[k] = ItemFor(s, selected)
  BY <1>3 DEF ItemsFor
<1>6. ASSUME Len(rows) <= q.limit, NEW s \in S, BelongsTo(q, C, s)
      PROVE  \E k \in DOMAIN items : items[k].station = s
  <2>1. Len(listed) = Len(rows) /\ \A k \in 1..Len(rows) : listed[k] = rows[k]
    BY <1>1, <1>2, <1>6 DEF Least
  <2>2. Range(listed) = Range(rows)
    <3>1. DOMAIN listed = 1..Len(rows) /\ DOMAIN rows = 1..Len(rows)
      BY <1>2, <2>1
    <3> QED BY <2>1, <3>1 DEF Range
  <2>3. s \in Range(listed)
    BY <1>6, <2>2
  <2>4. Wants(q, ItemFor(s, selected)) /\ ItemFor(s, selected).station = s
    BY <1>6, <2>3, SelectedIsItem DEF listed, ItemFor
  <2>5. ItemFor(s, selected) \in Range(items)
    BY <1>3, <2>3, <2>4 DEF ItemsFor
  <2> HIDE DEF items
  <2> QED BY <2>4, <2>5 DEF Range
<1> HIDE DEF items
<1>7. Missing(q, C, S, items) # {} => Len(rows) > q.limit
  BY <1>1, <1>6 DEF Missing
<1> QED BY <1>4, <1>5, <1>7 DEF listed

(* The three answers.                                                      *)
IsAnswer(answer, q, C, S, R, selected) ==
  /\ answer.status \in {200, 400} /\ answer.truncated \in BOOLEAN
  /\ answer.status = 200 =>
       /\ \A k \in DOMAIN answer.items : \E s \in R : answer.items[k] = ItemFor(s, selected)
       /\ IsComplete(q, C, S, answer)

LEMMA Refusal ==
  ASSUME NEW n
  PROVE  /\ [NoReply EXCEPT !.status = n].status = n
         /\ [NoReply EXCEPT !.status = n].truncated = FALSE
BY DEF NoReply

LEMMA NearbyIsAnswer ==
  ASSUME StationSearchAssumption, NEW q \in QuestionType, q.kind = "nearby", ValidateNearby(q),
         NEW r \in Seq(Station), r = rows, NEW C, AreCandidates(C),
         NEW selected, IsSelection(q, C, selected, Range(r))
  PROVE  IsAnswer(FindNearby(q, selected), q, C, Range(r), Range(r), selected)
<1> DEFINE answer == FindNearby(q, selected)
<1>1. answer.status \in {200, 400} /\ answer.truncated \in BOOLEAN
  <2> DEFINE bad == [NoReply EXCEPT !.status = 400]
             good(items) == [status |-> 200, truncated |-> FALSE, items |-> items]
  <2>1. answer = bad \/ \E items : answer = good(items)
    BY DEF FindNearby
  <2>2. bad.status = 400 /\ bad.truncated = FALSE
    BY Refusal
  <2>4. CASE answer = bad
    <3> HIDE DEF answer, bad
    <3> QED BY <2>2, <2>4
  <2>5. ASSUME NEW items, answer = good(items)
        PROVE  answer.status \in {200, 400} /\ answer.truncated \in BOOLEAN
    <3> HIDE DEF answer
    <3> QED BY <2>5
  <2> HIDE DEF answer, bad, good
  <2> QED BY <2>1, <2>4, <2>5
<1>2. ASSUME answer.status = 200 PROVE IsNearby(answer.items, q, C, Range(r), selected)
  BY <1>2, NearbyIsComplete
<1> HIDE DEF answer
<1>3. answer.status = 200 =>
        /\ \A k \in DOMAIN answer.items : \E s \in Range(r) : answer.items[k] = ItemFor(s, selected)
        /\ IsComplete(q, C, Range(r), answer)
  BY <1>2 DEF IsComplete, IsNearby
<1> QED BY <1>1, <1>3 DEF IsAnswer, answer

LEMMA BboxIsAnswer ==
  ASSUME StationSearchAssumption, NEW q \in QuestionType, q.kind = "bbox",
         rows \in Seq(Station), NEW C, NEW S, Len(rows) <= q.limit => Range(rows) = S,
         NEW R, R = Range(First(rows, q.limit)), NEW selected, IsSelection(q, C, selected, R)
  PROVE  IsAnswer(FindInBbox(q, selected), q, C, S, R, selected)
<1> DEFINE answer == FindInBbox(q, selected)
<1>1. answer.status = 200 /\ answer.truncated \in BOOLEAN
  BY DEF FindInBbox
<1>2. /\ \A k \in DOMAIN answer.items : \E s \in R : answer.items[k] = ItemFor(s, selected)
      /\ Missing(q, C, S, answer.items) # {} => answer.truncated
  BY BboxIsComplete
<1> HIDE DEF answer
<1>3. IsComplete(q, C, S, answer)
  BY <1>2 DEF IsComplete
<1> QED BY <1>1, <1>2, <1>3 DEF IsAnswer, answer

LEMMA LatestIsAnswer ==
  ASSUME NEW q, q.kind = "latest", rows = <<q.station>>, NEW C, NEW S, NEW R, R = Range(rows),
         NEW selected, IsSelection(q, C, selected, R)
  PROVE  IsAnswer(FindLatest(selected), q, C, S, R, selected)
<1> DEFINE answer == FindLatest(selected)
<1>1. /\ answer.status = 200 /\ answer.truncated = FALSE
      /\ answer.items = <<[station |-> q.station, prices |-> selected]>>
  BY DEF FindLatest
<1> HIDE DEF answer
<1>2. R = {q.station}
  BY DEF Range
<1>3. selected = PricesOf(q.station, selected)
  BY <1>2 DEF IsSelection, PricesOf
<1>4. \A k \in DOMAIN answer.items : answer.items[k] = ItemFor(q.station, selected)
  BY <1>1, <1>3 DEF ItemFor
<1>5. IsComplete(q, C, S, answer)
  BY DEF IsComplete
<1> QED BY <1>1, <1>2, <1>4, <1>5 DEF IsAnswer, answer

(* What is read between the two statements is still what was asked for.    *)
RowsAreRead ==
  /\ phase # "idle" => ask \in Questions
  /\ phase \in {"stations", "prices"} /\ ask.kind = "nearby" => ValidateNearby(ask)
  /\ phase = "prices" =>
       /\ ask.kind = "nearby" => Range(rows) = reach
       /\ ask.kind = "bbox" => (Len(rows) <= ask.limit => Range(rows) = reach)
       /\ ask.kind \in {"latest", "history"} => rows = <<ask.station>>

AnswerIsTrue ==
  Answered => /\ ask.kind # "history" => ShownAreBest(ask, seen, reply.items)
              /\ IsComplete(ask, seen, reach, reply)

SearchInv ==
  /\ SearchTypeOK
  /\ IsFiniteSet(stored) /\ IsFiniteSet(stations)
  /\ RowsAreRead
  /\ AnswerIsTrue

LEMMA SearchInitInv == SearchInit => SearchInv
<1> SUFFICES ASSUME SearchInit PROVE SearchInv
  OBVIOUS
<1>1. IsFiniteSet(stored) /\ IsFiniteSet(stations)
  BY FS_EmptySet DEF SearchInit
<1>2. SearchTypeOK
  BY DEF SearchInit, SearchTypeOK, NoReply
<1>3. RowsAreRead /\ AnswerIsTrue
  BY DEF SearchInit, RowsAreRead, AnswerIsTrue, Answered
<1> QED BY <1>1, <1>2, <1>3 DEF SearchInv

LEMMA AskInv ==
  ASSUME SearchInv, NEW q \in Questions, Ask(q)
  PROVE  SearchInv'
<1>1. /\ phase = "idle" /\ ask' = q
      /\ UNCHANGED <<stored, stations, rows, reach, seen>>
      /\ \/ phase' = "done" /\ reply' = [NoReply EXCEPT !.status = 400]
         \/ phase' = "stations" /\ reply' = reply /\ (q.kind = "nearby" => ValidateNearby(q))
  BY DEF Ask
<1>2. reply'.status # 200 \/ phase' # "done"
  BY <1>1 DEF NoReply
<1>3. SearchTypeOK'
  <2>1. reply' = reply \/ (reply'.status = 400 /\ reply'.truncated = FALSE)
    <3>1. CASE reply' = [NoReply EXCEPT !.status = 400]
      BY <3>1, Refusal, Zenon
    <3> QED BY <1>1, <3>1
  <2>2. reply'.status \in {0, 200, 400, 404, 500} /\ reply'.truncated \in BOOLEAN
    BY <2>1 DEF SearchInv, SearchTypeOK
  <2> QED BY <1>1, <2>2 DEF SearchInv, SearchTypeOK
<1>4. RowsAreRead'
  BY <1>1 DEF RowsAreRead
<1>5. AnswerIsTrue'
  BY <1>2 DEF AnswerIsTrue, Answered
<1> QED BY <1>1, <1>3, <1>4, <1>5 DEF SearchInv

LEMMA ReadStationsInv == SearchInv /\ ReadStations => SearchInv'
<1> SUFFICES ASSUME SearchInv, ReadStations PROVE SearchInv'
  OBVIOUS
<1> USE StationSearchAssumption DEF StationSearchAssumption
<1> DEFINE found == CASE ask.kind = "nearby" -> FetchNearbyStations(ask)
                      [] ask.kind = "bbox" -> FetchBboxStations(ask)
                      [] OTHER -> Exists(ask)
<1>1. /\ phase = "stations" /\ reach' = InReach(ask)
      /\ UNCHANGED <<stored, stations, ask, seen>>
      /\ \/ phase' = "done" /\ reply' = [NoReply EXCEPT !.status = 404] /\ rows' = rows
         \/ phase' = "prices" /\ rows' \in found /\ reply' = reply
  BY DEF ReadStations
<1>2. /\ ask \in Questions /\ ask \in QuestionType
      /\ ask.kind = "nearby" => ValidateNearby(ask)
  BY <1>1 DEF SearchInv, RowsAreRead
<1>3. ask.kind \in {"nearby", "bbox", "latest", "history"} /\ ask.limit \in Nat
  BY <1>2 DEF QuestionType
<1>4. stations \subseteq Station /\ IsFiniteSet(stations)
  BY DEF SearchInv, SearchTypeOK
<1>5. ASSUME ask.kind = "nearby", NEW r \in found
      PROVE  r \in Seq(Station) /\ Range(r) = InReach(ask)
  <2> DEFINE S == {x \in stations : Distance[x] <= Radius}
  <2>1. IsFiniteSet(S) /\ S \subseteq Station /\ InReach(ask) = S
    BY <1>4, <1>5, FS_Subset DEF InReach
  <2>2. r \in OrderedBy(S, [x \in stations |-> <<Distance[x], x>>])
    BY <1>5 DEF FetchNearbyStations
  <2> HIDE DEF S
  <2>3. r \in Seq(S) /\ Range(r) = S
    BY <2>1, <2>2, OrderedByProperties
  <2>4. Seq(S) \subseteq Seq(Station)
    BY <2>1
  <2> QED BY <2>1, <2>3, <2>4
<1>6. ASSUME ask.kind = "bbox", NEW r \in found
      PROVE  r \in Seq(Station) /\ (Len(r) <= ask.limit => Range(r) = InReach(ask))
  <2> DEFINE S == stations \cap InBox
  <2>1. IsFiniteSet(S) /\ S \subseteq Station /\ InReach(ask) = S
    BY <1>4, <1>6, FS_Subset DEF InReach
  <2>2. PICK s \in OrderedBy(S, [x \in stations |-> <<x>>]) : r = First(s, ask.limit + 1)
    BY <1>6 DEF FetchBboxStations
  <2> HIDE DEF S
  <2>3. s \in Seq(S) /\ Range(s) = S
    BY <2>1, <2>2, OrderedByProperties
  <2>4. /\ r \in Seq(S) /\ Len(r) = Least(ask.limit + 1, Len(s))
        /\ \A i \in 1..Len(r) : i \in 1..Len(s) /\ r[i] = s[i]
    BY <1>3, <2>2, <2>3, FirstProperties
  <2>5. ASSUME Len(r) <= ask.limit PROVE Range(r) = S
    <3>1. Len(r) = Len(s) /\ DOMAIN r = 1..Len(s) /\ DOMAIN s = 1..Len(s)
      BY <1>3, <2>3, <2>4, <2>5 DEF Least
    <3>2. \A i \in 1..Len(s) : r[i] = s[i]
      BY <2>4, <3>1
    <3>3. Range(r) = Range(s)
      BY <3>1, <3>2 DEF Range
    <3> QED BY <2>3, <3>3
  <2>6. Seq(S) \subseteq Seq(Station)
    BY <2>1
  <2> QED BY <2>1, <2>4, <2>5, <2>6
<1>7. ASSUME ask.kind \in {"latest", "history"}, NEW r \in found
      PROVE  r \in Seq(Station) /\ r = <<ask.station>>
  <2>1. found = Exists(ask)
    BY <1>7
  <2> HIDE DEF found
  <2>2. PICK s \in stations \cap {ask.station} : r = <<s>>
    BY <2>1 DEF Exists
  <2> QED BY <1>4, <2>2
<1> HIDE DEF found
<1>8. InReach(ask) \subseteq Station
  <2>1. InReach(ask) \in {{s \in stations : Distance[s] <= Radius}, stations \cap InBox,
                         stations \cap {ask.station}}
    BY <1>3 DEF InReach
  <2> QED BY <1>4, <2>1
<1>9. SearchTypeOK'
  <2>1. rows' \in Seq(Station)
    BY <1>1, <1>3, <1>5, <1>6, <1>7 DEF SearchInv, SearchTypeOK
  <2>2. reply' = reply \/ (reply'.status = 404 /\ reply'.truncated = FALSE)
    <3>1. CASE reply' = [NoReply EXCEPT !.status = 404]
      BY <3>1, Refusal, Zenon
    <3> QED BY <1>1, <3>1
  <2>3. reply'.status \in {0, 200, 400, 404, 500} /\ reply'.truncated \in BOOLEAN
    BY <2>2 DEF SearchInv, SearchTypeOK
  <2> QED BY <1>1, <1>8, <2>1, <2>3 DEF SearchInv, SearchTypeOK
<1>10. RowsAreRead'
  BY <1>1, <1>2, <1>3, <1>5, <1>6, <1>7 DEF RowsAreRead
<1>11. AnswerIsTrue'
  BY <1>1 DEF AnswerIsTrue, Answered, NoReply
<1> QED BY <1>1, <1>9, <1>10, <1>11 DEF SearchInv

(* The observations read with the second statement decide what is shown.   *)
LEMMA ReadPricesInv == SearchInv /\ ReadPrices => SearchInv'
<1> SUFFICES ASSUME SearchInv, ReadPrices PROVE SearchInv'
  OBVIOUS
<1> DEFINE listed == IF ask.kind = "bbox" THEN First(rows, ask.limit) ELSE rows
<1>1. PICK candidates \in FetchCandidates(ask, Range(listed)) :
        reply' = CASE ask.kind = "nearby" -> FindNearby(ask, SelectByStationAndFuel(candidates))
                   [] ask.kind = "bbox" -> FindInBbox(ask, SelectByStationAndFuel(candidates))
                   [] ask.kind = "latest" -> FindLatest(SelectByStationAndFuel(candidates))
  BY DEF ReadPrices
<1> DEFINE selected == SelectByStationAndFuel(candidates)
<1>2. /\ phase = "prices" /\ ask.kind # "history" /\ phase' = "done" /\ seen' = stored
      /\ UNCHANGED <<stored, stations, ask, rows, reach>>
  BY DEF ReadPrices
<1>3. /\ ask \in Questions /\ ask \in QuestionType
      /\ ask.kind = "nearby" => ValidateNearby(ask) /\ Range(rows) = reach
      /\ ask.kind = "bbox" => (Len(rows) <= ask.limit => Range(rows) = reach)
      /\ ask.kind = "latest" => rows = <<ask.station>>
  BY <1>2, StationSearchAssumption DEF SearchInv, RowsAreRead, StationSearchAssumption
<1>4. ask.kind \in {"nearby", "bbox", "latest"} /\ ask.limit \in Nat
  BY <1>2, <1>3 DEF QuestionType
<1>5. rows \in Seq(Station) /\ AreCandidates(stored) /\ IsFiniteSet(stored)
  BY StationSearchAssumption
     DEF SearchInv, SearchTypeOK, AreCandidates, StationSearchAssumption
<1>6. IsSelection(ask, stored, selected, Range(listed))
  <2> HIDE DEF listed
  <2>1. Now \in Int
    BY StationSearchAssumption DEF StationSearchAssumption
  <2> QED BY <1>1, <1>5, <2>1, SelectionOfWanted
<1> HIDE DEF selected
<1>7. /\ ask.kind = "nearby" => listed = rows /\ reply' = FindNearby(ask, selected)
      /\ ask.kind = "bbox" => listed = First(rows, ask.limit) /\ reply' = FindInBbox(ask, selected)
      /\ ask.kind = "latest" => listed = rows /\ reply' = FindLatest(selected)
  BY <1>1, <1>4 DEF selected
<1> HIDE DEF listed
<1>8. ASSUME ask.kind = "nearby"
      PROVE  IsAnswer(reply', ask, stored, reach, Range(listed), selected)
  <2>1. PICK r \in Seq(Station) : r = rows
    BY <1>5
  <2>2. listed = r /\ reach = Range(r)
    BY <1>3, <1>7, <1>8, <2>1
  <2>3. IsAnswer(FindNearby(ask, selected), ask, stored, Range(r), Range(r), selected)
    BY <1>3, <1>5, <1>6, <1>8, <2>1, <2>2, StationSearchAssumption, NearbyIsAnswer
  <2> QED BY <1>7, <1>8, <2>2, <2>3
<1>9. ASSUME ask.kind = "bbox"
      PROVE  IsAnswer(reply', ask, stored, reach, Range(listed), selected)
  <2>1. listed = First(rows, ask.limit) /\ (Len(rows) <= ask.limit => Range(rows) = reach)
    BY <1>3, <1>7, <1>9
  <2>2. IsAnswer(FindInBbox(ask, selected), ask, stored, reach, Range(listed), selected)
    BY <1>3, <1>5, <1>6, <1>9, <2>1, StationSearchAssumption, BboxIsAnswer
  <2> QED BY <1>7, <1>9, <2>2
<1>10. ASSUME ask.kind = "latest"
      PROVE  IsAnswer(reply', ask, stored, reach, Range(listed), selected)
  <2>1. listed = rows /\ rows = <<ask.station>>
    BY <1>3, <1>7, <1>10
  <2>2. IsAnswer(FindLatest(selected), ask, stored, reach, Range(listed), selected)
    BY <1>6, <1>10, <2>1, LatestIsAnswer
  <2> QED BY <1>7, <1>10, <2>2
<1>11. IsAnswer(reply', ask, stored, reach, Range(listed), selected)
  BY <1>4, <1>8, <1>9, <1>10
<1>12. SearchTypeOK'
  <2>1. reply'.status \in {0, 200, 400, 404, 500} /\ reply'.truncated \in BOOLEAN
    BY <1>11 DEF IsAnswer
  <2> QED BY <1>2, <2>1 DEF SearchInv, SearchTypeOK
<1>13. RowsAreRead'
  BY <1>2, <1>3 DEF RowsAreRead
<1>14. AnswerIsTrue'
  <2> SUFFICES ASSUME reply'.status = 200
               PROVE  ShownAreBest(ask, stored, reply'.items) /\ IsComplete(ask, stored, reach, reply')
    BY <1>2 DEF AnswerIsTrue, Answered
  <2> DEFINE items == reply'.items
  <2>1. \A k \in DOMAIN items : \E s \in Range(listed) : items[k] = ItemFor(s, selected)
    BY <1>11 DEF IsAnswer
  <2>2. IsComplete(ask, stored, reach, reply')
    BY <1>11 DEF IsAnswer
  <2> HIDE DEF items
  <2>3. ShownAreBest(ask, stored, items)
    BY <1>6, <2>1, SelectedAreBest
  <2> QED BY <2>2, <2>3 DEF items
<1> QED BY <1>2, <1>12, <1>13, <1>14 DEF SearchInv

(* findHistoryByStation(): a history that is not full has the whole period.*)
LEMMA ReadHistoryInv == SearchInv /\ ReadHistory => SearchInv'
<1> SUFFICES ASSUME SearchInv, ReadHistory PROVE SearchInv'
  OBVIOUS
<1> DEFINE P == Period(ask, stored)
           key == [c \in stored |-> <<c.observed>>]
<1>1. /\ phase = "prices" /\ ask.kind = "history" /\ phase' = "done" /\ seen' = stored
      /\ UNCHANGED <<stored, stations, ask, rows, reach>>
  BY DEF ReadHistory
<1>2. PICK s \in OrderedBy(P, key) :
        reply' = [status |-> 200, items |-> First(s, ask.limit), truncated |-> FALSE]
  BY DEF ReadHistory
<1>3. ask \in Questions /\ ask.limit \in Nat
  BY <1>1, StationSearchAssumption DEF SearchInv, RowsAreRead, StationSearchAssumption, QuestionType
<1>4. IsFiniteSet(P)
  BY FS_Subset DEF SearchInv, Period
<1> HIDE DEF P, key
<1>5. s \in Seq(P) /\ Range(s) = P
  BY <1>2, <1>4, OrderedByProperties
<1>6. /\ reply'.status = 200 /\ reply'.truncated = FALSE /\ reply'.items = First(s, ask.limit)
  BY <1>2
<1>7. ASSUME Len(reply'.items) < ask.limit PROVE Range(reply'.items) = P
  <2>1. /\ First(s, ask.limit) \in Seq(P) /\ Len(First(s, ask.limit)) = Least(ask.limit, Len(s))
        /\ \A i \in 1..Len(First(s, ask.limit)) : First(s, ask.limit)[i] = s[i]
    BY <1>3, <1>5, FirstProperties
  <2> DEFINE f == First(s, ask.limit)
  <2> HIDE DEF f
  <2>2. Len(f) = Len(s) /\ DOMAIN f = 1..Len(s) /\ DOMAIN s = 1..Len(s)
    BY <1>3, <1>5, <1>6, <1>7, <2>1 DEF Least, f
  <2>3. \A i \in 1..Len(s) : f[i] = s[i]
    BY <2>1, <2>2 DEF f
  <2>4. Range(f) = Range(s)
    BY <2>2, <2>3 DEF Range
  <2> QED BY <1>5, <1>6, <2>4 DEF f
<1>8. SearchTypeOK'
  BY <1>1, <1>6 DEF SearchInv, SearchTypeOK
<1>9. RowsAreRead'
  BY <1>1, <1>3 DEF RowsAreRead
<1>10. AnswerIsTrue'
  BY <1>1, <1>7 DEF AnswerIsTrue, IsComplete, P
<1> QED BY <1>1, <1>8, <1>9, <1>10 DEF SearchInv

(* What goes on meanwhile changes no answer, nor what was read for it.     *)
LEMMA MeanwhileInv ==
  ASSUME SearchInv, UNCHANGED <<ask, phase, rows, reach, seen, reply>>,
         stored \subseteq stored', stored' \subseteq Offers, IsFiniteSet(stored'),
         stations' \subseteq Station, IsFiniteSet(stations')
  PROVE  SearchInv'
<1>1. SearchTypeOK'
  BY DEF SearchInv, SearchTypeOK
<1>2. RowsAreRead'
  BY DEF SearchInv, RowsAreRead
<1>3. AnswerIsTrue'
  BY DEF SearchInv, AnswerIsTrue, Answered
<1> QED BY <1>1, <1>2, <1>3 DEF SearchInv

LEMMA SearchNextInv == SearchInv /\ [SearchNext]_searchVars => SearchInv'
<1> SUFFICES ASSUME SearchInv, [SearchNext]_searchVars PROVE SearchInv'
  OBVIOUS
<1>1. stored \subseteq Offers /\ IsFiniteSet(stored) /\ stations \subseteq Station /\ IsFiniteSet(stations)
  BY DEF SearchInv, SearchTypeOK
<1>2. ASSUME NEW q \in Questions, Ask(q) PROVE SearchInv'
  BY <1>2, AskInv
<1>3. CASE ReadStations \/ ReadPrices \/ ReadHistory
  BY <1>3, ReadStationsInv, ReadPricesInv, ReadHistoryInv
<1>4. CASE FailSearch
  <2>1. /\ phase \in {"stations", "prices"} /\ phase' = "done"
        /\ reply' = [NoReply EXCEPT !.status = 500]
        /\ UNCHANGED <<stored, stations, ask, rows, reach, seen>>
    BY <1>4 DEF FailSearch
  <2>2. reply'.status = 500 /\ reply'.truncated = FALSE
    <3>1. reply' = [NoReply EXCEPT !.status = 500]
      BY <2>1
    <3> QED BY <3>1, Refusal, Zenon
  <2>3. SearchTypeOK'
    BY <2>1, <2>2 DEF SearchInv, SearchTypeOK
  <2>4. RowsAreRead'
    BY <2>1 DEF SearchInv, RowsAreRead
  <2>5. AnswerIsTrue'
    BY <2>2 DEF AnswerIsTrue, Answered
  <2> QED BY <1>1, <2>1, <2>3, <2>4, <2>5 DEF SearchInv
<1>5. ASSUME NEW s \in Station, ImportStation(s) PROVE SearchInv'
  <2>1. IsFiniteSet(stations \cup {s})
    BY <1>1, FS_AddElement
  <2> QED BY <1>1, <1>5, <2>1, MeanwhileInv DEF ImportStation
<1>6. ASSUME NEW c \in Offers, Observe(c) PROVE SearchInv'
  <2>1. IsFiniteSet(stored \cup {c})
    BY <1>1, FS_AddElement
  <2> QED BY <1>1, <1>6, <2>1, MeanwhileInv DEF Observe
<1>7. CASE UNCHANGED searchVars
  BY <1>1, <1>7, MeanwhileInv DEF searchVars
<1> QED BY <1>2, <1>3, <1>4, <1>5, <1>6, <1>7 DEF SearchNext

LEMMA SearchInvSuffices ==
  SearchInv => SearchTypeOK /\ ShownPriceIsBest /\ NothingIsLeftOutSilently
BY ShownPriceMeans, NothingLeftMeans DEF SearchInv, AnswerIsTrue

-----------------------------------------------------------------------------
(* The corridor and the shortlist.                                         *)

RouteRow == [id : Stop, off : Nat, price : Nat]

IsCorridor(s) ==
  /\ s \in Seq(RouteRow) /\ Len(s) <= CORRIDOR_CANDIDATE_POOL
  /\ Distinct(s)
  /\ \A r, q \in Range(s) : r.id = q.id => r = q

(* A shortlist of s: the cheapest of s is in it, and the closest.          *)
IsShortlist(p, s) ==
  /\ p \in Seq(RouteRow) /\ Len(p) <= DETOUR_CANDIDATE_COUNT
  /\ Distinct(p) /\ Range(p) \subseteq Range(s)
  /\ s # <<>> => \E i \in DOMAIN p : \A r \in Range(s) : p[i].price <= r.price
  /\ s # <<>> => \E i \in DOMAIN p : \A r \in Range(s) : p[i].off <= r.off

LEMMA PairIsKey ==
  ASSUME NEW x \in Int, NEW y \in Int
  PROVE  <<x, y>> \in Keys(2)
BY DEF Keys

LEMMA TripleIsKey ==
  ASSUME NEW x \in Int, NEW y \in Int, NEW z \in Int
  PROVE  <<x, y, z>> \in Keys(3)
BY DEF Keys

LEMMA RouteRowFields ==
  ASSUME RoutePlanningAssumption, NEW r \in RouteRow
  PROVE  r.off \in Nat /\ r.price \in Nat /\ r.id \in Stop /\ r.id \in Int
<1>1. r.off \in Nat /\ r.price \in Nat /\ r.id \in Stop
  BY DEF RouteRow
<1>2. \A x \in Stop : x \in Int
  BY DEF RoutePlanningAssumption
<1>3. r.id \in Int
  BY <1>1, <1>2
<1> QED BY <1>1, <1>3

LEMMA CorridorStationsAre ==
  ASSUME RoutePlanningAssumption
  PROVE  CorridorStations \in Seq(Stop) /\ Distinct(CorridorStations)
<1> DEFINE key == [x \in Stop |-> <<OffRoute[x], x>>]
           s == CHOOSE s \in OrderedBy(Stop, key) : TRUE
<1>1. IsFiniteSet(Stop) /\ CORRIDOR_CANDIDATE_POOL \in Nat
      /\ \A x \in Stop : x \in Int /\ OffRoute[x] \in Int
  BY DEF RoutePlanningAssumption
<1>2. IsKeyOf(key, Stop, 2)
  BY <1>1, PairIsKey DEF IsKeyOf
<1>3. OrderedBy(Stop, key) # {}
  <2> HIDE DEF key
  <2> QED BY <1>1, <1>2, OrderExists
<1>4. s \in OrderedBy(Stop, key)
  BY <1>3
<1>5. s \in Seq(Stop) /\ Distinct(s)
  <2> HIDE DEF key, s
  <2> QED BY <1>1, <1>4, OrderedByProperties
<1>6. CorridorStations = First(s, 3 * CORRIDOR_CANDIDATE_POOL)
  BY DEF CorridorStations
<1>7. 3 * CORRIDOR_CANDIDATE_POOL \in Nat
  BY <1>1
<1> HIDE DEF s
<1>8. First(s, 3 * CORRIDOR_CANDIDATE_POOL) \in Seq(Stop)
  BY <1>5, <1>7, FirstProperties
<1> QED BY <1>5, <1>6, <1>7, <1>8, FirstDistinct

LEMMA CorridorIs ==
  ASSUME RoutePlanningAssumption, NEW t \in Trips, NEW market \in Markets
  PROVE  IsCorridor(FindCandidates(t, market))
<1> DEFINE S == {s \in Stop : /\ market[s].price # Absent
                              /\ t.maxPrice # Absent => market[s].price <= t.maxPrice
                              /\ t.maxAge # Absent => market[s].age <= t.maxAge}
           kept == Keep(CorridorStations, S)
           row(s) == [id |-> s, off |-> OffRoute[s], price |-> market[s].price]
           m == Least(Len(kept), CORRIDOR_CANDIDATE_POOL)
           found == [i \in 1..m |-> row(kept[i])]
           key == [r \in Range(found) |-> <<r.off, r.price, r.id>>]
<1>1. /\ CORRIDOR_CANDIDATE_POOL \in Nat /\ OffRoute \in [Stop -> Nat] /\ Stop \subseteq Nat
      /\ \A s \in Stop : market[s].price \in {Absent} \cup Nat
  BY DEF RoutePlanningAssumption
<1>2. CorridorStations \in Seq(Stop) /\ Distinct(CorridorStations)
  BY CorridorStationsAre
<1>3. kept \in Seq(Stop) /\ Distinct(kept) /\ Range(kept) = Range(CorridorStations) \cap S
  <2> HIDE DEF S
  <2>1. kept \in Seq(Stop)
    BY <1>2, KeepProperties
  <2>2. Distinct(kept)
    BY <1>2, KeepProperties
  <2>3. Range(kept) = Range(CorridorStations) \cap S
    BY <1>2, KeepProperties
  <2> QED BY <2>1, <2>2, <2>3
<1> HIDE DEF kept
<1>4. Len(kept) \in Nat /\ m \in Nat /\ m <= Len(kept) /\ m <= CORRIDOR_CANDIDATE_POOL
  BY <1>1, <1>3 DEF Least
<1> HIDE DEF m
<1>5. \A i \in 1..m : i \in DOMAIN kept /\ kept[i] \in Stop /\ kept[i] \in Range(kept)
  BY <1>3, <1>4 DEF Range
<1>6. \A i \in 1..m : kept[i] \in S
  BY <1>3, <1>5
<1>7. \A i \in 1..m : row(kept[i]) \in RouteRow
  <2> SUFFICES ASSUME NEW i \in 1..m PROVE row(kept[i]) \in RouteRow
    OBVIOUS
  <2>1. kept[i] \in Stop /\ market[kept[i]].price # Absent
    BY <1>6
  <2>2. market[kept[i]].price \in Nat /\ OffRoute[kept[i]] \in Nat
    BY <1>1, <2>1
  <2> QED BY <2>1, <2>2 DEF RouteRow
<1>8. \A i, j \in 1..m : kept[i] = kept[j] => i = j
  BY <1>3, <1>5 DEF Distinct
<1> HIDE DEF S
<1>9. found \in Seq(RouteRow) /\ Len(found) = m /\ DOMAIN found = 1..m
  BY <1>4, <1>7
<1>10. \A i \in 1..m : found[i].id = kept[i]
  OBVIOUS
<1> HIDE DEF row, found
<1>11. Distinct(found)
  BY <1>8, <1>9, <1>10 DEF Distinct
<1>12. \A r, q \in Range(found) : r.id = q.id => r = q
  BY <1>8, <1>9, <1>10 DEF Range
<1>13. \A r \in Range(found) : r \in RouteRow
  BY <1>9 DEF Range
<1>14. IsKeyOf(key, Range(found), 3)
  <2>1. \A r \in Range(found) : r.off \in Int /\ r.price \in Int /\ r.id \in Int
    BY <1>13, RouteRowFields
  <2>2. ASSUME NEW r \in Range(found) PROVE key[r] \in Keys(3)
    <3>1. <<r.off, r.price, r.id>> \in Keys(3)
      BY <2>1, TripleIsKey
    <3>2. key[r] = <<r.off, r.price, r.id>>
      OBVIOUS
    <3> QED BY <3>1, <3>2
  <2> HIDE DEF key
  <2> QED BY <2>2 DEF IsKeyOf
<1>15. FindCandidates(t, market) = SortBy(found, key)
  BY DEF FindCandidates, kept, S, found, row, m
<1> HIDE DEF key
<1> DEFINE sorted == SortBy(found, key)
<1>16. sorted \in Seq(RouteRow)
  BY <1>9, <1>14, SortProperties
<1>17. Len(sorted) = m
  BY <1>9, <1>14, SortProperties
<1>18. Range(sorted) = Range(found)
  BY <1>9, <1>14, SortProperties
<1>19. Distinct(sorted)
  BY <1>9, <1>11, <1>14, SortProperties
<1> HIDE DEF sorted
<1>20. IsCorridor(sorted)
  BY <1>4, <1>12, <1>16, <1>17, <1>18, <1>19 DEF IsCorridor
<1> QED BY <1>15, <1>20 DEF sorted

(* What comes first in an order by two numbers has the least of the first. *)
LEMMA FirstHasLeast ==
  ASSUME NEW X, NEW s \in Seq(X), NEW key, IsKeyOf(key, Range(s), 2), Sorted(s, key),
         s # <<>>, NEW r \in Range(s)
  PROVE  key[s[1]][1] <= key[r][1]
<1>1. PICK k \in DOMAIN s : r = s[k]
  BY DEF Range
<1>2. Len(s) \in Nat /\ Len(s) # 0 /\ DOMAIN s = 1..Len(s)
  BY EmptySeq
<1>3. 1 \in DOMAIN s /\ k >= 1 /\ k \in Nat
  BY <1>2
<1>4. key[s[1]] \in Keys(2) /\ key[r] \in Keys(2)
  BY <1>3 DEF IsKeyOf, Range
<1>5. key[s[1]][1] \in Int /\ key[r][1] \in Int
  BY <1>4 DEF Keys
<1>6. CASE k = 1
  BY <1>1, <1>5, <1>6
<1>7. CASE k # 1
  <2>1. ~Precedes(key[r], key[s[1]])
    BY <1>1, <1>3, <1>7 DEF Sorted
  <2>2. 1 \in DOMAIN key[r]
    BY <1>4 DEF Keys
  <2>3. ~(key[r][1] < key[s[1]][1])
    <3> SUFFICES ASSUME key[r][1] < key[s[1]][1] PROVE FALSE
      OBVIOUS
    <3>1. \A j \in 1..(1 - 1) : key[r][j] = key[s[1]][j]
      OBVIOUS
    <3> QED BY <2>1, <2>2, <3>1 DEF Precedes
  <2> QED BY <1>5, <2>3
<1> QED BY <1>6, <1>7

(* The beginning of s in an order.                                         *)
IsHalf(h, s, half) ==
  /\ h \in Seq(RouteRow) /\ Len(h) <= half
  /\ Distinct(h) /\ Range(h) \subseteq Range(s)

LEMMA HalfIs ==
  ASSUME RoutePlanningAssumption, NEW s, IsCorridor(s), NEW half \in Nat \ {0}, NEW key,
         IsKeyOf(key, Range(s), 2)
  PROVE  LET h == First(SortBy(s, key), half)
         IN  /\ IsHalf(h, s, half)
             /\ s # <<>> => /\ Len(h) >= 1
                            /\ h[1] \in Range(s)
                            /\ \A r \in Range(s) : key[h[1]][1] <= key[r][1]
<1> DEFINE t == SortBy(s, key)
           h == First(t, half)
<1>1. s \in Seq(RouteRow) /\ Distinct(s)
  BY DEF IsCorridor
<1>2. t \in Seq(RouteRow)
  BY <1>1, SortProperties
<1>3. Len(t) = Len(s)
  BY <1>1, SortProperties
<1>4. Range(t) = Range(s)
  BY <1>1, SortProperties
<1>5. Distinct(t)
  BY <1>1, SortProperties
<1>6. Sorted(t, key)
  BY <1>1, SortProperties
<1> HIDE DEF t
<1>7. /\ h \in Seq(RouteRow) /\ Len(h) = Least(half, Len(t))
      /\ \A i \in 1..Len(h) : i \in 1..Len(t) /\ h[i] = t[i]
  BY <1>2, FirstProperties
<1>8. Distinct(h) /\ Range(h) \subseteq Range(s)
  BY <1>2, <1>4, <1>5, FirstDistinct
<1> HIDE DEF h
<1>9. Len(t) \in Nat /\ Len(s) \in Nat
  BY <1>1, <1>2
<1>10. Len(h) <= half
  BY <1>7, <1>9 DEF Least
<1>11. ASSUME s # <<>>
       PROVE  /\ Len(h) >= 1
              /\ h[1] \in Range(s)
              /\ \A r \in Range(s) : key[h[1]][1] <= key[r][1]
  <2>1. Len(s) # 0
    BY <1>1, <1>11, EmptySeq
  <2>2. Len(h) >= 1
    BY <1>3, <1>7, <1>9, <2>1 DEF Least
  <2>3. 1 \in 1..Len(h) /\ Len(h) \in Nat
    BY <1>7, <2>2
  <2>4. h[1] = t[1] /\ 1 \in DOMAIN t
    BY <1>7, <1>2, <2>3
  <2>5. h[1] \in Range(s)
    BY <1>4, <2>4 DEF Range
  <2>6. t # <<>>
    BY <1>3, <1>9, <2>1, EmptySeq
  <2>7. \A r \in Range(s) : key[t[1]][1] <= key[r][1]
    BY <1>2, <1>4, <1>6, <2>6, FirstHasLeast
  <2> QED BY <2>2, <2>4, <2>5, <2>7
<1> QED BY <1>7, <1>8, <1>10, <1>11 DEF IsHalf, h, t

LEMMA ShortlistIs ==
  ASSUME RoutePlanningAssumption, NEW s, IsCorridor(s)
  PROVE  IsShortlist(SelectDetourCandidates(s, DETOUR_CANDIDATE_COUNT), s)
<1> DEFINE count == DETOUR_CANDIDATE_COUNT
           half == (count + 1) \div 2
           byPrice == [r \in Range(s) |-> <<r.price, r.off>>]
           byOff == [r \in Range(s) |-> <<r.off, r.price>>]
           cheapest == First(SortBy(s, byPrice), half)
           closest == First(SortBy(s, byOff), half)
           others == Range(s) \ Range(cheapest)
           kept == Keep(closest, others)
           cat == cheapest \o kept
           p == First(cat, count)
<1>1. count \in Nat /\ count >= 2
  BY DEF RoutePlanningAssumption
<1> HIDE DEF count
<1>2. half \in Nat \ {0} /\ half + 1 <= count
  BY <1>1
<1> HIDE DEF half
<1>3. s \in Seq(RouteRow)
  BY DEF IsCorridor
<1>4. \A r \in Range(s) : r \in RouteRow /\ r.off \in Nat /\ r.price \in Nat
  <2>1. \A r \in Range(s) : r \in RouteRow
    BY <1>3 DEF Range
  <2> QED BY <2>1, RouteRowFields
<1>5. IsKeyOf(byPrice, Range(s), 2) /\ IsKeyOf(byOff, Range(s), 2)
  <2>1. \A r \in Range(s) : r.off \in Int /\ r.price \in Int
    BY <1>4
  <2>2. \A r \in Range(s) : byPrice[r] = <<r.price, r.off>> /\ byOff[r] = <<r.off, r.price>>
    OBVIOUS
  <2> HIDE DEF byPrice, byOff
  <2>3. ASSUME NEW r \in Range(s) PROVE byPrice[r] \in Keys(2) /\ byOff[r] \in Keys(2)
    <3>1. <<r.price, r.off>> \in Keys(2)
      BY <2>1, PairIsKey
    <3>2. <<r.off, r.price>> \in Keys(2)
      BY <2>1, PairIsKey
    <3> QED BY <2>2, <3>1, <3>2
  <2> QED BY <2>3 DEF IsKeyOf
<1>6. \A r \in Range(s) : byPrice[r][1] = r.price /\ byOff[r][1] = r.off
  OBVIOUS
<1> HIDE DEF byPrice, byOff
<1>7. /\ IsHalf(cheapest, s, half)
      /\ s # <<>> => /\ Len(cheapest) >= 1 /\ cheapest[1] \in Range(s)
                     /\ \A r \in Range(s) : byPrice[cheapest[1]][1] <= byPrice[r][1]
  BY <1>2, <1>5, HalfIs
<1>8. /\ IsHalf(closest, s, half)
      /\ s # <<>> => /\ Len(closest) >= 1 /\ closest[1] \in Range(s)
                     /\ \A r \in Range(s) : byOff[closest[1]][1] <= byOff[r][1]
  BY <1>2, <1>5, HalfIs
<1> HIDE DEF cheapest, closest
<1>9. /\ cheapest \in Seq(RouteRow) /\ Len(cheapest) <= half
      /\ Distinct(cheapest) /\ Range(cheapest) \subseteq Range(s)
  BY <1>7 DEF IsHalf
<1>10. closest \in Seq(RouteRow) /\ Distinct(closest)
  BY <1>8 DEF IsHalf
<1>11. kept \in Seq(RouteRow)
  BY <1>10, KeepProperties
<1>12. Range(kept) = Range(closest) \cap others
  BY <1>10, KeepProperties
<1>13. Distinct(kept)
  BY <1>10, KeepProperties
<1>14. s # <<>> /\ closest[1] \in others => Len(kept) >= 1 /\ kept[1] = closest[1]
  <2> SUFFICES ASSUME s # <<>>, closest[1] \in others
               PROVE  Len(kept) >= 1 /\ kept[1] = closest[1]
    OBVIOUS
  <2>1. closest # <<>>
    BY <1>8, <1>10, EmptySeq
  <2> HIDE DEF others
  <2> QED BY <1>10, <2>1, KeepFirst
<1> HIDE DEF kept
<1>15. Range(cheapest) \cap Range(kept) = {} /\ Range(kept) \subseteq Range(s)
  BY <1>12
<1>16. /\ cat \in Seq(RouteRow) /\ Len(cat) = Len(cheapest) + Len(kept)
       /\ \A i \in 1..(Len(cheapest) + Len(kept)) :
            cat[i] = IF i <= Len(cheapest) THEN cheapest[i] ELSE kept[i - Len(cheapest)]
  BY <1>9, <1>11, ConcatProperties
<1>17. Distinct(cat) /\ Range(cat) = Range(cheapest) \cup Range(kept)
  BY <1>9, <1>11, <1>13, <1>15, ConcatDistinct
<1> HIDE DEF cat
<1>18. /\ p \in Seq(RouteRow) /\ Len(p) = Least(count, Len(cat))
       /\ \A i \in 1..Len(p) : i \in 1..Len(cat) /\ p[i] = cat[i]
  BY <1>1, <1>16, FirstProperties
<1>19. Distinct(p) /\ Range(p) \subseteq Range(cat)
  BY <1>1, <1>16, <1>17, FirstDistinct
<1> HIDE DEF p
<1>20. Len(p) <= count /\ DOMAIN p = 1..Len(p) /\ Len(p) \in Nat
  BY <1>1, <1>16, <1>18 DEF Least
<1>21. Range(p) \subseteq Range(s)
  BY <1>9, <1>15, <1>17, <1>19
<1>22. Len(cheapest) \in Nat /\ Len(kept) \in Nat
  BY <1>9, <1>11
<1>23. \A i \in 1..(half + 1) : i <= Len(cheapest) + Len(kept) => i \in DOMAIN p /\ p[i] = cat[i]
  <2> SUFFICES ASSUME NEW i \in 1..(half + 1), i <= Len(cheapest) + Len(kept)
               PROVE  i \in DOMAIN p /\ p[i] = cat[i]
    OBVIOUS
  <2>1. i <= count /\ i <= Len(cat)
    BY <1>1, <1>2, <1>16, <1>22
  <2>2. i <= Len(p)
    BY <1>18, <2>1 DEF Least
  <2>3. i \in 1..Len(p)
    BY <1>2, <1>20, <2>2
  <2> QED BY <1>18, <1>20, <2>3
<1>24. ASSUME s # <<>>
       PROVE  \E i \in DOMAIN p : \A r \in Range(s) : p[i].price <= r.price
  <2>1. Len(cheapest) >= 1 /\ cheapest[1] \in Range(s)
    BY <1>7, <1>24
  <2>2. 1 \in DOMAIN p /\ p[1] = cat[1] /\ cat[1] = cheapest[1]
    BY <1>2, <1>16, <1>22, <1>23, <2>1
  <2>3. \A r \in Range(s) : cheapest[1].price <= r.price
    BY <1>6, <1>7, <1>24, <2>1
  <2> QED BY <2>2, <2>3
<1>25. ASSUME s # <<>>
       PROVE  \E i \in DOMAIN p : \A r \in Range(s) : p[i].off <= r.off
  <2>1. closest[1] \in Range(s) /\ \A r \in Range(s) : closest[1].off <= r.off
    BY <1>6, <1>8, <1>25
  <2>2. CASE closest[1] \in Range(cheapest)
    <3>1. PICK i \in DOMAIN cheapest : cheapest[i] = closest[1]
      BY <2>2 DEF Range
    <3>2. i \in 1..Len(cheapest)
      BY <1>9, <3>1
    <3>3. i \in DOMAIN p /\ p[i] = cat[i] /\ cat[i] = cheapest[i]
      BY <1>2, <1>9, <1>16, <1>22, <1>23, <3>2
    <3> QED BY <2>1, <3>1, <3>3
  <2>3. CASE closest[1] \notin Range(cheapest)
    <3>1. Len(kept) >= 1 /\ kept[1] = closest[1]
      BY <1>14, <1>25, <2>1, <2>3
    <3> DEFINE i == Len(cheapest) + 1
    <3>2. i \in DOMAIN p /\ p[i] = cat[i]
      BY <1>2, <1>9, <1>22, <1>23, <3>1
    <3>3. i - Len(cheapest) = 1 /\ ~(i <= Len(cheapest)) /\ i \in 1..(Len(cheapest) + Len(kept))
      BY <1>22, <3>1
    <3>4. cat[i] = kept[1]
      BY <1>16, <3>3
    <3> QED BY <2>1, <3>1, <3>2, <3>4
  <2> QED BY <2>2, <2>3
<1>26. SelectDetourCandidates(s, count) = p
  BY DEF SelectDetourCandidates, p, cat, kept, cheapest, closest, byPrice, byOff, half
<1>27. IsShortlist(p, s)
  BY <1>18, <1>19, <1>20, <1>21, <1>24, <1>25 DEF IsShortlist, count
<1> QED BY <1>26, <1>27 DEF count

(* The median of prices is a price.                                        *)
LEMMA MedianIsNat ==
  ASSUME RoutePlanningAssumption, NEW s, IsCorridor(s), s # <<>>
  PROVE  MedianPrice(s) \in Nat
<1> DEFINE key == [r \in Range(s) |-> <<r.price>>]
           t == SortBy(s, key)
           mid == Len(s) \div 2
<1>1. s \in Seq(RouteRow) /\ Len(s) \in Nat /\ Len(s) # 0
  BY EmptySeq DEF IsCorridor
<1>2. \A r \in Range(s) : r.price \in Int
  <2>1. \A r \in Range(s) : r \in RouteRow
    BY <1>1 DEF Range
  <2>2. \A r \in RouteRow : r.price \in Int
    BY RouteRowFields
  <2> QED BY <2>1, <2>2
<1>3. IsKeyOf(key, Range(s), 1)
  <2>1. \A x \in Int : <<x>> \in Keys(1)
    BY DEF Keys
  <2> QED BY <1>2, <2>1 DEF IsKeyOf
<1> HIDE DEF key
<1>4. t \in Seq(RouteRow)
  BY <1>1, <1>3, SortProperties
<1>5. Len(t) = Len(s)
  BY <1>1, <1>3, SortProperties
<1> HIDE DEF t
<1>6. \A i \in 1..Len(s) : t[i].price \in Nat
  <2>1. \A i \in 1..Len(s) : t[i] \in RouteRow
    BY <1>4, <1>5
  <2> QED BY <2>1, RouteRowFields
<1>7. MedianPrice(s) = IF Len(s) % 2 = 1 THEN t[mid + 1].price
                       ELSE (t[mid].price + t[mid + 1].price + 1) \div 2
  BY DEF MedianPrice, t, key
<1>8. CASE Len(s) % 2 = 1
  <2>1. mid + 1 \in 1..Len(s)
    BY <1>1, <1>8
  <2> QED BY <1>6, <1>7, <1>8, <2>1
<1>9. CASE Len(s) % 2 # 1
  <2>1. mid \in 1..Len(s) /\ mid + 1 \in 1..Len(s)
    BY <1>1, <1>9
  <2>2. t[mid].price \in Nat /\ t[mid + 1].price \in Nat
    BY <1>6, <2>1
  <2>3. (t[mid].price + t[mid + 1].price + 1) \div 2 \in Nat
    <3>1. PICK x \in Nat : x = t[mid].price
      BY <2>2
    <3>2. PICK y \in Nat : y = t[mid + 1].price
      BY <2>2
    <3>3. (x + y + 1) \div 2 \in Nat
      OBVIOUS
    <3> QED BY <3>1, <3>2, <3>3
  <2> QED BY <1>7, <1>9, <2>3
<1> QED BY <1>8, <1>9

-----------------------------------------------------------------------------
(* The plan.                                                               *)

RouteItem == [id : Stop, off : Nat, price : Nat, detour : Nat, saving : Int]

DetourOf(p, i, len, bas) == Most(0, len + Extra[p[i].id] - bas)
ItemAt(t, reference, p, i, d) ==
  [id |-> p[i].id, off |-> p[i].off, price |-> p[i].price, detour |-> d,
   saving |-> EffectiveSaving(t, reference, p[i].price, d)]

(* The items are what was answered, r, for the shortlist p.                *)
IsPlan(items, t, reference, p, r, len, bas) ==
  LET answered == {i \in DOMAIN p : r[i] # Absent}
      left == {ItemAt(t, reference, p, i, DetourOf(p, i, len, bas)) : i \in answered} \ Range(items)
  IN  /\ Range(items) \subseteq {ItemAt(t, reference, p, i, DetourOf(p, i, len, bas)) : i \in answered}
      /\ left # {} => Len(items) = t.limit
      /\ \A i \in left : \A k \in DOMAIN items :
           ~Precedes(SortKey(t.sort, i), SortKey(t.sort, items[k]))

LEMMA PlanMeans ==
  (Planned /\ plan.reference # Absent =>
     IsPlan(plan.items, trip, plan.reference, pool, results, length, base))
  => PlanIsWhatWasAnswered
BY DEF PlanIsWhatWasAnswered, IsPlan, ItemAt, DetourOf

LEMMA SavingIsInt ==
  ASSUME NEW t \in TripType, NEW reference \in Nat, NEW price \in Nat, NEW metres \in Nat
  PROVE  EffectiveSaving(t, reference, price, metres) \in Int
<1>1. t.litres \in Nat /\ t.consumption \in Nat
  BY DEF TripType
<1>2. PICK gain \in Int : gain = 100000 * (reference - price) * t.litres
  <2>1. PICK litres \in Nat : litres = t.litres
    BY <1>1
  <2>2. 100000 * (reference - price) * litres \in Int
    OBVIOUS
  <2> QED BY <2>1, <2>2
<1>3. PICK burnt \in Int : burnt = metres * t.consumption * reference
  <2>1. PICK consumption \in Nat : consumption = t.consumption
    BY <1>1
  <2>2. metres * consumption * reference \in Int
    OBVIOUS
  <2> QED BY <2>1, <2>2
<1>4. PICK x \in Int : x = gain - burnt
  OBVIOUS
<1>5. EffectiveSaving(t, reference, price, metres) = FormatDecimal(x, 100000)
  BY <1>2, <1>3, <1>4 DEF EffectiveSaving
<1>6. FormatDecimal(x, 100000) \in Int
  BY DEF FormatDecimal
<1> QED BY <1>5, <1>6

(* The keys of an order have one length.                                   *)
LEMMA SortKeysAre ==
  ASSUME NEW t \in TripType, NEW i \in RouteItem
  PROVE  SortKey(t.sort, i) \in Keys(IF t.sort = "effective_saving" THEN 3 ELSE 2)
<1>1. i.off \in Nat /\ i.price \in Nat /\ i.detour \in Nat /\ i.saving \in Int
  BY DEF RouteItem
<1>2. t.sort \in {"price", "detour", "distance_to_route", "effective_saving"}
  BY DEF TripType
<1>3. <<i.price, i.detour>> \in Keys(2) /\ <<i.detour, i.price>> \in Keys(2)
  BY <1>1, PairIsKey
<1>4. <<i.off, -i.saving>> \in Keys(2)
  <2>1. -i.saving \in Int
    BY <1>1
  <2> QED BY <1>1, <2>1, PairIsKey
<1>5. <<-i.saving, i.detour, i.price>> \in Keys(3)
  <2>1. -i.saving \in Int
    BY <1>1
  <2> QED BY <1>1, <2>1, TripleIsKey
<1>6. CASE t.sort = "price"
  BY <1>3, <1>6 DEF SortKey
<1>7. CASE t.sort = "detour"
  BY <1>3, <1>7 DEF SortKey
<1>8. CASE t.sort = "distance_to_route"
  BY <1>4, <1>8 DEF SortKey
<1>9. CASE t.sort = "effective_saving"
  BY <1>5, <1>9 DEF SortKey
<1> QED BY <1>2, <1>6, <1>7, <1>8, <1>9

IsRanked(ranked, t, reference, p, r) ==
  /\ ranked \in Seq(RouteItem)
  /\ \A x : x \in Range(ranked) <=>
              \E i \in DOMAIN p : r[i] # Absent /\ x = ItemAt(t, reference, p, i, r[i])

LEMMA RankedAre ==
  ASSUME RoutePlanningAssumption, NEW t \in TripType, NEW reference \in Nat,
         NEW p \in Seq(RouteRow), p = pool,
         NEW r \in [DOMAIN p -> Nat \cup {Absent}], r = results
  PROVE  IsRanked(RankedItems(t, reference), t, reference, p, r)
<1> DEFINE n == Len(p)
           A == {i \in DOMAIN p : r[i] # Absent}
           all == [i \in DOMAIN p |-> i]
           answered == Keep(all, A)
           item(i) == ItemAt(t, reference, p, i, r[i])
           ranked == [k \in DOMAIN answered |-> item(answered[k])]
<1>1. n \in Nat /\ DOMAIN p = 1..n
  OBVIOUS
<1>2. all \in Seq(1..n)
  BY <1>1
<1>3. Range(all) = 1..n
  BY <1>1 DEF Range
<1> HIDE DEF all
<1>4. answered \in Seq(1..n)
  <2> HIDE DEF A, n
  <2> QED BY <1>2, KeepProperties
<1>5. Range(answered) = A
  <2>1. Range(answered) = Range(all) \cap A
    <3> HIDE DEF A, n
    <3> QED BY <1>2, KeepProperties
  <2> QED BY <1>1, <1>3, <2>1
<1> HIDE DEF answered
<1>6. \A i \in A : item(i) \in RouteItem
  <2> SUFFICES ASSUME NEW i \in A PROVE item(i) \in RouteItem
    OBVIOUS
  <2>1. r[i] \in Nat
    OBVIOUS
  <2>2. p[i] \in RouteRow
    BY <1>1
  <2>3. p[i].off \in Nat /\ p[i].price \in Nat /\ p[i].id \in Stop
    BY <2>2, RouteRowFields
  <2>4. EffectiveSaving(t, reference, p[i].price, r[i]) \in Int
    BY <2>1, <2>3, SavingIsInt
  <2> QED BY <2>1, <2>3, <2>4 DEF RouteItem, ItemAt
<1>7. DOMAIN answered = 1..Len(answered) /\ Len(answered) \in Nat
  BY <1>4
<1>8. \A k \in DOMAIN answered : answered[k] \in A
  BY <1>5 DEF Range
<1> HIDE DEF A
<1>9. ranked \in Seq(RouteItem)
  <2> HIDE DEF item
  <2>1. \A k \in 1..Len(answered) : item(answered[k]) \in RouteItem
    BY <1>6, <1>7, <1>8
  <2> QED BY <1>7, <2>1
<1>10. \A x : x \in Range(ranked) <=> \E i \in A : x = item(i)
  <2> HIDE DEF item
  <2>1. \A x : x \in Range(ranked) <=> \E k \in DOMAIN answered : x = item(answered[k])
    BY DEF Range
  <2> QED BY <1>5, <1>8, <2>1 DEF Range
<1>11. RankedItems(t, reference) = ranked
  BY DEF RankedItems, ranked, item, answered, A, all, ItemAt
<1> HIDE DEF ranked
<1>12. \A x : x \in Range(ranked) <=> \E i \in DOMAIN p : r[i] # Absent /\ x = item(i)
  <2> HIDE DEF item
  <2> QED BY <1>10 DEF A
<1> QED BY <1>9, <1>11, <1>12 DEF IsRanked

LEMMA PlanIs ==
  ASSUME RoutePlanningAssumption, NEW t \in TripType, NEW reference,
         NEW p, NEW r, NEW len, NEW bas,
         \A i \in DOMAIN p : r[i] \in {Absent, DetourOf(p, i, len, bas)},
         NEW ranked, IsRanked(ranked, t, reference, p, r)
  PROVE  LET items == First(SortBy(ranked, [i \in Range(ranked) |-> SortKey(t.sort, i)]), t.limit)
         IN  items \in Seq(RouteItem) /\ IsPlan(items, t, reference, p, r, len, bas)
<1> DEFINE key == [i \in Range(ranked) |-> SortKey(t.sort, i)]
           n == IF t.sort = "effective_saving" THEN 3 ELSE 2
           sorted == SortBy(ranked, key)
           items == First(sorted, t.limit)
           answered == {i \in DOMAIN p : r[i] # Absent}
           item(i) == ItemAt(t, reference, p, i, DetourOf(p, i, len, bas))
<1>1. t.limit \in Nat
  BY DEF TripType
<1>2. ranked \in Seq(RouteItem) /\ \A x \in Range(ranked) : x \in RouteItem
  BY DEF IsRanked, Range
<1>3. \A x : x \in Range(ranked) <=> \E i \in answered : x = item(i)
  BY DEF IsRanked
<1>4. \A x \in Range(ranked) : key[x] = SortKey(t.sort, x)
  OBVIOUS
<1>5. n \in Nat
  OBVIOUS
<1> HIDE DEF key
<1>6. IsKeyOf(key, Range(ranked), n)
  BY <1>2, <1>4, <1>5, SortKeysAre DEF IsKeyOf
<1> HIDE DEF n
<1>7. sorted \in Seq(RouteItem)
  BY <1>2, <1>6, SortProperties
<1>8. Range(sorted) = Range(ranked)
  BY <1>2, <1>6, SortProperties
<1>9. Sorted(sorted, key)
  BY <1>2, <1>6, SortProperties
<1> HIDE DEF sorted
<1>10. /\ items \in Seq(RouteItem) /\ Len(items) = Least(t.limit, Len(sorted))
       /\ \A i \in 1..Len(items) : i \in 1..Len(sorted) /\ items[i] = sorted[i]
  BY <1>1, <1>7, FirstProperties
<1>11. Range(items) \subseteq Range(sorted)
  BY <1>1, <1>7, FirstRange
<1> HIDE DEF items
<1>12. Len(items) \in Nat /\ Len(sorted) \in Nat /\ DOMAIN items = 1..Len(items)
       /\ DOMAIN sorted = 1..Len(sorted)
  BY <1>7, <1>10
<1> DEFINE left == {item(i) : i \in answered} \ Range(items)
<1>13. Range(items) \subseteq {item(i) : i \in answered}
  BY <1>3, <1>8, <1>11
<1>14. ASSUME NEW x \in left
       PROVE  /\ Len(items) = t.limit
              /\ \A k \in DOMAIN items : ~Precedes(SortKey(t.sort, x), SortKey(t.sort, items[k]))
  <2>1. x \in Range(sorted) /\ x \notin Range(items)
    BY <1>3, <1>8
  <2>2. PICK l \in 1..Len(sorted) : x = sorted[l]
    BY <1>12, <2>1 DEF Range
  <2>3. l > Len(items)
    <3> SUFFICES ASSUME l \in 1..Len(items) PROVE FALSE
      BY <1>12
    <3>1. items[l] = x
      BY <1>10, <2>2
    <3> QED BY <1>12, <2>1, <3>1 DEF Range
  <2>4. Len(items) = t.limit
    BY <1>1, <1>10, <1>12, <2>3 DEF Least
  <2>5. ASSUME NEW k \in DOMAIN items
        PROVE  ~Precedes(SortKey(t.sort, x), SortKey(t.sort, items[k]))
    <3>1. k \in 1..Len(sorted) /\ items[k] = sorted[k] /\ k < l
      BY <1>10, <1>12, <2>3
    <3>2. ~Precedes(key[sorted[l]], key[sorted[k]])
      BY <1>9, <1>12, <3>1 DEF Sorted
    <3>3. sorted[l] \in Range(ranked) /\ sorted[k] \in Range(ranked)
      BY <1>8, <1>12, <3>1 DEF Range
    <3> QED BY <1>4, <2>2, <3>1, <3>2, <3>3
  <2> QED BY <2>4, <2>5
<1>15. left # {} => Len(items) = t.limit
  <2> HIDE DEF left
  <2> QED BY <1>14
<1>16. \A x \in left : \A k \in DOMAIN items :
         ~Precedes(SortKey(t.sort, x), SortKey(t.sort, items[k]))
  <2> HIDE DEF left
  <2> QED BY <1>14
<1>17. IsPlan(items, t, reference, p, r, len, bas)
  BY <1>13, <1>15, <1>16 DEF IsPlan
<1> QED BY <1>10, <1>17 DEF items, sorted, key

-----------------------------------------------------------------------------
(* The inductive invariant of the planner.                                 *)

PlanType == [status : {0, 200, 400, 422, 500, 502, 503, 504},
             reference : {Absent} \cup Nat, items : Seq(RouteItem)]

RouteTypes ==
  /\ trip \in Trips \cup {Absent}
  /\ stage \in {"idle", "base", "corridor", "detours", "done"}
  /\ routeCache \in Lengths \cup {Absent} /\ base \in Lengths \cup {Absent} /\ length \in Lengths
  /\ IsCorridor(corridor) /\ IsShortlist(pool, corridor)
  /\ nextIndex \in 1..(Len(pool) + 1) /\ current \in [Worker -> 0..Len(pool)]
  /\ results \in [DOMAIN pool -> Nat \cup {Absent}]
  /\ plan \in PlanType

(* Nothing was looked for yet.                                             *)
Untouched ==
  /\ corridor = <<>> /\ pool = <<>> /\ results = <<>> /\ nextIndex = 1
  /\ plan.reference = Absent

(* The detours that are known are those of the request's direct route;     *)
(* workers are busy only while detours are computed; a request of the      *)
(* route alone touches nothing.                                            *)
RouteInv ==
  /\ RouteTypes
  /\ \A i \in DOMAIN pool : results[i] \in {Absent, DetourOf(pool, i, length, base)}
  /\ stage # "idle" => trip \in Trips
  /\ stage \in {"idle", "base", "corridor"} => Untouched
  /\ trip # Absent /\ trip.kind = "route" => Untouched
  /\ stage # "detours" => current = [w \in Worker |-> 0]
  /\ stage = "corridor" => base \in Lengths /\ trip.kind # "route"
  /\ stage = "detours" => plan.reference \in Nat /\ base \in Lengths
  /\ Planned /\ plan.reference # Absent =>
       IsPlan(plan.items, trip, plan.reference, pool, results, length, base)

LEMMA NoPlanWith ==
  ASSUME NEW n \in {0, 200, 400, 422, 500, 502, 503, 504}
  PROVE  /\ [NoPlan EXCEPT !.status = n] \in PlanType
         /\ [NoPlan EXCEPT !.status = n].status = n
         /\ [NoPlan EXCEPT !.status = n].reference = Absent
         /\ NoPlan \in PlanType /\ NoPlan.reference = Absent /\ NoPlan.status = 0
<1> DEFINE with(m) == [status |-> m, reference |-> Absent, items |-> <<>>]
<1>1. [NoPlan EXCEPT !.status = n] = with(n) /\ NoPlan = with(0)
  BY DEF NoPlan
<1>2. \A m : with(m).status = m /\ with(m).reference = Absent
  OBVIOUS
<1>3. ASSUME NEW m \in {0, 200, 400, 422, 500, 502, 503, 504} PROVE with(m) \in PlanType
  <2>1. <<>> \in Seq(RouteItem)
    OBVIOUS
  <2> QED BY <2>1 DEF PlanType
<1>4. 0 \in {0, 200, 400, 422, 500, 502, 503, 504}
  OBVIOUS
<1> HIDE DEF with
<1> QED BY <1>1, <1>2, <1>3, <1>4

LEMMA StatusesAre ==
  ASSUME NEW r
  PROVE  StatusOf(r) \in {400, 422, 502, 503, 504}
BY DEF StatusOf

LEMMA NothingIsShortlisted ==
  ASSUME RoutePlanningAssumption
  PROVE  IsCorridor(<<>>) /\ IsShortlist(<<>>, <<>>)
<1>1. /\ <<>> \in Seq(RouteRow) /\ Len(<<>>) = 0
      /\ Distinct(<<>>) /\ Range(<<>>) = {}
  BY DEF Distinct, Range
<1>2. 0 <= CORRIDOR_CANDIDATE_POOL /\ 0 <= DETOUR_CANDIDATE_COUNT
  BY DEF RoutePlanningAssumption
<1>3. \A r, q \in Range(<<>>) : r.id = q.id => r = q
  BY <1>1
<1> QED BY <1>1, <1>2, <1>3 DEF IsCorridor, IsShortlist

LEMMA RouteInitInv ==
  ASSUME RoutePlanningAssumption, RouteInit
  PROVE  RouteInv
<1>1. RouteTypes
  <2>1. current \in [Worker -> 0..Len(pool)] /\ nextIndex \in 1..(Len(pool) + 1)
    BY DEF RouteInit
  <2>2. results \in [DOMAIN pool -> Nat \cup {Absent}]
    BY DEF RouteInit
  <2>3. IsCorridor(corridor) /\ IsShortlist(pool, corridor)
    BY NothingIsShortlisted DEF RouteInit
  <2>4. plan \in PlanType
    BY NoPlanWith DEF RouteInit
  <2> QED BY <2>1, <2>2, <2>3, <2>4 DEF RouteInit, RouteTypes
<1>2. Untouched
  BY NoPlanWith DEF RouteInit, Untouched
<1>3. pool = <<>> /\ stage = "idle"
  BY DEF RouteInit
<1>4. DOMAIN pool = {}
  BY <1>3
<1>5. stage # "detours" => current = [w \in Worker |-> 0]
  BY DEF RouteInit
<1> QED BY <1>1, <1>2, <1>3, <1>4, <1>5 DEF RouteInv, Planned

LEMMA RouteInvSuffices ==
  ASSUME RoutePlanningAssumption, RouteInv
  PROVE  RouteTypeOK /\ PlanIsWhatWasAnswered /\ ShortlistKeepsExtremes
<1>1. RouteTypeOK
  BY DEF RouteTypeOK, RouteInv, RouteTypes, IsCorridor, IsShortlist, PlanType
<1>2. PlanIsWhatWasAnswered
  BY PlanMeans DEF RouteInv
<1>3. ShortlistKeepsExtremes
  <2> DEFINE ids == [i \in DOMAIN pool |-> pool[i].id]
  <2>1. /\ pool \in Seq(RouteRow) /\ Distinct(pool) /\ Range(pool) \subseteq Range(corridor)
        /\ \A r, q \in Range(corridor) : r.id = q.id => r = q
        /\ corridor # <<>> => \E i \in DOMAIN pool : \A r \in Range(corridor) : pool[i].price <= r.price
        /\ corridor # <<>> => \E i \in DOMAIN pool : \A r \in Range(corridor) : pool[i].off <= r.off
    BY DEF RouteInv, RouteTypes, IsShortlist, IsCorridor
  <2>2. ids \in Seq(Stop) /\ Len(ids) = Len(pool)
    <3>1. DOMAIN pool = 1..Len(pool) /\ Len(pool) \in Nat
      BY <2>1
    <3>2. \A i \in 1..Len(pool) : pool[i].id \in Stop
      BY <2>1, RouteRowFields
    <3> QED BY <3>1, <3>2
  <2>3. Distinct(ids)
    <3> SUFFICES ASSUME NEW i \in DOMAIN pool, NEW j \in DOMAIN pool, pool[i].id = pool[j].id
                 PROVE  i = j
      BY DEF Distinct
    <3>1. pool[i] \in Range(corridor) /\ pool[j] \in Range(corridor)
      BY <2>1 DEF Range
    <3>2. pool[i] = pool[j]
      BY <2>1, <3>1
    <3> QED BY <2>1, <3>2 DEF Distinct
  <2>4. Range(ids) = {r.id : r \in Range(pool)}
    BY DEF Range
  <2> HIDE DEF ids
  <2>5. Cardinality({r.id : r \in Range(pool)}) = Len(pool)
    BY <2>2, <2>3, <2>4, DistinctCount
  <2> QED BY <2>1, <2>5 DEF ShortlistKeepsExtremes
<1> QED BY <1>1, <1>2, <1>3

-----------------------------------------------------------------------------
(* What the planner does keeps it.                                         *)

LEMMA RoutePlanInv ==
  ASSUME RouteInv, NEW t \in Trips, Plan(t)
  PROVE  RouteInv'
<1>1. /\ stage = "idle" /\ trip' = t /\ stage' = "base"
      /\ UNCHANGED <<length, routeCache, base, corridor, pool, nextIndex, current, results, plan>>
  BY DEF Plan
<1>2. RouteTypes'
  BY <1>1 DEF RouteInv, RouteTypes
<1>3. Untouched'
  BY <1>1 DEF RouteInv, Untouched
<1>4. current' = [w \in Worker |-> 0]
  BY <1>1 DEF RouteInv
<1>5. \A i \in DOMAIN pool' : results'[i] \in {Absent, DetourOf(pool', i, length', base')}
  BY <1>1 DEF RouteInv
<1> QED BY <1>1, <1>2, <1>3, <1>4, <1>5 DEF RouteInv, Planned

(* A request fails                                                         *)
LEMMA RouteFailInv ==
  ASSUME RouteInv, stage \in {"base", "corridor"},
         NEW n \in {0, 400, 422, 500, 502, 503, 504}, Fail(n),
         UNCHANGED <<trip, length, routeCache, base, corridor, pool, nextIndex, current, results>>
  PROVE  RouteInv'
<1>1. plan' = [NoPlan EXCEPT !.status = n] /\ stage' = "done"
  BY DEF Fail
<1>2. plan' \in PlanType /\ plan'.status = n /\ plan'.reference = Absent
  <2>1. n \in {0, 200, 400, 422, 500, 502, 503, 504}
    OBVIOUS
  <2> QED BY <1>1, <2>1, NoPlanWith
<1>3. RouteTypes'
  BY <1>1, <1>2 DEF RouteInv, RouteTypes
<1>4. Untouched'
  BY <1>2 DEF RouteInv, Untouched
<1>5. current' = [w \in Worker |-> 0] /\ trip' \in Trips
  BY DEF RouteInv
<1>6. \A i \in DOMAIN pool' : results'[i] \in {Absent, DetourOf(pool', i, length', base')}
  BY DEF RouteInv
<1>7. ~Planned'
  BY <1>2 DEF Planned
<1> QED BY <1>1, <1>3, <1>4, <1>5, <1>6, <1>7 DEF RouteInv

LEMMA RouteBasedInv ==
  ASSUME RouteInv, stage = "base", NEW metres \in Lengths, Based(metres),
         UNCHANGED <<trip, length, corridor, pool, nextIndex, current, results>>,
         routeCache' \in Lengths \cup {Absent}
  PROVE  RouteInv'
<1>1. /\ base' = metres
      /\ \/ trip.kind = "route" /\ stage' = "done" /\ plan' = [NoPlan EXCEPT !.status = 200]
         \/ trip.kind # "route" /\ stage' = "corridor" /\ plan' = plan
  BY DEF Based
<1>2. plan' \in PlanType /\ plan'.reference = Absent
  <2>1. plan \in PlanType /\ plan.reference = Absent
    BY DEF RouteInv, RouteTypes, Untouched
  <2>2. CASE plan' = [NoPlan EXCEPT !.status = 200]
    BY <2>2, NoPlanWith
  <2> QED BY <1>1, <2>1, <2>2
<1>3. RouteTypes'
  BY <1>1, <1>2 DEF RouteInv, RouteTypes
<1>4. Untouched'
  BY <1>2 DEF RouteInv, Untouched
<1>5. current' = [w \in Worker |-> 0] /\ trip' \in Trips
  BY DEF RouteInv
<1>6. \A i \in DOMAIN pool' : results'[i] \in {Absent, DetourOf(pool', i, length', base')}
  <2>1. DOMAIN pool' = {}
    BY <1>4 DEF Untouched
  <2> QED BY <2>1
<1>7. stage' \in {"done", "corridor"} /\ base' \in Lengths
      /\ (stage' = "corridor" => trip'.kind # "route")
  BY <1>1
<1> QED BY <1>2, <1>3, <1>4, <1>5, <1>6, <1>7 DEF RouteInv

LEMMA RouteBaseInv ==
  ASSUME RouteInv, RouteFromCache \/ RouteFromProvider
  PROVE  RouteInv'
<1>1. routeCache \in Lengths \cup {Absent} /\ length \in Lengths
  BY DEF RouteInv, RouteTypes
<1>2. CASE RouteFromCache
  <2>1. /\ stage = "base" /\ routeCache # Absent /\ Based(routeCache)
        /\ UNCHANGED <<trip, length, routeCache, corridor, pool, nextIndex, current, results>>
    BY <1>2 DEF RouteFromCache
  <2> QED BY <1>1, <2>1, RouteBasedInv
<1>3. CASE RouteFromProvider
  <2>1. /\ stage = "base"
        /\ UNCHANGED <<trip, length, corridor, pool, nextIndex, current, results>>
    BY <1>3 DEF RouteFromProvider
  <2>2. CASE Based(length) /\ routeCache' \in {length, routeCache}
    BY <1>1, <2>1, <2>2, RouteBasedInv
  <2>3. ASSUME NEW r \in Refusals, Fail(StatusOf(r)), UNCHANGED <<base, routeCache>>
        PROVE  RouteInv'
    <3>1. StatusOf(r) \in {0, 400, 422, 500, 502, 503, 504}
      BY StatusesAre
    <3> QED BY <2>1, <2>3, <3>1, RouteFailInv
  <2> QED BY <1>3, <2>2, <2>3 DEF RouteFromProvider
<1> QED BY <1>2, <1>3

LEMMA FindCorridorInv ==
  ASSUME RoutePlanningAssumption, RouteInv, FindCorridor
  PROVE  RouteInv'
<1>1. stage = "corridor" /\ UNCHANGED <<trip, length, routeCache, base, nextIndex, current>>
  BY DEF FindCorridor
<1>2. /\ trip \in Trips /\ trip.kind # "route" /\ base \in Lengths
      /\ current = [w \in Worker |-> 0] /\ Untouched
  BY <1>1 DEF RouteInv
<1>3. /\ corridor = <<>> /\ pool = <<>> /\ results = <<>> /\ nextIndex = 1
      /\ plan.reference = Absent /\ plan \in PlanType
  BY <1>2 DEF Untouched, RouteInv, RouteTypes
<1>4. Absent \notin Nat /\ trip.reference \in {Absent} \cup Nat
  BY <1>2 DEF RoutePlanningAssumption, TripType
<1> DEFINE reference(found) ==
             IF trip.reference # Absent THEN trip.reference
             ELSE IF found = <<>> THEN Absent ELSE MedianPrice(found)
<1>5. ASSUME NEW market \in Markets, NEW found, found = FindCandidates(trip, market),
             corridor' = found, reference(found) = Absent,
             plan' = [NoPlan EXCEPT !.status = 200], stage' = "done",
             UNCHANGED <<pool, results>>
      PROVE  RouteInv'
  <2>1. found = <<>>
    <3> SUFFICES ASSUME found # <<>> PROVE FALSE
      OBVIOUS
    <3>1. IsCorridor(found)
      BY <1>2, <1>5, CorridorIs
    <3>2. MedianPrice(found) \in Nat
      BY <3>1, MedianIsNat
    <3> QED BY <1>4, <1>5, <3>2
  <2>2. plan' \in PlanType /\ plan'.reference = Absent
    BY <1>5, NoPlanWith
  <2>3. UNCHANGED <<corridor, pool, results, nextIndex, current, trip, base, length, routeCache>>
    BY <1>1, <1>3, <1>5, <2>1
  <2>4. Untouched'
    BY <1>3, <2>2, <2>3 DEF Untouched
  <2>5. RouteTypes'
    BY <1>5, <2>2, <2>3 DEF RouteInv, RouteTypes
  <2>6. DOMAIN pool' = {}
    BY <1>3, <1>5
  <2>7. \A i \in DOMAIN pool' : results'[i] \in {Absent, DetourOf(pool', i, length', base')}
    BY <2>6
  <2> QED BY <1>2, <1>5, <2>2, <2>3, <2>4, <2>5, <2>7 DEF RouteInv
<1>6. ASSUME NEW market \in Markets, NEW found, found = FindCandidates(trip, market),
             corridor' = found, NEW price, price = reference(found), price # Absent,
             pool' = SelectDetourCandidates(found, DETOUR_CANDIDATE_COUNT),
             results' = [i \in DOMAIN pool' |-> Absent],
             plan' = [plan EXCEPT !.reference = price], stage' = "detours"
      PROVE  RouteInv'
  <2>1. IsCorridor(found)
    BY <1>2, <1>6, CorridorIs
  <2>2. price \in Nat
    <3>1. CASE trip.reference # Absent
      BY <1>4, <1>6, <3>1
    <3>2. CASE trip.reference = Absent
      <4>1. found # <<>> /\ price = MedianPrice(found)
        BY <1>6, <3>2
      <4> QED BY <2>1, <4>1, MedianIsNat
    <3> QED BY <3>1, <3>2
  <2>3. IsShortlist(pool', found)
    BY <1>6, <2>1, ShortlistIs
  <2>4. pool' \in Seq(RouteRow)
    BY <2>3 DEF IsShortlist
  <2>5. Len(pool') \in Nat
    BY <2>4
  <2>6. plan' \in PlanType /\ plan'.reference = price
    <3>1. plan'.status = plan.status /\ plan'.items = plan.items /\ plan'.reference = price
          /\ plan' = [status |-> plan.status, reference |-> price, items |-> plan.items]
      BY <1>3, <1>6 DEF PlanType
    <3>2. plan.status \in {0, 200, 400, 422, 500, 502, 503, 504} /\ plan.items \in Seq(RouteItem)
      BY <1>3 DEF PlanType
    <3> QED BY <2>2, <3>1, <3>2 DEF PlanType
  <2>7. RouteTypes'
    <3>1. nextIndex' \in 1..(Len(pool') + 1)
      BY <1>1, <1>3, <2>5
    <3>2. current' \in [Worker -> 0..Len(pool')]
      BY <1>1, <1>2, <2>5
    <3>3. results' \in [DOMAIN pool' -> Nat \cup {Absent}]
      BY <1>6
    <3>4. trip' \in Trips \cup {Absent} /\ routeCache' \in Lengths \cup {Absent}
          /\ base' \in Lengths \cup {Absent} /\ length' \in Lengths
      BY <1>1 DEF RouteInv, RouteTypes
    <3>5. IsCorridor(corridor') /\ IsShortlist(pool', corridor')
      BY <1>6, <2>1, <2>3
    <3> QED BY <1>6, <2>6, <3>1, <3>2, <3>3, <3>4, <3>5 DEF RouteTypes
  <2>8. \A i \in DOMAIN pool' : results'[i] \in {Absent, DetourOf(pool', i, length', base')}
    BY <1>6
  <2> QED BY <1>1, <1>2, <1>6, <2>2, <2>6, <2>7, <2>8 DEF RouteInv, Planned
<1>7. CASE Fail(500) /\ UNCHANGED <<corridor, pool, results>>
  BY <1>1, <1>7, RouteFailInv
<1> HIDE DEF reference
<1>8. \/ \E market \in Markets : \E found :
           /\ found = FindCandidates(trip, market) /\ corridor' = found
           /\ \/ /\ reference(found) = Absent
                 /\ plan' = [NoPlan EXCEPT !.status = 200] /\ stage' = "done"
                 /\ UNCHANGED <<pool, results>>
              \/ /\ reference(found) # Absent
                 /\ pool' = SelectDetourCandidates(found, DETOUR_CANDIDATE_COUNT)
                 /\ results' = [i \in DOMAIN pool' |-> Absent]
                 /\ plan' = [plan EXCEPT !.reference = reference(found)]
                 /\ stage' = "detours"
      \/ Fail(500) /\ UNCHANGED <<corridor, pool, results>>
  BY DEF FindCorridor, reference
<1> QED BY <1>5, <1>6, <1>7, <1>8

(* Nothing moves but what a worker takes and what it is answered.          *)
LEMMA WorkersInv ==
  ASSUME RouteInv, stage = "detours",
         UNCHANGED <<trip, stage, length, routeCache, base, corridor, pool, plan>>,
         nextIndex' \in 1..(Len(pool) + 1), current' \in [Worker -> 0..Len(pool)],
         results' \in [DOMAIN pool -> Nat \cup {Absent}],
         \A i \in DOMAIN pool : results'[i] \in {Absent, DetourOf(pool, i, length, base)}
  PROVE  RouteInv'
<1>1. plan.reference \in Nat /\ plan.reference # Absent /\ base \in Lengths /\ trip \in Trips
  BY RoutePlanningAssumption DEF RouteInv
<1>2. ~(trip # Absent /\ trip.kind = "route")
  BY <1>1 DEF RouteInv, Untouched
<1>3. RouteTypes'
  BY DEF RouteInv, RouteTypes
<1> QED BY <1>1, <1>2, <1>3 DEF RouteInv, Planned

LEMMA TakeInv ==
  ASSUME RouteInv, NEW w \in Worker, Take(w)
  PROVE  RouteInv'
<1>1. /\ stage = "detours" /\ nextIndex <= Len(pool)
      /\ current' = [current EXCEPT ![w] = nextIndex]
      /\ nextIndex' = nextIndex + 1
      /\ UNCHANGED <<trip, stage, length, routeCache, base, corridor, pool, results, plan>>
  BY DEF Take
<1>2. /\ nextIndex \in 1..(Len(pool) + 1) /\ current \in [Worker -> 0..Len(pool)]
      /\ pool \in Seq(RouteRow)
      /\ results \in [DOMAIN pool -> Nat \cup {Absent}]
      /\ \A i \in DOMAIN pool : results[i] \in {Absent, DetourOf(pool, i, length, base)}
  BY DEF RouteInv, RouteTypes, IsShortlist
<1>3. Len(pool) \in Nat
  BY <1>2
<1>4. nextIndex \in 0..Len(pool) /\ nextIndex' \in 1..(Len(pool) + 1)
  BY <1>1, <1>2, <1>3
<1>5. current' \in [Worker -> 0..Len(pool)]
  BY <1>1, <1>2, <1>4
<1> QED BY <1>1, <1>2, <1>4, <1>5, WorkersInv

LEMMA ComputeDetourInv ==
  ASSUME RouteInv, NEW w \in Worker, ComputeDetour(w)
  PROVE  RouteInv'
<1>1. /\ current[w] # 0
      /\ \/ results' = [results EXCEPT ![current[w]] =
                          Most(0, length + Extra[pool[current[w]].id] - base)]
         \/ results' = [results EXCEPT ![current[w]] = Absent]
      /\ current' = [current EXCEPT ![w] = 0]
      /\ UNCHANGED <<trip, stage, length, routeCache, base, corridor, pool, nextIndex, plan>>
  BY DEF ComputeDetour
<1>2. /\ nextIndex \in 1..(Len(pool) + 1) /\ current \in [Worker -> 0..Len(pool)]
      /\ pool \in Seq(RouteRow) /\ length \in Lengths
      /\ results \in [DOMAIN pool -> Nat \cup {Absent}]
      /\ \A i \in DOMAIN pool : results[i] \in {Absent, DetourOf(pool, i, length, base)}
  BY DEF RouteInv, RouteTypes, IsShortlist
<1>3. stage = "detours"
  BY <1>1 DEF RouteInv
<1>4. base \in Lengths
  BY <1>3 DEF RouteInv
<1>5. length \in Int /\ base \in Int /\ \A s \in Stop : Extra[s] \in Int
  BY <1>2, <1>4, RoutePlanningAssumption DEF RoutePlanningAssumption
<1> DEFINE i == current[w]
<1>6. i \in DOMAIN pool /\ Len(pool) \in Nat
  BY <1>1, <1>2
<1>7. current' \in [Worker -> 0..Len(pool)]
  BY <1>1, <1>2, <1>6
<1>8. DetourOf(pool, i, length, base) \in Nat
  <2>1. pool[i].id \in Stop
    <3>1. pool[i] \in RouteRow
      BY <1>2, <1>6
    <3> QED BY <3>1, RouteRowFields, RoutePlanningAssumption
  <2>2. PICK more \in Int : more = Extra[pool[i].id]
    BY <1>5, <2>1
  <2>3. length + more - base \in Int
    BY <1>5
  <2> QED BY <2>2, <2>3 DEF DetourOf, Most
<1>9. \/ results' = [results EXCEPT ![i] = DetourOf(pool, i, length, base)]
      \/ results' = [results EXCEPT ![i] = Absent]
  BY <1>1 DEF DetourOf
<1> HIDE DEF i
<1>10. results' \in [DOMAIN pool -> Nat \cup {Absent}]
  BY <1>2, <1>8, <1>9
<1>11. \A j \in DOMAIN pool : results'[j] \in {Absent, DetourOf(pool, j, length, base)}
  BY <1>2, <1>9
<1> QED BY <1>1, <1>2, <1>3, <1>7, <1>10, <1>11, WorkersInv

LEMMA RankStationsInv ==
  ASSUME RoutePlanningAssumption, RouteInv, RankStations
  PROVE  RouteInv'
<1> DEFINE reference == plan.reference
           ranked == RankedItems(trip, reference)
           items == First(SortBy(ranked, [i \in Range(ranked) |-> SortKey(trip.sort, i)]), trip.limit)
<1>1. /\ stage = "detours" /\ stage' = "done" /\ \A w \in Worker : current[w] = 0
      /\ plan' = [plan EXCEPT !.status = 200, !.items = items]
      /\ UNCHANGED <<trip, length, routeCache, base, corridor, pool, nextIndex, current, results>>
  BY DEF RankStations
<1>2. /\ trip \in TripType /\ trip \in Trips /\ reference \in Nat /\ plan \in PlanType
      /\ pool \in Seq(RouteRow)
      /\ results \in [DOMAIN pool -> Nat \cup {Absent}]
      /\ \A i \in DOMAIN pool : results[i] \in {Absent, DetourOf(pool, i, length, base)}
      /\ current \in [Worker -> 0..Len(pool)]
  BY <1>1 DEF RouteInv, RouteTypes, IsShortlist, RoutePlanningAssumption
<1>3. IsRanked(ranked, trip, reference, pool, results)
  BY <1>2, RankedAre
<1> HIDE DEF ranked
<1>4. items \in Seq(RouteItem) /\ IsPlan(items, trip, reference, pool, results, length, base)
  BY <1>2, <1>3, PlanIs
<1> HIDE DEF items
<1>5. plan' = [status |-> 200, reference |-> reference, items |-> items]
  BY <1>1, <1>2 DEF PlanType
<1>6. plan' \in PlanType /\ plan'.reference = reference /\ plan'.items = items
  <2>1. reference \in {Absent} \cup Nat
    BY <1>2
  <2> HIDE DEF reference
  <2> QED BY <1>4, <1>5, <2>1 DEF PlanType
<1>7. IsPlan(plan'.items, trip', plan'.reference, pool', results', length', base')
  BY <1>1, <1>4, <1>6
<1>8. RouteTypes'
  BY <1>1, <1>6 DEF RouteInv, RouteTypes
<1>9. current' = [w \in Worker |-> 0]
  BY <1>1, <1>2
<1>10. ~(trip # Absent /\ trip.kind = "route")
  BY <1>1, <1>2, RoutePlanningAssumption DEF RouteInv, Untouched
<1> QED BY <1>1, <1>2, <1>7, <1>8, <1>9, <1>10 DEF RouteInv

LEMMA RouteRestInv ==
  ASSUME RoutePlanningAssumption, RouteInv, Reroute \/ NextTrip \/ UNCHANGED routeVars
  PROVE  RouteInv'
<1>1. CASE Reroute
  <2>1. /\ stage = "idle" /\ length' \in Lengths /\ routeCache' \in {routeCache, Absent}
        /\ UNCHANGED <<trip, stage, base, corridor, pool, nextIndex, current, results, plan>>
    BY <1>1 DEF Reroute
  <2>2. RouteTypes'
    BY <2>1 DEF RouteInv, RouteTypes
  <2>3. Untouched'
    BY <2>1 DEF RouteInv, Untouched
  <2>4. DOMAIN pool' = {}
    BY <2>3 DEF Untouched
  <2> QED BY <2>1, <2>2, <2>3, <2>4 DEF RouteInv, Planned
<1>2. CASE NextTrip
  <2>1. /\ stage = "done" /\ trip.kind = "route" /\ trip \in Trips
        /\ stage' = "idle" /\ trip' = Absent /\ base' = Absent /\ plan' = NoPlan
        /\ UNCHANGED <<length, routeCache, corridor, pool, nextIndex, current, results>>
    BY <1>2 DEF NextTrip, RouteInv
  <2>2. plan' \in PlanType /\ plan'.reference = Absent
    BY <2>1, NoPlanWith
  <2>3. RouteTypes'
    BY <2>1, <2>2 DEF RouteInv, RouteTypes
  <2>4. Untouched'
    <3>1. trip # Absent
      BY <2>1 DEF RoutePlanningAssumption
    <3> QED BY <2>1, <2>2, <3>1 DEF RouteInv, Untouched
  <2>5. DOMAIN pool' = {} /\ current' = [w \in Worker |-> 0]
    BY <2>1, <2>4 DEF RouteInv, Untouched
  <2> QED BY <2>1, <2>3, <2>4, <2>5 DEF RouteInv, Planned
<1>3. CASE UNCHANGED routeVars
  BY <1>3 DEF routeVars, RouteInv, RouteTypes, Untouched, Planned
<1> QED BY <1>1, <1>2, <1>3

LEMMA RouteNextInv == RouteInv /\ [RouteNext]_routeVars => RouteInv'
<1> SUFFICES ASSUME RouteInv, [RouteNext]_routeVars PROVE RouteInv'
  OBVIOUS
<1>1. ASSUME NEW t \in Trips, Plan(t) PROVE RouteInv'
  BY <1>1, RoutePlanInv
<1>2. CASE RouteFromCache \/ RouteFromProvider
  BY <1>2, RouteBaseInv
<1>3. CASE FindCorridor
  BY <1>3, FindCorridorInv, RoutePlanningAssumption
<1>4. CASE RankStations
  BY <1>4, RankStationsInv, RoutePlanningAssumption
<1>5. ASSUME NEW w \in Worker, Take(w) \/ ComputeDetour(w) PROVE RouteInv'
  BY <1>5, TakeInv, ComputeDetourInv
<1>6. CASE Reroute \/ NextTrip \/ UNCHANGED routeVars
  BY <1>6, RouteRestInv, RoutePlanningAssumption
<1> QED BY <1>1, <1>2, <1>3, <1>4, <1>5, <1>6 DEF RouteNext, RouteStep

-----------------------------------------------------------------------------
(* The workers of mapWithConcurrency() share the shortlist.                *)

LEMMA NobodyTakesAtFirst == RoutePlanningAssumption /\ RouteInit => EachIsTakenOnce
<1> SUFFICES ASSUME RoutePlanningAssumption, RouteInit PROVE EachIsTakenOnce
  OBVIOUS
<1>1. stage = "idle" /\ pool = <<>> /\ nextIndex = 1 /\ current = [w \in Worker |-> 0]
  BY DEF RouteInit
<1> QED BY <1>1 DEF EachIsTakenOnce, Planned

(* Whoever takes a station takes one that nobody has or had.               *)
LEMMA TakeIsNew ==
  ASSUME RouteInv, EachIsTakenOnce, NEW w \in Worker, Take(w)
  PROVE  EachIsTakenOnce'
<1>1. /\ stage = "detours" /\ nextIndex <= Len(pool) /\ current[w] = 0
      /\ current' = [current EXCEPT ![w] = nextIndex]
      /\ nextIndex' = nextIndex + 1
      /\ UNCHANGED <<trip, stage, length, routeCache, base, corridor, pool, results, plan>>
  BY DEF Take
<1>2. /\ nextIndex \in 1..(Len(pool) + 1) /\ current \in [Worker -> 0..Len(pool)]
      /\ pool \in Seq(RouteRow)
  BY DEF RouteInv, RouteTypes, IsShortlist
<1>3. DOMAIN pool = 1..Len(pool) /\ Len(pool) \in Nat /\ nextIndex \in Nat \ {0}
  BY <1>2
<1>4. \A v \in Worker : /\ current'[v] = (IF v = w THEN nextIndex ELSE current[v])
                        /\ current[v] \in Nat /\ current[v] < nextIndex
  BY <1>1, <1>2, <1>3 DEF EachIsTakenOnce
<1>5. \A u, v \in Worker : u # v /\ current'[u] = current'[v] => current'[u] = 0
  BY <1>3, <1>4 DEF EachIsTakenOnce
<1>6. \A v \in Worker : current'[v] < nextIndex'
  BY <1>1, <1>3, <1>4
<1>7. ASSUME NEW i \in DOMAIN pool, results[i] # Absent
      PROVE  i < nextIndex' /\ \A v \in Worker : current'[v] # i
  <2>1. i < nextIndex /\ (\A v \in Worker : current[v] # i) /\ i \in Nat
    BY <1>3, <1>7 DEF EachIsTakenOnce
  <2> QED BY <1>1, <1>3, <1>4, <2>1
<1> QED BY <1>1, <1>5, <1>6, <1>7 DEF EachIsTakenOnce, Planned

(* What a worker is answered is of the station only it has.                *)
LEMMA ComputeDetourIsItsOwn ==
  ASSUME RouteInv, EachIsTakenOnce, NEW w \in Worker, ComputeDetour(w)
  PROVE  EachIsTakenOnce'
<1>1. /\ current[w] # 0
      /\ \E x : results' = [results EXCEPT ![current[w]] = x]
      /\ current' = [current EXCEPT ![w] = 0]
      /\ UNCHANGED <<trip, stage, length, routeCache, base, corridor, pool, nextIndex, plan>>
  BY DEF ComputeDetour
<1>2. /\ nextIndex \in 1..(Len(pool) + 1) /\ current \in [Worker -> 0..Len(pool)]
      /\ pool \in Seq(RouteRow) /\ DOMAIN results = DOMAIN pool
  BY DEF RouteInv, RouteTypes, IsShortlist
<1>3. DOMAIN pool = 1..Len(pool) /\ Len(pool) \in Nat /\ nextIndex \in Nat \ {0}
  BY <1>2
<1>4. stage = "detours"
  BY <1>1 DEF RouteInv
<1>5. \A v \in Worker : /\ current'[v] = (IF v = w THEN 0 ELSE current[v])
                        /\ current[v] \in Nat /\ current[v] < nextIndex
  BY <1>1, <1>2, <1>3 DEF EachIsTakenOnce
<1>6. \A u, v \in Worker : u # v /\ current'[u] = current'[v] => current'[u] = 0
  BY <1>5 DEF EachIsTakenOnce
<1>7. \A v \in Worker : current'[v] < nextIndex'
  BY <1>1, <1>3, <1>5
<1>8. ASSUME NEW i \in DOMAIN pool, results'[i] # Absent
      PROVE  i < nextIndex' /\ \A v \in Worker : current'[v] # i
  <2>1. i \in Nat \ {0}
    BY <1>3
  <2>2. CASE i = current[w]
    <3>1. i < nextIndex'
      BY <1>1, <1>5, <2>2
    <3>2. \A v \in Worker : v # w => current[v] # i
      BY <1>1, <2>2 DEF EachIsTakenOnce
    <3> QED BY <1>5, <2>1, <3>1, <3>2
  <2>3. CASE i # current[w]
    <3>1. results[i] # Absent
      BY <1>1, <1>2, <1>8, <2>3
    <3>2. i < nextIndex /\ \A v \in Worker : current[v] # i
      BY <3>1 DEF EachIsTakenOnce
    <3> QED BY <1>1, <1>5, <2>1, <3>2
  <2> QED BY <2>2, <2>3
<1> QED BY <1>1, <1>4, <1>6, <1>7, <1>8 DEF EachIsTakenOnce, Planned

LEMMA SharedNext == RouteInv /\ EachIsTakenOnce /\ [RouteNext]_routeVars => EachIsTakenOnce'
<1> SUFFICES ASSUME RouteInv, EachIsTakenOnce, [RouteNext]_routeVars PROVE EachIsTakenOnce'
  OBVIOUS
<1>1. ASSUME UNCHANGED <<pool, nextIndex, current, results>>, ~(Planned /\ plan.reference # Absent)'
      PROVE  EachIsTakenOnce'
  BY <1>1 DEF EachIsTakenOnce
<1>2. ASSUME NEW t \in Trips, Plan(t) PROVE EachIsTakenOnce'
  BY <1>1, <1>2 DEF Plan, Planned
<1>3. CASE RouteFromCache \/ RouteFromProvider
  <2>1. UNCHANGED <<pool, nextIndex, current, results>>
    BY <1>3 DEF RouteFromCache, RouteFromProvider
  <2>2. stage' = "done" => \E n : plan' = [NoPlan EXCEPT !.status = n]
    <3>1. ASSUME NEW metres, Based(metres), stage' = "done"
          PROVE  \E n : plan' = [NoPlan EXCEPT !.status = n]
      BY <3>1 DEF Based
    <3>2. ASSUME NEW n, Fail(n) PROVE plan' = [NoPlan EXCEPT !.status = n]
      BY <3>2 DEF Fail
    <3>3. (\E metres : Based(metres)) \/ (\E n : Fail(n))
      BY <1>3 DEF RouteFromCache, RouteFromProvider
    <3> QED BY <3>1, <3>2, <3>3
  <2>3. ASSUME NEW n, plan' = [NoPlan EXCEPT !.status = n] PROVE plan'.reference = Absent
    BY <2>3 DEF NoPlan
  <2> QED BY <1>1, <2>1, <2>2, <2>3 DEF Planned
<1>4. CASE FindCorridor
  <2>1. /\ pool = <<>> /\ nextIndex = 1 /\ current = [w \in Worker |-> 0]
        /\ UNCHANGED <<nextIndex, current>>
    BY <1>4 DEF FindCorridor, RouteInv, Untouched
  <2>2. CASE stage' = "detours"
    <3>1. results' = [i \in DOMAIN pool' |-> Absent]
      BY <1>4, <2>2 DEF FindCorridor, Fail
    <3> QED BY <2>1, <2>2, <3>1 DEF EachIsTakenOnce, Planned
  <2>3. CASE stage' # "detours"
    <3>1. UNCHANGED <<pool, results>>
      BY <1>4, <2>3 DEF FindCorridor
    <3>2. plan' = [NoPlan EXCEPT !.status = 200] \/ plan' = [NoPlan EXCEPT !.status = 500]
      BY <1>4, <2>3 DEF FindCorridor, Fail
    <3>3. plan'.reference = Absent
      BY <3>2 DEF NoPlan
    <3> QED BY <1>1, <2>1, <3>1, <3>3 DEF Planned
  <2> QED BY <2>2, <2>3
<1>5. CASE RankStations
  <2>1. /\ nextIndex > Len(pool) /\ \A w \in Worker : current[w] = 0
        /\ UNCHANGED <<pool, nextIndex, current, results>>
    BY <1>5 DEF RankStations
  <2>2. nextIndex \in 1..(Len(pool) + 1) /\ pool \in Seq(RouteRow)
    BY DEF RouteInv, RouteTypes, IsShortlist
  <2>3. nextIndex = Len(pool) + 1
    <3>1. Len(pool) \in Nat
      BY <2>2
    <3> QED BY <2>1, <2>2, <3>1
  <2> QED BY <2>1, <2>3 DEF EachIsTakenOnce
<1>6. ASSUME NEW w \in Worker, Take(w) \/ ComputeDetour(w) PROVE EachIsTakenOnce'
  BY <1>6, TakeIsNew, ComputeDetourIsItsOwn
<1>7. CASE Reroute \/ NextTrip
  <2>1. stage' # "done" /\ UNCHANGED <<pool, nextIndex, current, results>>
    BY <1>7 DEF Reroute, NextTrip
  <2> QED BY <1>1, <2>1 DEF Planned
<1>8. CASE UNCHANGED routeVars
  BY <1>8 DEF routeVars, EachIsTakenOnce, Planned
<1> QED BY <1>2, <1>3, <1>4, <1>5, <1>6, <1>7, <1>8 DEF RouteNext, RouteStep
=============================================================================
