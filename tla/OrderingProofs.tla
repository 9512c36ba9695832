---------------------------- MODULE OrderingProofs ----------------------------
(***************************************************************************)
(* Facts about filtering, sorting and adding up sequences of any length.   *)
(*                                                                         *)
(* They need induction.  The least-number principle, which follows from    *)
(* the library's theorem that the natural numbers are well founded, gives  *)
(* it for a set P of numbers; what holds of all numbers is proved by       *)
(* taking for P the set of the numbers it holds of.                        *)
(***************************************************************************)
EXTENDS Ordering, FiniteSetTheorems, SequenceTheorems, TLAPS

-----------------------------------------------------------------------------
(* Induction and recursion.                                                *)

LEMMA LeastNumber ==
  ASSUME NEW T, T \subseteq Nat, T # {}
  PROVE  \E m \in T : \A n \in T : m <= n
<1>1. PICK m \in T : \A n \in T : <<n, m>> \notin OpToRel(<, Nat)
  BY NatLessThanWellFounded, WFMin
<1>2. \A n \in T : ~(n < m)
  BY <1>1 DEF OpToRel
<1> QED BY <1>2

LEMMA InductionOnSet ==
  ASSUME NEW P, 0 \in P, \A n \in Nat : n \in P => n + 1 \in P
  PROVE  Nat \subseteq P
<1> SUFFICES ASSUME Nat \ P # {} PROVE FALSE
  OBVIOUS
<1>1. PICK m \in Nat \ P : \A n \in Nat \ P : m <= n
  BY LeastNumber
<1>2. m # 0
  OBVIOUS
<1>3. m - 1 \in Nat /\ m - 1 < m
  BY <1>2
<1>4. m - 1 \in P
  BY <1>1, <1>3
<1> QED BY <1>3, <1>4

(* Up to a bound                                                           *)
LEMMA InductionUpTo ==
  ASSUME NEW n \in Nat, NEW P, 0 \in P,
         \A i \in 1..n : i - 1 \in P => i \in P
  PROVE  0..n \subseteq P
<1> DEFINE Q == {i \in Nat : i \in P \/ i > n}
<1>1. 0 \in Q
  OBVIOUS
<1>2. \A i \in Nat : i \in Q => i + 1 \in Q
  <2> SUFFICES ASSUME NEW i \in Nat, i \in Q, i + 1 <= n PROVE i + 1 \in P
    OBVIOUS
  <2>1. i + 1 \in 1..n /\ (i + 1) - 1 = i /\ i \in P
    OBVIOUS
  <2> QED BY <2>1
<1>3. Nat \subseteq Q
  <2> HIDE DEF Q
  <2> QED BY <1>1, <1>2, InductionOnSet
<1> QED BY <1>3

(* A function that is given by its first value and by a step exists.       *)
IsRecursion(f, n, A, first, step) ==
  /\ f \in [0..n -> A]
  /\ f[0] = first
  /\ \A i \in 1..n : f[i] = step[<<f[i - 1], i>>]

LEMMA RecursionExists ==
  ASSUME NEW n \in Nat, NEW A, NEW first \in A, NEW step \in [A \X (1..n) -> A]
  PROVE  \E f : IsRecursion(f, n, A, first, step)
<1> DEFINE Upto(m, f) == f[0] = first /\ \A i \in 1..m : f[i] = step[<<f[i - 1], i>>]
           P == {m \in 0..n : \E f \in [0..m -> A] : Upto(m, f)}
<1>1. 0 \in P
  <2>1. [i \in 0..0 |-> first] \in [0..0 -> A] /\ Upto(0, [i \in 0..0 |-> first])
    OBVIOUS
  <2>2. \E f \in [0..0 -> A] : Upto(0, f)
    <3> HIDE DEF Upto
    <3> QED BY <2>1
  <2> QED BY <2>2
<1>2. ASSUME NEW m \in 1..n, m - 1 \in P PROVE m \in P
  <2>1. PICK f \in [0..(m - 1) -> A] : Upto(m - 1, f)
    BY <1>2
  <2> DEFINE g == [i \in 0..m |-> IF i = m THEN step[<<f[m - 1], m>>] ELSE f[i]]
  <2>2. f[m - 1] \in A /\ step[<<f[m - 1], m>>] \in A
    <3>1. m - 1 \in 0..(m - 1)
      OBVIOUS
    <3>2. f[m - 1] \in A
      BY <2>1, <3>1
    <3> QED BY <3>2
  <2>3. g \in [0..m -> A]
    BY <2>2
  <2>4. \A i \in 0..(m - 1) : g[i] = f[i]
    OBVIOUS
  <2>5. g[m] = step[<<g[m - 1], m>>]
    <3>1. m \in 0..m /\ m - 1 \in 0..(m - 1)
      OBVIOUS
    <3>2. g[m] = step[<<f[m - 1], m>>]
      BY <3>1
    <3>3. g[m - 1] = f[m - 1]
      BY <2>4, <3>1
    <3> HIDE DEF g
    <3> QED BY <3>2, <3>3
  <2>6. g[0] = first
    BY <2>1, <2>4
  <2>7. ASSUME NEW i \in 1..(m - 1) PROVE g[i] = step[<<g[i - 1], i>>]
    <3>1. i \in 0..(m - 1) /\ i - 1 \in 0..(m - 1)
      OBVIOUS
    <3>2. g[i] = f[i] /\ g[i - 1] = f[i - 1]
      BY <2>4, <3>1
    <3> HIDE DEF g
    <3> QED BY <2>1, <3>2
  <2>8. Upto(m, g)
    <3>1. \A i \in 1..m : i = m \/ i \in 1..(m - 1)
      OBVIOUS
    <3> HIDE DEF g
    <3> QED BY <2>5, <2>6, <2>7, <3>1
  <2>9. \E h \in [0..m -> A] : Upto(m, h)
    <3> HIDE DEF Upto, g
    <3> QED BY <2>3, <2>8
  <2> QED BY <2>9
<1>3. n \in P
  <2>1. 0..n \subseteq P
    <3> HIDE DEF P
    <3> QED BY <1>1, <1>2, InductionUpTo
  <2> QED BY <2>1
<1> QED BY <1>3 DEF IsRecursion

-----------------------------------------------------------------------------
(* Filtering.                                                              *)

Distinct(s) == \A i, j \in DOMAIN s : s[i] = s[j] => i = j

KeepStep(s, S, t, n) == IF s[n] \in S THEN Append(t, s[n]) ELSE t

(* What is kept of the first n, for each n                                 *)
IsKept(kept, X, s, S) ==
  /\ kept \in [0..Len(s) -> Seq(X)]
  /\ kept[0] = <<>>
  /\ \A n \in 1..Len(s) : kept[n] = KeepStep(s, S, kept[n - 1], n)
  /\ Keep(s, S) = kept[Len(s)]

LEMMA KeepEquation ==
  ASSUME NEW X, NEW s \in Seq(X), NEW S
  PROVE  \E kept : IsKept(kept, X, s, S)
<1> DEFINE len == Len(s)
           step == [p \in Seq(X) \X (1..len) |-> KeepStep(s, S, p[1], p[2])]
           Is(f) == f = [n \in 0..len |-> IF n = 0 THEN <<>>
                                          ELSE IF s[n] \in S THEN Append(f[n - 1], s[n]) ELSE f[n - 1]]
           kept == CHOOSE f : Is(f)
<1>1. len \in Nat /\ <<>> \in Seq(X) /\ \A n \in 1..len : s[n] \in X
  OBVIOUS
<1>2. \A t \in Seq(X), n \in 1..len : KeepStep(s, S, t, n) \in Seq(X)
  BY <1>1 DEF KeepStep
<1>3. step \in [Seq(X) \X (1..len) -> Seq(X)]
  BY <1>2
<1>4. PICK f : IsRecursion(f, len, Seq(X), <<>>, step)
  <2> HIDE DEF step, len
  <2> QED BY <1>1, <1>3, RecursionExists
<1>41. /\ f \in [0..len -> Seq(X)] /\ f[0] = <<>>
       /\ \A n \in 1..len : f[n] = step[<<f[n - 1], n>>]
  BY <1>4 DEF IsRecursion
<1>5. \A n \in 1..len : f[n] = KeepStep(s, S, f[n - 1], n)
  <2> SUFFICES ASSUME NEW n \in 1..len PROVE f[n] = KeepStep(s, S, f[n - 1], n)
    OBVIOUS
  <2>1. f[n - 1] \in Seq(X)
    <3>1. n - 1 \in 0..len
      BY <1>1
    <3> QED BY <1>41, <3>1
  <2>2. step[<<f[n - 1], n>>] = KeepStep(s, S, f[n - 1], n)
    BY <2>1
  <2> QED BY <1>41, <2>2
<1>6. Is(f)
  <2>1. \A n \in 0..len : n = 0 \/ n \in 1..len
    BY <1>1
  <2> HIDE DEF len, step
  <2> QED BY <1>41, <1>5, <2>1 DEF KeepStep
<1>7. Is(kept)
  <2> HIDE DEF Is
  <2> QED BY <1>6
<1>8. kept \in [0..len -> Seq(X)]
  <2> DEFINE P == {n \in 0..len : kept[n] = f[n]}
  <2>1. \A n \in 0..len : n = 0 \/ (n \in 1..len /\ n - 1 \in 0..len)
    BY <1>1
  <2> HIDE DEF kept, len
  <2>2. 0 \in P
    <3>1. 0 \in 0..len
      BY <1>1
    <3> QED BY <1>41, <1>7, <3>1
  <2>3. ASSUME NEW n \in 1..len, n - 1 \in P PROVE n \in P
    <3>1. n \in 0..len /\ n # 0 /\ kept[n - 1] = f[n - 1]
      BY <1>1, <2>3
    <3>2. kept[n] = KeepStep(s, S, kept[n - 1], n)
      BY <1>7, <3>1 DEF KeepStep
    <3> QED BY <1>5, <3>1, <3>2
  <2>4. 0..len \subseteq P
    <3> HIDE DEF P, len
    <3> QED BY <1>1, <2>2, <2>3, InductionUpTo
  <2>5. \A n \in 0..len : kept[n] \in Seq(X)
    BY <1>41, <2>4
  <2>6. kept = [n \in 0..len |-> kept[n]]
    <3> HIDE DEF kept
    <3> QED BY <1>7
  <2> HIDE DEF kept, len
  <2> QED BY <2>5, <2>6
<1>9. kept[0] = <<>> /\ \A n \in 1..len : kept[n] = KeepStep(s, S, kept[n - 1], n)
  <2>1. \A n \in 1..len : n \in 0..len /\ n # 0
    BY <1>1
  <2>2. 0 \in 0..len
    BY <1>1
  <2> HIDE DEF kept, len
  <2> QED BY <1>7, <2>1, <2>2 DEF KeepStep
<1>10. Keep(s, S) = kept[len]
  BY DEF Keep
<1> QED
  <2> HIDE DEF kept
  <2>1. IsKept(kept, X, s, S)
    BY <1>8, <1>9, <1>10 DEF IsKept
  <2> QED BY <2>1

(* Kept are those in S, no more often than they were there.                *)
LEMMA KeepProperties ==
  ASSUME NEW X, NEW s \in Seq(X), NEW S
  PROVE  /\ Keep(s, S) \in Seq(X)
         /\ Len(Keep(s, S)) <= Len(s)
         /\ Range(Keep(s, S)) = Range(s) \cap S
         /\ Distinct(s) => Distinct(Keep(s, S))
<1>0. PICK kept : IsKept(kept, X, s, S)
  BY KeepEquation
<1>1. /\ kept \in [0..Len(s) -> Seq(X)]
      /\ kept[0] = <<>>
      /\ \A n \in 1..Len(s) : kept[n] = KeepStep(s, S, kept[n - 1], n)
      /\ Keep(s, S) = kept[Len(s)]
  BY <1>0 DEF IsKept
<1> DEFINE len == Len(s)
           Upto(n) == {s[i] : i \in 1..n}
           P == {n \in 0..len : /\ Len(kept[n]) <= n
                                /\ Range(kept[n]) = Upto(n) \cap S
                                /\ Distinct(s) => Distinct(kept[n])}
<1>2. len \in Nat /\ DOMAIN s = 1..len /\ \A n \in 1..len : s[n] \in X
  OBVIOUS
<1>3. 0 \in P
  BY <1>1, <1>2 DEF Range, Distinct
<1>4. ASSUME NEW n \in 1..len, n - 1 \in P PROVE n \in P
  <2> DEFINE t == kept[n - 1]
  <2>1. n - 1 \in 0..len /\ n \in 0..len
    BY <1>2
  <2>2. t \in Seq(X) /\ Len(t) <= n - 1 /\ Range(t) = Upto(n - 1) \cap S
        /\ (Distinct(s) => Distinct(t))
    BY <1>1, <1>4, <2>1
  <2>3. Upto(n) = Upto(n - 1) \cup {s[n]}
    <3>1. \A i \in 1..n : i = n \/ i \in 1..(n - 1)
      BY <1>2
    <3>2. 1..(n - 1) \subseteq 1..n /\ n \in 1..n
      BY <1>2
    <3> QED BY <3>1, <3>2
  <2>4. kept[n] = KeepStep(s, S, t, n)
    BY <1>1
  <2>5. CASE s[n] \notin S
    <3>1. kept[n] = t
      BY <2>4, <2>5 DEF KeepStep
    <3>2. Range(t) = Upto(n) \cap S
      BY <2>2, <2>3, <2>5
    <3>3. Len(t) <= n
      BY <2>1, <2>2
    <3> HIDE DEF t, Upto
    <3> QED BY <2>1, <2>2, <3>1, <3>2, <3>3
  <2>6. CASE s[n] \in S
    <3> DEFINE u == Append(t, s[n])
    <3>1. kept[n] = u
      BY <2>4, <2>6 DEF KeepStep
    <3>2. /\ u \in Seq(X) /\ Len(u) = Len(t) + 1
          /\ \A i \in 1..Len(t) : u[i] = t[i]
          /\ u[Len(t) + 1] = s[n]
      BY <1>2, <2>2, AppendProperties
    <3>3. Len(u) <= n
      BY <1>2, <2>2, <3>2
    <3>4. Range(u) = Range(t) \cup {s[n]}
      <4> HIDE DEF u
      <4>1. Len(t) \in Nat /\ DOMAIN t = 1..Len(t) /\ DOMAIN u = 1..(Len(t) + 1)
        BY <2>2, <3>2
      <4>2. \A i \in 1..(Len(t) + 1) : i \in 1..Len(t) \/ i = Len(t) + 1
        BY <4>1
      <4>3. 1..Len(t) \subseteq 1..(Len(t) + 1) /\ Len(t) + 1 \in 1..(Len(t) + 1)
        BY <4>1
      <4> QED BY <3>2, <4>1, <4>2, <4>3 DEF Range
    <3>5. Range(u) = Upto(n) \cap S
      BY <2>2, <2>3, <2>6, <3>4
    <3>6. ASSUME Distinct(s) PROVE Distinct(u)
      <4>1. s[n] \notin Range(t)
        <5>1. \A i \in 1..(n - 1) : s[i] # s[n]
          BY <1>2, <3>6 DEF Distinct
        <5> QED BY <2>2, <5>1
      <4>2. \A i \in 1..Len(t) : t[i] \in Range(t)
        BY <2>2 DEF Range
      <4>3. Len(t) \in Nat /\ DOMAIN t = 1..Len(t) /\ DOMAIN u = 1..(Len(t) + 1)
        BY <2>2, <3>2
      <4>4. \A i \in 1..(Len(t) + 1) : i \in 1..Len(t) \/ i = Len(t) + 1
        BY <4>3
      <4>5. \A i, j \in 1..Len(t) : t[i] = t[j] => i = j
        BY <2>2, <3>6, <4>3 DEF Distinct
      <4> HIDE DEF u, t
      <4> QED BY <3>2, <4>1, <4>2, <4>3, <4>4, <4>5 DEF Distinct
    <3> HIDE DEF u, t, Upto
    <3> QED BY <2>1, <3>1, <3>3, <3>5, <3>6
  <2> QED BY <2>5, <2>6
<1>5. len \in P
  <2>1. 0..len \subseteq P
    <3> HIDE DEF P, len
    <3> QED BY <1>2, <1>3, <1>4, InductionUpTo
  <2> HIDE DEF P, len
  <2> QED BY <1>2, <2>1
<1>6. kept[len] \in Seq(X)
  BY <1>1, <1>2
<1>7. Range(s) = Upto(len)
  BY <1>2 DEF Range
<1> HIDE DEF Upto
<1> QED BY <1>1, <1>5, <1>6, <1>7

-----------------------------------------------------------------------------
(* Keys are compared as words are in a dictionary; keys of n numbers each  *)
(* are totally ordered.                                                    *)

Keys(n) == [1..n -> Int]

LEMMA PrecedesIrreflexive ==
  ASSUME NEW n \in Nat, NEW a \in Keys(n)
  PROVE  ~Precedes(a, a)
BY DEF Precedes, Keys

LEMMA PrecedesTransitive ==
  ASSUME NEW n \in Nat, NEW a \in Keys(n), NEW b \in Keys(n), NEW c \in Keys(n),
         Precedes(a, b), Precedes(b, c)
  PROVE  Precedes(a, c)
<1>1. PICK i \in 1..n : a[i] < b[i] /\ \A j \in 1..(i - 1) : a[j] = b[j]
  BY DEF Precedes, Keys
<1>2. PICK k \in 1..n : b[k] < c[k] /\ \A j \in 1..(k - 1) : b[j] = c[j]
  BY DEF Precedes, Keys
<1>3. \A m \in 1..n : a[m] \in Int /\ b[m] \in Int /\ c[m] \in Int
  BY DEF Keys
<1>4. DOMAIN a = 1..n
  BY DEF Keys
<1>5. CASE i <= k
  <2>1. a[i] < c[i]
    <3>1. CASE i = k
      BY <1>1, <1>2, <1>3, <3>1
    <3>2. CASE i < k
      <4>1. i \in 1..(k - 1)
        BY <3>2
      <4> QED BY <1>1, <1>2, <1>3, <4>1
    <3> QED BY <1>5, <3>1, <3>2
  <2>2. \A j \in 1..(i - 1) : j \in 1..(k - 1)
    BY <1>5
  <2>3. \A j \in 1..(i - 1) : a[j] = c[j]
    BY <1>1, <1>2, <2>2
  <2> QED BY <1>4, <2>1, <2>3 DEF Precedes
<1>6. CASE k < i
  <2>1. k \in 1..(i - 1)
    BY <1>6
  <2>2. a[k] < c[k]
    BY <1>1, <1>2, <1>3, <2>1
  <2>3. \A j \in 1..(k - 1) : j \in 1..(i - 1)
    BY <1>6
  <2>4. \A j \in 1..(k - 1) : a[j] = c[j]
    BY <1>1, <1>2, <2>3
  <2> QED BY <1>4, <2>2, <2>4 DEF Precedes
<1> QED BY <1>5, <1>6

LEMMA PrecedesTotal ==
  ASSUME NEW n \in Nat, NEW a \in Keys(n), NEW b \in Keys(n), a # b
  PROVE  Precedes(a, b) \/ Precedes(b, a)
<1> DEFINE differ == {i \in 1..n : a[i] # b[i]}
<1>1. \A i \in 1..n : a[i] \in Int /\ b[i] \in Int
  BY DEF Keys
<1>2. DOMAIN a = 1..n /\ DOMAIN b = 1..n
  BY DEF Keys
<1>3. differ \subseteq Nat /\ differ # {}
  BY DEF Keys
<1>4. PICK i \in differ : \A j \in differ : i <= j
  <2> HIDE DEF differ
  <2> QED BY <1>3, LeastNumber
<1>5. \A j \in 1..(i - 1) : a[j] = b[j]
  <2> SUFFICES ASSUME NEW j \in 1..(i - 1), a[j] # b[j] PROVE FALSE
    OBVIOUS
  <2>1. j \in differ /\ j < i
    OBVIOUS
  <2> QED BY <1>4, <2>1
<1>6. a[i] < b[i] \/ b[i] < a[i]
  BY <1>1
<1> QED BY <1>2, <1>5, <1>6 DEF Precedes

-----------------------------------------------------------------------------
(* Sorting.                                                                *)

IsKeyOf(key, S, n) == n \in Nat /\ \A x \in S : key[x] \in Keys(n)

NotAfter(s, key, j, i) ==
  Precedes(key[s[j]], key[s[i]]) \/ (key[s[j]] = key[s[i]] /\ j <= i)

(* What comes before another has a smaller place.                          *)
LEMMA PlaceGrows ==
  ASSUME NEW X, NEW s \in Seq(X), NEW n, NEW key, IsKeyOf(key, Range(s), n),
         NEW i \in 1..Len(s), NEW j \in 1..Len(s), ~NotAfter(s, key, i, j)
  PROVE  PlaceOf(s, key, j) < PlaceOf(s, key, i)
<1> DEFINE upto(m) == {l \in DOMAIN s : NotAfter(s, key, l, m)}
<1>1. DOMAIN s = 1..Len(s) /\ Len(s) \in Nat
  OBVIOUS
<1>2. \A l \in 1..Len(s) : key[s[l]] \in Keys(n)
  BY DEF IsKeyOf, Range
<1>3. n \in Nat
  BY DEF IsKeyOf
<1>4. NotAfter(s, key, j, i)
  BY <1>2, <1>3, PrecedesTotal DEF NotAfter
<1>5. ASSUME NEW l \in 1..Len(s), NotAfter(s, key, l, j)
      PROVE  NotAfter(s, key, l, i)
  <2>1. CASE Precedes(key[s[l]], key[s[j]])
    BY <1>2, <1>3, <1>4, <2>1, PrecedesTransitive DEF NotAfter
  <2>2. CASE key[s[l]] = key[s[j]] /\ l <= j
    <3>1. CASE Precedes(key[s[j]], key[s[i]])
      BY <2>2, <3>1 DEF NotAfter
    <3>2. CASE key[s[j]] = key[s[i]] /\ j <= i
      BY <2>2, <3>2 DEF NotAfter
    <3> QED BY <1>4, <3>1, <3>2 DEF NotAfter
  <2> QED BY <1>5, <2>1, <2>2 DEF NotAfter
<1>6. upto(j) \subseteq upto(i)
  BY <1>1, <1>5
<1>7. i \in upto(i) /\ i \notin upto(j)
  BY <1>1 DEF NotAfter
<1>8. IsFiniteSet(DOMAIN s)
  BY <1>1, FS_Interval
<1>9. IsFiniteSet(upto(i)) /\ IsFiniteSet(upto(j))
  <2>1. upto(i) \subseteq DOMAIN s /\ upto(j) \subseteq DOMAIN s
    OBVIOUS
  <2> HIDE DEF upto
  <2> QED BY <1>8, <2>1, FS_Subset
<1>10. Cardinality(upto(j)) < Cardinality(upto(i))
  <2>1. upto(j) # upto(i)
    BY <1>7
  <2> HIDE DEF upto
  <2>2. /\ Cardinality(upto(j)) <= Cardinality(upto(i))
        /\ Cardinality(upto(j)) # Cardinality(upto(i))
    BY <1>6, <1>9, <2>1, FS_Subset
  <2>3. Cardinality(upto(j)) \in Nat /\ Cardinality(upto(i)) \in Nat
    BY <1>9, FS_CardinalityType
  <2> QED BY <2>2, <2>3
<1>11. PlaceOf(s, key, i) = Cardinality(upto(i)) /\ PlaceOf(s, key, j) = Cardinality(upto(j))
  BY DEF PlaceOf, NotAfter
<1> HIDE DEF upto
<1> QED BY <1>10, <1>11

(* The places are the positions.                                           *)
LEMMA PlacesAreAllTaken ==
  ASSUME NEW X, NEW s \in Seq(X), NEW n, NEW key, IsKeyOf(key, Range(s), n)
  PROVE  /\ \A i \in 1..Len(s) : PlaceOf(s, key, i) \in 1..Len(s)
         /\ \A i, j \in 1..Len(s) : PlaceOf(s, key, i) = PlaceOf(s, key, j) => i = j
         /\ \A k \in 1..Len(s) : \E i \in 1..Len(s) : PlaceOf(s, key, i) = k
<1> DEFINE len == Len(s)
           upto(m) == {l \in DOMAIN s : NotAfter(s, key, l, m)}
           place == [i \in 1..len |-> PlaceOf(s, key, i)]
<1>1. DOMAIN s = 1..len /\ len \in Nat
  OBVIOUS
<1>2. IsFiniteSet(1..len) /\ Cardinality(1..len) = len
  BY <1>1, FS_Interval
<1>3. ASSUME NEW i \in 1..len PROVE PlaceOf(s, key, i) \in 1..len
  <2>1. upto(i) \in SUBSET (1..len)
    BY <1>1
  <2>2. upto(i) # {}
    <3>1. i \in upto(i)
      BY <1>1 DEF NotAfter
    <3> QED BY <3>1
  <2>3. PlaceOf(s, key, i) = Cardinality(upto(i))
    BY DEF PlaceOf, NotAfter
  <2> HIDE DEF upto
  <2>4. IsFiniteSet(upto(i)) /\ Cardinality(upto(i)) <= len
    BY <1>2, <2>1, FS_Subset
  <2>5. Cardinality(upto(i)) \in Nat /\ Cardinality(upto(i)) # 0
    BY <2>2, <2>4, FS_CardinalityType, FS_EmptySet
  <2> QED BY <1>1, <2>3, <2>4, <2>5
<1>4. ASSUME NEW i \in 1..len, NEW j \in 1..len, PlaceOf(s, key, i) = PlaceOf(s, key, j)
      PROVE  i = j
  <2>1. PlaceOf(s, key, i) \in Int
    BY <1>3
  <2>2. NotAfter(s, key, i, j) /\ NotAfter(s, key, j, i)
    BY <1>4, <2>1, PlaceGrows
  <2>3. key[s[i]] \in Keys(n) /\ key[s[j]] \in Keys(n) /\ n \in Nat
    BY <1>1 DEF IsKeyOf, Range
  <2>4. ~(Precedes(key[s[i]], key[s[j]]) /\ Precedes(key[s[j]], key[s[i]]))
    BY <2>3, PrecedesIrreflexive, PrecedesTransitive
  <2>5. key[s[i]] = key[s[j]]
    BY <2>2, <2>4 DEF NotAfter
  <2>6. i <= j /\ j <= i
    BY <2>2, <2>3, <2>5, PrecedesIrreflexive DEF NotAfter
  <2> QED BY <2>6
<1>5. place \in Injection(1..len, 1..len)
  BY <1>3, <1>4 DEF Injection, IsInjective
<1>6. place \in Surjection(1..len, 1..len)
  <2> HIDE DEF place, len
  <2> QED BY <1>2, <1>5, FS_Injection
<1>7. \A k \in 1..len : \E i \in 1..len : place[i] = k
  <2> HIDE DEF place, len
  <2> QED BY <1>6 DEF Surjection
<1> QED BY <1>3, <1>4, <1>7

(* Sorting moves the elements to other positions.                          *)
IsOrder(order, s, t) ==
  /\ order \in [1..Len(s) -> 1..Len(s)]
  /\ t = [k \in 1..Len(s) |-> s[order[k]]]
  /\ \A k, l \in 1..Len(s) : order[k] = order[l] => k = l
  /\ \A i \in 1..Len(s) : \E k \in 1..Len(s) : order[k] = i

Sorted(t, key) ==
  \A k, l \in DOMAIN t : k < l => ~Precedes(key[t[l]], key[t[k]])

LEMMA SortMoves ==
  ASSUME NEW X, NEW s \in Seq(X), NEW n, NEW key, IsKeyOf(key, Range(s), n)
  PROVE  /\ \E order : IsOrder(order, s, SortBy(s, key))
         /\ Sorted(SortBy(s, key), key)
<1> DEFINE len == Len(s)
           order == [k \in 1..len |-> CHOOSE i \in DOMAIN s : PlaceOf(s, key, i) = k]
           t == SortBy(s, key)
<1>1. DOMAIN s = 1..len /\ len \in Nat
  OBVIOUS
<1>2. /\ \A i \in 1..len : PlaceOf(s, key, i) \in 1..len
      /\ \A i, j \in 1..len : PlaceOf(s, key, i) = PlaceOf(s, key, j) => i = j
      /\ \A k \in 1..len : \E i \in 1..len : PlaceOf(s, key, i) = k
  BY PlacesAreAllTaken
<1>3. ASSUME NEW k \in 1..len PROVE order[k] \in 1..len /\ PlaceOf(s, key, order[k]) = k
  BY <1>1, <1>2
<1>4. t = [k \in 1..len |-> s[order[k]]]
  BY <1>1 DEF SortBy
<1>5. \A k, l \in 1..len : order[k] = order[l] => k = l
  <2> HIDE DEF order, len
  <2> QED BY <1>3
<1>6. \A i \in 1..len : \E k \in 1..len : order[k] = i
  <2> HIDE DEF order, len
  <2> QED BY <1>2, <1>3
<1>7. order \in [1..len -> 1..len]
  <2> order = [k \in 1..len |-> order[k]]
    OBVIOUS
  <2> HIDE DEF order, len
  <2> QED BY <1>3
<1>8. IsOrder(order, s, t)
  <2> HIDE DEF order, t
  <2> QED BY <1>4, <1>5, <1>6, <1>7 DEF IsOrder
<1>9. ASSUME NEW k \in 1..len, NEW l \in 1..len, k < l,
             Precedes(key[t[l]], key[t[k]])
      PROVE  FALSE
  <2> HIDE DEF order, t
  <2>1. order[k] \in 1..len /\ order[l] \in 1..len
        /\ PlaceOf(s, key, order[k]) = k /\ PlaceOf(s, key, order[l]) = l
    BY <1>3
  <2>2. t[k] = s[order[k]] /\ t[l] = s[order[l]]
    BY <1>4
  <2>3. key[t[k]] \in Keys(n) /\ key[t[l]] \in Keys(n) /\ n \in Nat
    BY <1>1, <2>1, <2>2 DEF IsKeyOf, Range
  <2>4. ~NotAfter(s, key, order[k], order[l])
    BY <1>9, <2>2, <2>3, PrecedesIrreflexive, PrecedesTransitive DEF NotAfter
  <2>5. l < k
    BY <2>1, <2>4, PlaceGrows
  <2> QED BY <1>9, <2>5
<1>10. DOMAIN t = 1..len
  <2> HIDE DEF order, t
  <2> QED BY <1>4
<1>11. Sorted(t, key)
  <2> HIDE DEF order, t
  <2> QED BY <1>9, <1>10 DEF Sorted
<1> HIDE DEF order
<1> QED BY <1>8, <1>11 DEF t

(* Array.prototype.sort() as the program uses it, for any list and keys:   *)
(* the list has the same elements, none more often if each was there once, *)
(* and none comes before one with a smaller key.                           *)
THEOREM SortProperties ==
  ASSUME NEW X, NEW s \in Seq(X), NEW n, NEW key, IsKeyOf(key, Range(s), n)
  PROVE  /\ SortBy(s, key) \in Seq(X)
         /\ Len(SortBy(s, key)) = Len(s)
         /\ Range(SortBy(s, key)) = Range(s)
         /\ Distinct(s) => Distinct(SortBy(s, key))
         /\ Sorted(SortBy(s, key), key)
<1> DEFINE t == SortBy(s, key)
           len == Len(s)
<1>1. PICK order : IsOrder(order, s, t)
  BY SortMoves
<1>2. /\ order \in [1..len -> 1..len]
      /\ t = [k \in 1..len |-> s[order[k]]]
      /\ \A k, l \in 1..len : order[k] = order[l] => k = l
      /\ \A i \in 1..len : \E k \in 1..len : order[k] = i
  BY <1>1 DEF IsOrder
<1>3. Sorted(t, key)
  BY SortMoves
<1>4. DOMAIN s = 1..len /\ len \in Nat /\ \A i \in 1..len : s[i] \in X
  OBVIOUS
<1> HIDE DEF t, len
<1>5. t \in Seq(X) /\ Len(t) = len
  BY <1>2, <1>4
<1>6. DOMAIN t = 1..len /\ \A k \in 1..len : t[k] = s[order[k]] /\ order[k] \in 1..len
  BY <1>2
<1>7. Range(t) = Range(s)
  <2>1. Range(t) \subseteq Range(s)
    BY <1>4, <1>6 DEF Range
  <2>2. ASSUME NEW x \in Range(s) PROVE x \in Range(t)
    <3>1. PICK i \in 1..len : x = s[i]
      BY <1>4 DEF Range
    <3>2. PICK k \in 1..len : order[k] = i
      BY <1>2
    <3>3. x = t[k]
      BY <1>6, <3>1, <3>2
    <3> QED BY <1>6, <3>3 DEF Range
  <2> QED BY <2>1, <2>2
<1>8. Distinct(s) => Distinct(t)
  BY <1>2, <1>4, <1>6 DEF Distinct
<1> QED BY <1>3, <1>5, <1>7, <1>8 DEF t, len

-----------------------------------------------------------------------------
(* The rows of a set in order.                                             *)

LEMMA OrderedByProperties ==
  ASSUME NEW S, IsFiniteSet(S), NEW key, NEW s \in OrderedBy(S, key)
  PROVE  /\ s \in Seq(S) /\ Len(s) = Cardinality(S)
         /\ Range(s) = S /\ Distinct(s)
         /\ Sorted(s, key)
<1> DEFINE len == Cardinality(S)
<1>1. len \in Nat
  BY FS_CardinalityType
<1>2. /\ s \in [1..len -> S]
      /\ \A i, j \in 1..len : i # j => s[i] # s[j]
      /\ \A i \in 1..Len(s) : \A j \in 1..(i - 1) : ~Precedes(key[s[i]], key[s[j]])
  BY DEF OrderedBy, SetToSeqs
<1> HIDE DEF len
<1>3. s \in Seq(S) /\ Len(s) = len /\ DOMAIN s = 1..len
  BY <1>1, <1>2
<1>4. Distinct(s)
  BY <1>2, <1>3 DEF Distinct
<1>5. Range(s) = S
  <2>1. s \in Injection(1..len, S)
    BY <1>2 DEF Injection, IsInjective
  <2>2. IsFiniteSet(1..len) /\ Cardinality(1..len) = len
    BY <1>1, FS_Interval
  <2>3. s \in Surjection(1..len, S)
    BY <2>1, <2>2, FS_Injection DEF len
  <2> QED BY <1>3, <2>3 DEF Surjection, Range
<1>6. Sorted(s, key)
  <2> SUFFICES ASSUME NEW k \in 1..len, NEW l \in 1..len, k < l
               PROVE  ~Precedes(key[s[l]], key[s[k]])
    BY <1>3 DEF Sorted
  <2>1. k \in 1..(l - 1)
    BY <1>1
  <2> QED BY <1>2, <1>3, <2>1
<1> QED BY <1>3, <1>4, <1>5, <1>6 DEF len

(* There is such an order of every finite set.                             *)
LEMMA OrderExists ==
  ASSUME NEW S, IsFiniteSet(S), NEW n, NEW key, IsKeyOf(key, S, n)
  PROVE  OrderedBy(S, key) # {}
<1> DEFINE len == Cardinality(S)
<1>1. len \in Nat /\ ExistsBijection(1..len, S)
  BY FS_CardinalityType
<1>2. PICK s : s \in Bijection(1..len, S)
  BY <1>1 DEF ExistsBijection
<1> HIDE DEF len
<1>3. s \in [1..len -> S] /\ (\A i, j \in 1..len : s[i] = s[j] => i = j)
  BY <1>2 DEF Bijection, Injection, IsInjective
<1>4. s \in Seq(S) /\ Len(s) = len /\ DOMAIN s = 1..len
  BY <1>1, <1>3
<1>5. Range(s) \subseteq S /\ Distinct(s)
  BY <1>3, <1>4 DEF Range, Distinct
<1>6. IsKeyOf(key, Range(s), n)
  BY <1>5 DEF IsKeyOf
<1> DEFINE t == SortBy(s, key)
<1>7. t \in Seq(S) /\ Len(t) = len /\ Distinct(t) /\ Sorted(t, key)
  BY <1>4, <1>5, <1>6, SortProperties
<1> HIDE DEF t
<1>8. t \in [1..len -> S] /\ DOMAIN t = 1..len
  BY <1>7
<1>9. t \in SetToSeqs(S)
  BY <1>7, <1>8 DEF SetToSeqs, Distinct, len
<1>10. \A i \in 1..Len(t) : \A j \in 1..(i - 1) : ~Precedes(key[t[i]], key[t[j]])
  <2> SUFFICES ASSUME NEW i \in 1..len, NEW j \in 1..(i - 1)
               PROVE  ~Precedes(key[t[i]], key[t[j]])
    BY <1>7
  <2>1. j \in 1..len /\ j < i
    BY <1>1
  <2> QED BY <1>7, <1>8, <2>1 DEF Sorted
<1>11. t \in OrderedBy(S, key)
  BY <1>9, <1>10 DEF OrderedBy
<1> QED BY <1>11

-----------------------------------------------------------------------------
(* The beginning of a sequence.                                            *)

LEMMA FirstProperties ==
  ASSUME NEW X, NEW s \in Seq(X), NEW n \in Nat
  PROVE  /\ First(s, n) \in Seq(X)
         /\ Len(First(s, n)) = Least(n, Len(s))
         /\ \A i \in 1..Len(First(s, n)) : i \in 1..Len(s) /\ First(s, n)[i] = s[i]
<1> DEFINE m == Least(n, Len(s))
<1>1. Len(s) \in Nat /\ \A i \in 1..Len(s) : s[i] \in X
  OBVIOUS
<1>2. m \in Nat /\ m <= Len(s)
  BY <1>1 DEF Least
<1> HIDE DEF m
<1>3. \A i \in 1..m : s[i] \in X
  BY <1>1, <1>2
<1>4. /\ SubSeq(s, 1, m) \in Seq(X)
      /\ Len(SubSeq(s, 1, m)) = IF 1 <= m THEN m - 1 + 1 ELSE 0
      /\ \A i \in 1..(m - 1 + 1) : SubSeq(s, 1, m)[i] = s[1 + i - 1]
  BY <1>2, <1>3, SubSeqProperties
<1>5. First(s, n) = SubSeq(s, 1, m)
  BY DEF First, m
<1>6. Len(First(s, n)) = m
  BY <1>2, <1>4, <1>5
<1>7. \A i \in 1..m : i \in 1..Len(s) /\ i \in 1..(m - 1 + 1) /\ 1 + i - 1 = i
  BY <1>1, <1>2
<1> QED BY <1>4, <1>5, <1>6, <1>7 DEF m

-----------------------------------------------------------------------------
(* Adding up.                                                              *)

Some(S) == CHOOSE x \in S : TRUE

IsSum(sum, f, S) ==
  /\ DOMAIN sum = SUBSET S
  /\ sum[{}] = 0
  /\ \A T \in (SUBSET S) \ {{}} : sum[T] = f[Some(T)] + sum[T \ {Some(T)}]
  /\ SumFunctionOnSet(f, S) = sum[S]

LEMMA SumEquation ==
  ASSUME NEW S, IsFiniteSet(S), NEW f, \A x \in S : f[x] \in Nat
  PROVE  \E sum : IsSum(sum, f, S)
<1> DEFINE A == [SUBSET S -> Nat]
           len == Cardinality(S)
           zero == [T \in SUBSET S |-> 0]
           next(g) == [T \in SUBSET S |-> IF T = {} THEN 0 ELSE f[Some(T)] + g[T \ {Some(T)}]]
           step == [p \in A \X (1..len) |-> next(p[1])]
           Is(g) == g = [T \in SUBSET S |-> IF T = {} THEN 0 ELSE f[Some(T)] + g[T \ {Some(T)}]]
           sum == CHOOSE g : Is(g)
<1>1. len \in Nat
  BY FS_CardinalityType
<1>2. \A T \in (SUBSET S) \ {{}} : Some(T) \in T /\ f[Some(T)] \in Nat
  BY DEF Some
<1>3. zero \in A
  OBVIOUS
<1>4. ASSUME NEW g \in A PROVE next(g) \in A
  <2>1. \A T \in (SUBSET S) \ {{}} : f[Some(T)] + g[T \ {Some(T)}] \in Nat
    <3> SUFFICES ASSUME NEW T \in (SUBSET S) \ {{}}
                 PROVE  f[Some(T)] + g[T \ {Some(T)}] \in Nat
      OBVIOUS
    <3>1. f[Some(T)] \in Nat
      BY <1>2
    <3>2. g[T \ {Some(T)}] \in Nat
      OBVIOUS
    <3> QED BY <3>1, <3>2
  <2> QED BY <2>1
<1>5. step \in [A \X (1..len) -> A]
  <2> HIDE DEF next, A
  <2> QED BY <1>4
<1>6. PICK h : IsRecursion(h, len, A, zero, step)
  <2> HIDE DEF A, zero, step, len
  <2> QED BY <1>1, <1>3, <1>5, RecursionExists
<1>7. /\ h \in [0..len -> A] /\ h[0] = zero
      /\ \A i \in 1..len : h[i] = next(h[i - 1])
  <2>1. /\ h \in [0..len -> A] /\ h[0] = zero
        /\ \A i \in 1..len : h[i] = step[<<h[i - 1], i>>]
    BY <1>6 DEF IsRecursion
  <2>2. ASSUME NEW i \in 1..len PROVE step[<<h[i - 1], i>>] = next(h[i - 1])
    <3>1. h[i - 1] \in A
      <4>1. i - 1 \in 0..len
        BY <1>1
      <4> HIDE DEF A
      <4> QED BY <2>1, <4>1
    <3> HIDE DEF A, next
    <3> QED BY <3>1
  <2> HIDE DEF A, step, next
  <2> QED BY <2>1, <2>2
<1>8. ASSUME NEW T \in SUBSET S
      PROVE  IsFiniteSet(T) /\ Cardinality(T) \in 0..len
  BY <1>1, FS_Subset, FS_CardinalityType
<1> DEFINE total == [T \in SUBSET S |-> h[Cardinality(T)][T]]
<1>9. Is(total)
  <2>1. total[{}] = 0
    <3>1. Cardinality({}) = 0
      BY FS_EmptySet
    <3> QED BY <1>7, <3>1
  <2>2. ASSUME NEW T \in (SUBSET S) \ {{}}
        PROVE  total[T] = f[Some(T)] + total[T \ {Some(T)}]
    <3> DEFINE i == Cardinality(T)
               U == T \ {Some(T)}
    <3>1. i \in 1..len
      BY <1>8, FS_EmptySet
    <3>2. Cardinality(U) = i - 1 /\ U \in SUBSET S
      BY <1>2, <1>8, FS_RemoveElement
    <3>3. h[i] = next(h[i - 1])
      BY <1>7, <3>1
    <3>4. h[i][T] = f[Some(T)] + h[i - 1][U]
      BY <3>3
    <3> HIDE DEF i, U
    <3> QED BY <3>2, <3>4 DEF i, U
  <2> HIDE DEF total
  <2>3. total = [T \in SUBSET S |-> total[T]]
    BY DEF total
  <2> QED BY <2>1, <2>2, <2>3
<1>10. Is(sum)
  <2> HIDE DEF Is
  <2> QED BY <1>9
<1>11. SumFunctionOnSet(f, S) = sum[S]
  BY DEF SumFunctionOnSet, FoldFunctionOnSet, MapThenFoldSet, Some
<1> HIDE DEF sum
<1>12. IsSum(sum, f, S)
  <2>1. DOMAIN sum = SUBSET S
    BY <1>10
  <2>2. sum[{}] = 0
    BY <1>10
  <2>3. \A T \in (SUBSET S) \ {{}} : sum[T] = f[Some(T)] + sum[T \ {Some(T)}]
    BY <1>10
  <2> QED BY <1>11, <2>1, <2>2, <2>3 DEF IsSum
<1> QED BY <1>12

(* A sum of natural numbers is one, and no less than how many of them are  *)
(* not zero.                                                               *)
LEMMA SumProperties ==
  ASSUME NEW S, IsFiniteSet(S), NEW f, \A x \in S : f[x] \in Nat
  PROVE  /\ SumFunctionOnSet(f, S) \in Nat
         /\ SumFunctionOnSet(f, S) >= Cardinality({x \in S : f[x] > 0})
<1>1. PICK sum : IsSum(sum, f, S)
  BY SumEquation
<1> DEFINE len == Cardinality(S)
           positive(T) == {x \in T : f[x] > 0}
           Good(T) == sum[T] \in Nat /\ sum[T] >= Cardinality(positive(T))
           P == {i \in Nat : \A T \in SUBSET S : Cardinality(T) = i => Good(T)}
<1>2. len \in Nat
  BY FS_CardinalityType
<1>3. ASSUME NEW T \in SUBSET S PROVE IsFiniteSet(T) /\ Cardinality(T) \in Nat
  BY FS_Subset, FS_CardinalityType
<1>4. 0 \in P
  <2> SUFFICES ASSUME NEW T \in SUBSET S, Cardinality(T) = 0 PROVE Good(T)
    OBVIOUS
  <2>1. T = {}
    BY <1>3, FS_EmptySet
  <2>2. positive(T) = {}
    BY <2>1
  <2>3. Cardinality(positive(T)) = 0
    <3> HIDE DEF positive
    <3> QED BY <2>2, FS_EmptySet
  <2>4. sum[T] = 0
    BY <1>1, <2>1 DEF IsSum
  <2> HIDE DEF positive
  <2> QED BY <2>3, <2>4
<1>5. ASSUME NEW i \in Nat, i \in P PROVE i + 1 \in P
  <2> SUFFICES ASSUME NEW T \in SUBSET S, Cardinality(T) = i + 1 PROVE Good(T)
    OBVIOUS
  <2> DEFINE x == Some(T)
             U == T \ {x}
  <2>1. T # {}
    <3> SUFFICES ASSUME T = {} PROVE FALSE
      OBVIOUS
    <3>1. Cardinality({}) = 0
      BY FS_EmptySet
    <3>2. i # -1
      OBVIOUS
    <3> QED BY <3>1, <3>2
  <2>2. x \in T /\ x \in S
    BY <2>1 DEF Some
  <2> HIDE DEF x
  <2>3. U \in SUBSET S /\ Cardinality(U) = i
    <3>1. IsFiniteSet(T)
      BY <1>3
    <3>2. Cardinality(T \ {x}) = Cardinality(T) - 1
      BY <2>2, <3>1, FS_RemoveElement
    <3>3. i + 1 - 1 = i
      OBVIOUS
    <3>4. T \ {x} \in SUBSET S
      OBVIOUS
    <3> QED BY <3>2, <3>3, <3>4
  <2>4. Good(U)
    <3> HIDE DEF U, Good
    <3> QED BY <1>5, <2>3
  <2>5. sum[T] = f[x] + sum[U]
    BY <1>1, <2>1 DEF IsSum, x
  <2>6. f[x] \in Nat
    BY <2>2
  <2>7. positive(T) = IF f[x] > 0 THEN positive(U) \cup {x} ELSE positive(U)
    BY <2>2
  <2>8. IsFiniteSet(positive(U)) /\ Cardinality(positive(U)) \in Nat
    <3>1. positive(U) \in SUBSET S
      OBVIOUS
    <3> HIDE DEF positive, U
    <3> QED BY <1>3, <3>1
  <2>9. x \notin positive(U)
    OBVIOUS
  <2>10. Cardinality(positive(T)) <= Cardinality(positive(U)) + (IF f[x] > 0 THEN 1 ELSE 0)
    <3> HIDE DEF positive, U
    <3>1. Cardinality(positive(U) \cup {x}) = Cardinality(positive(U)) + 1
      BY <2>8, <2>9, FS_AddElement
    <3> QED BY <2>7, <2>8, <3>1
  <2>11. Cardinality(positive(T)) \in Nat
    <3>1. positive(T) \in SUBSET S
      OBVIOUS
    <3> HIDE DEF positive
    <3> QED BY <1>3, <3>1
  <2> HIDE DEF positive, U
  <2> QED BY <2>4, <2>5, <2>6, <2>8, <2>10, <2>11
<1>6. len \in P
  <2> HIDE DEF P, len
  <2> QED BY <1>2, <1>4, <1>5, InductionOnSet
<1>7. Good(S)
  <2>1. S \in SUBSET S
    OBVIOUS
  <2> HIDE DEF Good
  <2> QED BY <1>6, <2>1
<1> QED BY <1>1, <1>7 DEF IsSum

-----------------------------------------------------------------------------
(* More about sequences in which nothing is there twice.                   *)

(* The first element stays the first if it is kept.                        *)
LEMMA KeepFirst ==
  ASSUME NEW X, NEW s \in Seq(X), NEW S, s # <<>>, s[1] \in S
  PROVE  Len(Keep(s, S)) >= 1 /\ Keep(s, S)[1] = s[1]
<1>0. PICK kept : IsKept(kept, X, s, S)
  BY KeepEquation
<1>1. /\ kept \in [0..Len(s) -> Seq(X)]
      /\ kept[0] = <<>>
      /\ \A n \in 1..Len(s) : kept[n] = KeepStep(s, S, kept[n - 1], n)
      /\ Keep(s, S) = kept[Len(s)]
  BY <1>0 DEF IsKept
<1> DEFINE len == Len(s)
           Begins(t) == Len(t) >= 1 /\ t[1] = s[1]
           P == {n \in 0..len : n = 0 \/ Begins(kept[n])}
<1>2. len \in Nat \ {0} /\ \A n \in 1..len : s[n] \in X
  BY EmptySeq
<1>3. 0 \in P
  BY <1>2
<1>4. ASSUME NEW n \in 1..len, n - 1 \in P PROVE n \in P
  <2> DEFINE t == kept[n - 1]
             u == Append(t, s[n])
  <2>1. n - 1 \in 0..len /\ n \in 0..len
    BY <1>2
  <2>2. t \in Seq(X) /\ kept[n] = KeepStep(s, S, t, n)
    BY <1>1, <2>1
  <2>3. /\ u \in Seq(X) /\ Len(u) = Len(t) + 1
        /\ \A i \in 1..Len(t) : u[i] = t[i]
        /\ u[Len(t) + 1] = s[n]
    BY <1>2, <2>2, AppendProperties
  <2>4. CASE n = 1
    <3>1. t = <<>>
      BY <1>1, <2>4
    <3>2. kept[n] = u
      BY <2>2, <2>4 DEF KeepStep
    <3>3. Len(t) = 0
      BY <3>1
    <3>4. Begins(u)
      <4> HIDE DEF u, t
      <4> QED BY <2>3, <2>4, <3>3
    <3> HIDE DEF u, Begins
    <3> QED BY <2>1, <3>2, <3>4
  <2>5. CASE n # 1
    <3>1. Begins(t)
      BY <1>4, <2>5
    <3>2. Begins(u)
      <4>1. Len(t) \in Nat
        BY <2>2
      <4> HIDE DEF u, t
      <4> QED BY <2>3, <3>1, <4>1
    <3>3. kept[n] = t \/ kept[n] = u
      BY <2>2 DEF KeepStep
    <3> HIDE DEF u, t, Begins
    <3> QED BY <2>1, <3>1, <3>2, <3>3
  <2> QED BY <2>4, <2>5
<1>5. len \in P
  <2>1. 0..len \subseteq P
    <3> HIDE DEF P, len
    <3> QED BY <1>2, <1>3, <1>4, InductionUpTo
  <2> HIDE DEF P, len
  <2> QED BY <1>2, <2>1
<1> QED BY <1>1, <1>2, <1>5

LEMMA DistinctCount ==
  ASSUME NEW X, NEW s \in Seq(X), Distinct(s)
  PROVE  Cardinality(Range(s)) = Len(s)
<1>1. Len(s) \in Nat /\ DOMAIN s = 1..Len(s)
  OBVIOUS
<1>2. s \in [1..Len(s) -> Range(s)]
  BY <1>1 DEF Range
<1>3. s \in Bijection(1..Len(s), Range(s))
  BY <1>1, <1>2 DEF Distinct, Range, Bijection, Injection, Surjection, IsInjective
<1>4. ExistsBijection(1..Len(s), Range(s))
  BY <1>3 DEF ExistsBijection
<1> QED BY <1>1, <1>4, FS_CountingElements

LEMMA FirstDistinct ==
  ASSUME NEW X, NEW s \in Seq(X), NEW n \in Nat, Distinct(s)
  PROVE  Distinct(First(s, n)) /\ Range(First(s, n)) \subseteq Range(s)
<1> DEFINE t == First(s, n)
<1>1. /\ t \in Seq(X)
      /\ \A i \in 1..Len(t) : i \in 1..Len(s) /\ t[i] = s[i]
  BY FirstProperties
<1>2. DOMAIN t = 1..Len(t) /\ DOMAIN s = 1..Len(s)
  BY <1>1
<1> HIDE DEF t
<1>3. Distinct(t)
  BY <1>1, <1>2 DEF Distinct
<1>4. Range(t) \subseteq Range(s)
  BY <1>1, <1>2 DEF Range
<1> QED BY <1>3, <1>4 DEF t

LEMMA ConcatDistinct ==
  ASSUME NEW X, NEW s \in Seq(X), NEW t \in Seq(X), Distinct(s), Distinct(t),
         Range(s) \cap Range(t) = {}
  PROVE  /\ Distinct(s \o t)
         /\ Range(s \o t) = Range(s) \cup Range(t)
<1> DEFINE u == s \o t
           m == Len(s)
           n == Len(t)
<1>1. m \in Nat /\ n \in Nat /\ DOMAIN s = 1..m /\ DOMAIN t = 1..n
  OBVIOUS
<1>2. u \in Seq(X) /\ Len(u) = m + n
      /\ \A i \in 1..(m + n) : u[i] = IF i <= m THEN s[i] ELSE t[i - m]
  BY ConcatProperties
<1> HIDE DEF u, m, n
<1>3. DOMAIN u = 1..(m + n)
  BY <1>2
<1>4. \A i \in 1..(m + n) : \/ i \in 1..m /\ u[i] = s[i] /\ s[i] \in Range(s)
                            \/ i > m /\ i - m \in 1..n /\ u[i] = t[i - m] /\ t[i - m] \in Range(t)
  <2> SUFFICES ASSUME NEW i \in 1..(m + n)
               PROVE  \/ i \in 1..m /\ u[i] = s[i] /\ s[i] \in Range(s)
                      \/ i > m /\ i - m \in 1..n /\ u[i] = t[i - m] /\ t[i - m] \in Range(t)
    OBVIOUS
  <2>1. CASE i <= m
    <3>1. i \in 1..m /\ u[i] = s[i]
      BY <1>1, <1>2, <2>1
    <3> QED BY <1>1, <3>1 DEF Range
  <2>2. CASE i > m
    <3>1. i - m \in 1..n /\ u[i] = t[i - m]
      BY <1>1, <1>2, <2>2
    <3>2. t[i - m] \in Range(t)
      BY <1>1, <3>1 DEF Range
    <3> QED BY <2>2, <3>1, <3>2
  <2> QED BY <1>1, <2>1, <2>2
<1>5. Distinct(u)
  <2> SUFFICES ASSUME NEW i \in 1..(m + n), NEW j \in 1..(m + n), u[i] = u[j] PROVE i = j
    BY <1>3 DEF Distinct
  <2>1. CASE i \in 1..m /\ j \in 1..m
    <3>1. s[i] = s[j]
      BY <1>1, <1>4, <2>1
    <3> QED BY <1>1, <2>1, <3>1 DEF Distinct
  <2>2. CASE i > m /\ j > m
    <3>1. i - m \in 1..n /\ j - m \in 1..n /\ t[i - m] = t[j - m]
      BY <1>1, <1>4, <2>2
    <3>2. i - m = j - m
      BY <1>1, <3>1 DEF Distinct
    <3> QED BY <1>1, <3>2
  <2>3. \/ i \in 1..m /\ j \in 1..m
        \/ i > m /\ j > m
    BY <1>1, <1>4
  <2> QED BY <2>1, <2>2, <2>3
<1>6. Range(u) \subseteq Range(s) \cup Range(t)
  BY <1>3, <1>4 DEF Range
<1>7. Range(s) \subseteq Range(u)
  <2>1. \A i \in 1..m : i \in 1..(m + n) /\ u[i] = s[i]
    BY <1>1, <1>2
  <2> QED BY <1>1, <1>3, <2>1 DEF Range
<1>8. Range(t) \subseteq Range(u)
  <2>1. \A i \in 1..n : i + m \in 1..(m + n) /\ u[i + m] = t[i]
    BY <1>1, <1>2
  <2> QED BY <1>1, <1>3, <2>1 DEF Range
<1> QED BY <1>5, <1>6, <1>7, <1>8 DEF u
=============================================================================
