------------------------------ MODULE Ordering ------------------------------
(***************************************************************************)
(* Filtering and sorting as the program and its database do it: by keys    *)
(* that are compared element by element, and stable where they are equal.  *)
(* A key is a function: key[x] is the key of the element x.                *)
(***************************************************************************)
EXTENDS Integers, Sequences, SequencesExt, FiniteSets

Least(a, b) == IF a <= b THEN a ELSE b
Most(a, b) == IF a >= b THEN a ELSE b
First(s, n) == SubSeq(s, 1, Least(n, Len(s)))

Precedes(a, b) ==
  \E i \in DOMAIN a : a[i] < b[i] /\ \A j \in 1..(i - 1) : a[j] = b[j]

(* Array.prototype.filter(): the elements of s that are in S               *)
Keep(s, S) ==
  LET kept[n \in 0..Len(s)] ==
        IF n = 0 THEN <<>>
        ELSE IF s[n] \in S THEN Append(kept[n - 1], s[n]) ELSE kept[n - 1]
  IN  kept[Len(s)]

(* Array.prototype.sort() with a comparison by key                         *)
PlaceOf(s, key, i) ==
  Cardinality({j \in DOMAIN s : \/ Precedes(key[s[j]], key[s[i]])
                                \/ key[s[j]] = key[s[i]] /\ j <= i})
SortBy(s, key) == [k \in DOMAIN s |-> s[CHOOSE i \in DOMAIN s : PlaceOf(s, key, i) = k]]

(* ORDER BY: the rows of a set in every order the keys allow               *)
OrderedBy(S, key) ==
  {s \in SetToSeqs(S) : \A i \in 1..Len(s) : \A j \in 1..(i - 1) : ~Precedes(key[s[i]], key[s[j]])}
=============================================================================
