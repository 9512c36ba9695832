--------------------------- MODULE IngestionProofs ---------------------------
(***************************************************************************)
(* Proofs about Ingestion for any providers, stations, calls, processes    *)
(* and bounds: its types, that runs exclude each other as long as their    *)
(* locks' connections live, that a run which is over has given its lock    *)
(* back and says how it ended, that its counts are exact, that it stores   *)
(* what it was told, and that what compares prices stores changes alone.   *)
(***************************************************************************)
EXTENDS Ingestion, FiniteSetTheorems, TLAPS

-----------------------------------------------------------------------------
(* What is counted is finite.                                              *)

LEMMA FiniteRange ==
  ASSUME NEW S, IsFiniteSet(S), NEW f
  PROVE  IsFiniteSet({f[x] : x \in S})
<1> DEFINE T == {f[x] : x \in S}
<1>1. [x \in S |-> f[x]] \in Surjection(S, T)
  BY DEF Surjection
<1> QED BY <1>1, FS_Surjection

(* The records a call has are those it was told or some of them; their     *)
(* quotes can be counted.                                                  *)
IsCounted(w) ==
  /\ IsFiniteSet(w.told)
  /\ w.left \subseteq w.told
  /\ w.batch \subseteq w.left
  /\ \A r \in w.told : IsFiniteSet(r.quotes)

WorkIsCounted == \A c \in Call : IsCounted(work[c])

TypeInv == TypeOK /\ WorkIsCounted

(* What a provider answers is finite, and of the right form.               *)
LEMMA RecordsAreFinite ==
  ASSUME NEW exts \in SUBSET External, NEW fuels \in SUBSET Fuel,
         NEW unplaced, NEW mode \in Mode, NEW now \in Nat, TypeOK
  PROVE  LET rs == Records(exts, fuels, unplaced, mode, now)
         IN  /\ IsFiniteSet(rs) /\ rs \subseteq RecordType
             /\ \A r \in rs : IsFiniteSet(r.quotes)
<1> DEFINE here == {k \in Sold : k[1] \in exts /\ k[2] \in fuels}
           sold(e) == {h \in here : h[1] = e}
           single == [k \in here |-> {Quote(k, now)}]
           quotes(e) == {Quote(k, now) : k \in sold(e)}
           Record(e, qs) ==
             [ext |-> e, quotes |-> qs,
              placed |-> mode = "full" /\ e \notin unplaced,
              priceUpdateOnly |-> mode = "prices"]
           sites == {k[1] : k \in here}
           near == {Record(k[1], single[k]) : k \in here}
           all == {Record(e, quotes(e)) : e \in sites}
<1>1. here \subseteq Sold /\ IsFiniteSet(here)
  BY IngestionWriterAssumption, FS_Subset
<1>2. \A k \in here : k[1] \in External /\ Quote(k, now) \in QuoteType
  <2> SUFFICES ASSUME NEW k \in here
               PROVE  k[1] \in External /\ Quote(k, now) \in QuoteType
    OBVIOUS
  <2>1. k \in Sold /\ k[1] \in exts /\ k[2] \in Fuel
    BY DEF Fuel
  <2>2. feed[k].price \in Price /\ feed[k].at \in Nat
    BY <2>1 DEF TypeOK
  <2>3. (IF provider.dedup = "timestamp-price" THEN feed[k].at ELSE now) \in Nat
    BY <2>2
  <2> QED BY <2>1, <2>2, <2>3 DEF Quote, QuoteType
<1>3. IsFiniteSet(sites)
  <2> DEFINE f == [k \in here |-> k[1]]
  <2>1. IsFiniteSet({f[k] : k \in here})
    BY <1>1, FiniteRange
  <2>2. {f[k] : k \in here} = sites
    OBVIOUS
  <2> QED BY <2>1, <2>2
<1>4. \A e : IsFiniteSet(quotes(e)) /\ quotes(e) \subseteq QuoteType
  <2> TAKE e
  <2>1. IsFiniteSet(sold(e)) /\ sold(e) \subseteq here
    BY <1>1, FS_Subset
  <2> DEFINE f == [k \in sold(e) |-> Quote(k, now)]
  <2>2. IsFiniteSet({f[k] : k \in sold(e)})
    BY <2>1, FiniteRange
  <2>3. {f[k] : k \in sold(e)} = quotes(e)
    OBVIOUS
  <2> QED BY <1>2, <2>2, <2>3
<1>5. \A e \in External : \A qs \in SUBSET QuoteType :
        Record(e, qs) \in RecordType /\ Record(e, qs).quotes = qs
  BY DEF RecordType
<1>6. /\ IsFiniteSet(near) /\ near \subseteq RecordType
      /\ \A r \in near : IsFiniteSet(r.quotes)
  <2> DEFINE f == [k \in here |-> Record(k[1], single[k])]
  <2>1. IsFiniteSet({f[k] : k \in here})
    <3> HIDE DEF f, here
    <3> QED BY <1>1, FiniteRange
  <2>2. {f[k] : k \in here} = near
    <3> HIDE DEF Record, single, here
    <3> QED OBVIOUS
  <2>3. \A k \in here : IsFiniteSet(single[k]) /\ single[k] \subseteq QuoteType
    BY <1>2, FS_Singleton
  <2>4. IsFiniteSet(near)
    BY <2>1, <2>2
  <2> HIDE DEF Record, single, here
  <2>5. \A k \in here : /\ Record(k[1], single[k]) \in RecordType
                       /\ IsFiniteSet(Record(k[1], single[k]).quotes)
    BY <1>2, <1>5, <2>3
  <2> QED BY <2>4, <2>5
<1>7. /\ IsFiniteSet(all) /\ all \subseteq RecordType
      /\ \A r \in all : IsFiniteSet(r.quotes)
  <2> DEFINE f == [e \in sites |-> Record(e, quotes(e))]
  <2>1. IsFiniteSet({f[e] : e \in sites})
    <3> HIDE DEF f, sites
    <3> QED BY <1>3, FiniteRange
  <2>2. {f[e] : e \in sites} = all
    <3> HIDE DEF Record, quotes, sites
    <3> QED OBVIOUS
  <2>3. \A e \in sites : e \in External
    BY <1>2
  <2>4. IsFiniteSet(all)
    BY <2>1, <2>2
  <2> HIDE DEF Record, quotes, sites
  <2>5. \A e \in sites : /\ Record(e, quotes(e)) \in RecordType
                        /\ IsFiniteSet(Record(e, quotes(e)).quotes)
    BY <1>4, <1>5, <2>3
  <2> QED BY <2>4, <2>5
<1>8. Records(exts, fuels, unplaced, mode, now) = IF provider.nearby THEN near ELSE all
  BY DEF Records
<1> QED BY <1>6, <1>7, <1>8

-----------------------------------------------------------------------------
(* What a call knows: every change of it is of one of these forms.         *)

LEMMA WorkOfOne ==
  ASSUME TypeInv, NEW c \in Call, NEW w \in WorkType, IsCounted(w),
         work' = [work EXCEPT ![c] = w]
  PROVE  work' \in [Call -> WorkType] /\ WorkIsCounted'
BY DEF TypeInv, TypeOK, WorkIsCounted, IsCounted

LEMMA ForgottenIsTyped ==
  ASSUME TypeInv, NEW c \in Call, NEW heard, heard = {} \/ heard = work[c].told,
         Forget(c, heard)
  PROVE  work' \in [Call -> WorkType] /\ WorkIsCounted'
<1> DEFINE w == [NoWork EXCEPT !.told = heard]
<1>1. heard \in SUBSET RecordType
  BY DEF TypeInv, TypeOK, WorkType
<1>2. w = [told |-> heard, left |-> {}, batch |-> {}, known |-> {}, held |-> {}, latest |-> {},
           stored |-> 0, created |-> 0, errors |-> 0, fetched |-> 0]
  BY DEF NoWork
<1>3. w \in WorkType
  BY <1>1, <1>2 DEF WorkType
<1>4. IsFiniteSet(heard) /\ \A r \in heard : IsFiniteSet(r.quotes)
  BY FS_EmptySet DEF TypeInv, WorkIsCounted, IsCounted
<1>5. IsCounted(w)
  BY <1>2, <1>4 DEF IsCounted
<1> QED BY <1>3, <1>5, WorkOfOne DEF Forget

LEMMA FreshWork ==
  ASSUME NEW rs, NEW n, NEW m, NEW w,
         w = [NoWork EXCEPT !.told = rs, !.left = rs, !.fetched = n, !.errors = m]
  PROVE  w = [told |-> rs, left |-> rs, batch |-> {}, known |-> {}, held |-> {}, latest |-> {},
              stored |-> 0, created |-> 0, errors |-> m, fetched |-> n]
BY DEF NoWork

LEMMA FreshWorkIsTyped ==
  ASSUME NEW rs \in SUBSET RecordType, IsFiniteSet(rs),
         \A r \in rs : IsFiniteSet(r.quotes), NEW n \in Nat, NEW m \in Nat
  PROVE  LET w == [NoWork EXCEPT !.told = rs, !.left = rs, !.fetched = n, !.errors = m]
         IN  w \in WorkType /\ IsCounted(w)
<1> DEFINE v == [told |-> rs, left |-> rs, batch |-> {}, known |-> {}, held |-> {}, latest |-> {},
                 stored |-> 0, created |-> 0, errors |-> m, fetched |-> n]
<1>1. v \in WorkType
  BY DEF WorkType
<1>2. v.told = rs /\ v.left = rs /\ v.batch = {}
  OBVIOUS
<1>3. [NoWork EXCEPT !.told = rs, !.left = rs, !.fetched = n, !.errors = m] = v
  BY FreshWork, Zenon
<1> HIDE DEF v
<1>4. IsCounted(v)
  BY <1>2 DEF IsCounted
<1> QED BY <1>1, <1>3, <1>4, Zenon

LEMMA HeardIsTyped ==
  ASSUME TypeInv, NEW c \in Call, NEW mode \in Mode, NEW answered \in SUBSET External,
         NEW fuels \in SUBSET Fuel, NEW malformed, NEW unplaced,
         Hear(c, mode, answered, fuels, malformed, unplaced)
  PROVE  /\ clock' \in Nat /\ pc' \in [Call -> Phase]
         /\ work' \in [Call -> WorkType] /\ WorkIsCounted'
<1> DEFINE now == clock + 1
           fetched == Records(answered, fuels, unplaced, mode, now)
           records == {r \in fetched : r.ext \notin malformed}
           w == [NoWork EXCEPT !.told = records, !.left = records,
                               !.fetched = Cardinality(fetched),
                               !.errors = Cardinality(fetched \ records)]
<1>1. now \in Nat /\ clock' = now
  BY DEF TypeInv, TypeOK, Hear
<1>2. /\ IsFiniteSet(fetched) /\ fetched \subseteq RecordType
      /\ \A r \in fetched : IsFiniteSet(r.quotes)
  BY <1>1, RecordsAreFinite DEF TypeInv
<1>3. work' = [work EXCEPT ![c] = w]
  BY DEF Hear
<1>4. pc' \in [Call -> Phase]
  BY DEF Hear, TypeInv, TypeOK, Phase, Importing
<1> HIDE DEF now, fetched
<1>5. IsFiniteSet(records) /\ IsFiniteSet(fetched \ records)
  BY <1>2, FS_Subset
<1>6. Cardinality(fetched) \in Nat /\ Cardinality(fetched \ records) \in Nat
  BY <1>2, <1>5, FS_CardinalityType
<1>7. records \in SUBSET RecordType /\ \A r \in records : r \in fetched
  BY <1>2
<1> HIDE DEF records
<1>8. w \in WorkType /\ IsCounted(w)
  BY <1>2, <1>5, <1>6, <1>7, FreshWorkIsTyped
<1> HIDE DEF w
<1> QED BY <1>1, <1>3, <1>4, <1>8, WorkOfOne

-----------------------------------------------------------------------------
(* The batches.                                                            *)

LEMMA BatchIsTyped ==
  ASSUME TypeInv, NEW c \in Call
  PROVE  /\ work[c] \in WorkType /\ IsCounted(work[c])
         /\ IsFiniteSet(work[c].batch) /\ work[c].batch \subseteq RecordType
         /\ \A r \in work[c].batch : IsFiniteSet(r.quotes)
<1>1. work[c] \in WorkType /\ IsCounted(work[c])
  BY DEF TypeInv, TypeOK, WorkIsCounted
<1>2. work[c].batch \subseteq work[c].told /\ work[c].told \subseteq RecordType
  BY <1>1 DEF WorkType, IsCounted
<1> QED BY <1>1, <1>2, FS_Subset DEF IsCounted

LEMMA ReadIsTyped ==
  ASSUME TypeInv, NEW c \in Call, ReadMappings(c)
  PROVE  work' \in [Call -> WorkType] /\ WorkIsCounted'
<1>1. PICK batch \in SUBSET work[c].left :
        work' = [work EXCEPT ![c].batch = batch,
                             ![c].known = Mapped \cap {r.ext : r \in batch}]
  BY DEF ReadMappings
<1>2. work[c] \in WorkType /\ IsCounted(work[c])
  BY BatchIsTyped
<1> DEFINE known == Mapped \cap {r.ext : r \in batch}
           w == [work[c] EXCEPT !.batch = batch, !.known = known]
<1>3. known \in SUBSET External
  BY DEF Mapped
<1> HIDE DEF known
<1>4. batch \in SUBSET RecordType
  BY <1>2 DEF WorkType
<1>5. w \in WorkType
  BY <1>2, <1>3, <1>4 DEF WorkType
<1>6. w.told = work[c].told /\ w.left = work[c].left /\ w.batch = batch
  BY <1>2 DEF WorkType
<1>7. IsCounted(w)
  BY <1>2, <1>6 DEF IsCounted
<1>8. work' = [work EXCEPT ![c] = w]
  BY <1>1 DEF TypeInv, TypeOK, known
<1> QED BY <1>5, <1>7, <1>8, WorkOfOne

LEMMA RowIsTyped ==
  ASSUME TypeInv, NEW c \in Call, WriteRow(c)
  PROVE  work' \in [Call -> WorkType] /\ WorkIsCounted'
<1>1. PICK e \in Touched(c) : work' = [work EXCEPT ![c].held = @ \cup {e}]
  BY DEF WriteRow
<1>2. work[c] \in WorkType /\ IsCounted(work[c])
  BY BatchIsTyped
<1>3. e \in External
  BY BatchIsTyped DEF Touched, RecordType
<1> DEFINE w == [work[c] EXCEPT !.held = work[c].held \cup {e}]
<1>4. w \in WorkType
  BY <1>2, <1>3 DEF WorkType
<1>5. w.told = work[c].told /\ w.left = work[c].left /\ w.batch = work[c].batch
  BY <1>2 DEF WorkType
<1>6. IsCounted(w)
  BY <1>2, <1>5 DEF IsCounted
<1>7. work' = [work EXCEPT ![c] = w]
  BY <1>1 DEF TypeInv, TypeOK
<1> QED BY <1>4, <1>6, <1>7, WorkOfOne

LEMMA ComparedIsTyped ==
  ASSUME TypeInv, NEW c \in Call, LoadLatestPrices(c)
  PROVE  work' \in [Call -> WorkType] /\ WorkIsCounted'
<1> DEFINE sold == {k \in Sold : k[1] \in Stations(c) /\ At(k) # {}}
<1>1. PICK latest \in [sold -> obs] :
        work' = [work EXCEPT ![c].latest = {<<k, latest[k].price>> : k \in DOMAIN latest}]
  BY DEF LoadLatestPrices
<1>2. work[c] \in WorkType /\ IsCounted(work[c])
  BY BatchIsTyped
<1> DEFINE prices == {<<k, latest[k].price>> : k \in DOMAIN latest}
           w == [work[c] EXCEPT !.latest = prices]
<1>3. prices \in SUBSET (Sold \X Price)
  <2>1. \A k \in sold : k \in Sold /\ latest[k] \in ObservationType
    BY DEF TypeInv, TypeOK
  <2> QED BY <2>1 DEF ObservationType
<1> HIDE DEF prices
<1>4. w \in WorkType
  BY <1>2, <1>3 DEF WorkType
<1>5. w.told = work[c].told /\ w.left = work[c].left /\ w.batch = work[c].batch
  BY <1>2 DEF WorkType
<1>6. IsCounted(w)
  BY <1>2, <1>5 DEF IsCounted
<1>7. work' = [work EXCEPT ![c] = w]
  BY <1>1 DEF TypeInv, TypeOK, prices
<1> QED BY <1>4, <1>6, <1>7, WorkOfOne

(* What a batch is about to store.                                         *)
LEMMA RowsAreFinite ==
  ASSUME TypeInv, NEW c \in Call
  PROVE  /\ IsFiniteSet(ObservationRows(c)) /\ ObservationRows(c) \subseteq ObservationType
         /\ IsFiniteSet(FreshRows(c)) /\ FreshRows(c) \subseteq ObservationType
<1> DEFINE quotes(r) == {p \in r.quotes : ~IsUnchangedPrice(c, r.ext, p)}
           row(r, q) == [ext |-> r.ext, fuel |-> q.fuel, price |-> q.price, at |-> q.at,
                         by |-> c]
           rows(r) == {row(r, q) : q \in quotes(r)}
           stored == {r \in work[c].batch : r.ext \in Stations(c)}
           all == {rows(r) : r \in stored}
<1>1. /\ IsFiniteSet(stored) /\ stored \subseteq RecordType
      /\ \A r \in stored : IsFiniteSet(r.quotes)
  BY BatchIsTyped, FS_Subset
<1>2. \A r \in stored : IsFiniteSet(rows(r)) /\ rows(r) \subseteq ObservationType
  <2> TAKE r \in stored
  <2> DEFINE f == [q \in quotes(r) |-> row(r, q)]
  <2>1. IsFiniteSet(quotes(r))
    BY <1>1, FS_Subset
  <2>2. IsFiniteSet({f[q] : q \in quotes(r)})
    <3> HIDE DEF f, quotes
    <3> QED BY <2>1, FiniteRange
  <2>3. {f[q] : q \in quotes(r)} = rows(r)
    <3> HIDE DEF quotes, row
    <3> QED OBVIOUS
  <2>4. \A q \in quotes(r) : row(r, q) \in ObservationType
    BY <1>1 DEF RecordType, QuoteType, ObservationType
  <2> HIDE DEF quotes, row
  <2> QED BY <2>2, <2>3, <2>4
<1>3. IsFiniteSet(all)
  <2> DEFINE f == [r \in stored |-> rows(r)]
  <2>1. IsFiniteSet({f[r] : r \in stored})
    <3> HIDE DEF f, stored
    <3> QED BY <1>1, FiniteRange
  <2>2. {f[r] : r \in stored} = all
    <3> HIDE DEF rows, stored
    <3> QED OBVIOUS
  <2> QED BY <2>1, <2>2
<1>4. ObservationRows(c) = UNION all
  BY DEF ObservationRows
<1> HIDE DEF rows, stored
<1>5. IsFiniteSet(UNION all) /\ UNION all \subseteq ObservationType
  <2>1. \A T \in all : IsFiniteSet(T) /\ T \subseteq ObservationType
    BY <1>2
  <2> HIDE DEF all
  <2> QED BY <1>3, <2>1, FS_UNION
<1> HIDE DEF all
<1>6. FreshRows(c) \subseteq ObservationRows(c)
  BY DEF FreshRows
<1> QED BY <1>4, <1>5, <1>6, FS_Subset

LEMMA CommittedIsTyped ==
  ASSUME TypeInv, NEW c \in Call, Commit(c)
  PROVE  /\ work' \in [Call -> WorkType] /\ WorkIsCounted'
         /\ mapped' \in [External -> Call \cup {NoCall}] /\ obs' \subseteq ObservationType
<1> DEFINE left == work[c].left \ work[c].batch
           n == work[c].stored + Cardinality(FreshRows(c))
           m == work[c].created + Cardinality(Insertable(c))
           e == work[c].errors + BatchErrors(c)
           w == [work[c] EXCEPT !.left = left, !.batch = {}, !.known = {}, !.held = {},
                                !.latest = {}, !.stored = n, !.created = m, !.errors = e]
<1>1. /\ work[c] \in WorkType /\ IsCounted(work[c])
      /\ IsFiniteSet(work[c].batch)
  BY BatchIsTyped
<1>2. IsFiniteSet(FreshRows(c)) /\ FreshRows(c) \subseteq ObservationType
  BY RowsAreFinite
<1>3. /\ IsFiniteSet(Insertable(c)) /\ IsFiniteSet(NewRecords(c) \ Insertable(c))
      /\ IsFiniteSet({r \in work[c].batch : r.ext \notin Stations(c)})
  <2>1. /\ Insertable(c) \subseteq work[c].batch
        /\ NewRecords(c) \ Insertable(c) \subseteq work[c].batch
        /\ {r \in work[c].batch : r.ext \notin Stations(c)} \subseteq work[c].batch
    BY DEF Insertable, NewRecords
  <2> QED BY <1>1, <2>1, FS_Subset
<1>4. BatchErrors(c) \in Nat
  <2>1. /\ Cardinality(NewRecords(c) \ Insertable(c)) \in Nat
        /\ Cardinality({r \in work[c].batch : r.ext \notin Stations(c)}) \in Nat
    BY <1>3, FS_CardinalityType
  <2> QED BY <2>1 DEF BatchErrors
<1>5. n \in Nat /\ m \in Nat /\ e \in Nat
  <2>1. /\ work[c].stored \in Nat /\ work[c].created \in Nat /\ work[c].errors \in Nat
    BY <1>1 DEF WorkType
  <2>2. Cardinality(FreshRows(c)) \in Nat /\ Cardinality(Insertable(c)) \in Nat
    BY <1>2, <1>3, FS_CardinalityType
  <2> QED BY <1>4, <2>1, <2>2
<1>6. left \in SUBSET RecordType /\ left \subseteq work[c].left
  BY <1>1 DEF WorkType
<1>7. work' = [work EXCEPT ![c] = w]
  BY DEF Commit, TypeInv, TypeOK
<1>8. mapped' \in [External -> Call \cup {NoCall}]
  BY DEF Commit, TypeInv, TypeOK
<1>9. obs' \subseteq ObservationType
  BY <1>2 DEF Commit, TypeInv, TypeOK
<1> HIDE DEF left, n, m, e
<1>10. w \in WorkType
  BY <1>1, <1>5, <1>6 DEF WorkType
<1>11. w.told = work[c].told /\ w.left = left /\ w.batch = {}
  BY <1>1 DEF WorkType
<1>12. IsCounted(w)
  BY <1>1, <1>6, <1>11 DEF IsCounted
<1> QED BY <1>7, <1>8, <1>9, <1>10, <1>12, WorkOfOne

LEMMA ImportIsTyped ==
  ASSUME TypeInv, NEW c \in Call, ImportStations(c)
  PROVE  /\ pc' \in [Call -> Phase]
         /\ work' \in [Call -> WorkType] /\ WorkIsCounted'
         /\ mapped' \in [External -> Call \cup {NoCall}] /\ obs' \subseteq ObservationType
         /\ UNCHANGED told
<1>1. CASE ReadMappings(c)
  <2>1. pc' = [pc EXCEPT ![c] = "writing"] /\ UNCHANGED <<told, tables>>
    BY <1>1 DEF ReadMappings
  <2> QED BY <1>1, <2>1, ReadIsTyped DEF tables, TypeInv, TypeOK, Phase, Importing
<1>2. CASE WriteStations(c)
  <2>1. pc' = [pc EXCEPT ![c] = IF Conflicts(c) THEN "failing"
                                ELSE IF provider.dedup = "price-change-only"
                                THEN "comparing" ELSE "storing"]
        /\ UNCHANGED <<told, tables, work>>
    BY <1>2 DEF WriteStations
  <2>2. pc' \in [Call -> Phase]
    BY <2>1 DEF TypeInv, TypeOK, Phase, Importing
  <2> QED BY <2>1, <2>2 DEF tables, TypeInv, TypeOK, WorkIsCounted, IsCounted
<1>3. CASE LoadLatestPrices(c)
  <2>1. pc' = [pc EXCEPT ![c] = "storing"] /\ UNCHANGED <<told, tables>>
    BY <1>3 DEF LoadLatestPrices
  <2> QED BY <1>3, <2>1, ComparedIsTyped DEF tables, TypeInv, TypeOK, Phase, Importing
<1>4. CASE Commit(c)
  <2>1. pc' \in [Call -> Phase] /\ UNCHANGED told
    BY <1>4 DEF Commit, TypeInv, TypeOK, Phase, Importing
  <2> QED BY <1>4, <2>1, CommittedIsTyped
<1>5. CASE WriteRow(c)
  <2>1. UNCHANGED <<told, tables, pc>>
    BY <1>5 DEF WriteRow
  <2> QED BY <1>5, <2>1, RowIsTyped DEF tables, TypeInv, TypeOK
<1>6. CASE Deadlock(c)
  <2>1. pc' = [pc EXCEPT ![c] = "failing"] /\ UNCHANGED <<told, tables, work>>
    BY <1>6 DEF Deadlock
  <2>2. pc' \in [Call -> Phase]
    BY <2>1 DEF TypeInv, TypeOK, Phase
  <2> QED BY <2>1, <2>2 DEF tables, TypeInv, TypeOK, WorkIsCounted, IsCounted
<1> QED BY <1>1, <1>2, <1>3, <1>4, <1>5, <1>6 DEF ImportStations

-----------------------------------------------------------------------------
(* Types.                                                                  *)

LEMMA FailuresAreBounded ==
  ASSUME TypeInv, NEW n \in Nat, Wrong(n)
  PROVE  failures' \in 0..MaxFailures
BY IngestionAssumption DEF TypeInv, TypeOK, Wrong

LEMMA FetchIsTyped ==
  ASSUME TypeInv, NEW c \in Call, Fetch(c)
  PROVE  TypeInv'
<1> DEFINE Answer(mode, asked, fuels, dropped, malformed, unplaced) ==
             /\ dropped \cap malformed = {} /\ (dropped \cup malformed) \cap unplaced = {}
             /\ dropped # {} => provider.refresh
             /\ unplaced # {} => provider.dedup = "timestamp-price"
             /\ Wrong(Cardinality(dropped \cup malformed \cup unplaced))
             /\ Hear(c, mode, asked \ dropped, fuels, malformed, unplaced)
<1>1. PICK mode \in (IF provider.refresh THEN Mode ELSE {"full"}) :
        \E asked \in Asked(mode), fuels \in FuelsAsked(c) :
        \E dropped \in SUBSET asked : \E malformed \in SUBSET asked :
        \E unplaced \in SUBSET asked :
          Answer(mode, asked, fuels, dropped, malformed, unplaced)
  BY Zenon DEF Fetch
<1> HIDE DEF Answer
<1>2. PICK asked \in Asked(mode), fuels \in FuelsAsked(c) :
        \E dropped \in SUBSET asked : \E malformed \in SUBSET asked :
        \E unplaced \in SUBSET asked :
          Answer(mode, asked, fuels, dropped, malformed, unplaced)
  BY <1>1
<1>3. PICK dropped \in SUBSET asked, malformed \in SUBSET asked,
           unplaced \in SUBSET asked :
        Answer(mode, asked, fuels, dropped, malformed, unplaced)
  BY <1>2
<1>4. /\ Wrong(Cardinality(dropped \cup malformed \cup unplaced))
      /\ Hear(c, mode, asked \ dropped, fuels, malformed, unplaced)
      /\ mode \in Mode
  BY <1>3 DEF Answer, Mode
<1>5. asked \in SUBSET External
  BY IngestionWriterAssumption DEF Asked, Mapped
<1>6. fuels \in SUBSET Fuel
  BY DEF FuelsAsked
<1>7. Cardinality(dropped \cup malformed \cup unplaced) \in Nat
  <2>1. IsFiniteSet(dropped \cup malformed \cup unplaced)
    BY <1>5, IngestionWriterAssumption, FS_Subset
  <2> QED BY <2>1, FS_CardinalityType
<1>8. failures' \in 0..MaxFailures
  BY <1>4, <1>7, FailuresAreBounded
<1>9. /\ clock' \in Nat /\ pc' \in [Call -> Phase]
      /\ work' \in [Call -> WorkType] /\ WorkIsCounted'
  <2>1. asked \ dropped \in SUBSET External
    BY <1>5
  <2> QED BY <1>4, <1>6, <2>1, HeardIsTyped
<1>10. overlapped' \subseteq Call
  BY DEF Fetch, NoteOverlap, OthersImporting, TypeInv, TypeOK
<1>11. UNCHANGED <<provider, feed, mapped, obs, lock, lost, run, cached>>
  BY <1>4 DEF Hear, Fetch, tables
<1> QED BY <1>8, <1>9, <1>10, <1>11 DEF TypeInv, TypeOK

LEMMA FinishedIsTyped ==
  ASSUME TypeInv, NEW c \in Call, FinishRun(c)
  PROVE  TypeInv'
<1>1. work[c] \in WorkType /\ c \in Runs
  BY DEF TypeInv, TypeOK, FinishRun
<1>2. ResolveStatus(work[c]) \in RunStatus
  BY DEF ResolveStatus, RunStatus
<1>3. run' \in [Runs -> RunType]
  BY <1>1, <1>2 DEF FinishRun, RunType, WorkType, TypeInv, TypeOK
<1>4. pc' \in [Call -> Phase]
  BY DEF FinishRun, GoTo, TypeInv, TypeOK, Phase
<1>5. work' \in [Call -> WorkType] /\ WorkIsCounted'
  BY ForgottenIsTyped DEF FinishRun
<1> QED BY <1>3, <1>4, <1>5 DEF FinishRun, told, tables, TypeInv, TypeOK

LEMMA TypesAreKept ==
  ASSUME TypeInv, Next
  PROVE  TypeInv'
<1>1. ASSUME NEW c \in Call, TryLock(c)  PROVE TypeInv'
  BY <1>1 DEF TryLock, GoTo, told, tables, TypeInv, TypeOK, Phase, WorkIsCounted, IsCounted
<1>2. ASSUME NEW c \in Call, Search(c)  PROVE TypeInv'
  <2>1. failures' \in 0..MaxFailures
    BY <1>2, FailuresAreBounded DEF Search, TypeInv, TypeOK
  <2> QED BY <1>2, <2>1 DEF Search, GoTo, told, tables, TypeInv, TypeOK, Phase,
                             WorkIsCounted, IsCounted
<1>3. ASSUME NEW c \in Call, StartRun(c)  PROVE TypeInv'
  <2>1. run' \in [Runs -> RunType]
    BY <1>3 DEF StartRun, TypeInv, TypeOK, RunType, RunStatus
  <2> QED BY <1>3, <2>1 DEF StartRun, GoTo, told, tables, TypeInv, TypeOK, Phase,
                             WorkIsCounted, IsCounted
<1>4. ASSUME NEW c \in Call, Import(c)  PROVE TypeInv'
  <2>1. ImportStations(c) /\ UNCHANGED <<lock, lost, run, cached, overlapped, failures>>
    BY <1>4 DEF Import
  <2> QED BY <2>1, ImportIsTyped DEF TypeInv, TypeOK, told
<1>5. ASSUME NEW c \in Call, FinishFailed(c)  PROVE TypeInv'
  <2>1. run' \in [Runs -> RunType]
    BY <1>5 DEF FinishFailed, TypeInv, TypeOK, RunType, RunStatus, NoRun
  <2>2. work' \in [Call -> WorkType] /\ WorkIsCounted'
    BY <1>5, ForgottenIsTyped DEF FinishFailed
  <2> QED BY <1>5, <2>1, <2>2 DEF FinishFailed, GoTo, told, tables, TypeInv, TypeOK, Phase
<1>6. ASSUME NEW c \in Call, Unlock(c)  PROVE TypeInv'
  BY <1>6 DEF Unlock, GoTo, told, tables, TypeInv, TypeOK, Phase, WorkIsCounted, IsCounted
<1>7. ASSUME NEW c \in Call, Refreshed(c)  PROVE TypeInv'
  <2>1. failures' \in 0..MaxFailures /\ cached' \in BOOLEAN
    BY <1>7, FailuresAreBounded DEF Refreshed, TypeInv, TypeOK
  <2>2. work' \in [Call -> WorkType] /\ WorkIsCounted'
    BY <1>7, ForgottenIsTyped DEF Refreshed
  <2> QED BY <1>7, <2>1, <2>2 DEF Refreshed, GoTo, told, tables, TypeInv, TypeOK, Phase
<1>8. ASSUME NEW c \in Call, CatchRefresh(c)  PROVE TypeInv'
  <2>1. work' \in [Call -> WorkType] /\ WorkIsCounted'
    BY <1>8, ForgottenIsTyped DEF CatchRefresh
  <2> QED BY <1>8, <2>1 DEF CatchRefresh, GoTo, told, tables, TypeInv, TypeOK, Phase
<1>9. ASSUME NEW c \in Call, Throw(c)  PROVE TypeInv'
  <2>1. work' \in [Call -> WorkType] /\ WorkIsCounted'
    BY <1>9, ForgottenIsTyped DEF Throw
  <2>2. failures' \in 0..MaxFailures
    BY <1>9, FailuresAreBounded DEF Throw
  <2> QED BY <1>9, <2>1, <2>2 DEF Throw, GoTo, told, tables, TypeInv, TypeOK, Phase
<1>10. ASSUME NEW c \in Call, ThrowAgain(c)  PROVE TypeInv'
  <2>1. failures' \in 0..MaxFailures
    BY <1>10, FailuresAreBounded DEF ThrowAgain
  <2> QED BY <1>10, <2>1 DEF ThrowAgain, GoTo, told, tables, TypeInv, TypeOK, Phase,
                              WorkIsCounted, IsCounted
<1>11. ASSUME NEW c \in Call, LoseLock(c)  PROVE TypeInv'
  <2>1. failures' \in 0..MaxFailures
    BY <1>11, FailuresAreBounded DEF LoseLock
  <2>2. c \in Runs
    BY <1>11, IngestionWriterAssumption DEF LoseLock, TypeInv, TypeOK
  <2> QED BY <1>11, <2>1, <2>2 DEF LoseLock, told, tables, calls, TypeInv, TypeOK,
                                    WorkIsCounted, IsCounted
<1>12. ASSUME NEW p \in Process, Crash(p)  PROVE TypeInv'
  <2>1. failures' \in 0..MaxFailures
    BY <1>12, FailuresAreBounded DEF Crash
  <2>2. NoWork \in WorkType /\ IsCounted(NoWork)
    BY FS_EmptySet DEF NoWork, WorkType, IsCounted
  <2>3. work' \in [Call -> WorkType] /\ WorkIsCounted'
    BY <1>12, <2>2 DEF Crash, TypeInv, TypeOK, WorkIsCounted, IsCounted
  <2>4. pc' \in [Call -> Phase]
    BY <1>12 DEF Crash, TypeInv, TypeOK, Phase
  <2> QED BY <1>12, <2>1, <2>3, <2>4 DEF Crash, told, tables, TypeInv, TypeOK
<1>13. ASSUME Expire  PROVE TypeInv'
  BY <1>13 DEF Expire, writerVars, told, tables, calls, TypeInv, TypeOK,
               WorkIsCounted, IsCounted
<1>14. ASSUME NEW k \in Sold, NEW price \in Price, ProviderChanges(k, price),
              UNCHANGED <<lock, lost, run, cached, overlapped, failures>>
       PROVE  TypeInv'
  BY <1>14 DEF ProviderChanges, tables, calls, TypeInv, TypeOK, WorkIsCounted, IsCounted
<1>15. ASSUME NEW k \in Sold, NEW price \in Reported, CreateObservation(k, price),
              UNCHANGED <<lock, lost, run, cached, overlapped, failures>>
       PROVE  TypeInv'
  <2>1. k[1] \in External /\ k[2] \in Fuel /\ price \in Price
    BY IngestionWriterAssumption DEF Fuel
  <2>2. obs' \subseteq ObservationType /\ clock' \in Nat
    BY <1>15, <2>1 DEF CreateObservation, ObservationType, TypeInv, TypeOK
  <2> QED BY <1>15, <2>2 DEF CreateObservation, calls, TypeInv, TypeOK,
                              WorkIsCounted, IsCounted
<1> QED
  BY <1>1, <1>2, <1>3, <1>4, <1>5, <1>6, <1>7, <1>8, <1>9, <1>10, <1>11, <1>12, <1>13,
     <1>14, <1>15, FetchIsTyped, FinishedIsTyped DEF Next, Step, World

LEMMA TypesHoldAtFirst ==
  ASSUME Init
  PROVE  TypeInv
<1>1. NoWork \in WorkType /\ IsCounted(NoWork)
  BY FS_EmptySet DEF NoWork, WorkType, IsCounted
<1>2. NoRun \in RunType
  BY DEF NoRun, RunType, RunStatus
<1>3. work \in [Call -> WorkType] /\ WorkIsCounted
  BY <1>1 DEF Init, WriterInit, WorkIsCounted
<1>4. /\ provider \in Providers /\ clock \in Nat
      /\ feed \in [Sold -> [price : Price, at : Nat]]
      /\ mapped \in [External -> Call \cup {NoCall}] /\ obs \subseteq ObservationType
      /\ pc \in [Call -> Phase]
  BY IngestionWriterAssumption DEF Init, WriterInit, Phase
<1>5. run \in [Runs -> RunType]
  BY <1>2 DEF Init
<1>6. /\ lock \in Runs \cup {NoCall} /\ lost \subseteq Runs
      /\ overlapped \subseteq Call
  BY DEF Init
<1>7. cached \in BOOLEAN
  BY DEF Init
<1>8. failures \in 0..MaxFailures
  <2>1. failures = 0
    BY DEF Init
  <2> QED BY <2>1, IngestionAssumption
<1> QED BY <1>3, <1>4, <1>5, <1>6, <1>7, <1>8 DEF TypeInv, TypeOK

LEMMA TypesStutter ==
  ASSUME TypeInv, UNCHANGED vars
  PROVE  TypeInv'
BY DEF vars, writerVars, told, tables, calls, TypeInv, TypeOK, WorkIsCounted, IsCounted

(* Every variable keeps its type, for any providers and any number of      *)
(* calls, processes and failures.                                          *)
THEOREM TypeCorrect == Spec => []TypeOK
<1>1. TypeInv /\ [Next]_vars => TypeInv'
  BY TypesAreKept, TypesStutter
<1> QED BY <1>1, TypesHoldAtFirst, PTL DEF Spec, TypeInv

-----------------------------------------------------------------------------
(* The lock.                                                               *)

(* Who is inside has the lock or lost the connection that held it; who has *)
(* it is inside or about to give it back; a row says "running" only while  *)
(* its run is inside, was left unrecorded or died.                         *)
InsideHasLock ==
  \A c \in Runs : pc[c] \in InsideLock => lock = c \/ c \in lost

HolderIsInside == lock # NoCall => pc[lock] \in InsideLock \cup {"unlocking", "abandoned"}

RunningIsInside ==
  \A c \in Runs : run[c].status = "running" =>
    pc[c] \in InsideLock \cup {"abandoned", "unrecorded", "dead"}

LockInv == InsideHasLock /\ HolderIsInside /\ RunningIsInside

(* A step of a call inside the lock that keeps it there and leaves the     *)
(* lock and the rows alone.                                                *)
LEMMA StayingInside ==
  ASSUME TypeInv, LockInv, NEW c \in Call, pc[c] \in InsideLock,
         NEW phase \in InsideLock, pc' = [pc EXCEPT ![c] = phase],
         UNCHANGED <<lock, lost, run>>
  PROVE  LockInv'
BY DEF TypeInv, TypeOK, LockInv, InsideHasLock, HolderIsInside, RunningIsInside

LEMMA LockIsKept ==
  ASSUME TypeInv, LockInv, Next
  PROVE  LockInv'
<1> USE IngestionWriterAssumption, IngestionAssumption
<1>0. /\ pc \in [Call -> Phase] /\ lock \in Runs \cup {NoCall} /\ lost \subseteq Runs
      /\ run \in [Runs -> RunType] /\ NoCall \notin Runs
  BY DEF TypeInv, TypeOK
<1>1. ASSUME NEW c \in Call, TryLock(c)  PROVE LockInv'
  BY <1>0, <1>1 DEF TryLock, GoTo, LockInv, InsideHasLock, HolderIsInside,
                    RunningIsInside, InsideLock, Importing
<1>2. ASSUME NEW c \in Call, Search(c)  PROVE LockInv'
  BY <1>0, <1>2 DEF Search, GoTo, LockInv, InsideHasLock, HolderIsInside,
                    RunningIsInside, InsideLock, Importing
<1>3. ASSUME NEW c \in Call, StartRun(c)  PROVE LockInv'
  <2>1. pc[c] = "opening" /\ pc' = [pc EXCEPT ![c] = "fetching"] /\ UNCHANGED <<lock, lost>>
    BY <1>3 DEF StartRun, GoTo
  <2>2. \A d \in Runs \ {c} : run'[d] = run[d]
    BY <1>0, <1>3 DEF StartRun
  <2> QED BY <1>0, <2>1, <2>2 DEF LockInv, InsideHasLock, HolderIsInside,
                                   RunningIsInside, InsideLock
<1>4. ASSUME NEW c \in Call, Fetch(c)  PROVE LockInv'
  <2> DEFINE Moves == \E phase \in {"reconciling", "reading"} : pc' = [pc EXCEPT ![c] = phase]
  <2>0. \A mode, answered, fuels, malformed, unplaced :
          Hear(c, mode, answered, fuels, malformed, unplaced) => Moves
    <3> TAKE mode, answered, fuels, malformed, unplaced
    <3> DEFINE none == {r \in Records(answered, fuels, unplaced, mode, clock + 1) :
                          r.ext \notin malformed} = {}
    <3>1. HAVE Hear(c, mode, answered, fuels, malformed, unplaced)
    <3>2. pc' = [pc EXCEPT ![c] = IF none THEN "reconciling" ELSE "reading"]
      BY <3>1, Zenon DEF Hear
    <3> HIDE DEF none
    <3> QED BY <3>2
  <2> HIDE DEF Moves
  <2>1. PICK phase \in {"reconciling", "reading"} : pc' = [pc EXCEPT ![c] = phase]
    <3>1. Moves
      BY <1>4, <2>0, Zenon DEF Fetch
    <3> QED BY <3>1 DEF Moves
  <2>2. pc[c] = "fetching" /\ UNCHANGED <<lock, lost, run>>
    BY <1>4 DEF Fetch
  <2> QED BY <2>1, <2>2, StayingInside DEF InsideLock, Importing
<1>5. ASSUME NEW c \in Call, Import(c)  PROVE LockInv'
  <2>1. ImportStations(c) /\ UNCHANGED <<lock, lost, run>>
    BY <1>5 DEF Import
  <2>2. pc[c] \in Importing
    BY <2>1 DEF ImportStations, ReadMappings, WriteRow, Deadlock, WriteStations,
                LoadLatestPrices, Commit, Importing
  <2>3. PICK phase \in {"reading", "writing", "comparing", "storing", "failing",
                        "reconciling"} : pc' = [pc EXCEPT ![c] = phase]
    <3>1. pc' = [pc EXCEPT ![c] = pc[c]] \/ ~WriteRow(c)
      BY <1>0 DEF WriteRow
    <3> QED BY <2>1, <2>2, <3>1 DEF ImportStations, ReadMappings, WriteRow, Deadlock,
                WriteStations, LoadLatestPrices, Commit, Importing
  <2> QED BY <2>1, <2>2, <2>3, StayingInside DEF InsideLock, Importing
<1>6. ASSUME NEW c \in Call, FinishRun(c)  PROVE LockInv'
  <2>1. /\ c \in Runs /\ pc[c] = "reconciling" /\ pc' = [pc EXCEPT ![c] = "unlocking"]
        /\ UNCHANGED <<lock, lost>>
    BY <1>6 DEF FinishRun, Imported, GoTo
  <2>2. run'[c].status = ResolveStatus(work[c]) /\ \A d \in Runs \ {c} : run'[d] = run[d]
    BY <1>0, <1>6 DEF FinishRun
  <2>3. ResolveStatus(work[c]) # "running"
    BY DEF ResolveStatus
  <2> QED BY <1>0, <2>1, <2>2, <2>3 DEF LockInv, InsideHasLock, HolderIsInside,
                                         RunningIsInside, InsideLock, Importing
<1>7. ASSUME NEW c \in Call, FinishFailed(c)  PROVE LockInv'
  <2>1. /\ c \in Runs /\ pc[c] = "failing" /\ pc' = [pc EXCEPT ![c] = "unlocking"]
        /\ UNCHANGED <<lock, lost>>
    BY <1>7 DEF FinishFailed, GoTo
  <2>2. run'[c].status # "running" /\ \A d \in Runs \ {c} : run'[d] = run[d]
    BY <1>0, <1>7 DEF FinishFailed, NoRun
  <2> QED BY <1>0, <2>1, <2>2 DEF LockInv, InsideHasLock, HolderIsInside,
                                   RunningIsInside, InsideLock, Importing
<1>8. ASSUME NEW c \in Call, Unlock(c)  PROVE LockInv'
  <2>1. /\ lock' = IF lock = c THEN NoCall ELSE lock
        /\ UNCHANGED <<lost, run>>
        /\ \/ pc[c] = "refused" /\ pc' = [pc EXCEPT ![c] = "idle"]
           \/ pc[c] = "unlocking" /\ pc' = [pc EXCEPT ![c] = "done"]
           \/ pc[c] = "abandoned" /\ pc' = [pc EXCEPT ![c] = "unrecorded"]
    BY <1>8 DEF Unlock, GoTo
  <2> QED BY <1>0, <2>1 DEF LockInv, InsideHasLock, HolderIsInside, RunningIsInside,
                             InsideLock, Importing
<1>9. ASSUME NEW c \in Call, Refreshed(c) \/ CatchRefresh(c)  PROVE LockInv'
  <2>1. c \notin Runs /\ pc' = [pc EXCEPT ![c] = "done"] /\ UNCHANGED <<lock, lost, run>>
    BY <1>9 DEF Refreshed, CatchRefresh, GoTo
  <2> QED BY <1>0, <2>1 DEF LockInv, InsideHasLock, HolderIsInside, RunningIsInside
<1>10. ASSUME NEW c \in Call, Throw(c)  PROVE LockInv'
  <2>1. /\ pc[c] \in InsideLock /\ pc' = [pc EXCEPT ![c] = "failing"]
        /\ UNCHANGED <<lock, lost, run>>
    BY <1>10 DEF Throw, GoTo, InsideLock
  <2> QED BY <2>1, StayingInside DEF InsideLock
<1>11. ASSUME NEW c \in Call, ThrowAgain(c)  PROVE LockInv'
  BY <1>0, <1>11 DEF ThrowAgain, GoTo, LockInv, InsideHasLock, HolderIsInside,
                     RunningIsInside, InsideLock, Importing
<1>12. ASSUME NEW c \in Call, LoseLock(c)  PROVE LockInv'
  BY <1>0, <1>12 DEF LoseLock, calls, LockInv, InsideHasLock, HolderIsInside,
                     RunningIsInside
<1>13. ASSUME NEW p \in Process, Crash(p)  PROVE LockInv'
  <2> DEFINE dying == {c \in Call : Home[c] = p /\ pc[c] \notin Over \cup {"idle"}}
  <2>1. /\ pc' = [c \in Call |-> IF c \in dying THEN "dead" ELSE pc[c]]
        /\ lock' = IF lock \in dying THEN NoCall ELSE lock
        /\ UNCHANGED <<lost, run>>
    BY <1>13 DEF Crash
  <2> HIDE DEF dying
  <2> QED BY <1>0, <2>1 DEF LockInv, InsideHasLock, HolderIsInside, RunningIsInside,
                             InsideLock, Importing
<1>14. ASSUME Expire \/ World  PROVE LockInv'
  <2>1. UNCHANGED <<pc, lock, lost, run>>
    BY <1>14 DEF Expire, World, ProviderChanges, CreateObservation, writerVars, calls
  <2> QED BY <2>1 DEF LockInv, InsideHasLock, HolderIsInside, RunningIsInside
<1> QED
  BY <1>1, <1>2, <1>3, <1>4, <1>5, <1>6, <1>7, <1>8, <1>9, <1>10, <1>11, <1>12, <1>13,
     <1>14 DEF Next, Step

LEMMA LockHolds == Spec => [](TypeInv /\ LockInv)
<1>1. Init => LockInv
  BY IngestionWriterAssumption, IngestionAssumption
     DEF Init, WriterInit, LockInv, InsideHasLock, HolderIsInside, RunningIsInside,
         InsideLock, Importing, NoRun
<1>2. LockInv /\ UNCHANGED vars => LockInv'
  BY DEF vars, writerVars, calls, LockInv, InsideHasLock, HolderIsInside, RunningIsInside
<1>3. TypeInv /\ LockInv /\ [Next]_vars => (TypeInv /\ LockInv)'
  BY <1>2, TypesAreKept, TypesStutter, LockIsKept
<1> QED BY <1>1, <1>3, TypesHoldAtFirst, PTL DEF Spec

(* RunsAreExclusive, for any number of callers and processes: two runs     *)
(* inside at once both would have the one lock, unless a connection was    *)
(* dropped.                                                                *)
THEOREM RunsExcludeEachOther == Spec => []RunsAreExclusive
<1>1. TypeInv /\ LockInv => RunsAreExclusive
  BY DEF LockInv, InsideHasLock, RunsAreExclusive
<1> QED BY <1>1, LockHolds, PTL

(* EndedIsRecorded, wherever runs fail, are refused or die: who is over is *)
(* not inside, so it has neither the lock nor a row left running.          *)
THEOREM EndedRunsAreRecorded == Spec => []EndedIsRecorded
<1>1. TypeInv /\ LockInv => EndedIsRecorded
  BY IngestionWriterAssumption, IngestionAssumption
     DEF LockInv, HolderIsInside, RunningIsInside, EndedIsRecorded, Over, InsideLock, Importing
<1> QED BY <1>1, LockHolds, PTL

-----------------------------------------------------------------------------
(* The counts.  Two imports may be at the same stations; the rows a batch  *)
(* has written and holds until it commits keep what they insert apart, so  *)
(* that every batch counts what it has added to the tables and nothing     *)
(* else.                                                                   *)

StoredBy(c) == {o \in obs : o.by = c}
MappedBy(c) == {e \in External : mapped[e] = c}

Before == {"idle", "opening", "fetching", "refused"}
Counting == Importing \cup {"reconciling"}
Recorded == {"unlocking", "done", "dead"}

(* A call has the counts of what its batches have committed.  It imports   *)
(* only if it was told something.                                          *)
CallCounts(c) ==
  /\ pc[c] \in Before => StoredBy(c) = {} /\ MappedBy(c) = {}
  /\ pc[c] \in Counting =>
       /\ work[c].stored = Cardinality(StoredBy(c))
       /\ work[c].created = Cardinality(MappedBy(c))
       /\ work[c].fetched = 0 => work[c].told = {}
       /\ work[c].told = {} => pc[c] = "reconciling" /\ work[c].stored = 0

(* A batch that found no conflict holds every row it touches.              *)
BatchIsLocked(c) ==
  /\ pc[c] = "reading" => work[c].held = {}
  /\ pc[c] \in {"comparing", "storing"} => Touched(c) \subseteq work[c].held /\ ~Conflicts(c)

LocksApart == \A c, d \in Call : c # d => LockedRows(c) \cap LockedRows(d) = {}

RunCounts ==
  \A c \in Runs :
    /\ run[c].status \in {"succeeded", "partially_succeeded"} =>
         /\ run[c].stored = Cardinality(StoredBy(c))
         /\ run[c].created = Cardinality(MappedBy(c))
         /\ pc[c] \in Recorded
    /\ run[c].status = "failed" => run[c].stored = 0

CountInv ==
  /\ IsFiniteSet(obs) /\ LocksApart /\ RunCounts
  /\ \A c \in Call : CallCounts(c) /\ BatchIsLocked(c)

LEMMA InsertedIsTouched ==
  ASSUME NEW c \in Call
  PROVE  Inserted(c) \subseteq Touched(c)
BY DEF Inserted, Insertable, NewRecords, Touched

(* A step of one call that commits nothing disturbs no other.              *)
LEMMA OneCallMoves ==
  ASSUME CountInv, NEW c \in Call, UNCHANGED <<mapped, obs>>,
         \A d \in Call \ {c} : pc'[d] = pc[d] /\ work'[d] = work[d],
         CallCounts(c)', BatchIsLocked(c)', RunCounts',
         \A d \in Call \ {c} : LockedRows(c)' \cap LockedRows(d) = {}
  PROVE  CountInv'
<1>1. ASSUME NEW d \in Call \ {c}
      PROVE  /\ CallCounts(d)' /\ BatchIsLocked(d)' /\ LockedRows(d)' = LockedRows(d)
  <2>1. CallCounts(d) /\ BatchIsLocked(d)
    BY DEF CountInv
  <2>2. CallCounts(d)'
    BY <2>1 DEF CallCounts, StoredBy, MappedBy
  <2>3. /\ Touched(d)' = Touched(d) /\ Inserted(d)' = Inserted(d)
        /\ Insertable(d)' = Insertable(d) /\ Mapped' = Mapped
    BY DEF Touched, Inserted, Insertable, NewRecords, Mapped
  <2>4. BatchIsLocked(d)'
    BY <2>1, <2>3 DEF BatchIsLocked, Conflicts
  <2>5. LockedRows(d)' = LockedRows(d)
    BY DEF LockedRows
  <2> QED BY <2>2, <2>4, <2>5
<1>2. LocksApart'
  <2> SUFFICES ASSUME NEW d \in Call, NEW e \in Call, d # e
               PROVE  LockedRows(d)' \cap LockedRows(e)' = {}
    BY DEF LocksApart
  <2>1. LockedRows(d) \cap LockedRows(e) = {}
    BY DEF CountInv, LocksApart
  <2> QED BY <1>1, <2>1
<1> QED BY <1>1, <1>2 DEF CountInv

(* The records stay as they are, and who succeeded does not begin again.   *)
LEMMA RecordsStay ==
  ASSUME RunCounts, UNCHANGED <<mapped, obs, run>>,
         \A c \in Runs : pc[c] \in Recorded => pc'[c] \in Recorded
  PROVE  RunCounts'
BY DEF RunCounts, StoredBy, MappedBy

(* A call moves where nothing is imported.                                 *)
LEMMA MovedAside ==
  ASSUME TypeInv, CountInv, NEW c \in Call, NEW phase,
         pc' = [pc EXCEPT ![c] = phase], phase \notin Counting,
         phase \in Before => pc[c] \in Before,
         UNCHANGED <<mapped, obs>>, RunCounts',
         \A d \in Call \ {c} : work'[d] = work[d]
  PROVE  CountInv'
<1>1. pc'[c] = phase /\ \A d \in Call \ {c} : pc'[d] = pc[d]
  BY DEF TypeInv, TypeOK
<1>2. CallCounts(c)' /\ BatchIsLocked(c)'
  BY <1>1 DEF CallCounts, BatchIsLocked, CountInv, StoredBy, MappedBy, Counting, Importing
<1>3. LockedRows(c)' = {}
  BY <1>1 DEF LockedRows, Counting, Importing
<1> QED BY <1>1, <1>2, <1>3, OneCallMoves

(* What a call hears is what it will import.                               *)
LEMMA HeardIsCounted ==
  ASSUME TypeInv, CountInv, NEW c \in Call, pc[c] = "fetching", UNCHANGED run,
         NEW mode \in Mode, NEW answered \in SUBSET External, NEW fuels \in SUBSET Fuel,
         NEW malformed, NEW unplaced,
         Hear(c, mode, answered, fuels, malformed, unplaced)
  PROVE  CountInv'
<1> DEFINE fetched == Records(answered, fuels, unplaced, mode, clock + 1)
           records == {r \in fetched : r.ext \notin malformed}
           w == [NoWork EXCEPT !.told = records, !.left = records,
                               !.fetched = Cardinality(fetched),
                               !.errors = Cardinality(fetched \ records)]
<1>1. /\ work' = [work EXCEPT ![c] = w] /\ UNCHANGED <<mapped, obs>>
      /\ pc' = [pc EXCEPT ![c] = IF records = {} THEN "reconciling" ELSE "reading"]
  BY DEF Hear, tables
<1>2. IsFiniteSet(fetched) /\ records \subseteq fetched
  <2>1. clock + 1 \in Nat
    BY DEF TypeInv, TypeOK
  <2> QED BY <2>1, RecordsAreFinite DEF TypeInv
<1> HIDE DEF fetched, records
<1>3. w = [told |-> records, left |-> records, batch |-> {}, known |-> {}, held |-> {},
           latest |-> {}, stored |-> 0, created |-> 0,
           errors |-> Cardinality(fetched \ records), fetched |-> Cardinality(fetched)]
  BY FreshWork, Zenon
<1>4. /\ w.told = records /\ w.held = {} /\ w.stored = 0 /\ w.created = 0
      /\ w.fetched = Cardinality(fetched)
  BY <1>3
<1> HIDE DEF w
<1>5. /\ pc \in [Call -> Phase] /\ work \in [Call -> WorkType]
  BY DEF TypeInv, TypeOK
<1>6. /\ work'[c] = w /\ pc'[c] = IF records = {} THEN "reconciling" ELSE "reading"
      /\ \A d \in Call \ {c} : pc'[d] = pc[d] /\ work'[d] = work[d]
  BY <1>1, <1>5
<1>7. Cardinality(fetched) = 0 => records = {}
  BY <1>2, FS_EmptySet
<1>8. StoredBy(c)' = {} /\ MappedBy(c)' = {} /\ Cardinality({}) = 0
  <2>1. StoredBy(c) = {} /\ MappedBy(c) = {}
    BY DEF CountInv, CallCounts, Before
  <2>2. StoredBy(c)' = StoredBy(c) /\ MappedBy(c)' = MappedBy(c)
    BY <1>1 DEF StoredBy, MappedBy
  <2> QED BY <2>1, <2>2, FS_EmptySet
<1>9. CallCounts(c)'
  BY <1>4, <1>6, <1>7, <1>8 DEF CallCounts, Counting, Importing, Before
<1>10. BatchIsLocked(c)' /\ LockedRows(c)' = {}
  BY <1>4, <1>6 DEF BatchIsLocked, LockedRows
<1>11. RunCounts'
  <2>1. \A d \in Runs : pc[d] \in Recorded => pc'[d] \in Recorded
    BY <1>6, IngestionAssumption DEF Recorded
  <2> QED BY <1>1, <2>1, RecordsStay DEF CountInv
<1> QED BY <1>1, <1>6, <1>9, <1>10, <1>11, OneCallMoves

(* The steps of a batch before it commits.                                 *)
LEMMA BatchKeepsCounts ==
  ASSUME TypeInv, CountInv, NEW c \in Call, UNCHANGED run,
         ReadMappings(c) \/ WriteRow(c) \/ WriteStations(c) \/ LoadLatestPrices(c)
  PROVE  CountInv'
<1>1. /\ pc \in [Call -> Phase] /\ work \in [Call -> WorkType] /\ work[c] \in WorkType
      /\ UNCHANGED <<mapped, obs>> /\ pc[c] \in Importing
  BY DEF TypeInv, TypeOK, ReadMappings, WriteRow, WriteStations, LoadLatestPrices, tables,
         Importing
<1>2. /\ pc'[c] \in Importing \cup {"failing"}
      /\ \A d \in Call \ {c} : pc'[d] = pc[d] /\ work'[d] = work[d]
      /\ work'[c].told = work[c].told /\ work'[c].fetched = work[c].fetched
      /\ work'[c].stored = work[c].stored /\ work'[c].created = work[c].created
  <2>1. CASE ReadMappings(c)
    <3>1. PICK batch \in SUBSET work[c].left :
            work' = [work EXCEPT ![c].batch = batch,
                                 ![c].known = Mapped \cap {r.ext : r \in batch}]
      BY <2>1 DEF ReadMappings
    <3> DEFINE known == Mapped \cap {r.ext : r \in batch}
    <3>2. work' = [work EXCEPT ![c] = [work[c] EXCEPT !.batch = batch, !.known = known]]
      BY <1>1, <3>1
    <3> HIDE DEF known
    <3>3. pc' = [pc EXCEPT ![c] = "writing"]
      BY <2>1 DEF ReadMappings
    <3> QED BY <1>1, <3>2, <3>3 DEF Importing, WorkType
  <2>2. CASE WriteRow(c)
    BY <1>1, <2>2 DEF WriteRow, WorkType
  <2>3. CASE WriteStations(c)
    <3> DEFINE next == IF Conflicts(c) THEN "failing"
                       ELSE IF provider.dedup = "price-change-only" THEN "comparing"
                       ELSE "storing"
    <3>1. pc' = [pc EXCEPT ![c] = next] /\ UNCHANGED work
      BY <2>3 DEF WriteStations
    <3>2. next \in Importing \cup {"failing"}
      BY DEF Importing
    <3> HIDE DEF next
    <3> QED BY <1>1, <3>1, <3>2
  <2>4. CASE LoadLatestPrices(c)
    BY <1>1, <2>4 DEF LoadLatestPrices, Importing, WorkType
  <2> QED BY <2>1, <2>2, <2>3, <2>4
<1>3. CallCounts(c) /\ BatchIsLocked(c)
  BY DEF CountInv
<1>4. CallCounts(c)'
  BY <1>1, <1>2, <1>3 DEF CallCounts, StoredBy, MappedBy, Counting, Importing, Before
<1>5. RunCounts'
  <2>1. \A d \in Runs : pc[d] \in Recorded => pc'[d] \in Recorded
    BY <1>1, <1>2, IngestionAssumption DEF Recorded, Importing
  <2> QED BY <1>1, <2>1, RecordsStay DEF CountInv
<1>6. \A d \in Call \ {c} : LockedRows(c) \cap LockedRows(d) = {}
  BY DEF CountInv, LocksApart
<1>7. CASE ReadMappings(c)
  <2>1. pc[c] = "reading" /\ pc'[c] = "writing" /\ work'[c].held = work[c].held
    BY <1>1, <1>7 DEF ReadMappings, WorkType
  <2>2. BatchIsLocked(c)' /\ LockedRows(c)' = {}
    BY <1>3, <2>1 DEF BatchIsLocked, LockedRows
  <2> QED BY <1>1, <1>2, <1>4, <1>5, <2>2, OneCallMoves
<1>8. CASE WriteRow(c)
  <2>1. PICK e \in Touched(c) : /\ \A d \in Call \ {c} : e \notin LockedRows(d)
                                /\ work' = [work EXCEPT ![c].held = @ \cup {e}]
    BY <1>8 DEF WriteRow
  <2>2. pc[c] = "writing" /\ pc'[c] = "writing" /\ work'[c].held = work[c].held \cup {e}
    BY <1>1, <1>8, <2>1 DEF WriteRow, WorkType
  <2>3. BatchIsLocked(c)' /\ LockedRows(c)' = LockedRows(c) \cup {e}
    BY <2>2 DEF BatchIsLocked, LockedRows
  <2>4. \A d \in Call \ {c} : LockedRows(c)' \cap LockedRows(d) = {}
    BY <1>6, <2>1, <2>3
  <2> QED BY <1>1, <1>2, <1>4, <1>5, <2>3, <2>4, OneCallMoves
<1>9. CASE WriteStations(c)
  <2>1. /\ pc[c] = "writing" /\ UNCHANGED work /\ Touched(c) \subseteq work[c].held
        /\ pc'[c] \in {"failing", "comparing", "storing"}
        /\ Conflicts(c) => pc'[c] = "failing"
    BY <1>1, <1>9 DEF WriteStations
  <2>2. Touched(c)' = Touched(c) /\ Conflicts(c)' = Conflicts(c)
    BY <1>1, <2>1 DEF Touched, Conflicts, Inserted, Insertable, NewRecords, Mapped
  <2>3. BatchIsLocked(c)' /\ LockedRows(c)' \subseteq LockedRows(c)
    BY <2>1, <2>2 DEF BatchIsLocked, LockedRows
  <2>4. \A d \in Call \ {c} : LockedRows(c)' \cap LockedRows(d) = {}
    BY <1>6, <2>3
  <2> QED BY <1>1, <1>2, <1>4, <1>5, <2>3, <2>4, OneCallMoves
<1>10. CASE LoadLatestPrices(c)
  <2>1. /\ pc[c] = "comparing" /\ pc'[c] = "storing" /\ work'[c].held = work[c].held
        /\ work'[c].batch = work[c].batch /\ work'[c].known = work[c].known
    BY <1>1, <1>10 DEF LoadLatestPrices, WorkType
  <2>2. Touched(c)' = Touched(c) /\ Conflicts(c)' = Conflicts(c)
    BY <1>1, <2>1 DEF Touched, Conflicts, Inserted, Insertable, NewRecords, Mapped
  <2>3. BatchIsLocked(c)' /\ LockedRows(c)' = LockedRows(c)
    BY <1>3, <2>1, <2>2 DEF BatchIsLocked, LockedRows
  <2> QED BY <1>1, <1>2, <1>4, <1>5, <1>6, <2>3, OneCallMoves
<1> QED BY <1>7, <1>8, <1>9, <1>10

(* A batch commits: it counts the rows and stations that were not there.   *)
LEMMA FreshIsOwn ==
  ASSUME TypeInv, NEW c \in Call
  PROVE  /\ IsFiniteSet(FreshRows(c)) /\ FreshRows(c) \cap obs = {}
         /\ \A r \in FreshRows(c) : r.by = c
<1>1. \A r \in ObservationRows(c) : r.by = c
  BY DEF ObservationRows
<1>2. \A r \in FreshRows(c) : r \in ObservationRows(c) /\ ~(r \in obs)
  <2> SUFFICES ASSUME NEW r \in FreshRows(c), r \in obs  PROVE FALSE
    BY DEF FreshRows
  <2>1. r.by = c /\ ~SameRow(r, r)
    BY <1>1 DEF FreshRows
  <2> QED BY <2>1, IngestionWriterAssumption DEF SameRow
<1> QED BY <1>1, <1>2, RowsAreFinite

LEMMA InsertedOnce ==
  ASSUME TypeInv, NEW c \in Call, ~Conflicts(c)
  PROVE  /\ IsFiniteSet(Inserted(c)) /\ Inserted(c) \subseteq External
         /\ Cardinality(Inserted(c)) = Cardinality(Insertable(c))
         /\ Inserted(c) \cap Mapped = {}
<1> DEFINE f == [r \in Insertable(c) |-> r.ext]
<1>1. Insertable(c) \subseteq work[c].batch /\ IsFiniteSet(Insertable(c))
  <2>1. Insertable(c) \subseteq work[c].batch
    BY DEF Insertable, NewRecords
  <2> QED BY <2>1, BatchIsTyped, FS_Subset
<1>2. f \in Bijection(Insertable(c), Inserted(c))
  <2>1. \A r, s \in Insertable(c) : r.ext = s.ext => r = s
    BY DEF Conflicts
  <2>2. \A e \in Inserted(c) : \E r \in Insertable(c) : r.ext = e
    BY DEF Inserted
  <2>3. f \in [Insertable(c) -> Inserted(c)]
    BY DEF Inserted
  <2>4. \A r \in Insertable(c) : f[r] = r.ext
    OBVIOUS
  <2> HIDE DEF f
  <2> QED BY <2>1, <2>2, <2>3, <2>4 DEF Bijection, Injection, IsInjective, Surjection
<1>3. ExistsBijection(Insertable(c), Inserted(c))
  BY <1>2 DEF ExistsBijection
<1>4. Inserted(c) \subseteq External
  BY <1>1, BatchIsTyped DEF Inserted, RecordType
<1> QED BY <1>1, <1>3, <1>4, FS_Bijection DEF Conflicts

LEMMA CommitCounts ==
  ASSUME TypeInv, CountInv, NEW c \in Call, UNCHANGED run, Commit(c)
  PROVE  CountInv'
<1> USE IngestionWriterAssumption
<1>1. /\ pc[c] = "storing" /\ pc \in [Call -> Phase] /\ work \in [Call -> WorkType]
      /\ work[c] \in WorkType /\ mapped \in [External -> Call \cup {NoCall}]
      /\ mapped' = [e \in External |-> IF e \in Inserted(c) THEN c ELSE mapped[e]]
      /\ obs' = obs \cup FreshRows(c)
  BY DEF Commit, TypeInv, TypeOK
<1>2. /\ CallCounts(c) /\ Touched(c) \subseteq work[c].held /\ ~Conflicts(c)
      /\ LocksApart /\ IsFiniteSet(obs)
  BY <1>1 DEF CountInv, BatchIsLocked
<1>3. /\ IsFiniteSet(FreshRows(c)) /\ FreshRows(c) \cap obs = {}
      /\ \A r \in FreshRows(c) : r.by = c
  BY FreshIsOwn
<1>4. /\ IsFiniteSet(Inserted(c)) /\ Inserted(c) \subseteq External
      /\ Cardinality(Inserted(c)) = Cardinality(Insertable(c))
      /\ Inserted(c) \cap Mapped = {}
  BY <1>2, InsertedOnce
<1>5. /\ pc'[c] \in {"reconciling", "reading"}
      /\ \A d \in Call \ {c} : pc'[d] = pc[d] /\ work'[d] = work[d]
      /\ work'[c].told = work[c].told /\ work'[c].fetched = work[c].fetched
      /\ work'[c].held = {}
      /\ work'[c].stored = work[c].stored + Cardinality(FreshRows(c))
      /\ work'[c].created = work[c].created + Cardinality(Insertable(c))
  <2> DEFINE left == work[c].left \ work[c].batch
             n == work[c].stored + Cardinality(FreshRows(c))
             m == work[c].created + Cardinality(Insertable(c))
             e == work[c].errors + BatchErrors(c)
             w == [work[c] EXCEPT !.left = left, !.batch = {}, !.known = {}, !.held = {},
                                  !.latest = {}, !.stored = n, !.created = m, !.errors = e]
  <2>1. /\ work' = [work EXCEPT ![c] = w]
        /\ pc' = [pc EXCEPT ![c] = IF left = {} THEN "reconciling" ELSE "reading"]
    BY <1>1 DEF Commit
  <2> HIDE DEF left, n, m, e
  <2>2. /\ w.told = work[c].told /\ w.fetched = work[c].fetched /\ w.held = {}
        /\ w.stored = n /\ w.created = m
    BY <1>1 DEF WorkType
  <2> HIDE DEF w
  <2> QED BY <1>1, <2>1, <2>2 DEF n, m
<1>6. /\ StoredBy(c)' = StoredBy(c) \cup FreshRows(c)
      /\ \A d \in Call \ {c} : StoredBy(d)' = StoredBy(d)
  BY <1>1, <1>3 DEF StoredBy
<1>7. /\ MappedBy(c)' = MappedBy(c) \cup Inserted(c)
      /\ MappedBy(c) \cap Inserted(c) = {}
      /\ \A d \in Call \ {c} : MappedBy(d)' = MappedBy(d)
  BY <1>1, <1>4 DEF MappedBy, Mapped
<1>8. Cardinality(StoredBy(c)') = Cardinality(StoredBy(c)) + Cardinality(FreshRows(c))
  <2>1. StoredBy(c) \subseteq obs
    BY DEF StoredBy
  <2>2. IsFiniteSet(StoredBy(c)) /\ StoredBy(c) \cap FreshRows(c) = {}
    BY <1>2, <1>3, <2>1, FS_Subset
  <2>3. Cardinality(StoredBy(c)) \in Nat /\ Cardinality(FreshRows(c)) \in Nat
    BY <1>3, <2>2, FS_CardinalityType
  <2>4. Cardinality(StoredBy(c) \cup FreshRows(c))
          = Cardinality(StoredBy(c)) + Cardinality(FreshRows(c)) - Cardinality({})
    BY <1>3, <2>2, FS_Union
  <2>5. Cardinality({}) = 0
    BY FS_EmptySet
  <2> QED BY <1>6, <2>3, <2>4, <2>5
<1>9. Cardinality(MappedBy(c)') = Cardinality(MappedBy(c)) + Cardinality(Insertable(c))
  <2>1. MappedBy(c) \subseteq External
    BY DEF MappedBy
  <2>2. IsFiniteSet(MappedBy(c))
    BY <2>1, FS_Subset
  <2>3. Cardinality(MappedBy(c)) \in Nat /\ Cardinality(Inserted(c)) \in Nat
    BY <1>4, <2>2, FS_CardinalityType
  <2>4. Cardinality(MappedBy(c) \cup Inserted(c))
          = Cardinality(MappedBy(c)) + Cardinality(Inserted(c)) - Cardinality({})
    BY <1>4, <1>7, <2>2, FS_Union
  <2>5. Cardinality({}) = 0
    BY FS_EmptySet
  <2> QED BY <1>4, <1>7, <2>3, <2>4, <2>5
<1>10. CallCounts(c)' /\ BatchIsLocked(c)' /\ LockedRows(c)' = {}
  <2>1. CallCounts(c)'
    BY <1>1, <1>2, <1>5, <1>8, <1>9 DEF CallCounts, Counting, Importing, Before
  <2> QED BY <1>5, <2>1 DEF BatchIsLocked, LockedRows
<1>11. ASSUME NEW d \in Call \ {c}
       PROVE  CallCounts(d)' /\ BatchIsLocked(d)' /\ LockedRows(d)' = LockedRows(d)
  <2>1. CallCounts(d) /\ BatchIsLocked(d)
    BY DEF CountInv
  <2>2. CallCounts(d)'
    BY <1>5, <1>6, <1>7, <2>1 DEF CallCounts
  <2>3. /\ Touched(d)' = Touched(d) /\ Inserted(d)' = Inserted(d)
        /\ Insertable(d)' = Insertable(d) /\ Mapped' = Mapped \cup Inserted(c)
    <3>1. Mapped' = Mapped \cup Inserted(c)
      BY <1>1, <1>4 DEF Mapped
    <3> QED BY <1>5, <3>1 DEF Touched, Inserted, Insertable, NewRecords
  <2>4. LockedRows(d)' = LockedRows(d)
    BY <1>5 DEF LockedRows
  <2>5. ASSUME pc[d] \in {"comparing", "storing"}
        PROVE  Touched(d) \subseteq work[d].held /\ ~Conflicts(d)'
    <3>1. /\ Touched(d) \subseteq work[d].held /\ ~Conflicts(d)
      BY <2>1, <2>5 DEF BatchIsLocked
    <3>2. Inserted(d) \subseteq LockedRows(d) /\ Inserted(c) \subseteq LockedRows(c)
      BY <1>1, <1>2, <2>5, <3>1, InsertedIsTouched DEF LockedRows
    <3>3. Inserted(d) \cap Inserted(c) = {}
      BY <1>2, <3>2 DEF LocksApart
    <3> QED BY <2>3, <3>1, <3>3 DEF Conflicts
  <2>6. BatchIsLocked(d)'
    BY <1>5, <2>1, <2>3, <2>5 DEF BatchIsLocked
  <2> QED BY <2>2, <2>4, <2>6
<1>12. LocksApart'
  <2> SUFFICES ASSUME NEW d \in Call, NEW e \in Call, d # e
               PROVE  LockedRows(d)' \cap LockedRows(e)' = {}
    BY DEF LocksApart
  <2>1. LockedRows(d) \cap LockedRows(e) = {}
    BY <1>2 DEF LocksApart
  <2> QED BY <1>10, <1>11, <2>1
<1>13. RunCounts'
  <2> SUFFICES ASSUME NEW d \in Runs
               PROVE  /\ run[d].status \in {"succeeded", "partially_succeeded"} =>
                           /\ run[d].stored = Cardinality(StoredBy(d)')
                           /\ run[d].created = Cardinality(MappedBy(d)')
                           /\ pc'[d] \in Recorded
                      /\ run[d].status = "failed" => run[d].stored = 0
    BY DEF RunCounts
  <2>1. RunCounts /\ d \in Call
    BY IngestionAssumption DEF CountInv
  <2>2. CASE d = c
    BY <1>1, <2>1, <2>2 DEF RunCounts, Recorded
  <2>3. CASE d # c
    BY <1>5, <1>6, <1>7, <2>1, <2>3 DEF RunCounts
  <2> QED BY <2>2, <2>3
<1>14. IsFiniteSet(obs')
  BY <1>1, <1>2, <1>3, FS_Union
<1> QED BY <1>10, <1>11, <1>12, <1>13, <1>14 DEF CountInv

LEMMA ImportKeepsCounts ==
  ASSUME TypeInv, CountInv, NEW c \in Call, Import(c)
  PROVE  CountInv'
<1>1. ImportStations(c) /\ UNCHANGED run
  BY DEF Import
<1>2. CASE Deadlock(c)
  <2>1. /\ pc' = [pc EXCEPT ![c] = "failing"] /\ UNCHANGED <<mapped, obs, work>>
    BY <1>2 DEF Deadlock, tables
  <2>2. \A d \in Runs : pc[d] \in Recorded => pc'[d] \in Recorded
    BY <1>2, <2>1, IngestionAssumption DEF Deadlock, Recorded, TypeInv, TypeOK
  <2>3. RunCounts'
    BY <1>1, <2>1, <2>2, RecordsStay DEF CountInv
  <2> QED BY <2>1, <2>3, MovedAside DEF Counting, Importing, Before
<1> QED BY <1>1, <1>2, BatchKeepsCounts, CommitCounts DEF ImportStations

(* The record of a run is what its call has counted.  A run that failed by *)
(* what it was told had nothing to store.                                  *)
LEMMA FinishKeepsCounts ==
  ASSUME TypeInv, CountInv, NEW c \in Call, FinishRun(c)
  PROVE  CountInv'
<1>1. /\ c \in Runs /\ pc[c] = "reconciling" /\ pc' = [pc EXCEPT ![c] = "unlocking"]
      /\ pc \in [Call -> Phase] /\ run \in [Runs -> RunType] /\ work \in [Call -> WorkType]
      /\ UNCHANGED <<mapped, obs>>
      /\ run' = [run EXCEPT ![c] = [status |-> ResolveStatus(work[c]),
                                    stored |-> work[c].stored,
                                    created |-> work[c].created]]
  BY DEF FinishRun, Imported, GoTo, tables, TypeInv, TypeOK
<1>2. \A d \in Call \ {c} : work'[d] = work[d]
  BY <1>1 DEF FinishRun, Forget
<1>3. CallCounts(c) /\ RunCounts
  BY DEF CountInv
<1>4. ResolveStatus(work[c]) = "failed" => work[c].stored = 0
  BY <1>1, <1>3 DEF ResolveStatus, CallCounts, Counting
<1>5. RunCounts'
  <2> SUFFICES ASSUME NEW d \in Runs
               PROVE  /\ run'[d].status \in {"succeeded", "partially_succeeded"} =>
                           /\ run'[d].stored = Cardinality(StoredBy(d)')
                           /\ run'[d].created = Cardinality(MappedBy(d)')
                           /\ pc'[d] \in Recorded
                      /\ run'[d].status = "failed" => run'[d].stored = 0
    BY DEF RunCounts
  <2>1. StoredBy(d)' = StoredBy(d) /\ MappedBy(d)' = MappedBy(d) /\ d \in Call
    BY <1>1, IngestionAssumption DEF StoredBy, MappedBy
  <2>2. CASE d = c
    <3>1. /\ run'[d].status = ResolveStatus(work[c]) /\ run'[d].stored = work[c].stored
          /\ run'[d].created = work[c].created /\ pc'[d] \in Recorded
      BY <1>1, <2>1, <2>2 DEF Recorded
    <3>2. /\ work[c].stored = Cardinality(StoredBy(c))
          /\ work[c].created = Cardinality(MappedBy(c))
      BY <1>1, <1>3 DEF CallCounts, Counting
    <3> QED BY <1>4, <2>1, <2>2, <3>1, <3>2
  <2>3. CASE d # c
    BY <1>1, <1>3, <2>1, <2>3 DEF RunCounts
  <2> QED BY <2>2, <2>3
<1> QED BY <1>1, <1>2, <1>5, MovedAside DEF Counting, Importing, Before

LEMMA FailureKeepsCounts ==
  ASSUME TypeInv, CountInv, NEW c \in Call, FinishFailed(c)
  PROVE  CountInv'
<1>1. /\ c \in Runs /\ pc[c] = "failing" /\ pc' = [pc EXCEPT ![c] = "unlocking"]
      /\ pc \in [Call -> Phase] /\ run \in [Runs -> RunType] /\ work \in [Call -> WorkType]
      /\ UNCHANGED <<mapped, obs>>
      /\ run' = [run EXCEPT ![c] = IF run[c].status = "none" THEN run[c]
                                   ELSE [NoRun EXCEPT !.status = "failed"]]
  BY DEF FinishFailed, GoTo, tables, TypeInv, TypeOK
<1>2. \A d \in Call \ {c} : work'[d] = work[d]
  BY <1>1 DEF FinishFailed, Forget
<1>3. run'[c].status \in {"none", "failed"} /\ (run'[c].status = "failed" => run'[c].stored = 0)
  BY <1>1 DEF NoRun
<1>4. RunCounts'
  BY <1>1, <1>3 DEF CountInv, RunCounts, StoredBy, MappedBy, Recorded
<1> QED BY <1>1, <1>2, <1>4, MovedAside DEF Counting, Importing, Before

LEMMA CrashKeepsCounts ==
  ASSUME TypeInv, CountInv, NEW p \in Process, Crash(p)
  PROVE  CountInv'
<1> DEFINE dying == {c \in Call : Home[c] = p /\ pc[c] \notin Over \cup {"idle"}}
<1>1. /\ pc' = [c \in Call |-> IF c \in dying THEN "dead" ELSE pc[c]]
      /\ work' = [c \in Call |-> IF c \in dying THEN NoWork ELSE work[c]]
      /\ UNCHANGED <<mapped, obs, run>>
  BY DEF Crash, tables
<1> HIDE DEF dying
<1>2. ASSUME NEW d \in Call
      PROVE  CallCounts(d)' /\ BatchIsLocked(d)' /\ LockedRows(d)' \subseteq LockedRows(d)
  <2>1. CallCounts(d) /\ BatchIsLocked(d)
    BY DEF CountInv
  <2>2. CASE d \in dying
    <3>1. pc'[d] = "dead"
      BY <1>1, <2>2
    <3> QED BY <3>1 DEF CallCounts, BatchIsLocked, LockedRows, Before, Counting, Importing
  <2>3. CASE d \notin dying
    <3>1. pc'[d] = pc[d] /\ work'[d] = work[d]
      BY <1>1, <2>3
    <3>2. CallCounts(d)' /\ LockedRows(d)' = LockedRows(d)
      BY <1>1, <2>1, <3>1 DEF CallCounts, StoredBy, MappedBy, LockedRows
    <3>3. Touched(d)' = Touched(d) /\ Conflicts(d)' = Conflicts(d)
      BY <1>1, <3>1 DEF Touched, Conflicts, Inserted, Insertable, NewRecords, Mapped
    <3> QED BY <2>1, <3>1, <3>2, <3>3 DEF BatchIsLocked
  <2> QED BY <2>2, <2>3
<1>3. LocksApart'
  <2> SUFFICES ASSUME NEW d \in Call, NEW e \in Call, d # e
               PROVE  LockedRows(d)' \cap LockedRows(e)' = {}
    BY DEF LocksApart
  <2>1. LockedRows(d) \cap LockedRows(e) = {}
    BY DEF CountInv, LocksApart
  <2> QED BY <1>2, <2>1
<1>4. RunCounts'
  <2>1. \A d \in Runs : pc[d] \in Recorded => pc'[d] \in Recorded
    BY <1>1, IngestionAssumption DEF Recorded
  <2> QED BY <1>1, <2>1, RecordsStay DEF CountInv
<1> QED BY <1>1, <1>2, <1>3, <1>4 DEF CountInv

(* What the world does is nobody's import.                                 *)
LEMMA WorldKeepsCounts ==
  ASSUME TypeInv, CountInv, UNCHANGED <<mapped, run, pc, work>>,
         \/ UNCHANGED obs
         \/ \E o : o.by = NoCall /\ obs' = obs \cup {o}
  PROVE  CountInv'
<1> USE IngestionWriterAssumption
<1>1. ASSUME NEW d \in Call
      PROVE  StoredBy(d)' = StoredBy(d) /\ MappedBy(d)' = MappedBy(d)
  BY DEF StoredBy, MappedBy
<1>2. IsFiniteSet(obs')
  <2>1. IsFiniteSet(obs)
    BY DEF CountInv
  <2> QED BY <2>1, FS_AddElement
<1>3. ASSUME NEW d \in Call
      PROVE  CallCounts(d)' /\ BatchIsLocked(d)' /\ LockedRows(d)' = LockedRows(d)
  <2>1. CallCounts(d) /\ BatchIsLocked(d)
    BY DEF CountInv
  <2>2. /\ Touched(d)' = Touched(d) /\ Conflicts(d)' = Conflicts(d)
        /\ LockedRows(d)' = LockedRows(d)
    BY DEF Touched, Conflicts, Inserted, Insertable, NewRecords, Mapped, LockedRows
  <2> QED BY <1>1, <2>1, <2>2 DEF CallCounts, BatchIsLocked
<1>4. LocksApart'
  BY <1>3 DEF CountInv, LocksApart
<1>5. RunCounts'
  <2>1. Runs \subseteq Call
    BY IngestionAssumption
  <2> QED BY <1>1, <2>1 DEF CountInv, RunCounts
<1> QED BY <1>2, <1>3, <1>4, <1>5 DEF CountInv

LEMMA FetchKeepsCounts ==
  ASSUME TypeInv, CountInv, NEW c \in Call, Fetch(c)
  PROVE  CountInv'
<1>1. \A mode \in Mode, answered \in SUBSET External, fuels \in SUBSET Fuel :
      \A malformed, unplaced :
        Hear(c, mode, answered, fuels, malformed, unplaced) => CountInv'
  <2>1. pc[c] = "fetching" /\ UNCHANGED run
    BY DEF Fetch
  <2> QED BY <2>1, HeardIsCounted
<1>2. PICK mode \in (IF provider.refresh THEN Mode ELSE {"full"}) :
        \E asked \in Asked(mode), fuels \in FuelsAsked(c) :
        \E dropped \in SUBSET asked :
        \E malformed \in SUBSET asked, unplaced \in SUBSET asked :
          Hear(c, mode, asked \ dropped, fuels, malformed, unplaced)
  BY Zenon DEF Fetch
<1>3. PICK asked \in Asked(mode), fuels \in FuelsAsked(c) :
        \E dropped \in SUBSET asked :
        \E malformed \in SUBSET asked, unplaced \in SUBSET asked :
          Hear(c, mode, asked \ dropped, fuels, malformed, unplaced)
  BY <1>2
<1>4. mode \in Mode /\ asked \in SUBSET External /\ fuels \in SUBSET Fuel
  BY IngestionWriterAssumption DEF Mode, Asked, Mapped, FuelsAsked
<1>5. PICK dropped \in SUBSET asked :
        \E malformed \in SUBSET asked, unplaced \in SUBSET asked :
          Hear(c, mode, asked \ dropped, fuels, malformed, unplaced)
  BY <1>3
<1>6. asked \ dropped \in SUBSET External
  BY <1>4
<1> QED BY <1>1, <1>4, <1>5, <1>6

LEMMA CountsAreKept ==
  ASSUME TypeInv, CountInv, Next
  PROVE  CountInv'
<1>0. pc \in [Call -> Phase] /\ Runs \subseteq Call /\ run \in [Runs -> RunType]
  BY IngestionAssumption DEF TypeInv, TypeOK
<1>1. ASSUME NEW c \in Call,
             TryLock(c) \/ Search(c) \/ Unlock(c) \/ Refreshed(c) \/ CatchRefresh(c)
               \/ Throw(c) \/ ThrowAgain(c)
      PROVE  CountInv'
  <2>1. UNCHANGED <<mapped, obs, run>> /\ \A d \in Call \ {c} : work'[d] = work[d]
    BY <1>1 DEF TryLock, Search, Unlock, Refreshed, CatchRefresh, Throw, ThrowAgain,
                Forget, tables, TypeInv, TypeOK
  <2>2. \/ pc[c] = "idle" /\ pc' = [pc EXCEPT ![c] = "opening"]
        \/ pc[c] = "idle" /\ pc' = [pc EXCEPT ![c] = "refused"]
        \/ pc[c] = "idle" /\ pc' = [pc EXCEPT ![c] = "fetching"]
        \/ pc[c] = "refused" /\ pc' = [pc EXCEPT ![c] = "idle"]
        \/ pc[c] = "unlocking" /\ pc' = [pc EXCEPT ![c] = "done"]
        \/ pc[c] = "abandoned" /\ pc' = [pc EXCEPT ![c] = "unrecorded"]
        \/ pc[c] = "failing" /\ pc' = [pc EXCEPT ![c] = "abandoned"]
        \/ pc[c] \in InsideLock /\ pc' = [pc EXCEPT ![c] = "done"]
        \/ pc[c] \in InsideLock /\ pc' = [pc EXCEPT ![c] = "failing"]
    BY <1>1 DEF TryLock, Search, Unlock, Refreshed, CatchRefresh, Throw, ThrowAgain, GoTo,
                Imported, InsideLock
  <2>3. PICK phase : /\ pc' = [pc EXCEPT ![c] = phase] /\ phase \notin Counting
                     /\ phase \in Before => pc[c] \in Before
                     /\ pc[c] \in Recorded => phase \in Recorded
    BY <2>2 DEF Counting, Importing, Before, Recorded, InsideLock
  <2>4. RunCounts'
    <3>1. \A d \in Runs : pc[d] \in Recorded => pc'[d] \in Recorded
      BY <1>0, <2>3
    <3> QED BY <2>1, <3>1, RecordsStay DEF CountInv
  <2> QED BY <2>1, <2>3, <2>4, MovedAside
<1>2. ASSUME NEW c \in Call, StartRun(c)  PROVE CountInv'
  <2>1. /\ pc[c] = "opening" /\ pc' = [pc EXCEPT ![c] = "fetching"]
        /\ UNCHANGED <<mapped, obs, work>>
        /\ run' = [run EXCEPT ![c].status = "running"]
    BY <1>2 DEF StartRun, GoTo, tables
  <2>2. /\ \A d \in Runs \ {c} : run'[d] = run[d] /\ pc'[d] = pc[d]
        /\ c \in Runs => run'[c].status = "running"
    BY <1>0, <2>1 DEF RunType
  <2>3. \A d \in Runs : StoredBy(d)' = StoredBy(d) /\ MappedBy(d)' = MappedBy(d)
    BY <2>1 DEF StoredBy, MappedBy
  <2>4. RunCounts'
    BY <2>2, <2>3 DEF CountInv, RunCounts
  <2> QED BY <2>1, <2>4, MovedAside DEF Counting, Importing, Before
<1>3. ASSUME NEW c \in Call, LoseLock(c)  PROVE CountInv'
  BY <1>3, WorldKeepsCounts DEF LoseLock, tables, calls
<1>4. ASSUME Expire  PROVE CountInv'
  BY <1>4, WorldKeepsCounts DEF Expire, writerVars, tables, calls
<1>5. ASSUME World  PROVE CountInv'
  <2>1. UNCHANGED <<mapped, run, pc, work>>
    BY <1>5 DEF World, ProviderChanges, CreateObservation, tables, calls
  <2>2. UNCHANGED obs \/ \E o : o.by = NoCall /\ obs' = obs \cup {o}
    <3>1. ASSUME NEW k \in Sold, NEW price, CreateObservation(k, price)
          PROVE  \E o : o.by = NoCall /\ obs' = obs \cup {o}
      <4> DEFINE o == [ext |-> k[1], fuel |-> k[2], price |-> price,
                       at |-> clock', by |-> NoCall]
      <4>1. obs' = obs \cup {o}
        BY <3>1 DEF CreateObservation
      <4>2. o.by = NoCall
        OBVIOUS
      <4> HIDE DEF o
      <4> QED BY <4>1, <4>2
    <3> QED BY <1>5, <3>1 DEF World, ProviderChanges, tables
  <2> QED BY <2>1, <2>2, WorldKeepsCounts
<1> QED BY <1>1, <1>2, <1>3, <1>4, <1>5, FetchKeepsCounts, ImportKeepsCounts,
           FinishKeepsCounts, FailureKeepsCounts, CrashKeepsCounts
        DEF Next, Step

LEMMA CountsAtFirst == Init => CountInv
<1> SUFFICES ASSUME Init  PROVE CountInv
  OBVIOUS
<1> USE IngestionWriterAssumption
<1>1. /\ obs = {} /\ pc = [c \in Call |-> "idle"]
      /\ mapped = [e \in External |-> NoCall] /\ run = [c \in Runs |-> NoRun]
  BY DEF Init, WriterInit
<1>2. IsFiniteSet(obs) /\ LocksApart
  BY <1>1, FS_EmptySet DEF LocksApart, LockedRows
<1>3. RunCounts
  BY <1>1 DEF RunCounts, NoRun
<1>4. \A c \in Call : CallCounts(c) /\ BatchIsLocked(c)
  BY <1>1 DEF CallCounts, BatchIsLocked, StoredBy, MappedBy, Before, Counting, Importing
<1> QED BY <1>2, <1>3, <1>4 DEF CountInv

LEMMA CountsHold == Spec => []CountInv
<1>1. TypeInv /\ CountInv /\ UNCHANGED vars => CountInv'
  BY WorldKeepsCounts
     DEF vars, writerVars, tables, calls
<1>2. TypeInv /\ CountInv /\ [Next]_vars => CountInv'
  BY <1>1, CountsAreKept
<1> QED BY <1>2, CountsAtFirst, LockHolds, PTL DEF Spec

(* CountsAreExact, for any number of runs and searches that import the     *)
(* same stations at once, fail or die: the counts of runProvider() are of  *)
(* what its own batches committed.                                         *)
THEOREM RunsCountExactly == Spec => []CountsAreExact
<1>1. TypeInv /\ LockInv /\ CountInv => CountsAreExact
  BY DEF CountInv, RunCounts, CountsAreExact, LockInv, RunningIsInside, InsideLock,
         Importing, StoredBy, MappedBy
<1> QED BY <1>1, CountsHold, LockHolds, PTL

-----------------------------------------------------------------------------
(* What is stored.  An import that no other disturbs is told once for      *)
(* every price, later than all it finds stored; it compares with the       *)
(* newest price and adds one that differs.                                 *)

Compares == provider.dedup = "price-change-only"
Plain == Compares /\ overlapped = {}

(* What a call was told: one quote for each fuel of a station, all of one  *)
(* time.                                                                   *)
ToldOnce(c) ==
  /\ \A r \in work[c].told : \A q \in r.quotes :
       <<r.ext, q.fuel>> \in Sold /\ q.at <= clock
  /\ \A r, s \in work[c].told : \A q \in r.quotes, p \in s.quotes :
       /\ q.at = p.at
       /\ r.ext = s.ext /\ q.fuel = p.fuel => r = s /\ q = p

(* What it was told while it imports is of after what imports have stored  *)
(* before, and nothing has been stored of what is left.                    *)
Heard(c) ==
  /\ \A r \in work[c].told : \A q \in r.quotes :
       \A o \in obs : o.by # NoCall => o.at <= q.at
  /\ \A r \in work[c].left : \A q \in r.quotes : \A o \in At(<<r.ext, q.fuel>>) :
       o.by # NoCall => o.at < q.at

(* It knows the newest price where no user has reported one.               *)
Loaded(c) ==
  pc[c] = "storing" =>
    \A r \in work[c].batch : r.ext \in Stations(c) =>
      \A q \in r.quotes :
        LET k == <<r.ext, q.fuel>>
        IN  At(k) # {} /\ FromUsers(k) = {} =>
              \E o \in Newest(At(k)) : <<k, o.price>> \in work[c].latest

(* What was told to a call that imports was told after what has been told  *)
(* to those that do not any more.                                          *)
ToldLater(c, d) ==
  \A r \in work[c].told, s \in work[d].told : \A q \in r.quotes, p \in s.quotes :
    q.at < p.at

OneAtATime ==
  \A o, p \in obs :
    /\ <<o.ext, o.fuel, o.at>> = <<p.ext, p.fuel, p.at>>
    /\ o.by # NoCall /\ p.by # NoCall
    => o = p

OverlapsAreNoted ==
  \A c, d \in Call : c # d /\ pc[c] \in Importing /\ pc[d] \in Importing => c \in overlapped

ChangesInv ==
  /\ OverlapsAreNoted
  /\ Compares =>
       /\ \A o \in obs : o.at <= clock
       /\ \A c \in Call : ToldOnce(c)
       /\ \A c \in Call \ overlapped : pc[c] \in Importing => Heard(c) /\ Loaded(c)
       /\ \A c \in Call \ overlapped, d \in Call :
            pc[c] \notin Importing /\ pc[d] \in Importing => ToldLater(c, d)
  /\ Plain => OneAtATime
  /\ OnlyChangesAreStored

LEMMA TimesAreNat ==
  ASSUME TypeInv
  PROVE  /\ clock \in Nat /\ \A o \in obs : o \in ObservationType /\ o.at \in Nat
         /\ \A c \in Call : /\ work[c] \in WorkType
                            /\ work[c].batch \subseteq work[c].left
                            /\ work[c].left \subseteq work[c].told
                            /\ \A r \in work[c].told : \A q \in r.quotes : q.at \in Nat
<1>1. clock \in Nat /\ \A o \in obs : o \in ObservationType
  BY DEF TypeInv, TypeOK
<1>2. ASSUME NEW c \in Call
      PROVE  /\ work[c] \in WorkType /\ work[c].batch \subseteq work[c].left
             /\ work[c].left \subseteq work[c].told
             /\ \A r \in work[c].told : \A q \in r.quotes : q.at \in Nat
  <2>1. work[c] \in WorkType /\ IsCounted(work[c])
    BY BatchIsTyped
  <2>2. \A r \in work[c].told : r.quotes \subseteq QuoteType
    BY <2>1 DEF WorkType, RecordType
  <2> QED BY <2>1, <2>2 DEF IsCounted, QuoteType
<1> QED BY <1>1, <1>2 DEF ObservationType

(* Steps that hear and store nothing.                                      *)
LEMMA NothingStored ==
  ASSUME ChangesInv, UNCHANGED <<provider, clock, obs, overlapped>>,
         \A d \in Call : work'[d].told \subseteq work[d].told,
         \A d \in Call : pc'[d] \in Importing =>
           pc'[d] = pc[d] /\ work'[d] = work[d]
  PROVE  ChangesInv'
<1>1. ASSUME NEW d \in Call, pc'[d] \in Importing, Heard(d), Loaded(d)
      PROVE  Heard(d)' /\ Loaded(d)'
  <2>1. pc'[d] = pc[d] /\ work'[d] = work[d]
    BY <1>1
  <2>2. Heard(d)'
    BY <1>1, <2>1 DEF Heard, At
  <2>3. Stations(d)' = Stations(d)
    BY <2>1 DEF Stations, Inserted, Insertable, NewRecords
  <2>4. \A k : At(k)' = At(k) /\ FromUsers(k)' = FromUsers(k) /\ Newest(At(k))' = Newest(At(k))
    BY DEF At, FromUsers, Newest
  <2>5. Loaded(d)'
    BY <1>1, <2>1, <2>3, <2>4 DEF Loaded
  <2> QED BY <2>2, <2>5
<1>2. OneAtATime => OneAtATime'
  BY DEF OneAtATime
<1>3. OnlyChangesAreStored'
  BY DEF ChangesInv, OnlyChangesAreStored, Successive, At
<1>4. Compares => (\A o \in obs' : o.at <= clock') /\ \A d \in Call : ToldOnce(d)'
  BY DEF ChangesInv, ToldOnce
<1>5. Plain' = Plain /\ Compares' = Compares
  BY DEF Plain, Compares
<1>6. OverlapsAreNoted'
  BY DEF ChangesInv, OverlapsAreNoted
<1>7. ASSUME Compares, NEW c \in Call \ overlapped, NEW d \in Call,
             pc'[c] \notin Importing, pc'[d] \in Importing
      PROVE  ToldLater(c, d)'
  <2>1. pc[d] \in Importing /\ work'[d] = work[d] /\ work'[c].told \subseteq work[c].told
    BY <1>7
  <2>2. pc[c] \notin Importing
    BY <1>7, <2>1 DEF ChangesInv, OverlapsAreNoted
  <2>3. ToldLater(c, d)
    BY <1>7, <2>1, <2>2 DEF ChangesInv
  <2> QED BY <2>1, <2>3 DEF ToldLater
<1>8. Compares => \A c \in Call \ overlapped : pc'[c] \in Importing => Heard(c)' /\ Loaded(c)'
  BY <1>1 DEF ChangesInv
<1> QED BY <1>2, <1>3, <1>4, <1>5, <1>6, <1>7, <1>8 DEF ChangesInv

(* What a provider tells that is asked for the prices of now.              *)
LEMMA RecordsAreOnce ==
  ASSUME provider.dedup = "price-change-only",
         NEW exts, NEW fuels, NEW unplaced, NEW mode, NEW now
  PROVE  LET rs == Records(exts, fuels, unplaced, mode, now)
         IN  /\ \A r \in rs : \A q \in r.quotes : <<r.ext, q.fuel>> \in Sold /\ q.at = now
             /\ \A r, s \in rs : \A q \in r.quotes, p \in s.quotes :
                  r.ext = s.ext /\ q.fuel = p.fuel => r = s /\ q = p
<1> DEFINE here == {k \in Sold : k[1] \in exts /\ k[2] \in fuels}
           Record(e, qs) ==
             [ext |-> e, quotes |-> qs,
              placed |-> mode = "full" /\ e \notin unplaced,
              priceUpdateOnly |-> mode = "prices"]
           quotes(e) == {Quote(k, now) : k \in {h \in here : h[1] = e}}
           near == {Record(k[1], {Quote(k, now)}) : k \in here}
           all == {Record(e, quotes(e)) : e \in {k[1] : k \in here}}
           Told(r, q, k) == k \in Sold /\ r.ext = k[1] /\ q = Quote(k, now)
<1>1. \A k : Quote(k, now).fuel = k[2] /\ Quote(k, now).at = now
  BY DEF Quote
<1>2. \A k, h \in Sold : k[1] = h[1] /\ k[2] = h[2] => k = h
  BY IngestionWriterAssumption
<1>3. \A k \in Sold : <<k[1], k[2]>> = k
  BY IngestionWriterAssumption
<1>4. \A e, qs : Record(e, qs).ext = e /\ Record(e, qs).quotes = qs
  OBVIOUS
<1> HIDE DEF Record
<1>5. Records(exts, fuels, unplaced, mode, now) = IF provider.nearby THEN near ELSE all
  BY DEF Records, Record
<1>6. /\ \A r \in near : \A q \in r.quotes : \E k \in Sold : Told(r, q, k)
      /\ \A r \in near : \E k \in here : r = Record(k[1], {Quote(k, now)})
  <2>1. \A r \in near : \E k \in here : r = Record(k[1], {Quote(k, now)})
    OBVIOUS
  <2>2. ASSUME NEW r \in near, NEW q \in r.quotes
        PROVE  \E k \in Sold : Told(r, q, k)
    <3>1. PICK k \in here : r = Record(k[1], {Quote(k, now)})
      BY <2>1
    <3>2. r.ext = k[1] /\ r.quotes = {Quote(k, now)}
      BY <1>4, <3>1
    <3> QED BY <3>2
  <2> QED BY <2>1, <2>2
<1>7. \A r, s \in near : \A q \in r.quotes, p \in s.quotes :
        r.ext = s.ext /\ q.fuel = p.fuel => r = s /\ q = p
  <2> SUFFICES ASSUME NEW r \in near, NEW s \in near, NEW q \in r.quotes, NEW p \in s.quotes,
                      r.ext = s.ext, q.fuel = p.fuel
               PROVE  r = s /\ q = p
    OBVIOUS
  <2>1. PICK k \in here : r = Record(k[1], {Quote(k, now)})
    BY <1>6
  <2>2. PICK h \in here : s = Record(h[1], {Quote(h, now)})
    BY <1>6
  <2>3. r.ext = k[1] /\ q = Quote(k, now) /\ s.ext = h[1] /\ p = Quote(h, now)
    BY <1>4, <2>1, <2>2
  <2>4. k = h
    BY <1>1, <1>2, <2>3
  <2> QED BY <2>1, <2>2, <2>3, <2>4
<1>8. \A r \in all : /\ r = Record(r.ext, quotes(r.ext)) /\ r.quotes = quotes(r.ext)
                     /\ \A q \in r.quotes : \E k \in Sold : Told(r, q, k)
  <2> TAKE r \in all
  <2>1. PICK e \in {k[1] : k \in here} : r = Record(e, quotes(e))
    OBVIOUS
  <2>2. r.ext = e /\ r.quotes = quotes(e)
    BY <1>4, <2>1
  <2> QED BY <2>1, <2>2
<1>9. \A r, s \in all : \A q \in r.quotes, p \in s.quotes :
        r.ext = s.ext /\ q.fuel = p.fuel => r = s /\ q = p
  <2> SUFFICES ASSUME NEW r \in all, NEW s \in all, NEW q \in r.quotes, NEW p \in s.quotes,
                      r.ext = s.ext, q.fuel = p.fuel
               PROVE  r = s /\ q = p
    OBVIOUS
  <2>1. PICK k \in Sold : Told(r, q, k)
    BY <1>8
  <2>2. PICK h \in Sold : Told(s, p, h)
    BY <1>8
  <2>3. k = h
    BY <1>1, <1>2, <2>1, <2>2
  <2>4. r = Record(r.ext, quotes(r.ext)) /\ s = Record(s.ext, quotes(s.ext))
    BY <1>8
  <2>5. r = s
    <3> HIDE DEF quotes
    <3> QED BY <2>4
  <2> QED BY <2>1, <2>2, <2>3, <2>5
<1>10. \A r \in near \cup all : \A q \in r.quotes :
         <<r.ext, q.fuel>> \in Sold /\ q.at = now
  <2> TAKE r \in near \cup all
  <2> TAKE q \in r.quotes
  <2>1. PICK k \in Sold : Told(r, q, k)
    BY <1>6, <1>8
  <2> QED BY <1>1, <1>3, <2>1
<1> HIDE DEF near, all
<1> QED BY <1>5, <1>7, <1>9, <1>10

LEMMA HeardIsNew ==
  ASSUME TypeInv, ChangesInv, NEW c \in Call, pc[c] = "fetching", NoteOverlap(c),
         NEW mode, NEW answered, NEW fuels, NEW malformed, NEW unplaced,
         Hear(c, mode, answered, fuels, malformed, unplaced)
  PROVE  ChangesInv'
<1> DEFINE fetched == Records(answered, fuels, unplaced, mode, clock + 1)
           records == {r \in fetched : r.ext \notin malformed}
           w == [NoWork EXCEPT !.told = records, !.left = records,
                               !.fetched = Cardinality(fetched),
                               !.errors = Cardinality(fetched \ records)]
<1>1. /\ work' = [work EXCEPT ![c] = w] /\ UNCHANGED <<provider, obs>> /\ clock' = clock + 1
      /\ pc' = [pc EXCEPT ![c] = IF records = {} THEN "reconciling" ELSE "reading"]
  BY DEF Hear, tables
<1>2. records \subseteq fetched
  OBVIOUS
<1>3. Compares => /\ \A r \in fetched : \A q \in r.quotes :
                       <<r.ext, q.fuel>> \in Sold /\ q.at = clock + 1
                  /\ \A r, s \in fetched : \A q \in r.quotes, p \in s.quotes :
                       r.ext = s.ext /\ q.fuel = p.fuel => r = s /\ q = p
  BY RecordsAreOnce DEF Compares
<1> HIDE DEF fetched, records
<1>4. w = [told |-> records, left |-> records, batch |-> {}, known |-> {}, held |-> {},
           latest |-> {}, stored |-> 0, created |-> 0,
           errors |-> Cardinality(fetched \ records), fetched |-> Cardinality(fetched)]
  BY FreshWork, Zenon
<1>5. w.told = records /\ w.left = records
  BY <1>4
<1> HIDE DEF w
<1>6. /\ pc \in [Call -> Phase] /\ work \in [Call -> WorkType]
      /\ clock \in Nat /\ \A o \in obs : o.at \in Nat /\ (Compares => o.at <= clock)
  BY TimesAreNat DEF TypeInv, TypeOK, ChangesInv
<1>7. /\ work'[c].told = records /\ work'[c].left = records
      /\ pc'[c] \in {"reconciling", "reading"}
      /\ pc'[c] = "reconciling" => records = {}
      /\ \A d \in Call \ {c} : pc'[d] = pc[d] /\ work'[d] = work[d]
  BY <1>1, <1>5, <1>6
<1>8. /\ overlapped \subseteq overlapped'
      /\ \A d \in Call \ {c} : pc[d] \in Importing => d \in overlapped' /\ c \in overlapped'
  BY DEF NoteOverlap, OthersImporting
<1>9. ASSUME Compares
      PROVE  /\ \A r \in records : \A q \in r.quotes :
                  <<r.ext, q.fuel>> \in Sold /\ q.at = clock'
             /\ \A r, s \in records : \A q \in r.quotes, p \in s.quotes :
                  r.ext = s.ext /\ q.fuel = p.fuel => r = s /\ q = p
             /\ \A o \in obs' : o.at < clock'
  BY <1>1, <1>2, <1>3, <1>6, <1>9
<1>10. clock' \in Nat /\ clock <= clock'
  BY <1>1, <1>6
<1>11. ASSUME Compares  PROVE Heard(c)'
  <2>1. \A r \in records : \A q \in r.quotes : \A o \in obs' : o.at <= q.at /\ o.at < q.at
    <3> SUFFICES ASSUME NEW r \in records, NEW q \in r.quotes, NEW o \in obs'
                 PROVE  o.at <= q.at /\ o.at < q.at
      OBVIOUS
    <3>1. q.at = clock' /\ o.at < clock' /\ o.at \in Nat
      BY <1>1, <1>6, <1>9, <1>11
    <3> QED BY <1>10, <3>1
  <2>2. \A r \in records : \A q \in r.quotes : \A o \in At(<<r.ext, q.fuel>>)' : o.at < q.at
    BY <2>1 DEF At
  <2> QED BY <1>7, <2>1, <2>2 DEF Heard
<1>12. ASSUME Compares, NEW d \in Call  PROVE ToldOnce(d)'
  <2>1. CASE d = c
    <3>1. \A r \in records : \A q \in r.quotes : <<r.ext, q.fuel>> \in Sold /\ q.at <= clock'
      <4>1. clock' <= clock'
        BY <1>10
      <4> QED BY <1>9, <1>12, <4>1
    <3>2. \A r, s \in records : \A q \in r.quotes, p \in s.quotes : q.at = p.at
      BY <1>9, <1>12
    <3> QED BY <1>7, <1>9, <1>12, <2>1, <3>1, <3>2 DEF ToldOnce
  <2>2. CASE d # c
    <3>1. ToldOnce(d)
      BY <1>12 DEF ChangesInv
    <3>2. \A r \in work[d].told : \A q \in r.quotes : q.at <= clock'
      <4> SUFFICES ASSUME NEW r \in work[d].told, NEW q \in r.quotes  PROVE q.at <= clock'
        OBVIOUS
      <4>1. q.at \in Nat
        BY TimesAreNat
      <4>2. q.at <= clock
        BY <3>1 DEF ToldOnce
      <4> QED BY <1>6, <1>10, <4>1, <4>2
    <3> QED BY <1>7, <2>2, <3>1, <3>2 DEF ToldOnce
  <2> QED BY <2>1, <2>2
<1>13. ASSUME Compares, NEW d \in Call \ overlapped', NEW e \in Call,
              pc'[d] \notin Importing, pc'[e] \in Importing
       PROVE  ToldLater(d, e)'
  <2>1. CASE d = c
    BY <1>7, <1>8, <1>13, <2>1 DEF ToldLater
  <2>2. CASE d # c /\ e = c
    <3>1. ToldOnce(d)
      BY <1>13 DEF ChangesInv
    <3>2. \A r \in work[d].told : \A q \in r.quotes : q.at < clock'
      <4> SUFFICES ASSUME NEW r \in work[d].told, NEW q \in r.quotes  PROVE q.at < clock'
        OBVIOUS
      <4>1. q.at \in Nat
        BY TimesAreNat
      <4>2. q.at <= clock
        BY <3>1 DEF ToldOnce
      <4> QED BY <1>1, <1>6, <4>1, <4>2
    <3>3. \A r \in records : \A q \in r.quotes : q.at = clock'
      BY <1>9, <1>13
    <3> QED BY <1>7, <2>2, <3>2, <3>3 DEF ToldLater
  <2>3. CASE d # c /\ e # c
    <3>1. ToldLater(d, e)
      BY <1>7, <1>8, <1>13, <2>3 DEF ChangesInv
    <3> QED BY <1>7, <2>3, <3>1 DEF ToldLater
  <2> QED BY <2>1, <2>2, <2>3
<1>14. ASSUME Compares, NEW d \in Call \ overlapped', pc'[d] \in Importing
       PROVE  Heard(d)' /\ Loaded(d)'
  <2>1. CASE d = c
    BY <1>7, <1>11, <1>14, <2>1 DEF Loaded
  <2>2. CASE d # c
    BY <1>7, <1>8, <1>14, <2>2
  <2> QED BY <2>1, <2>2
<1>15. OverlapsAreNoted'
  BY <1>7, <1>8 DEF ChangesInv, OverlapsAreNoted
<1>16. OneAtATime => OneAtATime'
  BY <1>1 DEF OneAtATime
<1>17. OnlyChangesAreStored'
  <2>1. overlapped' = {} => overlapped = {}
    BY <1>8
  <2> QED BY <1>1, <2>1 DEF ChangesInv, OnlyChangesAreStored, Successive, At
<1>18. Compares => \A o \in obs' : o.at <= clock'
  BY <1>1, <1>6, <1>10
<1>19. Compares' = Compares /\ (Plain' => Plain)
  BY <1>1, <1>8 DEF Compares, Plain
<1> QED BY <1>12, <1>13, <1>14, <1>15, <1>16, <1>17, <1>18, <1>19 DEF ChangesInv

(* The steps of a batch before it is stored.                               *)
LEMMA BatchIsLoaded ==
  ASSUME TypeInv, NEW c \in Call, LoadLatestPrices(c), ToldOnce(c)
  PROVE  Loaded(c)'
<1> USE IngestionWriterAssumption
<1>1. PICK latest \in [{k \in Sold : k[1] \in Stations(c) /\ At(k) # {}} -> obs] :
        /\ \A k \in DOMAIN latest : latest[k] \in Newest(At(k))
        /\ work' = [work EXCEPT ![c].latest = {<<k, latest[k].price>> : k \in DOMAIN latest}]
  BY DEF LoadLatestPrices
<1> DEFINE newest == {<<k, latest[k].price>> : k \in DOMAIN latest}
<1>2. work[c] \in WorkType /\ work \in [Call -> WorkType]
  BY DEF TypeInv, TypeOK
<1>3. work'[c] = [work[c] EXCEPT !.latest = newest]
  BY <1>1, <1>2
<1> HIDE DEF newest
<1>4. /\ work'[c].latest = newest /\ work'[c].batch = work[c].batch
      /\ work'[c].known = work[c].known
  BY <1>2, <1>3 DEF WorkType
<1>5. Stations(c)' = Stations(c)
  BY <1>4 DEF Stations, Inserted, Insertable, NewRecords
<1>6. UNCHANGED obs
  BY DEF LoadLatestPrices, tables
<1>7. ASSUME NEW r \in work[c].batch, r.ext \in Stations(c), NEW q \in r.quotes,
             At(<<r.ext, q.fuel>>) # {}
      PROVE  \E o \in Newest(At(<<r.ext, q.fuel>>)) : <<<<r.ext, q.fuel>>, o.price>> \in newest
  <2> DEFINE k == <<r.ext, q.fuel>>
  <2>1. k \in Sold
    BY TimesAreNat DEF ToldOnce
  <2>2. k[1] = r.ext
    OBVIOUS
  <2> HIDE DEF k
  <2>3. k \in DOMAIN latest
    BY <1>7, <2>1, <2>2 DEF k
  <2>4. latest[k] \in Newest(At(k)) /\ <<k, latest[k].price>> \in newest
    BY <1>1, <2>3 DEF newest
  <2> QED BY <2>4 DEF k
<1>8. \A k : Newest(At(k))' = Newest(At(k)) /\ At(k)' = At(k)
  BY <1>6 DEF Newest, At
<1> QED BY <1>4, <1>5, <1>7, <1>8 DEF Loaded

LEMMA BatchKeepsChanges ==
  ASSUME TypeInv, ChangesInv, NEW c \in Call, UNCHANGED overlapped,
         ReadMappings(c) \/ WriteRow(c) \/ WriteStations(c) \/ LoadLatestPrices(c)
  PROVE  ChangesInv'
<1>0. pc \in [Call -> Phase] /\ work \in [Call -> WorkType]
  BY DEF TypeInv, TypeOK
<1>1. /\ UNCHANGED <<provider, clock, obs>> /\ pc[c] \in Importing
      /\ \A d \in Call \ {c} : pc'[d] = pc[d] /\ work'[d] = work[d]
  BY <1>0 DEF ReadMappings, WriteRow, WriteStations, LoadLatestPrices, told, tables, Importing
<1>2. work'[c].told = work[c].told /\ work'[c].left = work[c].left
  <2>1. CASE ReadMappings(c)
    <3>1. PICK b, k : work' = [work EXCEPT ![c].batch = b, ![c].known = k]
      BY <2>1 DEF ReadMappings
    <3>2. work'[c] = [work[c] EXCEPT !.batch = b, !.known = k]
      BY <1>0, <3>1
    <3> QED BY <1>0, <3>2 DEF WorkType
  <2>2. CASE WriteRow(c)
    <3>1. PICK h : work'[c] = [work[c] EXCEPT !.held = h]
      BY <1>0, <2>2 DEF WriteRow
    <3> QED BY <1>0, <3>1 DEF WorkType
  <2>3. CASE WriteStations(c)
    BY <2>3 DEF WriteStations
  <2>4. CASE LoadLatestPrices(c)
    <3>1. PICK l : work'[c] = [work[c] EXCEPT !.latest = l]
      BY <1>0, <2>4 DEF LoadLatestPrices
    <3> QED BY <1>0, <3>1 DEF WorkType
  <2> QED BY <2>1, <2>2, <2>3, <2>4
<1>3. \A d \in Call : (Heard(d) => Heard(d)') /\ (ToldOnce(d) => ToldOnce(d)')
  <2>1. \A d \in Call : work'[d].told = work[d].told /\ work'[d].left = work[d].left
    BY <1>1, <1>2
  <2>2. \A k : At(k)' = At(k)
    BY <1>1 DEF At
  <2> QED BY <1>1, <2>1, <2>2 DEF Heard, ToldOnce
<1>4. \A d \in Call \ {c} : Loaded(d) => Loaded(d)'
  <2>1. \A d \in Call \ {c} : Stations(d)' = Stations(d)
    BY <1>1 DEF Stations, Inserted, Insertable, NewRecords
  <2>2. \A k : At(k)' = At(k) /\ FromUsers(k)' = FromUsers(k) /\ Newest(At(k))' = Newest(At(k))
    BY <1>1 DEF At, FromUsers, Newest
  <2> QED BY <1>1, <2>1, <2>2 DEF Loaded
<1>5. Compares /\ ToldOnce(c) => Loaded(c)'
  <2>1. CASE LoadLatestPrices(c)
    BY <2>1, BatchIsLoaded
  <2>2. CASE ReadMappings(c) \/ WriteRow(c) \/ WriteStations(c)
    <3>1. Compares => pc'[c] # "storing"
      BY <1>0, <2>2 DEF ReadMappings, WriteRow, WriteStations, Compares
    <3> QED BY <3>1 DEF Loaded
  <2> QED BY <2>1, <2>2
<1>6. OneAtATime => OneAtATime'
  BY <1>1 DEF OneAtATime
<1>7. OnlyChangesAreStored'
  BY <1>1 DEF ChangesInv, OnlyChangesAreStored, Successive, At
<1>8. Compares => \A o \in obs' : o.at <= clock'
  BY <1>1 DEF ChangesInv
<1>9. Plain' = Plain /\ Compares' = Compares
  BY <1>1 DEF Plain, Compares
<1>10. \A d \in Call : pc'[d] \in Importing => pc[d] \in Importing
  BY <1>1
<1>11. OverlapsAreNoted'
  BY <1>10 DEF ChangesInv, OverlapsAreNoted
<1>12. ASSUME Compares, NEW d \in Call \ overlapped, NEW e \in Call,
              pc'[d] \notin Importing, pc'[e] \in Importing
       PROVE  ToldLater(d, e)'
  <2>1. pc[d] \notin Importing
    BY <1>1, <1>10, <1>12 DEF ChangesInv, OverlapsAreNoted
  <2>2. ToldLater(d, e)
    BY <1>10, <1>12, <2>1 DEF ChangesInv
  <2> QED BY <1>1, <1>2, <2>2 DEF ToldLater
<1>13. ASSUME Compares
       PROVE  /\ \A d \in Call : ToldOnce(d)'
              /\ \A d \in Call \ overlapped : pc'[d] \in Importing => Heard(d)' /\ Loaded(d)'
  <2>1. \A d \in Call : ToldOnce(d)
    BY <1>13 DEF ChangesInv
  <2>2. \A d \in Call \ overlapped : pc'[d] \in Importing => Heard(d) /\ Loaded(d)
    BY <1>10, <1>13 DEF ChangesInv
  <2> QED BY <1>3, <1>4, <1>5, <1>13, <2>1, <2>2
<1> QED BY <1>6, <1>7, <1>8, <1>9, <1>11, <1>12, <1>13 DEF ChangesInv

(* What a batch stores is quoted to it and no news where a price is known. *)
IsRow(o, r, q) ==
  /\ o.ext = r.ext /\ o.fuel = q.fuel /\ o.price = q.price /\ o.at = q.at

LEMMA FreshIsQuoted ==
  ASSUME NEW c \in Call, NEW o \in FreshRows(c)
  PROVE  \E r \in work[c].batch : \E q \in r.quotes :
           /\ r.ext \in Stations(c) /\ ~IsUnchangedPrice(c, r.ext, q) /\ IsRow(o, r, q)
<1> DEFINE row(r, q) == [ext |-> r.ext, fuel |-> q.fuel, price |-> q.price, at |-> q.at,
                         by |-> c]
           rows(r) == {row(r, q) : q \in {p \in r.quotes : ~IsUnchangedPrice(c, r.ext, p)}}
           stored == {r \in work[c].batch : r.ext \in Stations(c)}
<1>1. o \in UNION {rows(r) : r \in stored}
  BY DEF FreshRows, ObservationRows
<1>2. PICK r \in stored : o \in rows(r)
  BY <1>1
<1>3. PICK q \in {p \in r.quotes : ~IsUnchangedPrice(c, r.ext, p)} : o = row(r, q)
  BY <1>2
<1>4. IsRow(o, r, q)
  BY <1>3 DEF IsRow
<1> QED BY <1>2, <1>3, <1>4

(* Commit().                                                               *)
LEMMA CommitStores ==
  ASSUME TypeInv, NEW c \in Call, Commit(c)
  PROVE  /\ pc[c] = "storing" /\ UNCHANGED <<provider, clock>>
         /\ obs' = obs \cup FreshRows(c)
         /\ \A d \in Call \ {c} : pc'[d] = pc[d] /\ work'[d] = work[d]
         /\ pc'[c] \in {"reconciling", "reading"}
         /\ work'[c].told = work[c].told
         /\ work'[c].left = work[c].left \ work[c].batch
         /\ work'[c].errors = work[c].errors + BatchErrors(c)
         /\ pc'[c] = "reconciling" => work'[c].left = {}
         /\ \A o \in FreshRows(c) :
              /\ o.by = c /\ o \in ObservationType /\ o.at \in Nat
              /\ \E r \in work[c].batch : \E q \in r.quotes :
                   /\ r.ext \in Stations(c) /\ ~IsUnchangedPrice(c, r.ext, q)
                   /\ IsRow(o, r, q)
<1> DEFINE left == work[c].left \ work[c].batch
           n == work[c].stored + Cardinality(FreshRows(c))
           m == work[c].created + Cardinality(Insertable(c))
           e == work[c].errors + BatchErrors(c)
           w == [work[c] EXCEPT !.left = left, !.batch = {}, !.known = {}, !.held = {},
                                !.latest = {}, !.stored = n, !.created = m, !.errors = e]
<1>1. /\ pc[c] = "storing" /\ pc \in [Call -> Phase] /\ work \in [Call -> WorkType]
      /\ UNCHANGED <<provider, clock>> /\ obs' = obs \cup FreshRows(c)
      /\ pc' = [pc EXCEPT ![c] = IF left = {} THEN "reconciling" ELSE "reading"]
      /\ work' = [work EXCEPT ![c] = w]
  BY DEF Commit, TypeInv, TypeOK, told
<1> HIDE DEF left, n, m, e
<1>2. w.told = work[c].told /\ w.left = left /\ w.errors = e
  BY <1>1 DEF WorkType
<1> HIDE DEF w
<1>3. /\ work'[c] = w /\ pc'[c] = IF left = {} THEN "reconciling" ELSE "reading"
      /\ \A d \in Call \ {c} : pc'[d] = pc[d] /\ work'[d] = work[d]
  BY <1>1
<1>4. \A o \in FreshRows(c) : o.by = c /\ o \in ObservationType /\ o.at \in Nat
  BY RowsAreFinite, FreshIsOwn DEF ObservationType
<1> QED BY <1>1, <1>2, <1>3, <1>4, FreshIsQuoted DEF left, e

(* It is new where imports do not overlap, and once.                       *)
LEMMA FreshIsNew ==
  ASSUME TypeInv, ChangesInv, Compares, NEW c \in Call, Commit(c)
  PROVE  /\ c \notin overlapped =>
              \A o \in FreshRows(c), x \in obs :
                o.ext = x.ext /\ o.fuel = x.fuel /\ x.by # NoCall => x.at < o.at
         /\ \A o, p \in FreshRows(c) :
              o.ext = p.ext /\ o.fuel = p.fuel => o = p
<1>1. /\ work[c].batch \subseteq work[c].left /\ work[c].left \subseteq work[c].told
  BY TimesAreNat
<1>2. ToldOnce(c) /\ (c \notin overlapped => Heard(c))
  BY CommitStores DEF ChangesInv, Importing
<1>3. ASSUME NEW o \in FreshRows(c), NEW x \in obs, c \notin overlapped,
             o.ext = x.ext, o.fuel = x.fuel, x.by # NoCall
      PROVE  x.at < o.at
  <2>1. PICK r \in work[c].left : \E q \in r.quotes : IsRow(o, r, q)
    BY <1>1, CommitStores
  <2>2. PICK q \in r.quotes : IsRow(o, r, q)
    BY <2>1
  <2>3. x \in At(<<r.ext, q.fuel>>)
    BY <1>3, <2>2 DEF At, IsRow
  <2> QED BY <1>2, <1>3, <2>2, <2>3 DEF Heard, IsRow
<1>4. ASSUME NEW o \in FreshRows(c), NEW p \in FreshRows(c), o.ext = p.ext, o.fuel = p.fuel
      PROVE  o = p
  <2>1. PICK r \in work[c].told : \E q \in r.quotes : IsRow(o, r, q)
    BY <1>1, CommitStores
  <2>2. PICK q \in r.quotes : IsRow(o, r, q)
    BY <2>1
  <2>3. PICK s \in work[c].told : \E t \in s.quotes : IsRow(p, s, t)
    BY <1>1, CommitStores
  <2>4. PICK t \in s.quotes : IsRow(p, s, t)
    BY <2>3
  <2>5. r.ext = s.ext /\ q.fuel = t.fuel
    BY <1>4, <2>2, <2>4 DEF IsRow
  <2>6. r = s /\ q = t
    BY <1>2, <2>5 DEF ToldOnce
  <2>7. o.at = p.at /\ o.price = p.price /\ o.by = p.by
    BY <2>2, <2>4, <2>6, CommitStores DEF IsRow
  <2>8. o \in ObservationType /\ p \in ObservationType
    BY CommitStores
  <2> QED BY <1>4, <2>7, <2>8 DEF ObservationType
<1> QED BY <1>3, <1>4

(* A batch that is stored adds the first observation of a price or one     *)
(* that differs from the newest.                                           *)
LEMMA CommitKeepsChanges ==
  ASSUME TypeInv, ChangesInv, NEW c \in Call, UNCHANGED overlapped, Commit(c)
  PROVE  ChangesInv'
<1> USE IngestionWriterAssumption
<1> DEFINE fresh == FreshRows(c)
           left == work[c].left \ work[c].batch
<1>1. /\ pc[c] = "storing" /\ UNCHANGED <<provider, clock>> /\ obs' = obs \cup fresh
      /\ \A d \in Call \ {c} : pc'[d] = pc[d] /\ work'[d] = work[d]
      /\ pc'[c] \in {"reconciling", "reading"}
  BY CommitStores
<1>2. work'[c].told = work[c].told /\ work'[c].left = left
  BY CommitStores
<1>3. \A o \in fresh : /\ o.by = c /\ o.at \in Nat
                       /\ \E r \in work[c].batch : \E q \in r.quotes :
                            /\ r.ext \in Stations(c) /\ ~IsUnchangedPrice(c, r.ext, q)
                            /\ IsRow(o, r, q)
  BY CommitStores
<1>4. /\ work[c].batch \subseteq work[c].left /\ work[c].left \subseteq work[c].told
      /\ \A o \in obs : o.at \in Nat
      /\ clock \in Nat /\ \A r \in work[c].told : \A q \in r.quotes : q.at \in Nat
  BY TimesAreNat
<1>5. /\ Compares => /\ ToldOnce(c)
                     /\ c \notin overlapped => Heard(c) /\ Loaded(c)
      /\ Plain => ToldOnce(c) /\ Heard(c) /\ Loaded(c) /\ OneAtATime
  BY <1>1 DEF ChangesInv, Importing, Plain
<1>6. \A d \in Call \ {c} : pc[d] \in Importing => d \in overlapped /\ c \in overlapped
  BY <1>1 DEF ChangesInv, OverlapsAreNoted, Importing
<1>7. /\ pc[c] \in Importing
      /\ \A d \in Call : pc'[d] \in Importing => pc[d] \in Importing
  BY <1>1 DEF Importing
<1>8. pc'[c] # "storing"
  BY <1>1
<1>9. ASSUME Plain
      PROVE  \A o \in fresh : \A x \in obs :
               <<o.ext, o.fuel>> = <<x.ext, x.fuel>> /\ x.by # NoCall => x.at < o.at
  BY <1>9, FreshIsNew DEF Plain
<1>10. ASSUME Compares
       PROVE  \A o, p \in fresh : <<o.ext, o.fuel>> = <<p.ext, p.fuel>> => o = p
  BY <1>10, FreshIsNew
<1> HIDE DEF fresh, left
<1>11. Plain => OneAtATime'
  <2> SUFFICES ASSUME Plain, NEW o \in obs', NEW p \in obs',
                      o.ext = p.ext, o.fuel = p.fuel, o.at = p.at,
                      o.by # NoCall, p.by # NoCall
               PROVE  o = p
    BY DEF OneAtATime
  <2>1. CASE o \in obs /\ p \in obs
    BY <1>5, <2>1 DEF OneAtATime
  <2>2. CASE o \in fresh /\ p \in fresh
    BY <1>10, <2>2 DEF Plain
  <2>3. CASE o \in obs /\ p \in fresh
    BY <1>4, <1>9, <2>3
  <2>4. CASE o \in fresh /\ p \in obs
    BY <1>4, <1>9, <2>4
  <2> QED BY <1>1, <2>1, <2>2, <2>3, <2>4
<1>12. Compares /\ c \notin overlapped => Heard(c)'
  <2> SUFFICES ASSUME Compares, c \notin overlapped  PROVE Heard(c)'
    OBVIOUS
  <2>1. \A o \in obs' : o.by # NoCall => \A r \in work[c].told : \A q \in r.quotes : o.at <= q.at
    <3> SUFFICES ASSUME NEW o \in obs', o.by # NoCall,
                        NEW r \in work[c].told, NEW q \in r.quotes
                 PROVE  o.at <= q.at
      OBVIOUS
    <3>1. CASE o \in obs
      BY <1>5, <3>1 DEF Heard
    <3>2. CASE o \in fresh
      <4>1. PICK s \in work[c].told : \E t \in s.quotes : o.at = t.at
        BY <1>3, <1>4, <3>2 DEF IsRow
      <4>2. o.at = q.at
        BY <1>5, <4>1 DEF ToldOnce
      <4> QED BY <1>4, <4>2
    <3> QED BY <1>1, <3>1, <3>2
  <2>2. ASSUME NEW r \in left, NEW q \in r.quotes, NEW o \in obs',
               o.ext = r.ext, o.fuel = q.fuel, o.by # NoCall
        PROVE  o.at < q.at
    <3>1. r \in work[c].left /\ r \notin work[c].batch
      BY DEF left
    <3>2. CASE o \in obs
      <4>1. o \in At(<<r.ext, q.fuel>>)
        BY <2>2, <3>2 DEF At
      <4> QED BY <1>5, <2>2, <3>1, <4>1 DEF Heard
    <3>3. CASE o \in fresh
      <4>1. PICK s \in work[c].batch : \E t \in s.quotes : IsRow(o, s, t)
        BY <1>3, <3>3
      <4>2. PICK t \in s.quotes : IsRow(o, s, t)
        BY <4>1
      <4>3. s.ext = r.ext /\ t.fuel = q.fuel /\ s \in work[c].told /\ r \in work[c].told
        BY <1>4, <2>2, <3>1, <4>2 DEF IsRow
      <4> QED BY <1>5, <3>1, <4>3 DEF ToldOnce
    <3> QED BY <1>1, <3>2, <3>3
  <2>3. \A r \in left : \A q \in r.quotes : \A o \in At(<<r.ext, q.fuel>>)' :
          o.by # NoCall => o.at < q.at
    BY <2>2 DEF At
  <2>4. clock' = clock
    BY <1>1
  <2> QED BY <1>2, <1>5, <2>1, <2>3, <2>4 DEF Heard
<1>13. ASSUME OnlyChangesAreStored, Plain, provider.decimals = StoredDecimals,
              NEW o \in obs', NEW p \in obs', Successive(o, p)'
       PROVE  o.price # p.price
  <2>1. /\ o.ext = p.ext /\ o.fuel = p.fuel /\ o.at < p.at
        /\ \A x \in obs' : x.ext = o.ext /\ x.fuel = o.fuel =>
             x.by # NoCall /\ ~(o.at < x.at /\ x.at < p.at)
    BY <1>13 DEF Successive, At
  <2>2. obs \subseteq obs' /\ \A x \in obs' : x.at \in Nat
    BY <1>1, <1>3, <1>4
  <2>3. CASE o \in obs /\ p \in obs
    <3>1. Successive(o, p)
      BY <2>1, <2>2 DEF Successive, At
    <3> QED BY <1>13, <2>3, <3>1 DEF OnlyChangesAreStored, Plain, Compares
  <2>4. CASE o \in obs /\ p \in fresh
    <3>1. PICK r \in work[c].batch : \E q \in r.quotes :
            r.ext \in Stations(c) /\ ~IsUnchangedPrice(c, r.ext, q) /\ IsRow(p, r, q)
      BY <1>3, <2>4
    <3>2. PICK q \in r.quotes :
            r.ext \in Stations(c) /\ ~IsUnchangedPrice(c, r.ext, q) /\ IsRow(p, r, q)
      BY <3>1
    <3> DEFINE k == <<r.ext, q.fuel>>
    <3>3. At(k) = {x \in obs : x.ext = o.ext /\ x.fuel = o.fuel}
      BY <2>1, <3>2 DEF At, IsRow
    <3>4. o \in At(k) /\ FromUsers(k) = {}
      BY <2>1, <2>2, <2>4, <3>3 DEF FromUsers
    <3>5. o \in Newest(At(k))
      <4>1. \A x \in At(k) : x.at < p.at /\ ~(o.at < x.at /\ x.at < p.at)
        BY <1>9, <1>13, <2>1, <2>2, <2>4, <3>3
      <4> QED BY <2>2, <2>4, <3>3, <3>4, <4>1 DEF Newest
    <3>6. PICK x \in Newest(At(k)) : <<k, x.price>> \in work[c].latest
      BY <1>1, <1>5, <1>13, <3>2, <3>4 DEF Loaded
    <3>7. x = o
      <4>1. x \in At(k) /\ x.at <= o.at /\ o.at <= x.at
        BY <3>4, <3>5, <3>6 DEF Newest
      <4>2. x.at = o.at /\ x.by # NoCall /\ o.by # NoCall /\ x \in obs
        BY <2>1, <2>2, <2>4, <3>3, <4>1
      <4> QED BY <1>5, <1>13, <2>4, <3>3, <4>1, <4>2 DEF OneAtATime
    <3>8. ~(Text(o.price, StoredDecimals) = Text(q.price, provider.decimals))
      BY <3>2, <3>6, <3>7 DEF IsUnchangedPrice
    <3> QED BY <1>13, <3>2, <3>8 DEF Text, IsRow
  <2>5. CASE o \in fresh /\ p \in fresh
    <3>1. o = p
      BY <1>10, <1>13, <2>1, <2>5 DEF Plain
    <3> QED BY <2>1, <2>2, <3>1
  <2>6. CASE o \in fresh /\ p \in obs
    BY <1>9, <1>13, <2>1, <2>2, <2>6
  <2> QED BY <1>1, <2>3, <2>4, <2>5, <2>6
<1>14. OnlyChangesAreStored'
  <2>1. Plain' = Plain /\ OnlyChangesAreStored
    BY <1>1 DEF Plain, Compares, ChangesInv
  <2> QED BY <1>1, <1>13, <2>1 DEF OnlyChangesAreStored, Plain, Compares
<1>15. Compares => \A o \in obs' : o.at <= clock'
  <2>1. ASSUME NEW o \in fresh  PROVE \E r \in work[c].told : \E q \in r.quotes : o.at = q.at
    BY <1>3, <1>4, <2>1 DEF IsRow
  <2>2. Compares => \A o \in fresh : o.at <= clock
    BY <1>5, <2>1 DEF ToldOnce
  <2>3. Compares => \A o \in obs : o.at <= clock
    BY DEF ChangesInv
  <2> QED BY <1>1, <2>2, <2>3
<1>16. Plain' = Plain /\ Compares' = Compares
  BY <1>1 DEF Plain, Compares
<1>17. OverlapsAreNoted'
  BY <1>7 DEF ChangesInv, OverlapsAreNoted
<1>18. \A d \in Call : work'[d].told = work[d].told
  BY <1>1, <1>2
<1>19. Compares => \A d \in Call : ToldOnce(d)'
  BY <1>1, <1>18 DEF ChangesInv, ToldOnce
<1>20. ASSUME Compares, NEW d \in Call \ overlapped, NEW e \in Call,
              pc'[d] \notin Importing, pc'[e] \in Importing
       PROVE  ToldLater(d, e)'
  <2>1. d # c
    BY <1>1, <1>6, <1>7, <1>20
  <2>2. ToldLater(d, e)
    BY <1>1, <1>7, <1>20, <2>1 DEF ChangesInv
  <2> QED BY <1>18, <2>2 DEF ToldLater
<1>21. Compares => \A d \in Call \ overlapped : pc'[d] \in Importing => Heard(d)' /\ Loaded(d)'
  <2>1. \A d \in Call \ overlapped : pc'[d] \in Importing => d = c
    BY <1>6, <1>7
  <2> QED BY <1>8, <1>12, <2>1 DEF Loaded
<1> QED BY <1>11, <1>14, <1>15, <1>16, <1>17, <1>19, <1>20, <1>21 DEF ChangesInv

(* A price that changes or that a user reports.                            *)
LEMMA WorldKeepsChanges ==
  ASSUME TypeInv, ChangesInv, World
  PROVE  ChangesInv'
<1>1. /\ UNCHANGED <<provider, pc, work, overlapped>> /\ clock' = clock + 1
      /\ clock \in Nat /\ \A o \in obs : o.at \in Nat
  BY TimesAreNat DEF World, ProviderChanges, CreateObservation, calls
<1> DEFINE new == obs' \ obs
<1>2. obs' = obs \cup new /\ \A o \in new : o.by = NoCall /\ o.at = clock + 1
  <2>1. CASE UNCHANGED obs
    BY <2>1
  <2>2. CASE ~UNCHANGED obs
    <3>1. PICK k \in Sold, price \in Reported : CreateObservation(k, price)
      BY <2>2 DEF World, ProviderChanges, tables
    <3> DEFINE o == [ext |-> k[1], fuel |-> k[2], price |-> price, at |-> clock', by |-> NoCall]
    <3>2. obs' = obs \cup {o}
      BY <3>1 DEF CreateObservation
    <3>3. o.by = NoCall /\ o.at = clock + 1
      BY <1>1
    <3> HIDE DEF o
    <3> QED BY <3>2, <3>3
  <2> QED BY <2>1, <2>2
<1> HIDE DEF new
<1>3. \A d \in Call : Stations(d)' = Stations(d)
  BY <1>1 DEF Stations, Inserted, Insertable, NewRecords
<1>4. \A k : FromUsers(k)' = {} => At(k)' = At(k) /\ FromUsers(k) = {}
  BY <1>2 DEF At, FromUsers
<1>5. ASSUME NEW d \in Call
      PROVE  (Heard(d) => Heard(d)') /\ (ToldOnce(d) => ToldOnce(d)')
  <2>1. ToldOnce(d) => \A r \in work[d].told : \A q \in r.quotes : q.at <= clock'
    <3> SUFFICES ASSUME ToldOnce(d), NEW r \in work[d].told, NEW q \in r.quotes
                 PROVE  q.at <= clock'
      OBVIOUS
    <3>1. q.at \in Nat
      BY TimesAreNat
    <3>2. q.at <= clock
      BY DEF ToldOnce
    <3> QED BY <1>1, <3>1, <3>2
  <2>2. \A o \in obs' : o.by # NoCall => o \in obs
    BY <1>2
  <2>3. \A k : \A o \in At(k)' : o.by # NoCall => o \in At(k)
    BY <1>2 DEF At
  <2>4. Heard(d) => Heard(d)'
    BY <1>1, <2>2, <2>3 DEF Heard
  <2>5. ToldOnce(d) => ToldOnce(d)'
    BY <1>1, <2>1 DEF ToldOnce
  <2> QED BY <2>4, <2>5
<1>6. ASSUME NEW d \in Call, Loaded(d)  PROVE Loaded(d)'
  <2>1. \A k : FromUsers(k)' = {} => Newest(At(k))' = Newest(At(k))
    BY <1>4 DEF Newest
  <2>2. \A r, q :
          (\/ At(<<r.ext, q.fuel>>) = {} \/ FromUsers(<<r.ext, q.fuel>>) # {}
           \/ \E o \in Newest(At(<<r.ext, q.fuel>>)) :
                <<<<r.ext, q.fuel>>, o.price>> \in work[d].latest)
          => (\/ At(<<r.ext, q.fuel>>)' = {} \/ FromUsers(<<r.ext, q.fuel>>)' # {}
              \/ \E o \in Newest(At(<<r.ext, q.fuel>>))' :
                   <<<<r.ext, q.fuel>>, o.price>> \in work[d].latest)
    BY <1>4, <2>1
  <2> QED BY <1>1, <1>3, <1>6, <2>2 DEF Loaded
<1>7. OneAtATime => OneAtATime'
  BY <1>2 DEF OneAtATime
<1>8. OnlyChangesAreStored'
  <2>1. ASSUME NEW o \in obs', NEW p \in obs', Successive(o, p)'
        PROVE  o \in obs /\ p \in obs /\ Successive(o, p)
    <3>1. /\ o.ext = p.ext /\ o.fuel = p.fuel /\ o.at < p.at
          /\ \A x \in obs' : x.ext = o.ext /\ x.fuel = o.fuel =>
               x.by # NoCall /\ ~(o.at < x.at /\ x.at < p.at)
      BY <2>1 DEF Successive, At
    <3>2. o \in obs /\ p \in obs
      BY <1>2, <3>1
    <3> QED BY <1>2, <3>1, <3>2 DEF Successive, At
  <2> QED BY <1>1, <2>1 DEF ChangesInv, OnlyChangesAreStored
<1>9. (\A o \in obs : o.at <= clock) => \A o \in obs' : o.at <= clock'
  BY <1>1, <1>2
<1>10. Plain' = Plain /\ Compares' = Compares
  BY <1>1 DEF Plain, Compares
<1>11. OverlapsAreNoted' /\ \A c, d : ToldLater(c, d)' = ToldLater(c, d)
  BY <1>1 DEF ChangesInv, OverlapsAreNoted, ToldLater
<1>12. Compares => \A d \in Call : ToldOnce(d)'
  BY <1>5 DEF ChangesInv
<1>13. Compares => \A d \in Call \ overlapped : pc'[d] \in Importing => Heard(d)' /\ Loaded(d)'
  BY <1>1, <1>5, <1>6 DEF ChangesInv
<1>14. Compares => \A c \in Call \ overlapped, d \in Call :
         pc'[c] \notin Importing /\ pc'[d] \in Importing => ToldLater(c, d)'
  BY <1>1, <1>11 DEF ChangesInv
<1>15. (Compares => \A o \in obs' : o.at <= clock') /\ (Plain => OneAtATime')
  BY <1>7, <1>9 DEF ChangesInv
<1> QED BY <1>1, <1>8, <1>10, <1>11, <1>12, <1>13, <1>14, <1>15 DEF ChangesInv

LEMMA FetchKeepsChanges ==
  ASSUME TypeInv, ChangesInv, NEW c \in Call, Fetch(c)
  PROVE  ChangesInv'
<1>1. pc[c] = "fetching" /\ NoteOverlap(c)
  BY DEF Fetch
<1>2. \E mode, answered, fuels, malformed, unplaced :
        Hear(c, mode, answered, fuels, malformed, unplaced)
  BY Zenon DEF Fetch
<1> QED BY <1>1, <1>2, HeardIsNew

LEMMA ChangesAreKept ==
  ASSUME TypeInv, ChangesInv, Next
  PROVE  ChangesInv'
<1>0. pc \in [Call -> Phase] /\ work \in [Call -> WorkType]
  BY DEF TypeInv, TypeOK
<1> DEFINE Aside(c) ==
             \/ TryLock(c) \/ Search(c) \/ StartRun(c) \/ FinishRun(c) \/ FinishFailed(c)
             \/ Unlock(c) \/ Refreshed(c) \/ CatchRefresh(c) \/ Throw(c) \/ ThrowAgain(c)
             \/ LoseLock(c)
             \/ Deadlock(c) /\ UNCHANGED overlapped
<1>1. ASSUME NEW c \in Call, Aside(c)
      PROVE  ChangesInv'
  <2>1. UNCHANGED <<provider, clock, obs, overlapped>>
    BY <1>1 DEF TryLock, Search, StartRun, FinishRun, FinishFailed, Unlock, Refreshed,
                CatchRefresh, Throw, ThrowAgain, LoseLock, Deadlock, told, tables, calls
  <2>2. \A d \in Call \ {c} : pc'[d] = pc[d] /\ work'[d] = work[d]
    BY <1>0, <1>1 DEF TryLock, Search, StartRun, FinishRun, FinishFailed, Unlock, Refreshed,
                CatchRefresh, Throw, ThrowAgain, LoseLock, Deadlock, GoTo, Forget, calls
  <2>3. pc'[c] \notin Importing \/ UNCHANGED <<pc, work>>
    BY <1>0, <1>1 DEF TryLock, Search, StartRun, FinishRun, FinishFailed, Unlock, Refreshed,
                CatchRefresh, Throw, ThrowAgain, LoseLock, Deadlock, GoTo, Importing, calls
  <2>4. work'[c].told \subseteq work[c].told
    <3>1. \A heard : [NoWork EXCEPT !.told = heard].told = heard
      BY DEF NoWork
    <3>2. \/ work'[c] = work[c] \/ work'[c] = [NoWork EXCEPT !.told = {}]
          \/ work'[c] = [NoWork EXCEPT !.told = work[c].told]
      BY <1>0, <1>1 DEF TryLock, Search, StartRun, FinishRun, FinishFailed, Unlock, Refreshed,
                CatchRefresh, Throw, ThrowAgain, LoseLock, Deadlock, Forget, calls
    <3> QED BY <3>1, <3>2
  <2> QED BY <2>1, <2>2, <2>3, <2>4, NothingStored
<1> HIDE DEF Aside
<1>2. ASSUME NEW p \in Process, Crash(p)  PROVE ChangesInv'
  <2> DEFINE dying == {c \in Call : Home[c] = p /\ pc[c] \notin Over \cup {"idle"}}
  <2>1. /\ UNCHANGED <<provider, clock, obs, overlapped>>
        /\ pc' = [c \in Call |-> IF c \in dying THEN "dead" ELSE pc[c]]
        /\ work' = [c \in Call |-> IF c \in dying THEN NoWork ELSE work[c]]
    BY <1>2 DEF Crash, told, tables
  <2> HIDE DEF dying
  <2>2. \A d \in Call : pc'[d] \in Importing => pc'[d] = pc[d] /\ work'[d] = work[d]
    BY <2>1 DEF Importing
  <2>3. \A d \in Call : work'[d].told \subseteq work[d].told
    BY <2>1 DEF NoWork
  <2> QED BY <2>1, <2>2, <2>3, NothingStored
<1>3. ASSUME Expire  PROVE ChangesInv'
  BY <1>3, NothingStored DEF Expire, writerVars, told, tables, calls
<1>4. ASSUME NEW c \in Call, Import(c)  PROVE ChangesInv'
  BY <1>1, <1>4, BatchKeepsChanges, CommitKeepsChanges DEF Import, ImportStations, Aside
<1>5. ASSUME NEW c \in Call,
             TryLock(c) \/ Search(c) \/ Step(c) \/ Throw(c) \/ ThrowAgain(c) \/ LoseLock(c)
      PROVE  ChangesInv'
  <2>1. CASE Fetch(c)
    BY <2>1, FetchKeepsChanges
  <2>2. CASE Import(c)
    BY <1>4, <2>2
  <2>3. CASE Aside(c)
    BY <1>1, <2>3
  <2>4. Fetch(c) \/ Import(c) \/ Aside(c)
    BY <1>5, Zenon DEF Step, Aside
  <2> QED BY <2>1, <2>2, <2>3, <2>4
<1> QED BY <1>2, <1>3, <1>5, WorldKeepsChanges DEF Next

LEMMA ChangesHold == Spec => []ChangesInv
<1>1. Init => ChangesInv
  <2> SUFFICES ASSUME Init  PROVE ChangesInv
    OBVIOUS
  <2>1. obs = {} /\ pc = [c \in Call |-> "idle"] /\ work = [c \in Call |-> NoWork]
    BY DEF Init, WriterInit
  <2>2. \A c \in Call : pc[c] \notin Importing /\ ToldOnce(c)
    BY <2>1 DEF Importing, ToldOnce, NoWork
  <2> QED BY <2>1, <2>2 DEF ChangesInv, OverlapsAreNoted, OneAtATime, OnlyChangesAreStored
<1>2. TypeInv /\ ChangesInv /\ [Next]_vars => ChangesInv'
  <2>1. ChangesInv /\ UNCHANGED vars => ChangesInv'
    BY NothingStored DEF vars, writerVars, told, tables, calls
  <2> QED BY <2>1, ChangesAreKept
<1> QED BY <1>1, <1>2, LockHolds, PTL DEF Spec

(* OnlyChangesAreStored, for any stations, prices, calls and batches, with *)
(* runs that fail or die and prices users report meanwhile: what           *)
(* isUnchangedPrice() compares with is the newest price, and a batch adds  *)
(* one observation of a price.                                             *)
THEOREM ChangesAloneAreStored == Spec => []OnlyChangesAreStored
<1>1. ChangesInv => OnlyChangesAreStored
  BY DEF ChangesInv
<1> QED BY <1>1, ChangesHold, PTL

-----------------------------------------------------------------------------
(* What a run that succeeded was told.  Where prices are compared it is    *)
(* the newest of its time, elsewhere there is a row for it.                *)

IsStored(r, q) ==
  LET k == <<r.ext, q.fuel>>
  IN  IF Compares
      THEN \/ \E o \in FromUsers(k) : o.price = q.price
           \/ \E o \in LastKnown(k, q.at) : o.price = q.price
      ELSE \E o \in At(k) : o.price = q.price /\ o.at = q.at

AllStored(records) == \A r \in records : \A q \in r.quotes : IsStored(r, q)

(* The prices a batch compares with are a user's or of before.             *)
Known(c) ==
  pc[c] = "storing" =>
    \A l \in work[c].latest : \E o \in At(l[1]) :
      /\ o.price = l[2]
      /\ \/ o.by = NoCall
         \/ \A r \in work[c].told : \A q \in r.quotes : o \in LastKnown(l[1], q.at)

Storing == Importing \cup {"reconciling"}

ToldInv ==
  /\ \A c \in Call : ~Compares => pc[c] # "comparing" /\ work[c].latest = {}
  /\ \A c \in Call \ overlapped : Compares => Known(c)
  /\ \A c \in Call \ overlapped :
       pc[c] \in Storing /\ work[c].errors = 0 => AllStored(work[c].told \ work[c].left)
  /\ \A c \in Call : pc[c] = "reconciling" => work[c].left = {}
  /\ \A c \in Runs \ overlapped : run[c].status = "succeeded" => AllStored(work[c].told)

LEMMA StoredStays ==
  ASSUME UNCHANGED provider, obs \subseteq obs', NEW r, NEW q, IsStored(r, q),
         Compares => \A o \in obs' : o.ext = r.ext /\ o.fuel = q.fuel =>
                       o \in obs \/ ~(o.at <= q.at)
  PROVE  IsStored(r, q)'
<1> DEFINE k == <<r.ext, q.fuel>>
<1>1. k[1] = r.ext /\ k[2] = q.fuel
  OBVIOUS
<1> HIDE DEF k
<1>2. At(k) \subseteq At(k)' /\ FromUsers(k) \subseteq FromUsers(k)'
  BY DEF At, FromUsers
<1>3. Compares => {o \in At(k)' : o.at <= q.at} = {o \in At(k) : o.at <= q.at}
  BY <1>1 DEF At
<1>4. Compares => LastKnown(k, q.at)' = LastKnown(k, q.at)
  BY <1>3 DEF LastKnown, Newest
<1>5. Compares' = Compares
  BY DEF Compares
<1> QED BY <1>2, <1>4, <1>5 DEF IsStored, k

(* Steps that store and hear nothing.                                      *)
LEMMA ToldStays ==
  ASSUME ToldInv, UNCHANGED <<provider, obs>>, overlapped \subseteq overlapped', Runs \subseteq Call,
         \A d \in Call : work'[d].told \subseteq work[d].told,
         \A d \in Call : work[d].latest = {} => work'[d].latest = {},
         \A d \in Call : pc'[d] \in Storing => pc'[d] = pc[d] /\ work'[d] = work[d],
         \A d \in Runs : run'[d].status = "succeeded" =>
           \/ run[d].status = "succeeded"
           \/ pc[d] = "reconciling" /\ work[d].errors = 0
  PROVE  ToldInv'
<1>1. Compares' = Compares /\ (\A k : At(k)' = At(k)) /\ \A k, t : LastKnown(k, t)' = LastKnown(k, t)
  BY DEF Compares, At, LastKnown, Newest
<1>2. \A r, q : IsStored(r, q) => IsStored(r, q)'
  BY <1>1 DEF IsStored, FromUsers
<1>4. \A d \in Call \ overlapped' : pc'[d] \in Storing /\ work'[d].errors = 0 =>
        AllStored(work[d].told \ work[d].left)'
  <2> SUFFICES ASSUME NEW d \in Call \ overlapped', pc'[d] \in Storing, work'[d].errors = 0
               PROVE  AllStored(work[d].told \ work[d].left)'
    OBVIOUS
  <2>1. pc'[d] = pc[d] /\ work'[d] = work[d]
    OBVIOUS
  <2>2. AllStored(work[d].told \ work[d].left)
    BY <2>1 DEF ToldInv
  <2> QED BY <1>2, <2>1, <2>2 DEF AllStored
<1>5. ASSUME NEW d \in Runs \ overlapped', run'[d].status = "succeeded"
      PROVE  AllStored(work[d].told)'
  <2>1. AllStored(work[d].told)
    <3>1. CASE run[d].status = "succeeded"
      BY <3>1 DEF ToldInv
    <3>2. CASE pc[d] = "reconciling" /\ work[d].errors = 0
      <4>1. work[d].left = {} /\ AllStored(work[d].told \ work[d].left)
        BY <3>2 DEF ToldInv, Storing
      <4>2. work[d].told \ work[d].left = work[d].told
        BY <4>1
      <4> QED BY <4>1, <4>2
    <3> QED BY <1>5, <3>1, <3>2
  <2> QED BY <1>2, <2>1, <1>5 DEF AllStored
<1>6. \A d \in Call \ overlapped' : Compares => Known(d)'
  <2> SUFFICES ASSUME NEW d \in Call \ overlapped', Compares, pc'[d] = "storing"
               PROVE  Known(d)'
    BY DEF Known
  <2>1. pc'[d] = pc[d] /\ work'[d] = work[d]
    BY DEF Storing, Importing
  <2>2. Known(d)
    BY DEF ToldInv
  <2> QED BY <1>1, <2>1, <2>2 DEF Known
<1>7. \A d \in Call : /\ ~Compares => pc'[d] # "comparing" /\ work'[d].latest = {}
                      /\ pc'[d] = "reconciling" => work'[d].left = {}
  BY DEF ToldInv, Storing, Importing
<1> QED BY <1>1, <1>4, <1>5, <1>6, <1>7 DEF ToldInv

(* The steps of a batch before it is stored, for what was told.            *)
LEMMA LoadedIsKnown ==
  ASSUME TypeInv, NEW c \in Call, LoadLatestPrices(c), Heard(c)
  PROVE  Known(c)'
<1>1. PICK latest \in [{k \in Sold : k[1] \in Stations(c) /\ At(k) # {}} -> obs] :
        /\ \A k \in DOMAIN latest : latest[k] \in Newest(At(k))
        /\ work' = [work EXCEPT ![c].latest = {<<k, latest[k].price>> : k \in DOMAIN latest}]
  BY DEF LoadLatestPrices
<1> DEFINE newest == {<<k, latest[k].price>> : k \in DOMAIN latest}
<1>2. work[c] \in WorkType /\ work \in [Call -> WorkType]
  BY DEF TypeInv, TypeOK
<1>3. work'[c] = [work[c] EXCEPT !.latest = newest]
  BY <1>1, <1>2
<1>4. \A l \in newest : \E o \in Newest(At(l[1])) : l[2] = o.price
  BY <1>1
<1> HIDE DEF newest
<1>5. work'[c].latest = newest /\ work'[c].told = work[c].told
  BY <1>2, <1>3 DEF WorkType
<1>6. obs' = obs
  BY DEF LoadLatestPrices, tables
<1>7. ASSUME NEW k, NEW o \in Newest(At(k)), o.by # NoCall,
             NEW r \in work[c].told, NEW q \in r.quotes
      PROVE  o \in LastKnown(k, q.at)
  <2>1. o \in At(k) /\ o \in obs /\ \A x \in At(k) : x.at <= o.at
    BY DEF Newest, At
  <2>2. o.at <= q.at
    BY <1>7, <2>1 DEF Heard
  <2> QED BY <2>1, <2>2 DEF LastKnown, Newest
<1>8. \A k, t : At(k)' = At(k) /\ LastKnown(k, t)' = LastKnown(k, t)
  BY <1>6 DEF At, LastKnown, Newest
<1>9. ASSUME NEW l \in newest
      PROVE  \E o \in At(l[1]) :
               /\ o.price = l[2]
               /\ \/ o.by = NoCall
                  \/ \A r \in work[c].told : \A q \in r.quotes : o \in LastKnown(l[1], q.at)
  <2>1. PICK o \in Newest(At(l[1])) : l[2] = o.price
    BY <1>4
  <2>2. o \in At(l[1])
    BY DEF Newest
  <2> QED BY <1>7, <2>1, <2>2
<1> QED BY <1>5, <1>8, <1>9 DEF Known

LEMMA BatchKeepsTold ==
  ASSUME TypeInv, ChangesInv, ToldInv, NEW c \in Call, UNCHANGED <<overlapped, run>>,
         ReadMappings(c) \/ WriteRow(c) \/ WriteStations(c) \/ LoadLatestPrices(c)
  PROVE  ToldInv'
<1>0. /\ pc \in [Call -> Phase] /\ work \in [Call -> WorkType] /\ Runs \subseteq Call
  BY IngestionAssumption DEF TypeInv, TypeOK
<1>1. /\ UNCHANGED <<provider, obs>> /\ pc[c] \in Importing /\ pc'[c] # "reconciling"
      /\ \A d \in Call \ {c} : pc'[d] = pc[d] /\ work'[d] = work[d]
  BY <1>0 DEF ReadMappings, WriteRow, WriteStations, LoadLatestPrices, told, tables, Importing
<1>2. /\ work'[c].told = work[c].told /\ work'[c].left = work[c].left
      /\ work'[c].errors = work[c].errors
      /\ LoadLatestPrices(c) \/ work'[c].latest = work[c].latest
  <2>1. CASE ReadMappings(c)
    <3>1. PICK b, k : work' = [work EXCEPT ![c].batch = b, ![c].known = k]
      BY <2>1 DEF ReadMappings
    <3>2. work'[c] = [work[c] EXCEPT !.batch = b, !.known = k]
      BY <1>0, <3>1
    <3> QED BY <1>0, <3>2 DEF WorkType
  <2>2. CASE WriteRow(c)
    <3>1. PICK h : work'[c] = [work[c] EXCEPT !.held = h]
      BY <1>0, <2>2 DEF WriteRow
    <3> QED BY <1>0, <3>1 DEF WorkType
  <2>3. CASE WriteStations(c)
    BY <2>3 DEF WriteStations
  <2>4. CASE LoadLatestPrices(c)
    <3>1. PICK l : work'[c] = [work[c] EXCEPT !.latest = l]
      BY <1>0, <2>4 DEF LoadLatestPrices
    <3> QED BY <1>0, <2>4, <3>1 DEF WorkType
  <2> QED BY <2>1, <2>2, <2>3, <2>4
<1>3. Compares' = Compares /\ \A r, q : IsStored(r, q) => IsStored(r, q)'
  BY <1>1 DEF Compares, IsStored, FromUsers, LastKnown, Newest, At
<1>4. /\ Compares /\ pc'[c] = "storing" => LoadLatestPrices(c)
      /\ ~Compares => pc'[c] # "comparing" /\ work'[c].latest = {}
  <2>1. ~Compares => ~LoadLatestPrices(c) /\ work[c].latest = {}
    BY DEF ToldInv, LoadLatestPrices
  <2>2. Compares /\ pc'[c] = "storing" => LoadLatestPrices(c)
    BY <1>0 DEF ReadMappings, WriteRow, WriteStations, Compares
  <2>3. ~Compares => pc'[c] # "comparing"
    BY <1>0, <2>1 DEF ReadMappings, WriteRow, WriteStations, Compares
  <2> QED BY <1>2, <2>1, <2>2, <2>3
<1>5. ASSUME Compares, NEW d \in Call \ overlapped  PROVE Known(d)'
  <2>1. CASE d = c
    <3>1. Heard(c)
      BY <1>1, <1>5, <2>1 DEF ChangesInv
    <3> QED BY <1>4, <1>5, <2>1, <3>1, LoadedIsKnown DEF Known
  <2>2. CASE d # c
    <3>1. Known(d) /\ pc'[d] = pc[d] /\ work'[d] = work[d]
      BY <1>1, <1>5, <2>2 DEF ToldInv
    <3>2. \A k, t : At(k)' = At(k) /\ LastKnown(k, t)' = LastKnown(k, t)
      BY <1>1 DEF At, LastKnown, Newest
    <3> QED BY <3>1, <3>2 DEF Known
  <2> QED BY <2>1, <2>2
<1>6. ASSUME NEW d \in Call \ overlapped, pc'[d] \in Storing, work'[d].errors = 0
      PROVE  AllStored(work[d].told \ work[d].left)'
  <2>1. pc[d] \in Storing /\ work[d].errors = 0
    BY <1>1, <1>2, <1>6 DEF Storing
  <2>2. AllStored(work[d].told \ work[d].left)
    BY <2>1 DEF ToldInv
  <2>3. work'[d].told = work[d].told /\ work'[d].left = work[d].left
    BY <1>1, <1>2
  <2> QED BY <1>3, <2>2, <2>3 DEF AllStored
<1>7. ASSUME NEW d \in Runs \ overlapped, run'[d].status = "succeeded"
      PROVE  AllStored(work[d].told)'
  <2>1. AllStored(work[d].told)
    BY <1>7 DEF ToldInv
  <2>2. work'[d].told = work[d].told
    BY <1>0, <1>1, <1>2
  <2> QED BY <1>3, <2>1, <2>2 DEF AllStored
<1>8. \A d \in Call : /\ ~Compares => pc'[d] # "comparing" /\ work'[d].latest = {}
                      /\ pc'[d] = "reconciling" => work'[d].left = {}
  BY <1>1, <1>4 DEF ToldInv
<1> QED BY <1>3, <1>5, <1>6, <1>7, <1>8 DEF ToldInv

(* Commit() stores what its batch was told, and takes nothing back.        *)
LEMMA NoErrors ==
  ASSUME TypeInv, NEW c \in Call
  PROVE  /\ BatchErrors(c) \in Nat
         /\ BatchErrors(c) = 0 => \A r \in work[c].batch : r.ext \in Stations(c)
<1> DEFINE bare == NewRecords(c) \ Insertable(c)
           homeless == {r \in work[c].batch : r.ext \notin Stations(c)}
<1>1. IsFiniteSet(work[c].batch)
  BY BatchIsTyped
<1>2. bare \subseteq work[c].batch /\ homeless \subseteq work[c].batch
  BY DEF NewRecords
<1>3. BatchErrors(c) = Cardinality(bare) + Cardinality(homeless)
  BY DEF BatchErrors
<1>4. \A r \in work[c].batch : r.ext \notin Stations(c) => r \in homeless
  OBVIOUS
<1> HIDE DEF bare, homeless
<1>5. /\ Cardinality(bare) \in Nat /\ Cardinality(homeless) \in Nat
      /\ Cardinality(homeless) = 0 => homeless = {}
  BY <1>1, <1>2, FS_Subset, FS_CardinalityType, FS_EmptySet
<1>6. BatchErrors(c) \in Nat /\ (BatchErrors(c) = 0 => homeless = {})
  BY <1>3, <1>5
<1> QED BY <1>4, <1>6

LEMMA CommitStoresBatch ==
  ASSUME TypeInv, ChangesInv, ToldInv, NEW c \in Call \ overlapped, Commit(c),
         BatchErrors(c) = 0
  PROVE  \A r \in work[c].batch : \A q \in r.quotes : IsStored(r, q)'
<1> SUFFICES ASSUME NEW r \in work[c].batch, NEW q \in r.quotes  PROVE IsStored(r, q)'
  OBVIOUS
<1> DEFINE k == <<r.ext, q.fuel>>
<1>1. r.ext \in Stations(c) /\ r \in work[c].told /\ work[c].batch \subseteq work[c].told
  BY NoErrors, TimesAreNat
<1>2. pc[c] = "storing" /\ UNCHANGED provider /\ obs' = obs \cup FreshRows(c)
  BY CommitStores
<1>3. Compares => ToldOnce(c)
  BY DEF ChangesInv
<1>4. q.at \in Nat
  BY <1>1, TimesAreNat
<1>5. ASSUME NEW o \in obs', o.ext = r.ext, o.fuel = q.fuel, o.price = q.price, o.at = q.at
      PROVE  IsStored(r, q)'
  <2>1. o \in At(k)'
    BY <1>5 DEF At
  <2>2. \A x \in At(k)' : x.at <= q.at => x.at <= o.at
    BY <1>5
  <2>3. o.at <= q.at
    BY <1>4, <1>5
  <2>4. o \in LastKnown(k, q.at)'
    BY <2>1, <2>2, <2>3 DEF LastKnown, Newest
  <2> QED BY <1>5, <2>1, <2>4 DEF IsStored
<1>6. CASE IsUnchangedPrice(c, r.ext, q)
  <2>1. PICK l \in work[c].latest : /\ l[1] = k
                                    /\ Text(l[2], StoredDecimals) = Text(q.price, provider.decimals)
    BY <1>6 DEF IsUnchangedPrice
  <2>2. l[2] = q.price
    BY <2>1 DEF Text
  <2>3. Compares /\ Known(c)
    BY <2>1 DEF ToldInv
  <2>4. PICK o \in At(k) :
          /\ o.price = q.price
          /\ o.by = NoCall \/ o \in LastKnown(k, q.at)
    BY <1>1, <1>2, <2>1, <2>2, <2>3 DEF Known
  <2>5. IsStored(r, q)
    BY <2>3, <2>4 DEF IsStored, FromUsers
  <2>6. ASSUME NEW x \in FreshRows(c), x.ext = r.ext, x.fuel = q.fuel  PROVE FALSE
    <3>1. PICK s \in work[c].batch : \E p \in s.quotes :
            ~IsUnchangedPrice(c, s.ext, p) /\ IsRow(x, s, p)
      BY CommitStores
    <3>2. PICK p \in s.quotes : ~IsUnchangedPrice(c, s.ext, p) /\ IsRow(x, s, p)
      BY <3>1
    <3>3. s \in work[c].told /\ s.ext = r.ext /\ p.fuel = q.fuel
      BY <1>1, <2>6, <3>2 DEF IsRow
    <3>4. s = r /\ p = q
      BY <1>1, <1>3, <2>3, <3>3 DEF ToldOnce
    <3> QED BY <1>6, <3>2, <3>4
  <2> QED BY <1>2, <2>5, <2>6, StoredStays
<1>7. CASE ~IsUnchangedPrice(c, r.ext, q)
  <2> DEFINE row == [ext |-> r.ext, fuel |-> q.fuel, price |-> q.price, at |-> q.at, by |-> c]
  <2>1. row \in ObservationRows(c)
    BY <1>1, <1>7 DEF ObservationRows
  <2>2. /\ row.ext = r.ext /\ row.fuel = q.fuel /\ row.price = q.price /\ row.at = q.at
    OBVIOUS
  <2> HIDE DEF row
  <2>3. CASE row \in FreshRows(c)
    BY <1>2, <1>5, <2>2, <2>3
  <2>4. CASE row \notin FreshRows(c)
    <3>1. PICK o \in obs : SameRow(o, row)
      BY <2>1, <2>4 DEF FreshRows
    <3> QED BY <1>2, <1>5, <2>2, <3>1 DEF SameRow
  <2> QED BY <2>3, <2>4
<1> QED BY <1>6, <1>7

LEMMA CommitKeepsTold ==
  ASSUME TypeInv, CountInv, ChangesInv, ToldInv, NEW c \in Call,
         UNCHANGED <<overlapped, run>>, Commit(c)
  PROVE  ToldInv'
<1>1. /\ pc[c] = "storing" /\ UNCHANGED provider /\ obs' = obs \cup FreshRows(c)
      /\ \A d \in Call \ {c} : pc'[d] = pc[d] /\ work'[d] = work[d]
      /\ pc'[c] \in {"reconciling", "reading"}
      /\ work'[c].told = work[c].told
      /\ work'[c].left = work[c].left \ work[c].batch
      /\ work'[c].errors = work[c].errors + BatchErrors(c)
      /\ pc'[c] = "reconciling" => work'[c].left = {}
  BY CommitStores
<1>2. /\ work[c].batch \subseteq work[c].left /\ work[c].left \subseteq work[c].told
      /\ work[c].errors \in Nat /\ Runs \subseteq Call
  BY TimesAreNat, IngestionAssumption DEF WorkType
<1>3. Compares' = Compares
  BY <1>1 DEF Compares
<1>4. \A d \in Call \ ({c} \cup overlapped) : pc[d] \notin Importing
  BY <1>1 DEF ChangesInv, OverlapsAreNoted, Importing
<1>5. work'[c].latest = {}
  <2> DEFINE left == work[c].left \ work[c].batch
             n == work[c].stored + Cardinality(FreshRows(c))
             m == work[c].created + Cardinality(Insertable(c))
             e == work[c].errors + BatchErrors(c)
             w == [work[c] EXCEPT !.left = left, !.batch = {}, !.known = {}, !.held = {},
                                  !.latest = {}, !.stored = n, !.created = m, !.errors = e]
  <2>1. work' = [work EXCEPT ![c] = w] /\ work \in [Call -> WorkType]
    BY DEF Commit, TypeInv, TypeOK
  <2> HIDE DEF left, n, m, e
  <2>2. w.latest = {}
    BY <2>1 DEF WorkType
  <2> QED BY <2>1, <2>2
<1>6. ASSUME NEW d \in Call \ ({c} \cup overlapped), NEW r \in work[d].told, NEW q \in r.quotes,
             IsStored(r, q)
      PROVE  IsStored(r, q)'
  <2>1. ASSUME Compares, NEW o \in FreshRows(c)  PROVE ~(o.at <= q.at)
    <3>1. PICK s \in work[c].told : \E p \in s.quotes : o.at = p.at
      BY <1>2, CommitStores DEF IsRow
    <3>2. ToldLater(d, c)
      BY <1>1, <1>4, <2>1 DEF ChangesInv, Importing
    <3>3. q.at \in Nat /\ o.at \in Nat /\ q.at < o.at
      BY <3>1, <3>2, TimesAreNat DEF ToldLater
    <3> QED BY <3>3
  <2> QED BY <1>1, <1>6, <2>1, StoredStays
<1>7. ASSUME c \notin overlapped, NEW r \in work[c].told \ work[c].left, NEW q \in r.quotes,
             IsStored(r, q)
      PROVE  IsStored(r, q)'
  <2>1. ASSUME Compares, NEW o \in FreshRows(c), o.ext = r.ext, o.fuel = q.fuel  PROVE FALSE
    <3>1. PICK s \in work[c].batch : \E p \in s.quotes : IsRow(o, s, p)
      BY CommitStores
    <3>2. PICK p \in s.quotes : IsRow(o, s, p)
      BY <3>1
    <3>3. ToldOnce(c)
      BY <2>1 DEF ChangesInv
    <3>4. s \in work[c].told /\ s.ext = r.ext /\ p.fuel = q.fuel
      BY <1>2, <2>1, <3>2 DEF IsRow
    <3>5. r = s
      BY <3>3, <3>4 DEF ToldOnce
    <3> QED BY <1>2, <3>5
  <2> QED BY <1>1, <1>7, <2>1, StoredStays
<1>8. ASSUME NEW d \in Call \ overlapped, pc'[d] \in Storing, work'[d].errors = 0
      PROVE  AllStored(work[d].told \ work[d].left)'
  <2>1. CASE d = c
    <3>1. work[c].errors = 0 /\ BatchErrors(c) = 0
      BY <1>1, <1>2, <1>8, <2>1, NoErrors
    <3>2. AllStored(work[c].told \ work[c].left)
      BY <1>1, <1>8, <2>1, <3>1 DEF ToldInv, Storing, Importing
    <3>3. \A r \in work[c].told \ work[c].left : \A q \in r.quotes : IsStored(r, q)'
      BY <1>7, <1>8, <2>1, <3>2 DEF AllStored
    <3>4. \A r \in work[c].batch : \A q \in r.quotes : IsStored(r, q)'
      BY <1>8, <2>1, <3>1, CommitStoresBatch
    <3>5. work'[c].told \ work'[c].left
            = (work[c].told \ work[c].left) \cup work[c].batch
      BY <1>1, <1>2
    <3> QED BY <2>1, <3>3, <3>4, <3>5 DEF AllStored
  <2>2. CASE d # c
    <3>1. work'[d] = work[d] /\ AllStored(work[d].told \ work[d].left)
      BY <1>1, <1>8, <2>2 DEF ToldInv
    <3> QED BY <1>6, <1>8, <2>2, <3>1 DEF AllStored
  <2> QED BY <2>1, <2>2
<1>9. ASSUME NEW d \in Runs \ overlapped, run'[d].status = "succeeded"
      PROVE  AllStored(work[d].told)'
  <2>1. d # c
    BY <1>1, <1>9 DEF CountInv, RunCounts, Recorded
  <2>2. d \in Call /\ work'[d] = work[d] /\ AllStored(work[d].told)
    BY <1>1, <1>2, <1>9, <2>1 DEF ToldInv
  <2> QED BY <1>6, <1>9, <2>1, <2>2 DEF AllStored
<1>10. \A d \in Call \ overlapped : Known(d)'
  BY <1>1, <1>4 DEF Known, Importing
<1>11. \A d \in Call : /\ ~Compares => pc'[d] # "comparing" /\ work'[d].latest = {}
                       /\ pc'[d] = "reconciling" => work'[d].left = {}
  BY <1>1, <1>5 DEF ToldInv
<1> QED BY <1>3, <1>8, <1>9, <1>10, <1>11 DEF ToldInv

(* What a user reports is of after what any import was told.               *)
LEMMA WorldKeepsTold ==
  ASSUME TypeInv, ChangesInv, ToldInv, World
  PROVE  ToldInv'
<1>1. /\ UNCHANGED <<provider, pc, work, overlapped, run>>
      /\ clock \in Nat /\ \A o \in obs : o.at \in Nat
  BY TimesAreNat DEF World, ProviderChanges, CreateObservation, calls
<1>2. /\ obs \subseteq obs' /\ \A o \in obs' \ obs : o.at = clock + 1
      /\ Compares' = Compares /\ Runs \subseteq Call
  <2>1. CASE UNCHANGED obs
    BY <1>1, <2>1, IngestionAssumption DEF Compares
  <2>2. CASE ~UNCHANGED obs
    <3>1. PICK k \in Sold, price \in Reported : CreateObservation(k, price)
      BY <2>2 DEF World, ProviderChanges, tables
    <3> DEFINE o == [ext |-> k[1], fuel |-> k[2], price |-> price, at |-> clock', by |-> NoCall]
    <3>2. obs' = obs \cup {o} /\ clock' = clock + 1
      BY <3>1 DEF CreateObservation
    <3>3. o.at = clock + 1
      BY <3>2
    <3> HIDE DEF o
    <3> QED BY <1>1, <3>2, <3>3, IngestionAssumption DEF Compares
  <2> QED BY <2>1, <2>2
<1>3. ASSUME Compares, NEW d \in Call, NEW r \in work[d].told, NEW q \in r.quotes,
             NEW o \in obs' \ obs
      PROVE  ~(o.at <= q.at)
  <2>1. ToldOnce(d)
    BY <1>3 DEF ChangesInv
  <2>2. q.at \in Nat /\ q.at <= clock
    BY <2>1, TimesAreNat DEF ToldOnce
  <2> QED BY <1>1, <1>2, <2>2
<1>4. ASSUME NEW d \in Call, NEW r \in work[d].told, NEW q \in r.quotes, IsStored(r, q)
      PROVE  IsStored(r, q)'
  BY <1>1, <1>2, <1>3, <1>4, StoredStays
<1>5. ASSUME NEW d \in Call, NEW records \in SUBSET work[d].told, AllStored(records)
      PROVE  \A r \in records : \A q \in r.quotes : IsStored(r, q)'
  BY <1>4, <1>5 DEF AllStored
<1>6. ASSUME Compares, NEW d \in Call, Known(d)  PROVE Known(d)'
  <2>1. ASSUME NEW r \in work[d].told, NEW q \in r.quotes, NEW k
        PROVE  LastKnown(k, q.at)' = LastKnown(k, q.at)
    <3>1. {o \in At(k)' : o.at <= q.at} = {o \in At(k) : o.at <= q.at}
      BY <1>2, <1>3, <1>6 DEF At
    <3> QED BY <3>1 DEF LastKnown, Newest
  <2>2. \A k : At(k) \subseteq At(k)'
    BY <1>2 DEF At
  <2> QED BY <1>1, <1>6, <2>1, <2>2 DEF Known
<1>7. ASSUME NEW d \in Call \ overlapped, pc[d] \in Storing, work[d].errors = 0
      PROVE  AllStored(work[d].told \ work[d].left)'
  <2>1. AllStored(work[d].told \ work[d].left)
    BY <1>7 DEF ToldInv
  <2> QED BY <1>1, <1>5, <2>1 DEF AllStored
<1>8. ASSUME NEW d \in Runs \ overlapped, run[d].status = "succeeded"
      PROVE  AllStored(work[d].told)'
  <2>1. AllStored(work[d].told)
    BY <1>8 DEF ToldInv
  <2> QED BY <1>1, <1>2, <1>5, <2>1 DEF AllStored
<1>9. \A c \in Call \ overlapped : Compares => Known(c)'
  BY <1>6 DEF ToldInv
<1>10. \A d \in Call : /\ ~Compares => pc'[d] # "comparing" /\ work'[d].latest = {}
                       /\ pc'[d] = "reconciling" => work'[d].left = {}
  BY <1>1 DEF ToldInv
<1> QED BY <1>1, <1>2, <1>7, <1>8, <1>9, <1>10 DEF ToldInv

LEMMA FetchKeepsTold ==
  ASSUME TypeInv, CountInv, ToldInv, NEW c \in Call, Fetch(c)
  PROVE  ToldInv'
<1>1. /\ pc[c] = "fetching" /\ UNCHANGED run /\ NoteOverlap(c) /\ Runs \subseteq Call
  BY IngestionAssumption DEF Fetch
<1>2. PICK mode, answered, fuels, malformed, unplaced :
        Hear(c, mode, answered, fuels, malformed, unplaced)
  BY Zenon DEF Fetch
<1> DEFINE fetched == Records(answered, fuels, unplaced, mode, clock + 1)
           records == {r \in fetched : r.ext \notin malformed}
           w == [NoWork EXCEPT !.told = records, !.left = records,
                               !.fetched = Cardinality(fetched),
                               !.errors = Cardinality(fetched \ records)]
<1>3. /\ work' = [work EXCEPT ![c] = w] /\ UNCHANGED <<provider, obs>>
      /\ pc' = [pc EXCEPT ![c] = IF records = {} THEN "reconciling" ELSE "reading"]
      /\ pc \in [Call -> Phase] /\ work \in [Call -> WorkType]
  BY <1>2 DEF Hear, tables, TypeInv, TypeOK
<1> HIDE DEF fetched, records
<1>4. w.told = records /\ w.left = records /\ w.latest = {}
  BY DEF NoWork
<1> HIDE DEF w
<1>5. /\ work'[c].told = records /\ work'[c].left = records /\ work'[c].latest = {}
      /\ pc'[c] \in {"reconciling", "reading"} /\ (pc'[c] = "reconciling" => records = {})
      /\ \A d \in Call \ {c} : pc'[d] = pc[d] /\ work'[d] = work[d]
  BY <1>3, <1>4
<1>6. overlapped \subseteq overlapped'
  BY <1>1 DEF NoteOverlap
<1>7. /\ Compares' = Compares
      /\ \A k, t : At(k)' = At(k) /\ LastKnown(k, t)' = LastKnown(k, t)
      /\ \A r, q : IsStored(r, q)' = IsStored(r, q)
  BY <1>3 DEF Compares, IsStored, FromUsers, LastKnown, Newest, At
<1>8. \A d \in Runs : run[d].status = "succeeded" => d # c
  BY <1>1 DEF CountInv, RunCounts, Recorded
<1>9. ASSUME NEW d \in Call \ overlapped', pc'[d] \in Storing, work'[d].errors = 0
      PROVE  AllStored(work[d].told \ work[d].left)'
  <2>1. CASE d = c
    BY <1>5, <2>1 DEF AllStored
  <2>2. CASE d # c
    <3>1. work'[d] = work[d] /\ AllStored(work[d].told \ work[d].left)
      BY <1>5, <1>6, <1>9, <2>2 DEF ToldInv
    <3> QED BY <1>7, <3>1 DEF AllStored
  <2> QED BY <2>1, <2>2
<1>10. ASSUME NEW d \in Runs \ overlapped', run'[d].status = "succeeded"
       PROVE  AllStored(work[d].told)'
  <2>1. d # c
    BY <1>1, <1>8, <1>10
  <2>2. work'[d] = work[d] /\ AllStored(work[d].told)
    BY <1>1, <1>5, <1>6, <1>10, <2>1 DEF ToldInv
  <2> QED BY <1>7, <2>2 DEF AllStored
<1>11. ASSUME NEW d \in Call \ overlapped', Compares  PROVE Known(d)'
  <2>1. CASE d = c
    BY <1>5, <2>1 DEF Known
  <2>2. CASE d # c
    <3>1. Known(d) /\ pc'[d] = pc[d] /\ work'[d] = work[d]
      BY <1>5, <1>6, <1>11, <2>2 DEF ToldInv
    <3> QED BY <1>7, <3>1 DEF Known
  <2> QED BY <2>1, <2>2
<1>12. \A d \in Call : /\ ~Compares => pc'[d] # "comparing" /\ work'[d].latest = {}
                       /\ pc'[d] = "reconciling" => work'[d].left = {}
  BY <1>5 DEF ToldInv
<1> QED BY <1>7, <1>9, <1>10, <1>11, <1>12 DEF ToldInv

LEMMA ToldIsKept ==
  ASSUME TypeInv, CountInv, ChangesInv, ToldInv, Next
  PROVE  ToldInv'
<1>0. /\ pc \in [Call -> Phase] /\ work \in [Call -> WorkType] /\ Runs \subseteq Call
      /\ run \in [Runs -> RunType]
  BY IngestionAssumption DEF TypeInv, TypeOK
<1> DEFINE Aside(c) ==
             \/ TryLock(c) \/ Search(c) \/ StartRun(c) \/ FinishRun(c) \/ FinishFailed(c)
             \/ Unlock(c) \/ Refreshed(c) \/ CatchRefresh(c) \/ Throw(c) \/ ThrowAgain(c)
             \/ LoseLock(c)
             \/ Deadlock(c) /\ UNCHANGED <<overlapped, run>>
<1>1. ASSUME NEW c \in Call, Aside(c)
      PROVE  ToldInv'
  <2>1. UNCHANGED <<provider, obs, overlapped>>
    BY <1>1 DEF TryLock, Search, StartRun, FinishRun, FinishFailed, Unlock, Refreshed,
                CatchRefresh, Throw, ThrowAgain, LoseLock, Deadlock, told, tables, calls
  <2>2. \A d \in Call \ {c} : pc'[d] = pc[d] /\ work'[d] = work[d]
    BY <1>0, <1>1 DEF TryLock, Search, StartRun, FinishRun, FinishFailed, Unlock, Refreshed,
                CatchRefresh, Throw, ThrowAgain, LoseLock, Deadlock, GoTo, Forget, calls
  <2>3. pc'[c] \notin Storing \/ UNCHANGED <<pc, work>>
    BY <1>0, <1>1 DEF TryLock, Search, StartRun, FinishRun, FinishFailed, Unlock, Refreshed,
                CatchRefresh, Throw, ThrowAgain, LoseLock, Deadlock, GoTo, Storing, Importing,
                calls
  <2>4. /\ work'[c].told \subseteq work[c].told
        /\ work[c].latest = {} => work'[c].latest = {}
    <3>1. \A heard : /\ [NoWork EXCEPT !.told = heard].told = heard
                     /\ [NoWork EXCEPT !.told = heard].latest = {}
      BY DEF NoWork
    <3>2. \/ work'[c] = work[c] \/ work'[c] = [NoWork EXCEPT !.told = {}]
          \/ work'[c] = [NoWork EXCEPT !.told = work[c].told]
      BY <1>0, <1>1 DEF TryLock, Search, StartRun, FinishRun, FinishFailed, Unlock, Refreshed,
                CatchRefresh, Throw, ThrowAgain, LoseLock, Deadlock, Forget, calls
    <3> QED BY <3>1, <3>2
  <2>5. ASSUME NEW d \in Runs, run'[d].status = "succeeded"
        PROVE  \/ run[d].status = "succeeded"
               \/ pc[d] = "reconciling" /\ work[d].errors = 0
    <3>1. CASE UNCHANGED run
      BY <2>5, <3>1
    <3>2. CASE StartRun(c)
      BY <1>0, <2>5, <3>2 DEF StartRun, RunType
    <3>3. CASE FinishFailed(c)
      <4>1. run' = [run EXCEPT ![c] = IF @.status = "none" THEN @
                                      ELSE [NoRun EXCEPT !.status = "failed"]]
        BY <3>3 DEF FinishFailed
      <4>2. [NoRun EXCEPT !.status = "failed"].status = "failed"
        BY DEF NoRun
      <4> QED BY <1>0, <2>5, <4>1, <4>2
    <3>4. CASE FinishRun(c)
      <4>1. CASE d = c
        <5>1. /\ pc[c] = "reconciling" /\ run'[c].status = ResolveStatus(work[c])
          BY <1>0, <3>4, <4>1 DEF FinishRun, Imported
        <5>2. work[c].errors \in Nat
          BY <1>0 DEF WorkType
        <5> QED BY <2>5, <4>1, <5>1, <5>2 DEF ResolveStatus
      <4>2. CASE d # c
        BY <1>0, <2>5, <3>4, <4>2 DEF FinishRun
      <4> QED BY <4>1, <4>2
    <3>5. UNCHANGED run \/ StartRun(c) \/ FinishFailed(c) \/ FinishRun(c)
      BY <1>1 DEF TryLock, Search, Unlock, Refreshed, CatchRefresh, Throw, ThrowAgain,
                  LoseLock, Deadlock
    <3> QED BY <3>1, <3>2, <3>3, <3>4, <3>5
  <2> QED BY <1>0, <2>1, <2>2, <2>3, <2>4, <2>5, ToldStays
<1> HIDE DEF Aside
<1>2. ASSUME NEW p \in Process, Crash(p)  PROVE ToldInv'
  <2> DEFINE dying == {c \in Call : Home[c] = p /\ pc[c] \notin Over \cup {"idle"}}
  <2>1. /\ UNCHANGED <<provider, obs, overlapped, run>>
        /\ pc' = [c \in Call |-> IF c \in dying THEN "dead" ELSE pc[c]]
        /\ work' = [c \in Call |-> IF c \in dying THEN NoWork ELSE work[c]]
    BY <1>2 DEF Crash, told, tables
  <2> HIDE DEF dying
  <2>2. \A d \in Call : pc'[d] \in Storing => pc'[d] = pc[d] /\ work'[d] = work[d]
    BY <2>1 DEF Storing, Importing
  <2>3. \A d \in Call : /\ work'[d].told \subseteq work[d].told
                        /\ work[d].latest = {} => work'[d].latest = {}
    BY <2>1 DEF NoWork
  <2> QED BY <1>0, <2>1, <2>2, <2>3, ToldStays
<1>3. ASSUME Expire  PROVE ToldInv'
  BY <1>0, <1>3, ToldStays DEF Expire, writerVars, told, tables, calls
<1>4. ASSUME NEW c \in Call, Import(c)  PROVE ToldInv'
  <2>1. UNCHANGED <<overlapped, run>> /\ ImportStations(c)
    BY <1>4 DEF Import
  <2>2. CASE Deadlock(c)
    BY <1>1, <2>1, <2>2 DEF Aside
  <2>3. CASE Commit(c)
    BY <2>1, <2>3, CommitKeepsTold
  <2> QED BY <2>1, <2>2, <2>3, BatchKeepsTold DEF ImportStations
<1>5. ASSUME NEW c \in Call,
             TryLock(c) \/ Search(c) \/ Step(c) \/ Throw(c) \/ ThrowAgain(c) \/ LoseLock(c)
      PROVE  ToldInv'
  <2>1. CASE Fetch(c)
    BY <2>1, FetchKeepsTold
  <2>2. CASE Import(c)
    BY <1>4, <2>2
  <2>3. CASE Aside(c)
    BY <1>1, <2>3
  <2>4. Fetch(c) \/ Import(c) \/ Aside(c)
    BY <1>5, Zenon DEF Step, Aside
  <2> QED BY <2>1, <2>2, <2>3, <2>4
<1> QED BY <1>2, <1>3, <1>5, WorldKeepsTold DEF Next

(* ToldIsStored, for any provider, stations, calls, batches, failures and  *)
(* deaths: what a run was told and says it has imported is stored, also    *)
(* when users report prices between its batches and later runs store more. *)
THEOREM SucceededRunsAreStored == Spec => []ToldIsStored
<1>1. Init => ToldInv
  <2> SUFFICES ASSUME Init  PROVE ToldInv
    OBVIOUS
  <2>1. /\ pc = [c \in Call |-> "idle"] /\ work = [c \in Call |-> NoWork]
        /\ run = [c \in Runs |-> NoRun]
    BY DEF Init, WriterInit
  <2> QED BY <2>1 DEF ToldInv, Known, Storing, Importing, NoWork, NoRun
<1>2. TypeInv /\ CountInv /\ ChangesInv /\ ToldInv /\ [Next]_vars => ToldInv'
  <2>1. TypeInv /\ ToldInv /\ UNCHANGED vars => ToldInv'
    BY ToldStays, IngestionAssumption DEF vars, writerVars, told, tables, calls
  <2> QED BY <2>1, ToldIsKept
<1>3. TypeInv /\ ToldInv => ToldIsStored
  <2> SUFFICES ASSUME TypeInv, ToldInv, NEW c \in Runs \ overlapped,
                      run[c].status = "succeeded",
                      NEW r \in work[c].told, NEW q \in r.quotes
               PROVE  LET k == <<r.ext, q.fuel>>
                      IN  \/ \E o \in FromUsers(k) : o.price = q.price
                          \/ \E o \in LastKnown(k, q.at) : o.price = q.price
    BY DEF ToldIsStored
  <2>1. IsStored(r, q)
    BY DEF ToldInv, AllStored
  <2>2. q.at \in Nat
    BY TimesAreNat, IngestionAssumption
  <2>3. \A k : \A o \in At(k) : o.at = q.at => o \in LastKnown(k, q.at)
    BY <2>2 DEF LastKnown, Newest
  <2> QED BY <2>1, <2>3 DEF IsStored
<1> QED BY <1>1, <1>2, <1>3, LockHolds, CountsHold, ChangesHold, PTL DEF Spec

=============================================================================
