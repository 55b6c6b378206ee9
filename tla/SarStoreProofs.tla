--------------------------- MODULE SarStoreProofs ---------------------------
(***************************************************************************)
(* Proofs about SarStore for every set of instances, fields, values and    *)
(* times and every bucket length: the rollup rows agree with the samples,  *)
(* window queries are exact, and the rows implement HostHistory.           *)
(***************************************************************************)
EXTENDS SarStore, FiniteSetsExt, FiniteSetTheorems, TLAPS

-----------------------------------------------------------------------------
(* Greatest elements of finite sets *)

\* A nonempty set of finite sets has a member that contains no other, by the strict
\* subset order.
LEMMA LeastSet ==
  ASSUME NEW S, IsFiniteSet(S), NEW T \in SUBSET SUBSET S, T # {}
  PROVE  \E s \in T : \A t \in SUBSET s : t \in T => t = s
<1>1. T \subseteq FiniteSubsetsOf(S)
  BY FS_FiniteSubsetsOfFinite
<1>2. PICK s \in T : \A t \in T : <<t, s>> \notin StrictSubsetOrdering(S)
  BY <1>1, FS_StrictSubsetOrderingWellFounded, WFMin
<1>3. ASSUME NEW t \in SUBSET s, t \in T PROVE t = s
  BY <1>2, <1>3 DEF StrictSubsetOrdering
<1> QED
  BY <1>3

Beyond(S, p) == {q \in S : p < q}

\* Of the sets of elements beyond an element one is least ...
LEMMA LeastBeyond ==
  ASSUME NEW S, IsFiniteSet(S), S # {}
  PROVE  \E m \in S : \A x \in S : Beyond(S, x) \subseteq Beyond(S, m) => Beyond(S, x) = Beyond(S, m)
<1>1. PICK T : T = {Beyond(S, p) : p \in S}
  OBVIOUS
<1>2. T \in SUBSET SUBSET S /\ T # {}
  BY <1>1 DEF Beyond
<1>3. PICK s \in T : \A t \in SUBSET s : t \in T => t = s
  BY <1>2, LeastSet
<1>4. PICK m \in S : s = Beyond(S, m)
  BY <1>1
<1> QED
  BY <1>1, <1>3, <1>4

\* ... and it is empty.
LEMMA MaxExists ==
  ASSUME NEW S, S \subseteq Int, IsFiniteSet(S), S # {}
  PROVE  Max(S) \in S /\ \A x \in S : x <= Max(S)
<1>1. PICK m \in S : \A x \in S : Beyond(S, x) \subseteq Beyond(S, m) => Beyond(S, x) = Beyond(S, m)
  BY LeastBeyond
<1>2. ASSUME NEW x \in S, m < x PROVE FALSE
  <2>1. \A v \in S : x < v => m < v
    BY <1>2
  <2>2. Beyond(S, x) \subseteq Beyond(S, m)
    BY <2>1, Zenon DEF Beyond
  <2>3. ~(x < x)
    OBVIOUS
  <2>4. x \in Beyond(S, m) /\ x \notin Beyond(S, x)
    BY <1>2, <2>3, Zenon DEF Beyond
  <2> QED
    BY <1>1, <2>2, <2>4, Zenon
<1>3. \E y \in S : \A x \in S : y >= x
  BY <1>2
<1> QED
  BY <1>3 DEF Max

\* The inductive invariant: the host table is a function of the samples.
SamplesType == samples \in [Instances -> Series]
Derived     == host = [i \in Instances |-> [b \in Grid |-> Rollup(samples[i], b)]]
IInv        == SamplesType /\ Derived

-----------------------------------------------------------------------------
(* The grid *)

LEMMA TimesType == Times \subseteq Nat
  BY BucketAssumption DEF Times

LEMMA FloorBounds ==
  ASSUME NEW t \in Nat
  PROVE  t \div Bucket \in Nat /\ Floor(t) \in Nat /\ Floor(t) <= t /\ t < Floor(t) + Bucket
  BY BucketAssumption DEF Floor

LEMMA Multiples ==
  ASSUME NEW a \in Nat, NEW b \in Nat
  PROVE  (a < b => a * Bucket + Bucket <= b * Bucket) /\ (b <= a => b * Bucket <= a * Bucket)
  BY BucketAssumption

LEMMA FloorMonotone ==
  ASSUME NEW t \in Nat, NEW u \in Nat, t <= u
  PROVE  Floor(t) <= Floor(u)
<1>1. PICK q \in Nat : q = t \div Bucket
  BY FloorBounds
<1>2. PICK r \in Nat : r = u \div Bucket
  BY FloorBounds
<1>3. q * Bucket <= t /\ u < r * Bucket + Bucket
  BY <1>1, <1>2, FloorBounds DEF Floor
<1>4. q * Bucket \in Nat /\ r * Bucket \in Nat /\ (r < q => r * Bucket + Bucket <= q * Bucket)
      /\ (q <= r => q * Bucket <= r * Bucket)
  BY BucketAssumption, Multiples
<1>5. q * Bucket <= r * Bucket
  BY <1>3, <1>4, BucketAssumption
<1> QED
  BY <1>1, <1>2, <1>5 DEF Floor

\* The rows and the samples prune_before deletes belong to the same buckets.
LEMMA PruneAligned ==
  ASSUME NEW t \in Nat, NEW before \in Nat
  PROVE  t < Ceil(before) <=> Floor(t) < before
<1>1. PICK q \in Nat : q = t \div Bucket
  BY FloorBounds
<1>2. before + Bucket - 1 \in Nat
  BY BucketAssumption
<1>3. PICK r \in Nat : r = (before + Bucket - 1) \div Bucket
  BY <1>2, FloorBounds
<1>4. q * Bucket <= t /\ t < q * Bucket + Bucket
  BY <1>1, FloorBounds DEF Floor
<1>5. r * Bucket <= before + Bucket - 1 /\ before + Bucket - 1 < r * Bucket + Bucket
  BY <1>2, <1>3, FloorBounds DEF Floor
<1>6. /\ q * Bucket \in Nat /\ r * Bucket \in Nat
      /\ q < r => q * Bucket + Bucket <= r * Bucket
      /\ r <= q => r * Bucket <= q * Bucket
  BY BucketAssumption, Multiples
<1>7. t < r * Bucket <=> q * Bucket < before
  BY <1>4, <1>5, <1>6, BucketAssumption
<1> QED
  BY <1>1, <1>3, <1>7 DEF Floor, Ceil

-----------------------------------------------------------------------------
(* Merging and rolling up *)

LEMMA MergedType ==
  ASSUME NEW old \in Sample \cup {NoSample}, NEW incoming \in Sample
  PROVE  Merged(old, incoming) \in Sample
  BY DEF Merged, Sample

LEMMA OverlayType ==
  ASSUME NEW series \in Series, NEW report \in Series
  PROVE  /\ Overlay(series, report) \in Series
         /\ \A t \in Times :
              Overlay(series, report)[t] = NoSample => series[t] = NoSample /\ report[t] = NoSample
<1>1. NoSample \notin Sample
  BY AbsenceAssumption DEF Sample
<1>2. ASSUME NEW t \in Times
      PROVE  Overlay(series, report)[t] = IF report[t] = NoSample THEN series[t] ELSE Merged(series[t], report[t])
  BY DEF Overlay
<1>3. ASSUME NEW t \in Times, report[t] # NoSample PROVE Merged(series[t], report[t]) \in Sample
  BY <1>3, MergedType DEF Series
<1>4. Overlay(series, report) \in Series
  BY <1>3 DEF Overlay, Series
<1> QED
  BY <1>1, <1>2, <1>3, <1>4

LEMMA EmptyType == Empty \in Series /\ \A b \in Grid : Rollup(Empty, b) = NoRow
  BY DEF Empty, Series, Rollup, InBucket

LEMMA RollupIsNoRow ==
  ASSUME NEW series \in Series, NEW b \in Grid
  PROVE  Rollup(series, b) = NoRow <=> \A t \in InBucket(b) : series[t] = NoSample
<1>1. [t \in InBucket(b) |-> series[t]] \in Rows(b)
  BY DEF Rows, Series, InBucket
<1> QED
  BY <1>1, RowAssumption DEF Rollup

\* Recomputing the affected buckets is enough: rows that agreed with the old
\* samples agree with the merged ones.
LEMMA RecomputedAgrees ==
  ASSUME NEW old \in Series, NEW merged \in Series, NEW rows,
         \A t \in Times : merged[t] = NoSample => old[t] = NoSample,
         \A b \in Grid : b \notin Affected(old, merged) => rows[b] = Rollup(merged, b)
  PROVE  Recomputed(rows, merged, Affected(old, merged)) = [b \in Grid |-> Rollup(merged, b)]
<1>1. ASSUME NEW b \in Grid, b \in Affected(old, merged)
      PROVE  Rollup(merged, b) # NoRow
  <2>1. PICK t \in Times : merged[t] # old[t] /\ Floor(t) = b
    BY <1>1 DEF Affected
  <2>2. merged[t] # NoSample /\ t \in InBucket(b)
    BY <2>1 DEF InBucket
  <2> QED
    BY <2>2, RollupIsNoRow
<1> QED
  BY <1>1 DEF Recomputed

\* A bucket whose samples are the same has the same rollup.
LEMMA UnaffectedRollup ==
  ASSUME NEW old \in Series, NEW merged \in Series, NEW b \in Grid, b \notin Affected(old, merged)
  PROVE  /\ \A t \in InBucket(b) : merged[t] = old[t]
         /\ Rollup(merged, b) = Rollup(old, b)
<1>1. \A t \in InBucket(b) : merged[t] = old[t]
  BY DEF Affected, InBucket
<1> QED
  BY <1>1 DEF Rollup

-----------------------------------------------------------------------------
(* The invariant *)

LEMMA InitDerived == Init => IInv
<1> SUFFICES ASSUME Init PROVE IInv
  OBVIOUS
<1>1. SamplesType
  BY EmptyType DEF Init, SamplesType
<1>2. \A i \in Instances : samples[i] = Empty
  BY DEF Init
<1>3. Derived
  BY <1>2, EmptyType DEF Init, Derived, NoRows
<1> QED
  BY <1>1, <1>3 DEF IInv

LEMMA RecordDerived ==
  ASSUME IInv, NEW i \in Instances, NEW report \in Series, RecordSar(i, report)
  PROVE  IInv' /\ samples' = [samples EXCEPT ![i] = Overlay(@, report)]
<1> DEFINE merged == Overlay(samples[i], report)
<1>1. /\ samples' = [samples EXCEPT ![i] = merged]
      /\ host' = [host EXCEPT ![i] = Recomputed(host[i], merged, Affected(samples[i], merged))]
  BY DEF RecordSar
<1>2. samples[i] \in Series /\ \A j \in Instances : samples[j] \in Series
  BY DEF IInv, SamplesType
<1>3. merged \in Series /\ \A t \in Times : merged[t] = NoSample => samples[i][t] = NoSample
  BY <1>2, OverlayType
<1> HIDE DEF merged
<1>4. SamplesType'
  BY <1>1, <1>2, <1>3 DEF IInv, SamplesType
<1>5. host[i] = [b \in Grid |-> Rollup(samples[i], b)]
  BY DEF IInv, Derived
<1>6. Recomputed(host[i], merged, Affected(samples[i], merged)) = [b \in Grid |-> Rollup(merged, b)]
  <2>1. \A b \in Grid : b \notin Affected(samples[i], merged) => host[i][b] = Rollup(merged, b)
    BY <1>2, <1>3, <1>5, UnaffectedRollup
  <2> QED
    BY <1>2, <1>3, <2>1, RecomputedAgrees
<1>7. Derived'
  BY <1>1, <1>6 DEF IInv, SamplesType, Derived
<1> QED
  BY <1>1, <1>4, <1>7 DEF IInv, merged

LEMMA MigrateDerived ==
  ASSUME IInv, NEW old \in Instances, NEW new \in Instances, Migrate(old, new)
  PROVE  IInv' /\ samples' = [samples EXCEPT ![new] = Overlay(@, samples[old]), ![old] = Empty]
<1> DEFINE merged == Overlay(samples[new], samples[old])
           moved  == [b \in Grid |-> IF host[new][b] # NoRow THEN host[new][b] ELSE host[old][b]]
<1>1. /\ old # new
      /\ samples' = [samples EXCEPT ![new] = merged, ![old] = Empty]
      /\ host' = [host EXCEPT ![new] = Recomputed(moved, merged, Affected(samples[new], merged)),
                              ![old] = NoRows]
  BY DEF Migrate
<1>2. \A j \in Instances : samples[j] \in Series
  BY DEF IInv, SamplesType
<1>3. /\ merged \in Series
      /\ \A t \in Times : merged[t] = NoSample => samples[new][t] = NoSample /\ samples[old][t] = NoSample
  BY <1>2, OverlayType
<1> HIDE DEF merged
<1>4. SamplesType'
  BY <1>1, <1>2, <1>3, EmptyType DEF IInv, SamplesType
<1>5. \A j \in Instances : \A b \in Grid : host[j][b] = Rollup(samples[j], b)
  BY DEF IInv, Derived
<1>6. ASSUME NEW b \in Grid, b \notin Affected(samples[new], merged)
      PROVE  moved[b] = Rollup(merged, b)
  <2>1. /\ \A t \in InBucket(b) : merged[t] = samples[new][t]
        /\ Rollup(merged, b) = Rollup(samples[new], b)
    BY <1>2, <1>3, <1>6, UnaffectedRollup
  <2>2. CASE Rollup(samples[new], b) # NoRow
    BY <1>5, <2>1, <2>2
  <2>3. CASE Rollup(samples[new], b) = NoRow
    <3>1. \A t \in InBucket(b) : samples[new][t] = NoSample
      BY <1>2, <2>3, RollupIsNoRow
    <3>2. \A t \in InBucket(b) : samples[old][t] = NoSample
      BY <1>3, <2>1, <3>1 DEF InBucket
    <3>3. Rollup(samples[old], b) = NoRow
      BY <1>2, <3>2, RollupIsNoRow
    <3> QED
      BY <1>5, <2>1, <2>3, <3>3
  <2> QED
    BY <2>2, <2>3
<1> HIDE DEF moved
<1>7. Recomputed(moved, merged, Affected(samples[new], merged)) = [b \in Grid |-> Rollup(merged, b)]
  BY <1>2, <1>3, <1>6, RecomputedAgrees
<1>8. NoRows = [b \in Grid |-> Rollup(Empty, b)]
  BY EmptyType DEF NoRows
<1>9. Derived'
  BY <1>1, <1>7, <1>8 DEF IInv, SamplesType, Derived
<1> QED
  BY <1>1, <1>4, <1>9 DEF IInv, merged

LEMMA PruneDerived ==
  ASSUME IInv, NEW before \in Times, PruneBefore(before)
  PROVE  /\ IInv'
         /\ samples' = [i \in Instances |->
              [t \in Times |-> IF Floor(t) < before THEN NoSample ELSE samples[i][t]]]
<1>1. \A t \in Times : t < Ceil(before) <=> Floor(t) < before
  BY TimesType, PruneAligned
<1>2. samples' = [i \in Instances |->
        [t \in Times |-> IF Floor(t) < before THEN NoSample ELSE samples[i][t]]]
  BY <1>1 DEF PruneBefore
<1>3. \A i \in Instances : samples[i] \in Series
  BY DEF IInv, SamplesType
<1>4. SamplesType'
  BY <1>2, <1>3 DEF SamplesType, Series
<1>5. ASSUME NEW i \in Instances, NEW b \in Grid
      PROVE  Rollup(samples'[i], b) = IF b < before THEN NoRow ELSE Rollup(samples[i], b)
  <2>1. CASE b < before
    <3>1. \A t \in InBucket(b) : samples'[i][t] = NoSample
      BY <1>2, <2>1 DEF InBucket
    <3> QED
      BY <2>1, <3>1 DEF Rollup
  <2>2. CASE ~(b < before)
    <3>1. \A t \in InBucket(b) : samples'[i][t] = samples[i][t]
      BY <1>2, <2>2 DEF InBucket
    <3> QED
      BY <2>2, <3>1 DEF Rollup
  <2> QED
    BY <2>1, <2>2
<1>6. host' = [i \in Instances |-> [b \in Grid |-> IF b < before THEN NoRow ELSE Rollup(samples[i], b)]]
  BY DEF PruneBefore, IInv, Derived
<1>7. Derived'
  BY <1>5, <1>6 DEF Derived
<1> QED
  BY <1>2, <1>4, <1>7 DEF IInv

LEMMA DeleteDerived ==
  ASSUME IInv, NEW i \in Instances, DeleteInstance(i)
  PROVE  IInv' /\ samples' = [samples EXCEPT ![i] = Empty]
<1>1. samples' = [samples EXCEPT ![i] = Empty] /\ host' = [host EXCEPT ![i] = NoRows]
  BY DEF DeleteInstance
<1>2. NoRows = [b \in Grid |-> Rollup(Empty, b)]
  BY EmptyType DEF NoRows
<1>3. SamplesType' /\ Derived'
  BY <1>1, <1>2, EmptyType DEF IInv, SamplesType, Derived
<1> QED
  BY <1>1, <1>3 DEF IInv

LEMMA NextDerived == IInv /\ [Next]_vars => IInv'
<1> SUFFICES ASSUME IInv, [Next]_vars PROVE IInv'
  OBVIOUS
<1>1. CASE Next
  BY <1>1, ReportAssumption, RecordDerived, MigrateDerived, PruneDerived, DeleteDerived DEF Next
<1>2. CASE UNCHANGED vars
  BY <1>2 DEF vars, IInv, SamplesType, Derived
<1> QED
  BY <1>1, <1>2

LEMMA NewestType ==
  ASSUME NEW report \in Series, Present(report) # {}
  PROVE  MaxOf(Present(report)) \in Times
<1>1. Present(report) \subseteq Times /\ IsFiniteSet(Times)
  BY BucketAssumption, FS_Interval DEF Present, Times
<1>2. IsFiniteSet(Present(report)) /\ Present(report) \subseteq Int
  <2>1. IsFiniteSet(Present(report))
    BY <1>1, FS_Subset
  <2>2. Present(report) \subseteq Nat
    BY <1>1, TimesType, Zenon
  <2> QED
    BY <2>1, <2>2
<1>3. \E t \in Present(report) : \A u \in Present(report) : u <= t
  BY <1>2, MaxExists
<1> QED
  BY <1>1, <1>3 DEF MaxOf

\* The watermark is a time at which some report had a sample, or -1.
WatermarkType == last_ts \in [Instances -> Times \cup {-1}]

LEMMA NextWatermark == WatermarkType /\ [Next]_vars => WatermarkType'
<1> SUFFICES ASSUME WatermarkType, [Next]_vars PROVE WatermarkType'
  OBVIOUS
<1>1. ASSUME NEW i \in Instances, NEW report \in Reports, RecordSar(i, report)
      PROVE  WatermarkType'
  <2>1. MaxOf(Present(report)) \in Times
    BY <1>1, ReportAssumption, NewestType DEF RecordSar
  <2> QED
    BY <1>1, <2>1 DEF RecordSar, WatermarkType
<1>2. ASSUME NEW old \in Instances, NEW new \in Instances, Migrate(old, new)
      PROVE  WatermarkType'
  BY <1>2 DEF Migrate, WatermarkType
<1>3. ASSUME NEW before \in Times, PruneBefore(before)
      PROVE  WatermarkType'
  BY <1>3 DEF PruneBefore, WatermarkType
<1>4. ASSUME NEW i \in Instances, DeleteInstance(i)
      PROVE  WatermarkType'
  BY <1>4 DEF DeleteInstance, WatermarkType
<1>5. CASE UNCHANGED vars
  BY <1>5 DEF vars, WatermarkType
<1> QED
  BY <1>1, <1>2, <1>3, <1>4, <1>5 DEF Next

LEMMA DerivedIsTyped == IInv /\ WatermarkType => TypeOK
<1> SUFFICES ASSUME IInv, WatermarkType PROVE TypeOK
  OBVIOUS
<1>1. ASSUME NEW i \in Instances, NEW b \in Grid
      PROVE  Rollup(samples[i], b) \in Rows(b) \cup {NoRow}
  <2>1. [t \in InBucket(b) |-> samples[i][t]] \in Rows(b)
    BY DEF IInv, SamplesType, Series, Rows, InBucket
  <2> QED
    BY <2>1 DEF Rollup
<1> QED
  BY <1>1 DEF IInv, SamplesType, Derived, WatermarkType, TypeOK

\* The tables stay of their types, and the watermark is a time or -1: the newest
\* time of a report exists (TypeOK, for all constants).
THEOREM StoreTypeCorrect == Spec => []TypeOK
<1>1. Init => WatermarkType
  BY DEF Init, WatermarkType
<1> QED
  BY <1>1, InitDerived, NextDerived, NextWatermark, DerivedIsTyped, PTL DEF Spec

\* Rollup rows and samples never part (RollupsAgree, for all constants).
THEOREM RollupsAlwaysAgree == Spec => []RollupsAgree
<1>1. IInv => RollupsAgree
  BY DEF IInv, Derived, RollupsAgree
<1> QED
  BY <1>1, InitDerived, NextDerived, PTL DEF Spec

-----------------------------------------------------------------------------
(* Window queries *)

LEMMA DerivedIsExact == IInv => WindowExact
<1> SUFFICES ASSUME IInv, NEW i \in Instances, NEW since \in Times, NEW until \in Times,
                    since <= until
             PROVE  Window(i, since, until) = {t \in Present(samples[i]) : since <= t /\ t <= until}
  BY DEF WindowExact
<1>1. samples[i] \in Series /\ \A b \in Grid : host[i][b] = Rollup(samples[i], b)
  BY DEF IInv, SamplesType, Derived
<1>2. ASSUME NEW b \in Grid, host[i][b] # NoRow
      PROVE  Observed(host[i][b]) = {t \in InBucket(b) : samples[i][t] # NoSample}
  BY <1>1, <1>2 DEF Rollup, Observed
<1>3. ASSUME NEW b \in Grid, host[i][b] # NoRow
      PROVE  Bounded(i, b, since, until)
               = {t \in InBucket(b) : samples[i][t] # NoSample /\ since <= t /\ t <= until}
  BY <1>2, <1>3 DEF Bounded
<1>4. ASSUME NEW t \in Present(samples[i]), since <= t, t <= until
      PROVE  t \in Window(i, since, until)
  <2>1. t \in Times /\ samples[i][t] # NoSample /\ Floor(t) \in Grid /\ t \in InBucket(Floor(t))
    BY DEF Present, Grid, InBucket
  <2>2. host[i][Floor(t)] # NoRow
    BY <1>1, <2>1, RollupIsNoRow
  <2>3. Floor(since) <= Floor(t) /\ Floor(t) <= until
    <3>1. t \in Nat /\ since \in Nat /\ until \in Nat
      BY <2>1, TimesType
    <3>2. Floor(since) <= Floor(t)
      BY <1>4, <3>1, FloorMonotone
    <3>3. Floor(t) <= t /\ Floor(t) \in Nat
      BY <3>1, FloorBounds
    <3> QED
      BY <1>4, <3>1, <3>2, <3>3
  <2>4. Floor(t) \in WindowBuckets(i, since, until)
    BY <2>1, <2>2, <2>3 DEF WindowBuckets
  <2>5. t \in Bounded(i, Floor(t), since, until)
    BY <1>3, <1>4, <2>1, <2>2
  <2> QED
    BY <2>4, <2>5 DEF Window
<1>5. ASSUME NEW t \in Window(i, since, until)
      PROVE  t \in Present(samples[i]) /\ since <= t /\ t <= until
  <2>1. PICK b \in WindowBuckets(i, since, until) : t \in Bounded(i, b, since, until)
    BY <1>5 DEF Window
  <2> QED
    BY <1>3, <2>1 DEF WindowBuckets, Present, InBucket
<1> QED
  BY <1>4, <1>5

\* A query for since .. until returns rows built from exactly the samples of
\* that window (WindowExact, for all constants).
THEOREM WindowsAlwaysExact == Spec => []WindowExact
  BY InitDerived, NextDerived, DerivedIsExact, PTL DEF Spec

-----------------------------------------------------------------------------
(* Refinement of HostHistory *)

\* What the rows show is what the samples say.
Faithful == ShownObs = samples

LEMMA ShownIsStored == IInv => Faithful
<1> SUFFICES ASSUME IInv PROVE ShownObs = samples
  BY DEF Faithful
<1>1. ASSUME NEW i \in Instances, NEW t \in Times
      PROVE  ShownObs[i][t] = samples[i][t]
  <2>1. samples[i] \in Series /\ Floor(t) \in Grid /\ t \in InBucket(Floor(t))
    BY DEF IInv, SamplesType, Grid, InBucket
  <2>2. host[i][Floor(t)] = Rollup(samples[i], Floor(t))
    BY <2>1 DEF IInv, Derived
  <2>3. CASE Rollup(samples[i], Floor(t)) = NoRow
    <3>1. samples[i][t] = NoSample
      BY <2>1, <2>3, RollupIsNoRow
    <3> QED
      BY <2>2, <2>3, <3>1 DEF ShownObs
  <2>4. CASE Rollup(samples[i], Floor(t)) # NoRow
    <3>1. Rollup(samples[i], Floor(t)) = [u \in InBucket(Floor(t)) |-> samples[i][u]]
      BY <2>4 DEF Rollup
    <3> QED
      BY <2>1, <2>2, <2>4, <3>1 DEF ShownObs
  <2> QED
    BY <2>3, <2>4
<1>2. ASSUME NEW i \in Instances PROVE ShownObs[i] = samples[i]
  <2>1. samples[i] = [t \in Times |-> samples[i][t]]
    BY DEF IInv, SamplesType, Series
  <2>2. ShownObs[i] = [t \in Times |-> ShownObs[i][t]]
    BY DEF ShownObs
  <2> QED
    BY <1>1, <2>1, <2>2
<1>3. samples = [i \in Instances |-> samples[i]]
  BY DEF IInv, SamplesType
<1>4. ShownObs = [i \in Instances |-> ShownObs[i]]
  BY DEF ShownObs
<1> QED
  BY <1>2, <1>3, <1>4

\* The history speaks of the same times, overlays and grid as the store.
LEMMA SameVocabulary ==
  /\ History!Times = Times
  /\ History!Empty = Empty
  /\ \A series, report \in Series : History!Overlay(series, report) = Overlay(series, report)
  /\ \A t \in Times : History!Floor(t) = Floor(t)
<1>1. History!Times = Times
  BY DEF History!Times, Times
<1>2. History!Empty = Empty
  BY <1>1 DEF History!Empty, Empty
<1>3. ASSUME NEW old, NEW incoming PROVE History!Merged(old, incoming) = Merged(old, incoming)
  BY DEF History!Merged, Merged
<1>4. ASSUME NEW series \in Series, NEW report \in Series
      PROVE  History!Overlay(series, report) = Overlay(series, report)
  BY <1>1, <1>3 DEF History!Overlay, Overlay
<1>5. ASSUME NEW t \in Times PROVE History!Floor(t) = Floor(t)
  BY DEF History!Floor, Floor
<1> QED
  BY <1>1, <1>2, <1>4, <1>5

\* The steps of the history, as what they do to the observations.
LEMMA HistorySteps ==
  ASSUME ShownObs = samples, ShownObs' = samples', SamplesType
  PROVE  /\ \A i \in Instances, report \in Reports :
              samples' = [samples EXCEPT ![i] = Overlay(@, report)] => History!Next
         /\ \A old, new \in Instances :
              /\ old # new
              /\ samples' = [samples EXCEPT ![new] = Overlay(@, samples[old]), ![old] = Empty]
              => History!Next
         /\ \A before \in Times :
              samples' = [i \in Instances |->
                [t \in Times |-> IF Floor(t) < before THEN NoSample ELSE samples[i][t]]]
              => History!Next
         /\ \A i \in Instances : samples' = [samples EXCEPT ![i] = Empty] => History!Next
<1>1. \A i \in Instances : samples[i] \in Series
  BY DEF SamplesType
<1>2. ASSUME NEW i \in Instances, NEW report \in Reports,
             samples' = [samples EXCEPT ![i] = Overlay(@, report)]
      PROVE  History!Report(i, report)
  <2>1. History!Overlay(samples[i], report) = Overlay(samples[i], report)
    BY <1>1, ReportAssumption, SameVocabulary
  <2> QED
    BY <1>2, <2>1 DEF History!Report
<1>3. ASSUME NEW old \in Instances, NEW new \in Instances, old # new,
             samples' = [samples EXCEPT ![new] = Overlay(@, samples[old]), ![old] = Empty]
      PROVE  History!Rename(old, new)
  <2>1. History!Overlay(samples[new], samples[old]) = Overlay(samples[new], samples[old])
    BY <1>1, SameVocabulary
  <2> QED
    BY <1>3, <2>1, SameVocabulary DEF History!Rename
<1>4. ASSUME NEW before \in Times,
             samples' = [i \in Instances |->
               [t \in Times |-> IF Floor(t) < before THEN NoSample ELSE samples[i][t]]]
      PROVE  History!Expire(before)
  BY <1>4, SameVocabulary DEF History!Expire
<1>5. ASSUME NEW i \in Instances, samples' = [samples EXCEPT ![i] = Empty]
      PROVE  History!Forget(i)
  BY <1>5, SameVocabulary DEF History!Forget
<1> QED
  BY <1>2, <1>3, <1>4, <1>5, SameVocabulary DEF History!Next

\* The rollup rows implement HostHistory: every step of the store is a step of
\* the history its readers are promised, or changes nothing they see.
THEOREM StoreShowsHistory == Spec => ShowsHistory
<1>1. Init => History!Init
  <2> SUFFICES ASSUME Init PROVE History!Init
    OBVIOUS
  <2>1. ShownObs = samples
    BY InitDerived, ShownIsStored DEF Faithful
  <2> QED
    BY <2>1, SameVocabulary DEF Init, History!Init
<1>2. IInv' => Faithful'
  BY ShownIsStored, PTL
<1>3. IInv /\ IInv' /\ [Next]_vars => [History!Next]_ShownObs
  <2> SUFFICES ASSUME IInv, IInv', [Next]_vars PROVE [History!Next]_ShownObs
    OBVIOUS
  <2>1. ShownObs = samples /\ ShownObs' = samples' /\ SamplesType
    BY <1>2, ShownIsStored DEF IInv, Faithful
  <2>2. ASSUME NEW i \in Instances, NEW report \in Reports, RecordSar(i, report)
        PROVE  History!Next
    BY <2>1, <2>2, ReportAssumption, RecordDerived, HistorySteps
  <2>3. ASSUME NEW old \in Instances, NEW new \in Instances, Migrate(old, new)
        PROVE  History!Next
    <3>1. old # new
      BY <2>3 DEF Migrate
    <3> QED
      BY <2>1, <2>3, <3>1, MigrateDerived, HistorySteps
  <2>4. ASSUME NEW before \in Times, PruneBefore(before)
        PROVE  History!Next
    BY <2>1, <2>4, PruneDerived, HistorySteps
  <2>5. ASSUME NEW i \in Instances, DeleteInstance(i)
        PROVE  History!Next
    BY <2>1, <2>5, DeleteDerived, HistorySteps
  <2>6. CASE UNCHANGED vars
    BY <2>1, <2>6 DEF vars
  <2> QED
    BY <2>2, <2>3, <2>4, <2>5, <2>6 DEF Next
<1> QED
  BY <1>1, <1>3, InitDerived, NextDerived, PTL DEF Spec, ShowsHistory, History!Spec

=============================================================================
