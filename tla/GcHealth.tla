------------------------------ MODULE GcHealth ------------------------------
(***************************************************************************)
(* How GC evidence is judged: analyzer.analyze over a batch of pauses, the *)
(* metrics row it becomes, and what store.py reads from rows: aggregates   *)
(* over a window, health score, source quality and last-hour alerts.       *)
(*                                                                         *)
(* A batch is what one pass parsed: its stop-the-world pauses, the seconds *)
(* its events span, their number, whether a record was malformed or        *)
(* unsupported.  Pauses are in ms, percentages, rates and scores in tenths *)
(* (the code rounds them to one to three digits).                          *)
(***************************************************************************)
EXTENDS Integers, FiniteSets, FiniteSetsExt, Functions, Sequences

CONSTANTS
  None,     \* a value that was not observed
  Recent,   \* GC_ALERT_WINDOW_S, the last hour
  MaxAge,   \* GC_SOURCE_MAX_AGE_S, two hours
  Gap,      \* the two hours a baseline leaves out
  Day,      \* the window of health metrics
  Month     \* the window of a baseline

ASSUME WindowAssumption ==
  /\ {Recent, MaxAge, Gap, Day, Month} \subseteq Nat
  /\ Recent <= MaxAge /\ MaxAge <= Day /\ Gap <= Month
  /\ None \notin Int

TargetThroughput == 990
MaxHealthyPause  == 200
WarnPause        == 500
HighHeapUse      == 800
MinRateSpan      == 60
StormTimeInGc    == 50
StormMult        == 3
FreqAlert        == 200
FreqMult         == 2
HeapAlert(role)  == CASE role = "zookeeper" -> 900
                      [] role \in {"connect", "schema-registry"} -> 880
                      [] OTHER -> 850

Least(a, b) == Min({a, b})
Most(a, b)  == Max({a, b})

\* The value of rank k among those of a function, the least having rank 1.
Ranked(f, k) ==
  Min({v \in Range(f) : Cardinality({x \in DOMAIN f : f[x] <= v}) >= k})

\* _pct(values, 99): linear interpolation between the two nearest ranks.
P99(s) ==
  LET k == (Len(s) - 1) * 99
      low == Ranked(s, k \div 100 + 1)
      high == Ranked(s, Least(k \div 100 + 2, Len(s)))
  IN low + ((high - low) * (k % 100)) \div 100

Median(f) ==
  LET n == Cardinality(DOMAIN f)
  IN IF n % 2 = 1 THEN Ranked(f, (n + 1) \div 2)
     ELSE (Ranked(f, n \div 2) + Ranked(f, n \div 2 + 1)) \div 2

-----------------------------------------------------------------------------
(* analyzer.analyze *)

GcPause == [ms : Nat, full : BOOLEAN, after : Nat \cup {None}]
GcBatch == [stw : Seq(GcPause), span : Nat, events : Nat, bad : BOOLEAN, heapMax : Nat]

\* Rates need a minute of events, two of them, and no skipped record.
RatesAvailable(b) == b.span >= MinRateSpan /\ b.events >= 2 /\ ~b.bad

\* Heap occupancy after the pauses that show it.
After(b) == [k \in {n \in DOMAIN b.stw : b.stw[n].after # None} |-> b.stw[k].after]

HeapObserved(b) == DOMAIN After(b) # {} /\ b.heapMax > 0

\* Metrics of a batch with at least one pause.  Heap percentages of a batch
\* whose records show no heap are zero, not None.
Analyze(b) ==
  LET ms == [k \in DOMAIN b.stw |-> b.stw[k].ms]
      total == SumFunction(ms)
      full == Cardinality({k \in DOMAIN b.stw : b.stw[k].full})
      rate(x) == IF RatesAvailable(b) THEN x ELSE None
      heap(x) == IF HeapObserved(b) THEN (1000 * x) \div b.heapMax ELSE 0
  IN [thr  |-> rate(Most(0, 1000 - total \div b.span)),
      tig  |-> rate(total \div b.span),
      freq |-> rate((600 * Len(ms)) \div b.span),
      avg  |-> total \div Len(ms),
      max  |-> Max(Range(ms)),
      p99  |-> P99(ms),
      full |-> full,
      young |-> Len(ms) - full,
      heap |-> heap(SumFunction(After(b)) \div Most(1, Cardinality(DOMAIN After(b)))),
      peak |-> heap(Max({0} \cup Range(After(b)))),
      heapObserved |-> HeapObserved(b)]

\* metrics_to_row and record_metric: the columns that are kept.  The peak and
\* heapObserved are not among them.
Columns == {"thr", "tig", "freq", "avg", "max", "p99", "full", "young", "heap"}

\* Mutant: a Full GC is stored as an ordinary pause.
RowWithoutFull(m) == [c \in Columns |-> IF c = "full" THEN 0 ELSE m[c]]

RowOf(m) == [c \in Columns |-> m[c]]

Grade(score) ==
  IF score >= 900 THEN "A" ELSE IF score >= 750 THEN "B" ELSE IF score >= 600 THEN "C"
  ELSE IF score >= 400 THEN "D" ELSE "F"

UnknownHealth == [grade |-> "?", score |-> None]

ThroughputPenalty(m) == Least(350, Most(0, TargetThroughput - m.thr) * 7)
PausePenalty(m) == IF m.max > WarnPause THEN 200 ELSE IF m.p99 > MaxHealthyPause THEN 100 ELSE 0
FullPenalty(m) == IF m.full > 0 THEN Least(250, 80 + m.full * 30) ELSE 0
HeapPenalty(m) == IF m.peak > HighHeapUse THEN 120 ELSE IF m.heap > HighHeapUse THEN 60 ELSE 0

\* _health_score: no grade without rates, pauses and heap.
HealthScore(m) ==
  IF m.thr = None \/ ~m.heapObserved \/ \E c \in {"max", "p99", "full", "peak", "heap"} : m[c] = None
    THEN UnknownHealth
    ELSE LET score == Most(0, 1000 - ThroughputPenalty(m) - PausePenalty(m)
                                   - FullPenalty(m) - HeapPenalty(m))
         IN [grade |-> Grade(score), score |-> score]

-----------------------------------------------------------------------------
(* store.py: rows of one instance are a function from times to rows *)

Window(rows, since, until) ==
  [t \in {u \in DOMAIN rows : since <= u /\ u <= until} |-> rows[t]]

Observed(rows, c) == {t \in DOMAIN rows : rows[t][c] # None}

\* _aggregate: over the values that were observed, None when there is none.
AggMax(rows, c) ==
  IF Observed(rows, c) = {} THEN None ELSE Max({rows[t][c] : t \in Observed(rows, c)})
AggSum(rows, c) ==
  IF Observed(rows, c) = {} THEN None
  ELSE SumFunction([t \in Observed(rows, c) |-> rows[t][c]])
AggAvg(rows, c) ==
  IF Observed(rows, c) = {} THEN None ELSE AggSum(rows, c) \div Cardinality(Observed(rows, c))

\* _metrics_dict_from_window: the peak is the largest interval average, and
\* nothing says whether heap was observed, which _health_score takes for yes.
WindowMetrics(rows) ==
  [thr |-> AggAvg(rows, "thr"), tig |-> AggAvg(rows, "tig"), freq |-> AggAvg(rows, "freq"),
   avg |-> AggAvg(rows, "avg"), max |-> AggMax(rows, "max"), p99 |-> AggMax(rows, "p99"),
   full |-> AggSum(rows, "full"), young |-> AggSum(rows, "young"),
   heap |-> AggAvg(rows, "heap"), peak |-> AggMax(rows, "heap"), heapObserved |-> TRUE]

\* source_quality: `has` are the metrics the latest row has a value for, `short`
\* those some of its samples lacked.
SourceQuality(observed, has, short, required, limit, now) ==
  IF observed = None \/ has \cap required = {} THEN "missing"
  ELSE IF now - observed > limit THEN "stale"
  ELSE IF required \subseteq has /\ short \cap required = {} THEN "fresh" ELSE "partial"

\* Mutant: the newest entry, whenever it was made.
LatestEver(f, now) == IF DOMAIN f = {} THEN None ELSE Max(DOMAIN f)

\* latest_row, latest_gc_collection_quality: newest entry at or before now.
LatestAt(f, now) ==
  LET past == {t \in DOMAIN f : t <= now} IN IF past = {} THEN None ELSE Max(past)

\* The value of column c in the baseline: the median over the month before the
\* last two hours, a default without history.
Baseline(rows, c, default, now) ==
  LET base == Window(rows, now - Month, now - Gap)
      times == Observed(base, c)
  IN IF times = {} THEN default ELSE Median([t \in times |-> base[t][c]])

Above(x, limit) == x # None /\ x > limit

\* Mutant: only rows after the beginning of the window are looked at.
RecentRowsOpen(rows, now) == Window(rows, now - Recent + 1, now)

RecentRows(rows, now) == Window(rows, now - Recent, now)

\* evaluate_alerts: the severities of the alerts of the last hour.
Alerts(rows, role, now) ==
  LET recent == RecentRows(rows, now)
      storm == Most(StormTimeInGc, Baseline(rows, "tig", 10, now) * StormMult)
      usual == Baseline(rows, "freq", 50, now)
      critical == \/ Above(AggSum(recent, "full"), 0)
                  \/ Above(AggMax(recent, "max"), WarnPause)
      warning == \/ /\ ~Above(AggMax(recent, "max"), WarnPause)
                    /\ Above(AggMax(recent, "p99"), MaxHealthyPause)
                 \/ Above(AggMax(recent, "heap"), HeapAlert(role))
                 \/ Above(AggMax(recent, "tig"), storm)
                 \/ /\ Above(AggMax(recent, "freq"), usual * FreqMult)
                    /\ Above(AggMax(recent, "freq"), FreqAlert)
  IN {s \in {"critical", "warning"} : IF s = "critical" THEN critical ELSE warning}

GcSource(rows, now) ==
  LET last == LatestAt(rows, now)
  IN SourceQuality(last, IF last = None THEN {} ELSE {c \in Columns : rows[last][c] # None},
                   {}, Columns, MaxAge, now)

\* Mutant: an incomplete collection does not hide the rows before it.
QualityDespiteFailure(rows, outcomes, now) == GcSource(rows, now)

\* current_snapshot: rows older than a collection that was not complete do not
\* stand for the present, however fresh they are.
GcQuality(rows, outcomes, now) ==
  LET tried == LatestAt(outcomes, now)
  IN IF /\ tried # None
        /\ outcomes[tried] # "complete"
        /\ GcSource(rows, now) \notin {"missing", "stale"}
       THEN "unknown" ELSE GcSource(rows, now)

\* The rest of current_snapshot: health needs a fresh source and every metric;
\* alerts stay visible unless the source is missing or stale.
Snapshot(rows, outcomes, role, now) ==
  LET quality == GcQuality(rows, outcomes, now)
      current == quality \in {"fresh", "partial"}
      metrics == WindowMetrics(Window(rows, now - Day, now))
      whole == \A c \in DOMAIN metrics \ {"heapObserved"} : metrics[c] # None
  IN [quality |-> IF current /\ ~whole THEN "partial" ELSE quality,
      metrics |-> IF current THEN metrics ELSE None,
      health  |-> IF quality = "fresh" /\ whole THEN HealthScore(metrics) ELSE UnknownHealth,
      alerts  |-> IF quality \in {"missing", "stale"} THEN {} ELSE Alerts(rows, role, now)]

=============================================================================
