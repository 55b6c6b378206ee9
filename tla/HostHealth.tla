----------------------------- MODULE HostHealth -----------------------------
(***************************************************************************)
(* How host evidence is judged: sar_analyzer's rollup of the samples of a  *)
(* bucket, store.py's aggregation of rollups over a window, the host score *)
(* and the host snapshot.                                                  *)
(*                                                                         *)
(* A sample has the seconds since the one before it (0 when the report does *)
(* not say) and a value, in tenths, or None for each pressure metric.      *)
(***************************************************************************)
EXTENDS GcHealth

HostMetrics == {"cpu", "iowait", "mem", "swap", "diskUtil", "diskAwait", "netUtil"}

\* Network egress ("tx") is kept beside the seven, for the skew between nodes.
HostColumns == HostMetrics \cup {"tx"}

HostSample == [dur : Nat, val : [HostColumns -> Nat \cup {None}]]

\* sar_analyzer.py thresholds.
Warn == [cpu |-> 750, iowait |-> 80, mem |-> 850, swap |-> 10,
         diskUtil |-> 700, diskAwait |-> 200, netUtil |-> 700]
Crit == [cpu |-> 900, iowait |-> 200, mem |-> 950, swap |-> 50,
         diskUtil |-> 900, diskAwait |-> 500, netUtil |-> 900]

Having(samples, c) == {k \in DOMAIN samples : samples[k].val[c] # None}

\* metric_stats of _rollup: sums weighted by duration when every sample of the
\* bucket has one, plain sums and counts beside them.
Stats(samples, c) ==
  LET timed == \A k \in DOMAIN samples : samples[k].dur > 0
      w(k) == IF timed THEN samples[k].dur ELSE 1
      v(k) == samples[k].val[c]
      have == Having(samples, c)
  IN [sum |-> SumFunction([k \in have |-> v(k) * w(k)]),
      weight |-> SumFunction([k \in have |-> w(k)]),
      count |-> Cardinality(have),
      max |-> IF have = {} THEN None ELSE Max({v(k) : k \in have}),
      sampleSum |-> SumFunction([k \in have |-> v(k)])]

\* _rollup: the row of a bucket with at least one sample, whatever they are
\* numbered by.
Rollup(samples) ==
  [n |-> Cardinality(DOMAIN samples),
   dur |-> IF \A k \in DOMAIN samples : samples[k].dur > 0
             THEN SumFunction([k \in DOMAIN samples |-> samples[k].dur]) ELSE None,
   stats |-> [c \in HostColumns |-> Stats(samples, c)]]

\* _host_aggregate over rollup rows.
HostMax(rolls, c) ==
  LET have == {t \in DOMAIN rolls : rolls[t].stats[c].count > 0}
  IN IF have = {} THEN None ELSE Max({rolls[t].stats[c].max : t \in have})

\* Mutant: rows weigh the same, however long or full they are.
AvgOfRows(rolls, c) ==
  LET have == {t \in DOMAIN rolls : rolls[t].stats[c].count > 0}
      avg(t) == rolls[t].stats[c].sum \div rolls[t].stats[c].weight
  IN IF have = {} THEN None ELSE SumFunction([t \in have |-> avg(t)]) \div Cardinality(have)

\* Weighted by duration when every row has one, by samples otherwise.
HostAvg(rolls, c) ==
  LET have == {t \in DOMAIN rolls : rolls[t].stats[c].count > 0}
      timed == \A t \in DOMAIN rolls : rolls[t].dur # None
      part(t) == IF timed THEN rolls[t].stats[c].sum ELSE rolls[t].stats[c].sampleSum
      weight(t) == IF timed THEN rolls[t].stats[c].weight ELSE rolls[t].stats[c].count
  IN IF have = {} THEN None ELSE SumFunction([t \in have |-> part(t)]) \div SumFunction([t \in have |-> weight(t)])

\* _host_metrics_dict_from_window.
HostWindow(rolls) ==
  [n |-> SumFunction([t \in DOMAIN rolls |-> rolls[t].n]),
   avg |-> [c \in HostColumns |-> HostAvg(rolls, c)],
   max |-> [c \in HostColumns |-> HostMax(rolls, c)],
   count |-> [c \in HostColumns |-> SumFunction([t \in DOMAIN rolls |-> rolls[t].stats[c].count])]]

\* metric_quality: all seven signals, each in every sample.
MetricQuality(m) ==
  IF \A c \in HostMetrics : m.max[c] = None THEN "missing"
  ELSE IF \A c \in HostMetrics : m.max[c] # None /\ m.count[c] >= m.n THEN "fresh" ELSE "partial"

\* Either peak over its critical limit, else either over its warning limit.
PeakPenalty(m, c, heavy, light) ==
  IF Above(m.max[c], Crit[c]) THEN heavy ELSE IF Above(m.max[c], Warn[c]) THEN light ELSE 0
MeanPenalty(m, c, heavy, light) ==
  IF Above(m.max[c], Crit[c]) THEN heavy ELSE IF Above(m.avg[c], Warn[c]) THEN light ELSE 0
DiskPenalty(m) == Most(PeakPenalty(m, "diskUtil", 150, 70), PeakPenalty(m, "diskAwait", 150, 70))

\* _health_score.
HostScore(m) ==
  IF MetricQuality(m) # "fresh" THEN UnknownHealth
  ELSE LET score == Most(0, 1000 - MeanPenalty(m, "cpu", 250, 120) - MeanPenalty(m, "iowait", 200, 100)
                             - MeanPenalty(m, "mem", 150, 70) - PeakPenalty(m, "swap", 200, 80)
                             - DiskPenalty(m) - PeakPenalty(m, "netUtil", 100, 50))
       IN [grade |-> Grade(score), score |-> score]

\* current_host_snapshot over the rollup rows of one instance.
HostSnapshot(rolls, now) ==
  LET last == LatestAt(rolls, now)
      has == IF last = None THEN {} ELSE {c \in HostMetrics : rolls[last].stats[c].count > 0}
      short == IF last = None THEN {}
               ELSE {c \in HostMetrics : rolls[last].stats[c].count < rolls[last].n}
      source == SourceQuality(last, has, short, HostMetrics, MaxAge, now)
      metrics == HostWindow(Window(rolls, now - Day, now))
      current == source \in {"fresh", "partial"}
      whole == source = "fresh" /\ MetricQuality(metrics) = "fresh"
  IN [quality |-> IF current /\ ~whole THEN "partial" ELSE source,
      metrics |-> IF current THEN metrics ELSE None,
      health |-> IF whole THEN HostScore(metrics) ELSE UnknownHealth]

=============================================================================
