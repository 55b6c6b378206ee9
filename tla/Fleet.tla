------------------------------- MODULE Fleet -------------------------------
(***************************************************************************)
(* What the dashboard says of a fleet: collection passes record GC batches *)
(* and host reports, time goes on, and at any time every page is computed  *)
(* from the store: an instance's status, the fleet tree, a cluster's page  *)
(* and the scaling advisor's verdict.  Time is counted in hours.           *)
(*                                                                         *)
(* A pass that fails records nothing (ingest.ingest_node), so failures are *)
(* stuttering steps: what they leave is old evidence.                      *)
(***************************************************************************)
EXTENDS HostHealth, SequencesExt

CONSTANTS
  Instances,
  Place,      \* Place[i]: <<region, env, cluster, group>>
  Role,       \* Role[i]
  Advised,    \* the role the scaling advisor looks at
  Batches,    \* batches of GC records a pass may find
  Reports,    \* sequences of host samples a pass may find
  Widths,     \* bucket widths of a whole-log read (auto_bucket_s)
  Retention,  \* GC_RETENTION_DAYS
  MaxTime, MaxCollects, MaxReports, MaxBuckets

ASSUME FleetAssumption ==
  /\ IsFiniteSet(Instances)
  /\ Place \in [Instances -> Seq(STRING)] /\ \A i \in Instances : Len(Place[i]) = 4
  /\ Role \in [Instances -> STRING]
  /\ Batches \subseteq GcBatch /\ Reports \subseteq Seq(HostSample) \ {<<>>}
  /\ Widths \subseteq Nat \ {0} /\ {MaxTime, MaxCollects, MaxReports, MaxBuckets} \subseteq Nat
  /\ Retention \in Nat /\ Retention >= Day

VARIABLES
  clock,
  rows,       \* rows[i]: metrics rows by time
  outcome,    \* outcome[i]: gc_collection_quality by time
  rolls,      \* rolls[i]: host_metrics rows by time
  batches,    \* history: the batches recorded, [at, row, batch]: when one was
              \* collected and the time of its row, until another takes its row
  samples     \* history: the samples behind every host row

vars == <<clock, rows, outcome, rolls, batches, samples>>

\* g, and f where g says nothing.
Over(f, g) == [t \in DOMAIN f \cup DOMAIN g |-> IF t \in DOMAIN g THEN g[t] ELSE f[t]]

With(f, t, x) == [u \in DOMAIN f \cup {t} |-> IF u = t THEN x ELSE f[u]]

Init ==
  /\ clock = 0
  /\ rows = [i \in Instances |-> <<>>]
  /\ outcome = [i \in Instances |-> <<>>]
  /\ rolls = [i \in Instances |-> <<>>]
  /\ batches = [i \in Instances |-> {}]
  /\ samples = [i \in Instances |-> <<>>]

Advance == clock < MaxTime /\ clock' = clock + 1 /\ UNCHANGED <<rows, outcome, rolls, batches, samples>>

\* One pass over a node at a time; n more batches are within the bound.
MayCollect(i, n) ==
  /\ clock \notin DOMAIN outcome[i]
  /\ SumFunction([j \in Instances |-> Cardinality(batches[j])]) + n <= MaxCollects

OutcomeOf(b) == IF b.stw = <<>> THEN "unknown" ELSE IF b.bad THEN "partial" ELSE "complete"

\* record_analysis_metrics of records with pauses: a row for every bucket of `read`,
\* in the place of the one that stood at its time, and the outcome of the pass.
RecordRows(i, read) ==
  /\ rows' = [rows EXCEPT ![i] = Over(@, [t \in DOMAIN read |-> RowOf(Analyze(read[t]))])]
  /\ outcome' = [outcome EXCEPT ![i] =
                   With(@, clock, IF \E t \in DOMAIN read : read[t].bad THEN "partial" ELSE "complete")]
  /\ batches' = [batches EXCEPT ![i] =
                   {x \in @ : x.row \notin DOMAIN read \/ x.batch.stw = <<>>}
                     \cup {[at |-> clock, row |-> t, batch |-> read[t]] : t \in DOMAIN read}]
  /\ UNCHANGED <<clock, rolls, samples>>

\* record_analysis_metrics of skipped records only: the outcome, and no row.
RecordLoss(i, b) ==
  /\ b.bad
  /\ outcome' = [outcome EXCEPT ![i] = With(@, clock, OutcomeOf(b))]
  /\ batches' = [batches EXCEPT ![i] = @ \cup {[at |-> clock, row |-> clock, batch |-> b]}]
  /\ UNCHANGED <<clock, rows, rolls, samples>>

\* An incremental pass, of a node with offsets or rows: one row, at the time of
\* the pass.  Logs without a pause leave no row, however they are read.
Collect(i, b) ==
  /\ MayCollect(i, 1)
  /\ IF b.stw = <<>> THEN RecordLoss(i, b)
     ELSE batches[i] # {} /\ RecordRows(i, [t \in {clock} |-> b])

\* bucket_metrics: a row stands at the beginning of its bucket.
BucketStart(event, width) == (event \div width) * width

\* What whole logs may hold: buckets of one width up to now, each with pauses; a
\* record that was skipped counts against all of them.  At most MaxBuckets.
Reads ==
  {read \in UNION {[times -> {b \in Batches : b.stw # <<>>}] : times \in SUBSET (0 .. clock)} :
     /\ Cardinality(DOMAIN read) \in 1 .. MaxBuckets
     /\ \E width \in Widths : \A t \in DOMAIN read : t = BucketStart(t, width)
     /\ \A t, u \in DOMAIN read : read[t].bad = read[u].bad}

\* The first pass over a node, and any job asked for it (collect_mode "full"), reads
\* its logs from their beginning: rows of the past are replaced or added.
FullRead(i, read) == MayCollect(i, Cardinality(DOMAIN read)) /\ RecordRows(i, read)

\* prune_before, at the end of a tick.  The offsets stay.
Prune ==
  LET young(f) == [i \in Instances |-> Restrict(f[i], {t \in DOMAIN f[i] : t >= clock - Retention})]
  IN /\ rows' = young(rows) /\ outcome' = young(outcome)
     /\ rolls' = young(rolls) /\ samples' = young(samples)
     /\ UNCHANGED <<clock, batches>>

\* sar_ingest: the rollup of one more bucket of samples.
HostReport(i, s) ==
  /\ clock \notin DOMAIN rolls[i] /\ SumFunction([j \in Instances |-> Cardinality(DOMAIN rolls[j])]) < MaxReports
  /\ rolls' = [rolls EXCEPT ![i] = With(@, clock, Rollup(s))]
  /\ samples' = [samples EXCEPT ![i] = With(@, clock, s)]
  /\ UNCHANGED <<clock, rows, outcome, batches>>

Next ==
  \/ Advance
  \/ \E i \in Instances, b \in Batches : Collect(i, b)
  \/ \E i \in Instances, read \in Reads : FullRead(i, read)
  \/ Prune
  \/ \E i \in Instances, s \in Reports : HostReport(i, s)

Spec == Init /\ [][Next]_vars

-----------------------------------------------------------------------------
(* fleet.py *)

GcNow(i, now) == Snapshot(rows[i], outcome[i], Role[i], now)
HostNow(i, now) == HostSnapshot(rolls[i], now)

\* _instance_status.
InstanceStatus(grade, alerts) ==
  IF "critical" \in alerts \/ grade \in {"D", "F"} THEN "critical"
  ELSE IF "warning" \in alerts \/ grade = "C" THEN "watch"
  ELSE IF grade \in {"A", "B"} THEN "ok" ELSE "unknown"

\* _host_status: no alert stream.
StatusOfHost(h) ==
  IF h.quality \in {"missing", "stale"} THEN "unknown" ELSE InstanceStatus(h.health.grade, {})
HostStatus(i, now) == StatusOfHost(HostNow(i, now))

StatusOfSnapshot(s) == InstanceStatus(s.health.grade, s.alerts)
StatusOf(i, now) == StatusOfSnapshot(GcNow(i, now))

\* Mutant: the order of STATUS_RANK, where "unknown" is the least.
OverallByRank(statuses) ==
  IF "critical" \in statuses THEN "critical" ELSE IF "watch" \in statuses THEN "watch"
  ELSE IF "ok" \in statuses THEN "ok" ELSE "unknown"

\* _rollup.
Overall(statuses) ==
  IF "critical" \in statuses THEN "critical" ELSE IF "watch" \in statuses THEN "watch"
  ELSE IF "unknown" \in statuses \/ statuses = {} THEN "unknown" ELSE "ok"

\* _skeleton_from_store, build_fleet: the levels of the tree, each rolled up
\* from the one below; level 0 is the fleet.
Nodes(level) == {SubSeq(Place[i], 1, level) : i \in Instances}
Tree(now) ==
  LET at[level \in 0 .. 4] ==
        [n \in Nodes(level) |->
           IF level = 4
             THEN Overall({StatusOf(i, now) : i \in {j \in Instances : Place[j] = n}})
             ELSE Overall({at[level + 1][m] : m \in {k \in Nodes(level + 1) : SubSeq(k, 1, level) = n}})]
  IN at

\* build_cluster: the page of one cluster, computed from its instances.
Clusters == {Place[i][3] : i \in Instances}
Members(cluster) == {i \in Instances : Place[i][3] = cluster}
Full1h(i, now) == AggSum(Window(rows[i], now - 1, now), "full")
AddObserved(full) ==
  IF \A i \in DOMAIN full : full[i] = None THEN None
  ELSE SumFunctionOnSet(full, {i \in DOMAIN full : full[i] # None})
PageOf(status, host, full) ==
  [status    |-> Overall(Range(status)),
   host      |-> Overall(Range(host)),
   healthy   |-> Cardinality({i \in DOMAIN status : status[i] = "ok"}),
   attention |-> {i \in DOMAIN status : status[i] \in {"watch", "critical"}},
   full1h    |-> AddObserved(full)]
Page(cluster, now) ==
  PageOf([i \in Members(cluster) |-> StatusOf(i, now)],
         [i \in Members(cluster) |-> HostStatus(i, now)],
         [i \in Members(cluster) |-> Full1h(i, now)])

-----------------------------------------------------------------------------
(* scaling_advisor.py *)

GcRequired == {"full", "heap", "tig", "p99", "max"}

\* _source_quality over a snapshot, whose quality the store supplied: fresh
\* evidence still has to have every required metric and a health.
BothReliable(g, h) ==
  /\ g.quality = "fresh" /\ \A c \in GcRequired : g.metrics[c] # None /\ g.health.grade # "?"
  /\ h.quality = "fresh" /\ \A c \in HostMetrics : h.metrics.max[c] # None /\ h.health.grade # "?"
Reliable(i, now) == BothReliable(GcNow(i, now), HostNow(i, now))

\* _classify_node of a node whose evidence is reliable: the signals in the order
\* of the code, and the first that shows.
Signals(g, h) ==
  << <<"swap", h.max["swap"] > Crit["swap"]>>,
     <<"disk", h.max["diskUtil"] > Crit["diskUtil"] \/ h.max["diskAwait"] > Crit["diskAwait"]>>,
     <<"cpu", h.avg["cpu"] > Crit["cpu"]>>,
     <<"iowait", h.avg["iowait"] > Crit["iowait"]>>,
     <<"host_memory", h.max["mem"] > Crit["mem"]>>,
     <<"network", h.max["netUtil"] > Crit["netUtil"]>>,
     <<"heap", g["full"] > 0 \/ g["heap"] > HighHeapUse>>,
     <<"watch", \/ h.avg["cpu"] > Warn["cpu"]
                \/ h.max["diskUtil"] > Warn["diskUtil"] \/ h.max["netUtil"] > Warn["netUtil"]>> >>

FirstShown(signals) ==
  IF \A k \in DOMAIN signals : ~signals[k][2] THEN "healthy"
  ELSE signals[Min({k \in DOMAIN signals : signals[k][2]})][1]
Pressure(i, now) == FirstShown(Signals(GcNow(i, now).metrics, HostNow(i, now).metrics))

\* _cv > SKEW_CV_HIGH: the deviation exceeds 0.3 of the mean.
Spread(values) ==
  LET seen == {i \in DOMAIN values : values[i] # None}
      total == SumFunctionOnSet(values, seen)
      squares == SumFunction([i \in seen |-> values[i] * values[i]])
  IN Cardinality(seen) >= 2 /\ total > 0 /\ 100 * Cardinality(seen) * squares > 109 * total * total
Uneven(nodes, c, now) == Spread([i \in nodes |-> HostNow(i, now).metrics.avg[c]])

\* Mutant: nodes without reliable evidence are left out.
DecideAmongReliable(nodes, now) ==
  LET known == {i \in nodes : Reliable(i, now)}
  IN IF known = {} THEN "insufficient_data"
     ELSE IF Uneven(known, "cpu", now) \/ Uneven(known, "tx", now) \/ \E i \in known : Pressure(i, now) # "healthy"
       THEN "investigate" ELSE "no_action"

\* _decide.
Decide(nodes, now) ==
  IF \E i \in nodes : ~Reliable(i, now) THEN "insufficient_data"
  ELSE IF \/ Uneven(nodes, "cpu", now) \/ Uneven(nodes, "tx", now)
          \/ \E i \in nodes : Pressure(i, now) # "healthy"
    THEN "investigate" ELSE "no_action"

\* analyze_cluster_scaling.
Advice(cluster, now) ==
  LET nodes == {i \in Members(cluster) : Role[i] = Advised}
  IN IF nodes = {} THEN "insufficient_data" ELSE Decide(nodes, now)

-----------------------------------------------------------------------------
(* Properties *)

\* The instances some green page vouches for.
Judged ==
  LET fleet == Tree(clock)[0][<<>>]
      pages == [c \in Clusters |-> Page(c, clock)]
  IN {i \in Instances : fleet = "ok" \/ pages[Place[i][3]].status = "ok"}

\* A batch is of a window when its row is: the pauses of a whole-log read count
\* from the beginning of their bucket, so that one of the last hour can be outside
\* of the last hour's window when buckets are wide.
LastBatches(i) == {x \in batches[i] : \A y \in batches[i] : y.at <= x.at}
InWindow(i, age) == {x \in batches[i] : clock - x.row <= age}
NewestRow(i) ==
  {x \in batches[i] : x.batch.stw # <<>> /\ \A y \in batches[i] : y.batch.stw # <<>> => y.row <= x.row}

\* A green fleet or cluster page is earned by every instance on it: its newest
\* collection lost no record, found pauses and is no older than the limit for a
\* source, as is its newest row, whose records span enough for rates; and no row of
\* the last hour, whatever collection left it, holds a Full GC or a pause over the
\* limit.  Old rows, skipped records and missing instances never read as health
\* (_rollup, _instance_status, current_snapshot, source_quality).
OkIsEarned ==
  \A i \in Judged :
    /\ batches[i] # {}
    /\ \A x \in LastBatches(i) : clock - x.at <= MaxAge /\ ~x.batch.bad /\ x.batch.stw # <<>>
    /\ \A x \in NewestRow(i) : clock - x.row <= MaxAge /\ RatesAvailable(x.batch)
    /\ \A x \in InWindow(i, Recent) : \A k \in DOMAIN x.batch.stw :
         ~x.batch.stw[k].full /\ x.batch.stw[k].ms <= WarnPause

\* A Full GC recorded in a row of the last hour makes its instance, its cluster's
\* page and the fleet critical, whatever was recorded after it, as long as no
\* whole-log read takes the row (evaluate_alerts, current_snapshot's alerts under an
\* incomplete collection).
FullGcShown ==
  LET fleet == Tree(clock)[0][<<>>]
      pages == [c \in Clusters |-> Page(c, clock)]
  IN \A i \in Instances :
    (\E x \in InWindow(i, Recent) : \E k \in DOMAIN x.batch.stw : x.batch.stw[k].full)
      => /\ StatusOf(i, clock) = "critical"
         /\ pages[Place[i][3]].status = "critical"
         /\ fleet = "critical"

\* A cluster's page and its node of the fleet tree, computed by different code,
\* agree, and the page's counts and attention list agree with its status.
PagesAgree ==
  LET tree == Tree(clock)
      pages == [c \in Clusters |-> Page(c, clock)]
  IN \A i \in Instances :
    LET page == pages[Place[i][3]]
    IN /\ tree[3][SubSeq(Place[i], 1, 3)] = page.status
       /\ page.status \in {"watch", "critical"} <=> page.attention # {}
       /\ page.status = "ok" <=> page.healthy = Cardinality(Members(Place[i][3]))

\* "No action" is said only of a cluster each of whose nodes of the role has a
\* complete recent GC collection, no Full GC in a day, and host reports of the
\* day whose every sample has all seven signals, none of their peaks critical
\* where a peak counts (_decide: every node, not those that have data).
NoActionIsEarned ==
  \A i \in Instances :
    Role[i] = Advised /\ Advice(Place[i][3], clock) = "no_action"
      => /\ batches[i] # {} /\ \A x \in LastBatches(i) : clock - x.at <= MaxAge /\ ~x.batch.bad
         /\ \A x \in InWindow(i, Day) : \A k \in DOMAIN x.batch.stw : ~x.batch.stw[k].full
         /\ \E t \in DOMAIN samples[i] : clock - t <= MaxAge
         /\ \A t \in DOMAIN samples[i] : clock - t <= Day =>
              \A k \in DOMAIN samples[i][t] :
                /\ \A c \in HostMetrics : samples[i][t][k].val[c] # None
                /\ \A c \in {"swap", "diskUtil", "diskAwait", "mem", "netUtil"} :
                     samples[i][t][k].val[c] <= Crit[c]

\* Samples of several buckets in one, numbered by bucket and place.
Numbered(domains) == UNION {{t} \X domains[t] : t \in DOMAIN domains}
Joined(buckets) ==
  [p \in Numbered([t \in DOMAIN buckets |-> DOMAIN buckets[t]]) |-> buckets[p[1]][p[2]]]

\* What a host page says of a day is what one rollup of all the day's samples
\* would say: splitting them into rows loses nothing, whether or not the reports
\* tell the samples' durations (_rollup, _host_aggregate).
HostWindowExact ==
  \A i \in Instances :
    LET day == {t \in DOMAIN rolls[i] : clock - t <= Day}
        once == Rollup(Joined(Restrict(samples[i], day)))
    IN day # {} => HostWindow(Window(rolls[i], clock - Day, clock)) = HostWindow([t \in {0} |-> once])

\* Evidence of instance i at or before time t that retention drops.
Expires(i, t) ==
  \E u \in (DOMAIN rows[i] \ DOMAIN rows'[i]) \cup (DOMAIN outcome[i] \ DOMAIN outcome'[i]) :
    u <= t /\ clock - u > Retention

\* What was said at a past time changes in two ways only: a whole-log read leaves
\* a row at or before that time, or evidence as old as that expires.  No later
\* pass, failure or recovery changes it (latest_gc_collection_quality: "the outcome
\* known at replay time, not a later failure or recovery").
ReplayStable ==
  [][\A i \in Instances : \A t \in 0 .. clock - 1 :
       \/ \E x \in batches'[i] \ batches[i] : x.row <= t
       \/ Expires(i, t)
       \/ Snapshot(rows'[i], outcome'[i], Role[i], t) = GcNow(i, t)]_<<rows, outcome>>

\* A lone batch is judged from the store as the analyzer judges it from the log,
\* but for the peak of the heap, which is not a column: the store may spare it the
\* penalty for a peak over the limit (store.py, module docstring: "a node is judged
\* the same way whether the numbers come from a freshly parsed log/report or from
\* the store").  Batches whose records show no heap are left out: the analyzer
\* gives them no grade, the store one.
SameVerdictButPeak ==
  \A i \in Instances : \A x \in batches[i] :
    batches[i] = {x} /\ {x.at, x.row} = {clock} /\ x.batch.stw # <<>> /\ HeapObserved(x.batch)
      => LET m == Analyze(x.batch)
             spared == IF m.peak > HighHeapUse /\ m.heap <= HighHeapUse THEN HeapPenalty(m) ELSE 0
             log == HealthScore(m).score
             store == GcNow(i, clock).health.score
         IN IF log = None THEN store = None ELSE store \in log .. log + spared

=============================================================================
