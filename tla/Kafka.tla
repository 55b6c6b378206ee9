------------------------------- MODULE Kafka -------------------------------
(***************************************************************************)
(* Kafka and ZooKeeper evidence of one cluster: the nodes' operational     *)
(* logs, collection passes that scrape, read the tail of the log, load the *)
(* latest row, merge and store, uploads of log text, and the pages built   *)
(* from the rows: the cluster page, its chart and the real-time alerter.   *)
(*                                                                         *)
(* The tick's Kafka pass runs after on_tick_complete has released the       *)
(* cluster, so a job's pass of the same nodes may overlap it; uploads and the *)
(* tick's retention run beside both.                                         *)
(***************************************************************************)
EXTENDS KafkaHealth

CONSTANTS
  Nodes,
  Passes,       \* passes that may be under way for one node at a time
  Role,         \* node -> "broker", "zookeeper" or another
  Prometheus,   \* nodes with a prometheus_url, or GC_PROMETHEUS_URL set
  Scrapes,      \* role -> what a JMX exporter may answer; <<>> is no answer
  Lines,        \* role -> lines the node may log
  Texts,        \* texts that may be uploaded
  HostRows,     \* what is stored of a node's host: [at, seen, row, day], or None
  GcStates,     \* what GcHealth says of a node: [metrics, alerts]
  TailLines,    \* lines of a log one pass reads (2000 over SSH)
  EventLimit,   \* events a node's page reads (80)
  AlertAge,     \* two hours: rows the alerter still counts
  SarMaxAge,    \* SAR_SOURCE_MAX_AGE_S: host reports the pages still count
  Day, Bucket,  \* a page's window and the width of its chart's buckets
  Retention,    \* RETENTION_DAYS
  MaxTime, MaxLog, MaxUploads, MaxPasses   \* bounds of the explored instance

\* A host's last row at the start of its bucket, the last sample of it, and what
\* _host_metrics_dict_from_window makes of the day that row is in: averages, and
\* the peaks, which are no less than that row.
HostReport(h) ==
  /\ {h.row, h.day} \subseteq [HostColumns -> Nat \cup {None}]
  /\ {h.at, h.seen} \subseteq Nat /\ h.at <= h.seen
  /\ \A c \in {"swap", "diskAwait"} : h.row[c] # None => AtLeast(h.day[c], h.row[c])

ASSUME KafkaAssumption ==
  /\ IsFiniteSet(Nodes) /\ Prometheus \subseteq Nodes
  /\ Texts \subseteq Seq(LogLine) /\ \A i \in Nodes : Lines[Role[i]] \subseteq LogLine
  /\ \A i \in Nodes : \A s \in Scrapes[Role[i]] : \A c \in DOMAIN s : s[c] \in Nat \cup {None}
  /\ \A h \in HostRows \ {None} : HostReport(h)
  /\ {TailLines, EventLimit, AlertAge, SarMaxAge, Day, Retention} \subseteq Nat
  /\ {MaxTime, MaxLog, MaxUploads, MaxPasses} \subseteq Nat
  /\ AlertAge <= Day /\ Bucket \in Nat \ {0}

VARIABLES
  clock,
  log,      \* lines each node has logged
  rows,     \* table kafka_metrics: node -> time -> row
  events,   \* table kafka_log_events: node -> its events, in order of insertion
  host,     \* node -> its host row
  gc,       \* node -> its GC snapshot
  pass,     \* what the pass of each node holds
  upload,   \* node -> what an upload without a hit has read: [at, row], or None
  result,   \* KafkaNodeResult of the last pass
  uploads,  \* how many texts were uploaded
  passes    \* how many passes were begun

env  == <<clock, log, host, gc>>
vars == <<env, rows, events, pass, upload, result, uploads, passes>>

NoHost == [c \in HostColumns |-> None]
NoText == Parse(<<>>, 0)
Idle == [phase |-> "idle", ts |-> 0, scraped |-> <<>>, parsed |-> NoText, existing |-> NoRow]

-----------------------------------------------------------------------------
(* store.py: rows and events of one node *)

\* kafka_latest_row, an empty row when there is none.
LatestRow(table, now) ==
  LET past == {t \in DOMAIN table : t <= now}
  IN IF past = {} THEN NoRow ELSE table[Max(past)]

LatestTime(table, now) == Max({-1} \cup {t \in DOMAIN table : t <= now})

\* INSERT OR REPLACE.
With(f, t, v) == [x \in DOMAIN f \cup {t} |-> IF x = t THEN v ELSE f[x]]

\* kafka_log_events_window: how many of the newest EventLimit events since a time
\* are of each category.  The index is read backwards: of events of one time,
\* those inserted last come first.
RecentCounts(seq, since) ==
  LET recent == {k \in DOMAIN seq : seq[k].ts >= since}
      newer(m, n) == seq[m].ts > seq[n].ts \/ (seq[m].ts = seq[n].ts /\ m > n)
      read == {k \in recent : Cardinality({n \in recent : newer(n, k)}) < EventLimit}
  IN [c \in Categories |-> Cardinality({k \in read : seq[k].cat = c})]

\* prune_before, of one node: its rows and events of earlier times go.
Since(table, t) == [x \in {u \in DOMAIN table : u >= t} |-> table[x]]
EventsSince(seq, t) ==
  LET kept == {k \in DOMAIN seq : seq[k].ts >= t}
      order == SetToSortSeq(kept, <)
  IN [n \in 1 .. Cardinality(kept) |-> seq[order[n]]]

-----------------------------------------------------------------------------
(* Passes, uploads, time *)

Init ==
  /\ clock = 0 /\ uploads = 0 /\ passes = 0
  /\ log = [i \in Nodes |-> <<>>]
  /\ rows = [i \in Nodes |-> <<>>]
  /\ events = [i \in Nodes |-> <<>>]
  /\ host \in [Nodes -> HostRows]
  /\ gc \in [Nodes -> GcStates]
  /\ pass = [a \in Passes |-> [i \in Nodes |-> Idle]]
  /\ upload = [i \in Nodes |-> None]
  /\ result = [i \in Nodes |-> "none"]

Advance ==
  /\ clock < MaxTime
  /\ clock' = clock + 1
  /\ UNCHANGED <<log, rows, events, host, gc, pass, upload, result, uploads, passes>>

Log(i) ==
  /\ Len(log[i]) < MaxLog
  /\ \E line \in Lines[Role[i]] :
       log' = [log EXCEPT ![i] = Append(@, [line EXCEPT !.at = IF @ = None THEN None ELSE clock])]
  /\ UNCHANGED <<clock, rows, events, host, gc, pass, upload, result, uploads, passes>>

\* A tick's passes and its retention have the time at which the tick began.
Began == {clock, Max({0, clock - 1})}

\* collect_kafka_logs over SSH: the same tail again on every pass.
LogTail(i) ==
  LET n == Len(log[i]) IN SubSeq(log[i], Max({1, n - TailLines + 1}), n)

\* ingest_kafka_node up to its transaction.  An exporter that fails answers
\* nothing, a log that cannot be read has no lines.  Nothing scraped and no event:
\* nothing is recorded.
\* The latest row is read last, before the transaction begins.  For a node with
\* Prometheus the pass calls kafka_analyzer.scrape_prometheus_kafka_metrics,
\* which does not exist.
PassLoads(a, i) ==
  /\ pass[a][i].phase = "idle" /\ passes < MaxPasses
  /\ \E ts \in Began, scraped \in Scrapes[Role[i]], text \in {LogTail(i), <<>>} :
       LET parsed == Parse(text, clock)
           empty == scraped = <<>> /\ parsed.events = <<>>
       IN /\ pass' = [pass EXCEPT ![a][i] =
               IF i \in Prometheus \/ empty THEN Idle
               ELSE [phase |-> "loaded", ts |-> ts, scraped |-> scraped, parsed |-> parsed,
                     existing |-> LatestRow(rows[i], clock)]]
          /\ result' = [result EXCEPT ![i] =
               IF i \in Prometheus THEN "error" ELSE IF empty THEN "nothing" ELSE @]
  /\ passes' = passes + 1
  /\ UNCHANGED <<env, rows, events, upload, uploads>>

\* One transaction: the events of the text, again, and the merged row.
PassStores(a, i) ==
  LET p == pass[a][i]
  IN /\ p.phase = "loaded"
     /\ rows' = [rows EXCEPT ![i] = With(@, p.ts, Merge(p.existing, p.scraped, p.parsed, TRUE))]
     /\ events' = [events EXCEPT ![i] = @ \o p.parsed.events]
     /\ pass' = [pass EXCEPT ![a][i] = Idle]
     /\ result' = [result EXCEPT ![i] = "recorded"]
     /\ UNCHANGED <<env, upload, uploads, passes>>

\* The store fails (a locked database): rolled back, the node's result is an error.
PassFails(a, i) ==
  /\ pass[a][i].phase = "loaded"
  /\ pass' = [pass EXCEPT ![a][i] = Idle]
  /\ result' = [result EXCEPT ![i] = "error"]
  /\ UNCHANGED <<env, rows, events, upload, uploads, passes>>

\* ingest_kafka_log_text of a text with a hit: its first INSERT takes the write
\* lock, so that row and events are read and written at one point.
Upload(i) ==
  /\ uploads < MaxUploads
  /\ \E text \in {t \in Texts : Hits(t) # {}} :
       LET parsed == Parse(text, clock)
       IN /\ rows' = [rows EXCEPT ![i] =
               With(@, clock, Merge(LatestRow(@, clock), <<>>, parsed, FALSE))]
          /\ events' = [events EXCEPT ![i] = @ \o parsed.events]
  /\ uploads' = uploads + 1
  /\ UNCHANGED <<env, pass, upload, passes, result>>

\* ... and of one without: nothing is inserted before the latest row is read, so
\* no lock is held between that read and the write of the row, which no count
\* changes.  A blank text is answered before.
UploadReads(i) ==
  /\ uploads < MaxUploads /\ upload[i] = None
  /\ \E text \in Texts : text # <<>> /\ Hits(text) = {}
  /\ upload' = [upload EXCEPT ![i] = [at |-> clock, row |-> LatestRow(rows[i], clock)]]
  /\ uploads' = uploads + 1
  /\ UNCHANGED <<env, rows, events, pass, passes, result>>

UploadWrites(i) ==
  /\ upload[i] # None
  /\ rows' = [rows EXCEPT ![i] = With(@, upload[i].at, upload[i].row)]
  /\ upload' = [upload EXCEPT ![i] = None]
  /\ UNCHANGED <<env, events, pass, uploads, passes, result>>

UploadFails(i) ==
  /\ upload[i] # None
  /\ upload' = [upload EXCEPT ![i] = None]
  /\ UNCHANGED <<env, rows, events, pass, uploads, passes, result>>

\* The tick's retention, of all nodes.
Prune ==
  /\ \E ts \in Began :
       /\ rows' = [i \in Nodes |-> Since(rows[i], ts - Retention)]
       /\ events' = [i \in Nodes |-> EventsSince(events[i], ts - Retention)]
  /\ UNCHANGED <<env, pass, upload, uploads, passes, result>>

Next ==
  \/ Advance \/ Prune
  \/ \E i \in Nodes : Log(i) \/ Upload(i) \/ UploadReads(i) \/ UploadWrites(i) \/ UploadFails(i)
  \/ \E a \in Passes, i \in Nodes : PassLoads(a, i) \/ PassStores(a, i) \/ PassFails(a, i)

Spec == Init /\ [][Next]_vars

-----------------------------------------------------------------------------
(* The cluster page: current_kafka_snapshot, cluster_kafka_overview *)

OfRole(role) == {i \in Nodes : Role[i] = role}
Metrics(i) == LatestRow(rows[i], clock)
Logs(i) == RecentCounts(events[i], clock - Day)

\* The age of a row is shown; it does not withhold a grade.
Health(i) ==
  IF LatestTime(rows[i], clock) = -1 THEN None ELSE KafkaScore(Metrics(i), Role[i], Logs(i))

\* current_host_snapshot: the day's metrics, while the host's last row has one that
\* counts for its health and its last sample is in the configured age and in the day.
HostShown(i) ==
  IF /\ host[i] # None /\ clock - host[i].seen <= Min({SarMaxAge, Day})
     /\ \E c \in HostColumns \ {"swapOut"} : host[i].row[c] # None
  THEN host[i].day ELSE NoHost

NodeCauses(i) ==
  IF LatestTime(rows[i], clock) = -1 THEN {}
  ELSE Causes(Metrics(i), Role[i], gc[i].metrics, HostShown(i), Logs(i))

\* Warnings of the last row, of any age, and of the day's events.
Warnings(table, seq, c, cat) ==
  Value(LatestRow(table, clock)[c]) + RecentCounts(seq, clock - Day)[cat]
FsyncWarnings(table, seq) == Warnings(table, seq, "fsync", "zk_fsync_stall")
Expirations(table, seq)   == Warnings(table, seq, "sessions", "zk_session_expired")

Total(c) == SumFunction([i \in OfRole("broker") |-> Value(Metrics(i)[c])])
LeastIdle == Min(({1000} \cup {Metrics(i)["idle"] : i \in OfRole("broker")}) \ {None})
WorstProduce == Max({0} \cup {Value(Metrics(i)["produce"]) : i \in OfRole("broker")})

\* Mutant: what is worth watching hides what is critical.
StatusWatchFirst ==
  IF LeastIdle < 350 \/ WorstProduce >= 1200
     \/ \E i \in OfRole("zookeeper") : Expirations(rows[i], events[i]) > 0
    THEN "watch"
  ELSE IF \/ Total("offline") > 0 \/ Total("urp") > 0 \/ Total("controllers") # 1
          \/ \E i \in OfRole("zookeeper") : FsyncWarnings(rows[i], events[i]) > 0
    THEN "critical"
  ELSE "ok"

\* Rows of any age are summed.
ClusterStatus ==
  IF \/ Total("offline") > 0 \/ Total("urp") > 0 \/ Total("controllers") # 1
     \/ \E i \in OfRole("zookeeper") : FsyncWarnings(rows[i], events[i]) > 0
    THEN "critical"
  ELSE IF \/ LeastIdle < 350 \/ WorstProduce >= 1200
          \/ \E i \in OfRole("zookeeper") : Expirations(rows[i], events[i]) > 0
    THEN "watch"
  ELSE "ok"

\* Mutant: a row stands at the end of its bucket.
BucketAfter(t) == (t \div Bucket + 1) * Bucket

BucketOf(t) == (t \div Bucket) * Bucket

\* kafka_range_series and its sum over the cluster: of every bucket of the day,
\* the brokers' maxima added up.
Shown(i) == {t \in DOMAIN rows[i] : clock - Day <= t /\ t <= clock}
Worst(i, c, b) == Max({0} \cup {Value(rows[i][t][c]) : t \in {u \in Shown(i) : BucketOf(u) = b}})
Chart(c) ==
  [b \in UNION {{BucketOf(t) : t \in Shown(i)} : i \in Nodes} |->
     SumFunction([i \in OfRole("broker") |-> Worst(i, c, b)])]

-----------------------------------------------------------------------------
(* evaluate_realtime_alerts *)

Fresh(i) == LatestTime(rows[i], clock) # -1 /\ clock - LatestTime(rows[i], clock) <= AlertAge

\* The alerter takes the host's last row alone, by a limit of its own.
HostAlerted(i) ==
  IF host[i] # None /\ clock - host[i].at <= AlertAge THEN host[i].row ELSE NoHost

NodeAlerts(i) ==
  HostAlerts(HostAlerted(i))
  \cup (IF Fresh(i) THEN KafkaAlerts(Metrics(i), Role[i]) ELSE {})
  \cup {<<"gc", severity>> : severity \in gc[i].alerts}

RealtimeStatus ==
  LET severities == {a[2] : a \in UNION {NodeAlerts(i) : i \in Nodes}}
  IN IF "critical" \in severities THEN "critical"
     ELSE IF "warning" \in severities THEN "warning" ELSE "ok"

-----------------------------------------------------------------------------
(* Properties *)

\* Under-replicated and offline partitions, stalls and expirations leave a node's
\* latest row in three ways only: a scrape reports the column; what was read before
\* somebody else's write replaces that write - by a pass, or by an upload without a
\* hit, neither of which holds a lock when it reads (the merges in
\* ingest_kafka_node and ingest_kafka_log_text); or the row is past retention.  Log
\* text with hits, an exporter that does not answer, a log that cannot be read and
\* newer events never take any of them off.
OnlyScrapeClears ==
  [][\A i \in Nodes :
       LET old == LatestRow(rows[i], clock)
           new == LatestRow(rows'[i], clock)
           fell == {c \in {"urp", "offline"} : Value(new[c]) < Value(old[c])}
           gone == {c \in {"fsync", "sessions"} : Value(old[c]) > 0 /\ Value(new[c]) = 0}
       IN fell \cup gone # {} =>
            \/ \E a \in Passes :
                 /\ pass[a][i].phase = "loaded"
                 /\ fell \cup gone \subseteq DOMAIN pass[a][i].scraped \/ pass[a][i].existing # old
            \/ upload[i] # None /\ upload[i].row # old
            \/ clock - LatestTime(rows[i], clock) > Retention]_<<rows>>

\* What the alerter says of brokers and of ZooKeeper's stalls and expirations is
\* seen on the cluster's page, which is computed by other code from the same
\* rows: lost or under-replicated partitions and stalls make the page critical
\* and cost the node its A, no such alert leaves the page "ok", and the page names
\* the cause: a stalling log, and a swapping host where the alerter sees one and
\* its report is not too old for SAR_SOURCE_MAX_AGE_S.
AlertsReachPage ==
  \A i \in Nodes :
    LET grave == IF Role[i] = "broker" THEN {"offline", "urp"} ELSE {"fsync"}
        minor == IF Role[i] = "broker" THEN Below(Metrics(i)["idle"], 250) ELSE Value(Metrics(i)["sessions"]) > 0
    IN Role[i] \in {"broker", "zookeeper"} /\ Fresh(i) =>
         /\ (\E c \in grave : Value(Metrics(i)[c]) > 0) =>
              ClusterStatus = "critical" /\ RealtimeStatus = "critical" /\ KafkaGrade(Health(i)) # "A"
         /\ minor => ClusterStatus # "ok" /\ RealtimeStatus # "ok"
         /\ Role[i] = "zookeeper" /\ Value(Metrics(i)["fsync"]) > 0 => "zk_wal_io_stall" \in NodeCauses(i)
         /\ Role[i] = "broker"
              /\ {<<"urp", "critical">>, <<"memory_damage", "critical">>} \subseteq NodeAlerts(i)
              /\ Below(HostAlerted(i)["mem"], 920) /\ Value(HostAlerted(i)["swapOut"]) < 6
              /\ clock - host[i].seen <= SarMaxAge
              => "swap_induced_urp" \in NodeCauses(i)

\* Where the page has a broker's row of the last day, the chart's bucket of that
\* row shows at least as much (kafka_range_series, cluster_kafka_overview).
ChartCoversPage ==
  \A i \in OfRole("broker") : \A c \in {"urp", "offline"} :
    LET t == LatestTime(rows[i], clock)
        b == (t \div Bucket) * Bucket
    IN t # -1 /\ clock - t <= Day => b \in DOMAIN Chart(c) /\ Chart(c)[b] >= Value(Metrics(i)[c])

\* A pass that ends in an error was refused by the store: a scrape or a log that
\* fails never costs a node its row (kafka_ingest.py, module docstring:
\* "collect (Prometheus/JMX + SSH/local logs) -> ... -> store.record_kafka_metric").
OnlyStoreFails ==
  [][\A i \in Nodes : result[i] # "error" /\ result'[i] = "error"
       => \E a \in Passes : pass[a][i].phase = "loaded"]_<<result>>

=============================================================================
