# Kafka Fleet GC Analyzer in TLA+

A model of the GC analyzer: how GC logs, host metrics, Kafka evidence and
settings get into its tables and files, what stays true of them while the
scheduler, onboarding jobs, HTTP requests, log rotation, crashes and hand edits
interleave, what the dashboard concludes from them, and how its installer
replaces a running version. TLC checks the modules on small instances; TLAPS
proves their safety properties for every value of the constants.

    tlc -workers 2 -config MCGcTick.cfg MCGcCollection.tla     # a run
    tlapm GcCollectionProofs.tla                               # a proof

## 1. The system

One Python process (`gcanalyzer.app`, FastAPI) with a SQLite history database.

| Component | State it keeps | Operations | What is hard |
|---|---|---|---|
| GC collection (`collector.py`, `parser.py`, `ingest.py`, `scheduler.py`) | tables `collector_state` (inode, offset per path), `metrics`, `gc_collection_quality` | `tick`, `ingest_nodes`, `read_increment_local`, `complete_prefix`, `record_analysis_metrics`, `prune_before` | offsets and rows must move together across failures, crashes and rotation; tick and job race |
| Collection control (`app.py`, `scheduler.py` callbacks) | `RUNNING_CLUSTERS`, `JOBS` in memory, `clusters/*.yaml` | POST / DELETE cluster, `run_onboard_job`, `cancel_job`, `on_tick_start`, `on_node_result`, `on_tick_complete` | three kinds of threads share two unlocked containers |
| Host metrics store (`store.py`, `sar_ingest.py`) | tables `sar_samples`, `host_metrics` (rollups), `sar_collector_state` | `record_sar_samples`, `migrate_instance`, `prune_before`, `delete_instance`, `host_window_rows` | derived rows must follow late and corrected samples |
| Prometheus settings (`prometheus_settings.py`, `prometheus_client.py`) | `prometheus.json`, its lock file, `_LAST_TEST`, `_TEST_SLOTS` | `describe`, `save`, `test_connection`, hand edits | optimistic concurrency, results that arrive late, permits |
| Inventory (`ingest.py`, `store.py`, `app.py`) | table `instances`, ids in every other table | `sync_instances_from_nodes`, `_instance_id_for`, `migrate_instance`, `delete_cluster`, startup sync | identities across edits, legacy ids, removals that race jobs |
| Kafka and ZooKeeper (`kafka_ingest.py`, `kafka_analyzer.py`, `store.py`) | tables `kafka_metrics`, `kafka_log_events` | `ingest_kafka_node`, `ingest_kafka_log_text`, `cluster_kafka_overview`, `evaluate_realtime_alerts` | the same tail is read on every pass, rows carry old values on, passes and uploads overlap |
| Quality, health, rollup, scaling (`analyzer.py`, `sar_analyzer.py`, `store.py`, `fleet.py`, `scaling_advisor.py`) | none of its own: rows of `metrics`, `gc_collection_quality`, `host_metrics` | `analyze`, `current_snapshot`, `current_host_snapshot`, `build_fleet`, `build_cluster`, `analyze_cluster_scaling` | unknown and stale evidence must never look healthy |
| Forecast (`forecast.py`), correlation, anomalies | `ml_models` rows | pure functions of rows | coverage and confidence gates |
| Login and users (`auth.py`, `users.py`), investigations | `_LOGIN_FAILURES`, `users.json`, a semaphore of two | login, upload analysis | unlocked counters, file rewritten in place |
| SSH transport (`collector.py`) | none | `_run_ssh_command` | one deadline and byte budget for a command |
| Installer (`offline/install-offline.sh`) | the installed payload, backup directories, state and configuration directories | `main`, `backup_application_payload`, `rollback_failed_install`, `initialize_users_file` | failures, signals and failing rollbacks between any two steps, runs after them |
| Deployer and control script (`offline/deploy.sh`, `manage-app.sh`) | PID file | copy, start, stop | stale PID file |
| Frontend, bundle build, seed data | none | | out of scope |

How they interact: `scheduler_loop` runs `tick` in a worker thread; `tick` calls
back into `app.py` (`on_tick_start`, `on_node_result`, `on_tick_complete`,
`is_running_cb`). POST `/api/clusters` queues `run_onboard_job` on the event
loop, which runs `ingest_nodes` in a thread. Both end in the same functions of
`ingest.py` and `store.py`, each in a SQLite transaction of its own. Other
handlers run in the thread pool.

What each component must get right, in a sentence:

- GC collection: what a stored offset lets the next pass skip has been recorded;
  nothing is counted twice; what the parser rejects stays reported; every pause
  is recorded in the end.
- Collection control: a cluster being collected is marked, a marked cluster is
  being collected, an accepted job ends with one final outcome.
- Host metrics: a rollup is at all times the rollup of the stored samples, and a
  window query sees exactly the samples of the window.
- Settings: no update is lost, no test result is shown for another config, no
  permit leaks, the file is whole at every instant.
- Inventory: a host keeps its history through edits, and never gets another
  host's; at rest the instances of a cluster are those of its file.
- Health and rollup: a page is green, and the advisor sees nothing to do, only on
  recent and complete evidence about every node; a Full GC of the last hour is
  seen at every level; a page about the past does not change.
- Kafka: trouble leaves a row only because a scrape says so, and every view of
  the same rows agrees that there is trouble.
- Installer: a whole payload is always left somewhere, services are up only on a
  whole one, a rollback is exact, existing accounts are never written over.

The hazards, at their lines, with the properties that cover them, are in
`PROJECT.json`.

## 2. Modules

    GcCollection --- GcCollectionProofs      JobControl --- JobControlProofs
    HostSamples <--- HostHistory             PrometheusSettings --- PrometheusSettingsProofs
         ^               ^ refinement        Install --- InstallProofs
         +-- SarStore ---+--- SarStoreProofs
                                             Inventory --- InventoryProofs
    GcHealth <--- HostHealth <--- Fleet --- FleetProofs
    KafkaHealth <--- Kafka --- KafkaProofs

**GcCollection** (one instance). The JVM's output is one sequence of lines,
`stream`; a log file is an interval of it with an inode, `dir` says which file a
path names. Offsets count lines, since `complete_prefix` only cuts after a
newline. A pass (the tick, or a job) holds `prev` (offsets loaded), `todo` and
`seen` (paths and inodes), `got` (lines read) and `new` (offsets to store).
`TickLoad` / `TickStart` / `ReadPath` / `TickRelease` / `TickCommit` follow
`scheduler.tick`: offsets are read in step 1, the cluster is marked in
`on_tick_start`, released in `on_tick_complete`, and only then is the transaction
committed. `Submit` / `JobStart` / `JobCommit` follow `onboard_cluster` and
`ingest_nodes`. `Record` is `record_analysis_metrics` inside its savepoint with
the tick's `prune_before`; `RecordNothing` is a delta that is not persisted.
`IsResumePoint` is `_previous_offset` (the largest offset stored under *any* path
for this inode and within the file's size), `IsCompletePrefix` is the cut before
the first unfinished pause. `TickFail`, `JobFail` and `Crash` may strike between
any two steps. `TickFail` is a node's failure, which `tick` handles; `TickAbort` is
an exception that leaves `tick` (scheduler.py:157-217) before `on_tick_complete`: the
loop goes on and the cluster stays marked. Left out: several nodes in one transaction, the numbers in a row,
restarting GC numbers after a JVM restart (a number is used once here), and that
a full fetch may group by more than a minute (`auto_bucket_s`).

**JobControl** (several clusters). `RUNNING` and `JOBS` as the event loop, the
tick thread and the pool see them; a step is one access another thread can
observe. The loops over `JOBS` are two steps, `TickScans` and what follows it,
because an insertion in between raises in CPython (`TickRaises`). `Shadows` says
which cluster names extend which: `on_node_result` looks its entry up by prefix.
A tick has one result per cluster.

**HostSamples, HostHistory, SarStore.** A sample is a function from fields to
values, devices flattened; a report is a partial series of samples. `HostHistory`
is the abstract promise: for every instance and time the fields reported last,
until retention drops whole buckets. `SarStore` keeps samples and rollup rows
(`host`); a row is the samples it was computed from, so "the row is stale" is a
state. `Window` is `host_window_rows` with `_bounded_host_row`.

**PrometheusSettings.** A config stands for its SHA-256 revision. Every thread is
at a point of `describe`, `save` or `test_connection`; the file may be read at
any moment without the lock. `Edit` is a hand edit, which takes no lock (the
repository's README allows it) and may leave the file unreadable (`Broken`): every
`_load` then ends its request with a `StorageError` (`LoadFails`), the second one of
a test through the `finally` that gives the permit back. `LockFails` is a lock file
that cannot be opened; `Restart` clears locks, permits and the cache.
The temporary file belongs to the save that writes it and is not modelled.

**Inventory.** Node lists live in `files` (the YAML files); every request, job
and tick in flight, `ops`, carries the list it was given, which may be outdated.
An id is a tuple, `<<scheme, cluster, name>>`; `Ids` is `_instance_id_for` over a
list with its collision suffix, `Legacy` the two older schemes. `Sync` is the
whole of `sync_instances_from_nodes`: adopt older ids, adopt rows of the same
node, delete what the list no longer names, upsert. The file write and the sync
of a request are two steps (`PostFile` / `PostSync`, `PutFile` / `PutSync`,
`RemoveRows` / `RemoveFile`), as no lock holds them together, and the second may fail
alone (`SyncFails`, `RemoveFails`); `JobCommit`,
`TickCommit` and `HostWrite` are the transactions of a pass, `UploadCheck` /
`UploadWrite` the lookup and the write of an upload, `Restart` the startup sync.
`hist` records which host's measurements are stored under which id, in all tables
`migrate_instance` moves; it does not move the Kafka tables, which are left out.
`drifted` are the clusters whose instances were left apart from their file: by a
sync of a list that the file no longer had, or beside a removal; by a sync that
failed after its file was written (app.py:719, 793), or an `os.remove` that failed
after the rows were deleted (app.py:860). A sync of the file's list, a removal of the
cluster's rows or a restart repairs it.
All nodes have one role; a torn or unreadable YAML file is left out.

**GcHealth, HostHealth, Fleet.** The two first are pure: what `analyzer.analyze`
makes of a batch of pauses, the row that is kept of it (`RowOf`), aggregates,
`source_quality`, the scores, the last-hour alerts with their baseline, and
`current_snapshot`; for hosts the rollup of samples with durations,
`_host_aggregate` and `current_host_snapshot`. Percentages and scores are integers
in tenths, divisions round down. `Fleet` lets passes record batches and reports
(`Collect`, the whole-log read `FullRead`, `HostReport`), drops old evidence (`Prune`),
lets time go on, and computes at every state what each page says: `_instance_status`, the tree of
`build_fleet` (`Tree`), the page of `build_cluster` (`Page`) and the verdict of
`scaling_advisor` (`Advice`). The history variables `batches` and `samples` keep
the evidence itself, so that properties compare a page with what was found in the
logs and not with the rows it was computed from. A `FullRead` may come at any time
(`collect_mode` "full", app.py:447) and replaces or adds rows at past bucket starts; a
batch whose row it takes is no longer evidence for the window that row was in. One
`MaxAge` stands for `GC_SOURCE_MAX_AGE_S` and `SAR_SOURCE_MAX_AGE_S` (both two hours
unless set). `migrate_instance`, which moves rows between ids, is in `Inventory` and
`SarStore`. Left out: findings and their
wording, timelines, hotspots, memory figures, `now_ts` in demo mode.

**KafkaHealth, Kafka.** A log line is the set of patterns it matches and perhaps a
time; `Parse` gives it the category of the first pattern and keeps a bounded
number of events. `Merge` is the row a pass or an upload stores: the latest row,
the scrape over it, raised by what the text counts. `PassLoads` is
`ingest_kafka_node` up to its transaction (scrape, tail, latest row), `PassStores`
the transaction, `PassFails` its failure. An upload with a hit is one step (`Upload`):
its first INSERT takes the write lock before the latest row is read. One without a
hit inserts nothing before that read (kafka_ingest.py:196-198), so `UploadReads` and
`UploadWrites` are two, and `UploadFails` may come between; a node has one such upload
at a time. `Prune` is the tick's retention, which takes no account of scrapes. Two passes of a node may be under way, as the
tick's Kafka pass runs after the cluster is released. The page side is
`current_kafka_snapshot` (`Health`, `NodeCauses`), `cluster_kafka_overview`
(`ClusterStatus`, `Chart`) and `evaluate_realtime_alerts` (`NodeAlerts`,
`RealtimeStatus`). Of a host the two read different things: `HostAlerted` is its last
row for two hours from the start of its bucket (store.py:1457), `HostShown` the day's
aggregates while its last sample is within `SAR_SOURCE_MAX_AGE_S` (store.py:534).

**Install.** One action per function of `install-offline.sh`, split where a failure
in its middle leaves something else: `Backup` moves one item, `Write` has a half
written item, `Discard` removes one backup. `Fail` is the `set -e` exit through
the EXIT trap and `RollbackBegins` the branch it takes; `RollbackFails` is a
command of the rollback that fails; `Kill` is a signal or a lost machine, after
which no rollback happens: bash runs the EXIT trap on SIGTERM, SIGHUP and SIGINT,
but with the status of the last command, so `installation_exit` sees 0.
`Begin` may follow any run that did not complete, and so may `Boot`: systemd starts
the units that line 682 enabled, whatever the run left; `enabled` is not undone by a
rollback. `accounts` is `users.json` in the application and in the configuration
directory, where it can be the accounts of the earlier version ("old"), others, the
link of line 463, or that link moved onto its own target ("loop"); `Migrate` moves
links like files (line 257) and nothing when the application directory is a link
(line 272). `Seed` is `load_users` of the earlier version, which makes default accounts
where it finds no file (auth.py:67-69). `torn` records whether a run stopped in one of
three windows (`Window`: the backup, its rollback, the writing of the unit files) and
whether a boot followed. The model starts from an installed version, with or without
accounts; what comes before the capture of the services changes nothing that it has.

State and actions correspond to the code line by line in `PROJECT.json`, `map`.

## 3. What TLC checks

| Run | Instance and bounds | What it shows |
|---|---|---|
| `gc_tick` | the tick alone, 3 lines, 2 files and one archive path, minutes 0-3, retention 2, JVM restarts in place, crashes | `AcknowledgedIsRecorded`, `SkippedIsReported`, `NoSplitPause`, `NoDoubleCount`, `EvidenceKept`, `TypeOK` |
| `gc_live` | tick and one job (automatic mode), same minute allowed, failures, aborted ticks and crashes before the last minute, 2 lines, 2 files | `EventuallyRecorded` |
| `jobs` | two jobs, one tick, cancellations, one removal | `CancelledNeverCollects`, `GuardHeld`, `OutcomeIsFinal`, `TypeOK` |
| `jobs_live` | one job, one tick, cancellation, one removal | `AcceptedJobEnds` |
| `sar` | two instances, three times in two buckets, corrected and completed samples | `RollupsAgree`, `WindowExact`, `ShowsHistory` (refinement), `TypeOK` |
| `settings` | two threads, three configs or a broken file, one permit, two edits or restarts | `ShownResultIsOfShownConfig`, `SlotsConserved`, `ReplacesWhatItChecked`, `RequestsEnd`, `TypeOK` |
| `inventory` | two clusters, two nodes, any history under older ids, four requests, ticks or restarts | `OwnHistory`, `OneRowPerHost`, `FollowsFiles`, `HistoryKept`, `TypeOK` |
| `fleet` | two brokers, three batches, whole-log reads in buckets of two hours at any time, retention of an hour, two host reports, hours 0-2 | `OkIsEarned`, `FullGcShown`, `PagesAgree`, `NoActionIsEarned`, `HostWindowExact`, `SameVerdictButPeak`, `ReplayStable` |
| `kafka` | a broker and a ZooKeeper node, tick and job passes, two passes, one upload with hits or without, retention of an hour | `OnlyScrapeClears`, `AlertsReachPage`, `ChartCoversPage` |
| `install` | three runs and the boots between them, from every mix of legacy state and accounts, two services | `PayloadKept`, `RunsWholePayload`, `RollbackIsExact`, `OldUsersKept` |

The bounds are the smallest at which the hazards happen. Three lines hold a
pause start, its end and another pause, so a cut can fall between them; two
files and one archive path let a file be renamed under a pass and an offset outlive
the path it was stored for; four minutes with a retention of two let a row expire
and two not. Two minutes suffice where two passes must meet in one. In `gc_live` a second actor
matters and not a long log; its job is submitted in the first minute (`LastSubmit`).
Two buckets of two
times, and a third time in the second bucket, let a report straddle a boundary,
a window start inside a bucket and retention fall inside one. One permit and two
threads make the second test busy; two edits let a config be replaced and come
back. Four beginnings in `inventory` are a start, an edit, a second operation
that overlaps it and one more that repairs or removes. Its two nodes have their
index numbers swapped, so that an `index` id of one node can be computed for the
other's position. In `fleet` an hour is the limit of the alert window, of a source's
age, of a day and of retention, so that each of them is left and entered within three
hours; three batches are one on each broker and one more that hides, follows or
replaces it; a bucket of two hours starts before the hour of the newest pause in it; the batches are a clean one whose heap peaks above the limit, one with a Full GC and one
of skipped records only, the reports one with durations and one without that lacks
a signal. In `kafka` the cap on events and the tail are two, so that newer events
crowd older ones out, a row is fresh for an hour, a host's report on the page
for none after its own, and a chart's bucket holds two. Three runs of the installer are one that stops, one that meets what it left and
stops too, and one more; boots come between any two. Symmetry is used where no property distinguishes the elements, and never
with a liveness property.

Violations are disagreements between the code and what it says of itself; each
is described under `findings`:

| Run | Property | In short |
|---|---|---|
| `jobs_leak` | `FlagHasHolder` | an insertion into `JOBS` while the tick iterates over it leaves clusters marked for ever |
| `kafka_prometheus` | `OnlyStoreFails` | a pass of a node with a Prometheus URL calls a function that does not exist: no scrape, no log, no row |

### Disagreements kept out of the runs

The passing runs state conditions under which the code does what it says. Where a
condition is dropped, a property fails; to see it, change the constant or the line
named here.

| Change | Then fails | Because |
|---|---|---|
| `IdentityReuse = TRUE` in `MCGcTick.cfg` | `AcknowledgedIsRecorded` | a new log with a freed inode number is resumed in its middle (collector.py:131), though a log is read "from where it left off" (scheduler.py:6) |
| `SplitMinute = TRUE` in `MCGcTick.cfg` | `EvidenceKept` | two passes in a minute: the second row replaces the first (store.py:293) while the offsets move on |
| a `FollowsFiles` without `drifted` | the property | a file write (app.py:794) and its sync are two steps without a lock or an undo: overlapping edits leave the instances of one list and the file of another, and so does one edit whose sync raises after the write (app.py:719, 793) or one removal whose `os.remove` does (app.py:860), though the files are "the fleet inventory source of truth" (app.py:526) |
| a batch without a heap in `FewBatches`, or `SameVerdictButPeak` without its allowance | `SameVerdictButPeak` | a row has neither the heap's peak nor whether a heap was seen (ingest.py:59, store.py:705), though a node is said to be "judged the same way" from a log and from the store (store.py:25): without heap data the analyzer gives no grade and the store one |
| `NoDoubleCount` without its exception for `torn` | the property | a pass lists the paths once and then reads them one by one (collector.py:306-332): a file renamed in between is not read, its offset is not carried on, and the next pass reads it from its start |
| `AlertsReachPage` for every node, not only brokers | the property | under-replicated partitions in a row of a ZooKeeper node are an alert (`evaluate_realtime_alerts`), and no cause on the page, which asks brokers only (store.py:1393) |
| `FullGcShown` counting a pause from its event instead of its row | the property | a whole-log read may group by hours (`auto_bucket_s`, analyzer.py:404-423): a Full GC of the last hour is then in a row that starts before it, and the last-hour alerts read rows by their start (store.py:783) |
| `ReplayStable` without its first exception | the property | a job with `collect_mode` "full" reads the logs from their beginning and replaces rows at past bucket starts (ingest.py:265-295, store.py:293): a Full GC of the last hour can move into an earlier row or, where its log is gone, disappear, and a page about the past changes |
| `AlertsReachPage` without `clock - host[i].seen <= SarMaxAge` | the property | the alerter counts a host's last row for two hours (store.py:1457), the page its report for `SAR_SOURCE_MAX_AGE_S` (store.py:534): with a smaller setting the alerter sees a swapping host and the page names no cause |
| `OnlyScrapeClears` without "what was read before" (`existing`, `upload`) | the property | a pass (kafka_ingest.py:106) and an upload without a hit (198) read the latest row before they hold a lock: a row written in between is replaced by a copy of the older one |
| `RunsWholePayload` without `torn` | the property | a boot after a run that stopped in a `Window` starts the enabled units on a payload that is not whole |
| the invariant `ended = "completed" => accounts.etc # "loop"` in `MCInstall` | that invariant | without earlier accounts a run that stopped after line 463 leaves a link to a users file that is not there; the next run moves it onto its own target (257, 291), finds "a file" (500) and completes without users, though "Fresh installations generate unique passwords" (offline/README.md:75) |
| `RemovalFails = TRUE` in `MCInstall.cfg` | `PayloadKept`, `RunsWholePayload`, `RollbackIsExact` | a removal of the backup that fails half way (install-offline.sh:410) runs the EXIT trap, which removes the new payload and puts back what is left of the old |

So `gc_tick` and `gc_live`
have `IdentityReuse = FALSE` (every new log has a new inode number), and
`NoDoubleCount` and `EvidenceKept` are checked where passes neither overlap nor
share a minute (`SplitMinute = FALSE`). A fourth condition: with
`RestartInPlace = TRUE` a pause that a dying JVM left unfinished holds back the
rest of its file until rotation, so `gc_live` sets it to `FALSE`.

`inventory` has conditions of its own: node names stay different when
`_instance_id_for` replaces their special characters (`Safe` is injective; with
names that collide, the suffix depends on the position and an edit can merge two
histories), cluster names have different file names (`Slug`), every node name
ends in a number of its own (`Number`), and no list names a node twice (the
theorems' `NamesDiffer` and `SlugsDiffer`).
`FollowsFiles` and `HistoryKept` leave out the clusters in `drifted`.

Seen in the models, without a run: a tick that loaded its offsets before a
job committed counts the job's pauses again (`NoDoubleCount` with a job); results of a cluster named `a` land in the job entry of `a-b`
(app.py:200); `remove_cluster` looks at no running job (app.py:855); of two
watermarks, `migrate_instance` keeps the older one (store.py:987). Of Kafka: the
exporter's `produce_p99_ms` and `fetch_consumer_p99_ms` (kafka_ingest.py) are no
columns of the table and are dropped; every pass stores the events of the same tail
again; stalls in the row and in the events are added up; a row carried forward counts
as fresh however old its values are, and the overview sums rows of any age; the first
250 events of a text are kept, not the last; a late pass replaces an upload of the
same minute (the exception in `OnlyScrapeClears`); ZooKeeper's latency alone can make
the alerter critical and leave the overview "ok". Of the installer: a signal leaves
the payload in a backup directory that no later run looks into, with the services
down until a boot; a rollback undoes neither the move of legacy state, nor the links of
lines 463-466, nor `systemctl enable`, nor `/usr/local/sbin/gc-analyzerctl`, nor what
`cp -a` (line 422) overwrites outside `REPLACE_PATHS`: `prometheus.example.json` and
`offline/README.md` (app-files.txt:16-17); `RollbackIsExact` is about `REPLACE_PATHS` and
the services. Once `users.json` was moved, a rolled back earlier version that looks
beside itself seeds default accounts there (auth.py:67-69) when it starts, and the
next run keeps both files and fails at the link (435). Where the
application directory is a link and nothing is migrated, a retry after the generated
passwords were written but no users file fails at line 525, which creates exclusively.

**Fairness.** `GcCollection`: `scheduler_loop` catches every exception and never
stops, so the tick's next step is always taken (`WF_vars(TickStep)`), an accepted
job's thread runs to its end (`WF_vars(JobRun(j))`), and the clock
advances; failures, aborted ticks and crashes are not fair and are only kept out of
the last minute, since a system that fails for ever records nothing. A mark that an
aborted tick left keeps every pass away (finding `jobs_leak`): `EventuallyRecorded`
asks for recording unless the cluster stays so marked for ever (`Leaked`). `JobControl`: the
event loop, the tick thread and each pool thread keep running (WF each).
`PrometheusSettings`: WF for every thread's next step (a probe has a killable
deadline of its own) and SF for taking the lock, as `flock` serves its waiters in
turn. Starting a request, an edit, a restart or a removal is never fair.

`CHECK_DEADLOCK FALSE` everywhere: the bounds on lines, minutes, jobs and edits
stop the explored instances, and a system without requests is idle.

## 4. What is proved

The theorems hold for all values of the constants that satisfy the named
assumptions and the condition in the third column.

| Module | Theorem: what it states | Condition |
|---|---|---|
| `GcCollectionProofs` | `TypeCorrect`: `[]TypeOK` | |
| | `NoSilentLoss`: `[]AcknowledgedIsRecorded` | `IdentityReuse = FALSE` |
| | `PausesStayWhole`: `[]NoSplitPause` | `IdentityReuse = FALSE` |
| | `RejectedStayReported`: `[]SkippedIsReported` | `IdentityReuse = SplitMinute = FALSE` |
| | `RowsKeepPauses`: `[]EvidenceKept` | `Jobs = {}`, `SplitMinute = FALSE` |
| | `PausesCountOnce`: `[]NoDoubleCount` | `Jobs = {}`, `IdentityReuse = FALSE` |
| `JobControlProofs` | `JobsTypeCorrect`: `[]TypeOK` | |
| | `NoCollectionAfterCancel`: `[]CancelledNeverCollects` | |
| | `CollectionIsGuarded`: `[]GuardHeld` | |
| | `OutcomesAreFinal`: `OutcomeIsFinal` | |
| `SarStoreProofs` | `StoreTypeCorrect`: `[]TypeOK` | |
| | `RollupsAlwaysAgree`: `[]RollupsAgree` | |
| | `WindowsAlwaysExact`: `[]WindowExact` | |
| | `StoreShowsHistory`: `SarStore` implements `HostHistory` | |
| `PrometheusSettingsProofs` | `SettingsTypeCorrect`: `[]TypeOK` | |
| | `PermitsConserved`: `[]SlotsConserved` | |
| | `ShownResultsBelong`: `[]ShownResultIsOfShownConfig` | |
| | `NoLostUpdate`: `ReplacesWhatItChecked` | |
| `InstallProofs` | `OldUsersNeverReplaced`: `OldUsersKept` | |
| | `OnePayloadIsKept`: `[]PayloadKept` | `RemovalFails = FALSE` |
| | `OnlyWholePayloadsRun`: `[]RunsWholePayload` | `RemovalFails = FALSE` |
| | `RollbacksAreExact`: `[]RollbackIsExact` | `RemovalFails = FALSE` |
| `KafkaProofs` | `TypeCorrect`: `[]TypeInv` | |
| | `WarningsStay`: `OnlyScrapeClears` | |
| | `ChartsCover`: `[]ChartCoversPage` | |
| | `AlertsReach`: `[]AlertsReachPage` | |
| `InventoryProofs` | `TypeCorrect`: `[]TypeOK` | |
| | `HistoryIsOwn`: `[]OwnHistory` | `NamesDiffer` |
| | `HostsAppearOnce`: `[]OneRowPerHost` | `NamesDiffer` |
| | `InstancesFollowFiles`: `[]FollowsFiles` | `NamesDiffer`, `SlugsDiffer` |
| | `HistoryStaysVisible`: `HistoryKept` | `NamesDiffer`, `SlugsDiffer` |
| `FleetProofs` | `PagesAndTreeAgree`: `[]PagesAgree` | `OneClusterPerName` |
| | `FullGcsAreShown`: `[]FullGcShown` | |
| | `GreenIsEarned`: `[]OkIsEarned` | |
| | `AdviceIsEarned`: `[]NoActionIsEarned` | |
| | `ReplaysAreStable`: `ReplayStable` | |
| | `HostWindowsAreExact`: `[]HostWindowExact` | |
| | `VerdictsAgree`: `[]SameVerdictButPeak` | |

The conditions are those under which the code does what is claimed; section 3 tells
what happens without each. `IdentityReuse = FALSE` says that a new log file has an
inode number no file had before, `SplitMinute = FALSE` that no two passes of an
instance fall into one minute, `Jobs = {}` that the scheduler alone collects,
`RemovalFails = FALSE` that an `rm -rf` of a backup does not stop half way.
`OneClusterPerName` says that a cluster's name stands for one place in the tree, as
the cluster files give it; the page looks a cluster up by its name alone.
`NamesDiffer` says that two nodes have different names after `_instance_id_for`
replaced their special characters, that each has a number and no two the same one,
and that no list names a node twice: without it two hosts can share an id, the
present one or the one by index, and adopting it gives one of them the other's
history. `SlugsDiffer` says that the file of a cluster has neither the name nor the
slug of another, so that an edit or a removal touches one cluster. Each is also the
setting of the run that checks the property.

The assumptions on constants say what the values stand for: paths, actors, jobs and
clusters are distinct (`PathAssumption`, `ActorAssumption`, `NameAssumption`), limits
are numbers and the windows are nested as the code's are (`BoundAssumption`,
`WindowAssumption`: the hour within the age of fresh evidence within the day; the day
within retention), a
missing value is no number, scrapes, log lines, batches and reports have the shape of
their tables (`KafkaAssumption`, `FleetAssumption`; a host's peaks of the day are no
less than its last row), the kinds of state that the installer moves are distinct and
a missing item is none of the values of one (`InstallAssumption`), there are finitely many nodes,
and of the inventory that clusters are finitely many and each has a slug, lists name
nodes and at least one, and a node's index is a number (`ClustersAreFinite`,
`NodesAreNamed`, `ListsDeclareNodes`, `ClustersHaveSlugs`, `NumbersAreNaturals`,
`StartsAreCounted`).

*GC collection.* `TypeOK` is not inductive: a position read from a file is a
position of the stream only because files are intervals of it and the open file
is the last one (`FilesInv`). For `NoSilentLoss` the invariant is `IInv`: every
file has its own inode (`FreshInodes`); every pause before a stored offset is
committed (`OffsetsInv`); and for every pass, what it loaded is covered in the
same sense and what it will store is covered by commits *together with the lines
it holds* (`PassFor`). The last clause is what makes a commit preserve the
second, whatever other passes did in between; written lines never change and
commits only add up, so coverage is stable (`CoveredStable`).

`PausesStayWhole` adds `StreamInv`, which says how the JVM writes (a pause has one
end, no other starts before it, the open one is the last), and `EndedInv`: whatever
starts before an offset, stored, loaded or about to be stored, ends before it. The
argument for a cut is that the first unfinished pause of a file is where
`IsCompletePrefix` stops. `RejectedStayReported` and `RowsKeepPauses` share
`MinuteInv` (passes that may still commit have different minutes) and `EvidenceInv`
(no pass will commit under the minute of an earlier commit, and what was committed
shows in that minute's rows until retention drops it). `PausesCountOnce` needs
`CountInv`: a file has one path, files follow each other (`LayoutInv`); a pause that
a row counts lies behind a stored offset (`RowsInv`); and of a pass under way, each
file it read before it has read again, or will, or the file lost its path to a
rotation meanwhile (`ListedInv`), which is where `torn` enters.

*Collection control.* `JobControl`'s `IInv` says where the tick can stand
(`TickInv`: it has marked what it processes), what a cancellation means for the
place of its job (`JobInv`: a job whose cancellation was answered while it was
queued has not begun to collect, or is done), and that a cluster
with a holder is marked and one with two was overlapped (`HoldInv`).

*Host metrics.* The invariant says that the host table is a function of the
samples (`Derived`). Each operation is shown to recompute every bucket in which a
sample changed; the arithmetic is that of the bucket grid. Windows and the
refinement follow: under `Derived` the rows show exactly the samples.

*Settings.* `Exclusive` says that a save past its check is the only lock holder,
`CheckedStays` that the revision it checked is still the file's unless somebody
edited the file by hand, `CacheFaithful` that a result is kept under the config
that was probed. The cardinality of the running tests is handled with the library's
theorems on finite sets.

*Installer.* `PlaceInv` says, phase by phase, where the payload that the run found
is: in place before the backup, in the run's own backup directory while the new one
is written (`Armed`), and item by item in one of the two while `Backup` moves it or
the rollback puts it back (`Split`). `PayloadKept` and `RollbackIsExact` are conjuncts
of it and are not inductive without it. `RunsWholePayload` adds what a boot can find
(`Bootable`): outside the windows the unit files are there only beside a whole payload.
`RunningInv` carries it, and what was up when a run began, through the run. Of the
accounts `UsersInv` says that past the links stage the application directory has a
link: the earlier accounts, if they are anywhere, are then where it leads.

*Kafka.* `TypeInv` carries that every row and every pass under way holds numbers
where the arithmetic needs them. `WarningsStay` follows `Merge` column by column and
uses that a pass's row is the one it loaded; `ChartsCover` that the bucket of the
newest row contains that row; `AlertsReach` compares the four sets of limits, for
rows and sums over any number of nodes.

*Pages.* `FleetProofs`' `Inv` ties the tables to the evidence: rows and outcomes are
those of the batches, each at a time of its own, and only the oldest row may be
earlier than its collection (`Kept`); host rows are the rollups of the samples of
their time (`Rolled`). `PagesAndTreeAgree` shows first that rolling statuses up level
by level is rolling them up at once (`TreeIsFlat`). `GreenIsEarned` and
`AdviceIsEarned` go from a "fresh" quality back to the newest batch. Of
`HostWindowsAreExact` the core is that numbers, sums of durations, weighted sums and
maxima over the rows of a day are those over all samples, numbered by row and place
(`OnceIs`, `StatsAddUp`); of `VerdictsAgree` that a window of one row has that row's
values (`OneRow`) and that the peak's penalty is all that separates the two scores
(`SparedPeak`).

*Inventory.* `IInv` has four parts. `TypeInv` adds to the types what is in flight
carries. `HistInv` says that rows and measurements are under one of the four ids of
their own host (`Own`: present, by index, by name, or of any other origin) and that
of the older ids one at most is in use (`Tame`), which is what the adoption of one
older id per node relies on. `StartInv` says that after the start every row is under
its host's present id (`Settled`), from which `OneRowPerHost` is immediate, and
before it only clusters with files have rows. `FollowInv` says what the operations in
flight know: on a cluster that has not drifted an edit is alone, each operation has
the list of the file, and the rows are those of the file unless an edit is about to
make them so.

`Sync` goes through a node list twice, and the startup sync through the files; each
is a recursive function over positions. `LegacyUnfolds`, `RowsUnfold` and `AllUnfolds`
show that the function exists and unfolds, and `AllAdopted` that a chain of merges,
one per node, loses nothing of a host and leaves what is under the present ids:
`Migrate` empties only ids of the node's own host (`IdsApart`). `SyncIs` sums up what
a sync leaves (`Synced`), `AllCleanIs` what the startup sync leaves (`AllClean`), and
from these the steps are short. `HistoryStaysVisible` uses that the list of an
operation on a cluster that has not drifted is that of its file (`ListIsDeclared`).

Facts about maxima, minima, sums over sets and their parts stand first in
`FleetProofs`; `KafkaProofs` and `SarStoreProofs` have the few they need of their
own. Induction cannot be cited there or in `InventoryProofs` (the library's theorems
take an operator, which the provers cannot instantiate), so each of these lemmas
takes a least set, or number, for which it fails, by the well-foundedness of the
strict subset order, and contradicts it.

Only model-checked: the liveness properties (`EventuallyRecorded`,
`AcceptedJobEnds`, `RequestsEnd`), which are beyond the prover.

## 5. Not modelled, and the plan

Out of scope: floating-point statistics (Theil-Sen, correlation, isolation forest),
the text formats of SAR, Prometheus and Kafka logs, rounding to displayed digits,
findings and their wording, the frontend, bundle building. Hazards of parts that are
not modelled: login failures are counted in two steps without a lock (auth.py:104);
`users.json` is rewritten in place, so a crash can truncate it (auth.py:74); a PID
file outlives its process or loses it after a failed health wait (manage-app.sh:274);
`delete_instance` and `migrate_instance` leave `ml_models` alone, and the latter the
Kafka tables (store.py:949); progress of a job is rewritten by host and Kafka passes
after it ended (app.py:223). In this order could follow:

1. `RecordCut`: `complete_prefix` over bytes and formats, against the definition
   `GcCollection` uses.
2. `Forecast`: coverage and confidence gates of `forecast.py` over rows of `Fleet`.
3. `AppControl` and `Access`: PID file and health wait; login limiter, users file,
   investigation semaphore.
