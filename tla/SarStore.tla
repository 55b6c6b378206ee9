------------------------------ MODULE SarStore ------------------------------
(***************************************************************************)
(* Host metrics in the store: sparse samples keyed by time (sar_samples),  *)
(* one rollup row per fixed bucket (host_metrics) and a progress watermark *)
(* (sar_collector_state).  Each operation is one transaction; what can go  *)
(* wrong is a sequence of them that leaves a rollup row out of step with   *)
(* the samples under it.                                                   *)
(*                                                                         *)
(* Data abstraction.  A rollup row is the samples it was computed from.    *)
(* Devices are flattened: "util_pct of disk sda" is one field.             *)
(***************************************************************************)
EXTENDS HostSamples

CONSTANT NoRow   \* no rollup row for this bucket

VARIABLES
  samples,   \* table sar_samples: instance -> time -> sample
  host,      \* table host_metrics: instance -> bucket -> row
  last_ts    \* table sar_collector_state: instance -> watermark, -1 for none

vars == <<samples, host, last_ts>>

InBucket(b) == {t \in Times : Floor(t) = b}
Rows(b)     == [InBucket(b) -> Sample \cup {NoSample}]

ASSUME RowAssumption == \A b \in Grid : NoRow \notin Rows(b)

\* Mutant: the bucket's last sample is also the first of the next (ts <= end).
RollupClosed(series, b) ==
  IF \A t \in InBucket(b) : series[t] = NoSample THEN NoRow
  ELSE [t \in {u \in Times : b <= u /\ u <= b + Bucket} |-> series[t]]

\* _rollup, and no row for a bucket without samples.
Rollup(series, b) ==
  IF \A t \in InBucket(b) : series[t] = NoSample THEN NoRow
  ELSE [t \in InBucket(b) |-> series[t]]

Present(series) == {t \in Times : series[t] # NoSample}
NoRows == [b \in Grid |-> NoRow]

Init ==
  /\ samples = [i \in Instances |-> Empty]
  /\ host = [i \in Instances |-> NoRows]
  /\ last_ts = [i \in Instances |-> -1]

\* Mutant: only buckets that got a sample they did not have are recomputed.
AffectedByNew(old, merged) == {Floor(t) : t \in Present(merged) \ Present(old)}

\* record_sar_samples: the buckets of the samples whose payload changed.
Affected(old, merged) == {Floor(t) : t \in {u \in Times : merged[u] # old[u]}}

\* recompute_host_buckets.
Recomputed(rows, merged, affected) ==
  [b \in Grid |->
     IF b \in affected /\ Rollup(merged, b) # NoRow THEN Rollup(merged, b) ELSE rows[b]]

MaxOf(S) == CHOOSE t \in S : \A u \in S : u <= t

\* record_parsed_sar: a collected or an uploaded report with some sample.
RecordSar(i, report) ==
  LET merged == Overlay(samples[i], report)
      newest == MaxOf(Present(report))
  IN /\ Present(report) # {}
     /\ samples' = [samples EXCEPT ![i] = merged]
     /\ host' = [host EXCEPT ![i] = Recomputed(@, merged, Affected(samples[i], merged))]
     /\ last_ts' = [last_ts EXCEPT ![i] = IF newest > @ THEN newest ELSE @]

\* Mutant: host rows are only moved, not recomputed.
MoveOnly(old, new) ==
  LET merged == Overlay(samples[new], samples[old])
      moved  == [b \in Grid |-> IF host[new][b] # NoRow THEN host[new][b] ELSE host[old][b]]
  IN /\ old # new
     /\ samples' = [samples EXCEPT ![new] = merged, ![old] = Empty]
     /\ host' = [host EXCEPT ![new] = moved, ![old] = NoRows]
     /\ last_ts' = [last_ts EXCEPT ![new] = IF @ = -1 THEN last_ts[old] ELSE @, ![old] = -1]

\* migrate_instance: samples merge, rows and the watermark move where the new
\* identity has none (UPDATE OR IGNORE), the changed buckets are recomputed.
Migrate(old, new) ==
  LET merged == Overlay(samples[new], samples[old])
      moved  == [b \in Grid |-> IF host[new][b] # NoRow THEN host[new][b] ELSE host[old][b]]
  IN /\ old # new
     /\ samples' = [samples EXCEPT ![new] = merged, ![old] = Empty]
     /\ host' = [host EXCEPT ![new] = Recomputed(moved, merged, Affected(samples[new], merged)),
                             ![old] = NoRows]
     /\ last_ts' = [last_ts EXCEPT ![new] = IF @ = -1 THEN last_ts[old] ELSE @, ![old] = -1]

\* Mutant: samples are cut at the retention limit itself.
PruneAtLimit(before) ==
  /\ host' = [i \in Instances |-> [b \in Grid |-> IF b < before THEN NoRow ELSE host[i][b]]]
  /\ samples' = [i \in Instances |-> [t \in Times |-> IF t < before THEN NoSample ELSE samples[i][t]]]
  /\ UNCHANGED last_ts

\* prune_before: rows of buckets before the limit, samples of the same buckets.
PruneBefore(before) ==
  /\ host' = [i \in Instances |-> [b \in Grid |-> IF b < before THEN NoRow ELSE host[i][b]]]
  /\ samples' = [i \in Instances |->
       [t \in Times |-> IF t < Ceil(before) THEN NoSample ELSE samples[i][t]]]
  /\ UNCHANGED last_ts

\* delete_instance.
DeleteInstance(i) ==
  /\ samples' = [samples EXCEPT ![i] = Empty]
  /\ host' = [host EXCEPT ![i] = NoRows]
  /\ last_ts' = [last_ts EXCEPT ![i] = -1]

Next ==
  \/ \E i \in Instances : \E report \in Reports : RecordSar(i, report)
  \/ \E old, new \in Instances : Migrate(old, new)
  \/ \E before \in Times : PruneBefore(before)
  \/ \E i \in Instances : DeleteInstance(i)

Spec == Init /\ [][Next]_vars

-----------------------------------------------------------------------------
(* Reading a window *)

\* host_window_rows: the rows whose bucket touches since .. until.
WindowBuckets(i, since, until) ==
  {b \in Grid : Floor(since) <= b /\ b <= until /\ host[i][b] # NoRow}

Observed(row) == {t \in DOMAIN row : row[t] # NoSample}

\* _bounded_host_row: a row within the window as it is, another one rolled up
\* again from its samples within the window.
Bounded(i, b, since, until) ==
  IF \A t \in Observed(host[i][b]) : since <= t /\ t <= until THEN Observed(host[i][b])
  ELSE {t \in InBucket(b) : samples[i][t] # NoSample /\ since <= t /\ t <= until}

Window(i, since, until) ==
  UNION {Bounded(i, b, since, until) : b \in WindowBuckets(i, since, until)}

-----------------------------------------------------------------------------
(* Properties *)

TypeOK ==
  /\ samples \in [Instances -> Series]
  /\ \A i \in Instances : DOMAIN host[i] = Grid /\ \A b \in Grid : host[i][b] \in Rows(b) \cup {NoRow}
  /\ DOMAIN host = Instances
  /\ last_ts \in [Instances -> Times \cup {-1}]

\* A rollup row is at all times the rollup of exactly the samples stored for
\* its bucket, and a bucket has a row if and only if it has samples: after late,
\* repeated and corrected reports, migrations and retention in any order
\* (record_sar_samples, migrate_instance, prune_before).
RollupsAgree == \A i \in Instances : \A b \in Grid : host[i][b] = Rollup(samples[i], b)

\* A window query sees every sample of the window and none outside it.
WindowExact ==
  \A i \in Instances : \A since, until \in Times :
    since <= until =>
      Window(i, since, until) = {t \in Present(samples[i]) : since <= t /\ t <= until}

\* The rollup rows alone show what HostHistory promises.
ShownObs ==
  [i \in Instances |-> [t \in Times |->
     IF host[i][Floor(t)] = NoRow THEN NoSample ELSE host[i][Floor(t)][t]]]

History == INSTANCE HostHistory WITH obs <- ShownObs

\* Whatever reports come, late, overlapping or twice, and whatever identities
\* are migrated, the rows show the latest value reported of every field.
ShowsHistory == History!Spec

=============================================================================
