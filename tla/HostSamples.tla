----------------------------- MODULE HostSamples -----------------------------
(* Host samples, their merging by time, and the fixed bucket grid. *)
EXTENDS Integers

CONSTANTS
  Instances,   \* instance ids
  Fields,      \* measurements of one sample, those of each device included
  Values,      \* what a field may hold
  None,        \* a field the sample does not have
  NoSample,    \* no sample at this time
  Bucket,      \* HOST_BUCKET_SECONDS
  MaxTime,     \* bound: the last sample time
  Reports      \* what collections and uploads may parse to

ASSUME BucketAssumption  == Bucket \in Nat \ {0} /\ MaxTime \in Nat
ASSUME AbsenceAssumption == None \notin Values /\ NoSample \notin [Fields -> Values \cup {None}]

Times   == 0 .. MaxTime
Sample  == [Fields -> Values \cup {None}]
\* The samples of one instance, or those of one parsed report.
Series  == [Times -> Sample \cup {NoSample}]

ASSUME ReportAssumption == Reports \subseteq Series

Empty   == [t \in Times |-> NoSample]

\* Fields a sample has replace the stored ones, the others stay.
Merged(old, incoming) ==
  [f \in Fields |->
     IF incoming[f] # None THEN incoming[f] ELSE IF old = NoSample THEN None ELSE old[f]]

Overlay(series, report) ==
  [t \in Times |-> IF report[t] = NoSample THEN series[t] ELSE Merged(series[t], report[t])]

\* The grid: the bucket a time falls in, and the first bucket not before it.
Floor(t) == (t \div Bucket) * Bucket
Ceil(t)  == ((t + Bucket - 1) \div Bucket) * Bucket
Grid     == {Floor(t) : t \in Times}

=============================================================================
