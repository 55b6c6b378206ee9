---------------------------- MODULE GcCollection ----------------------------
(***************************************************************************)
(* Incremental GC-log collection for one instance: the log files a JVM     *)
(* appends to and rotates, the offsets kept in collector_state, the        *)
(* scheduler's tick and the onboarding jobs that read the files and commit *)
(* metric rows together with the offsets.                                  *)
(*                                                                         *)
(* Data abstraction.  The JVM's output is one sequence of lines, `stream`; *)
(* a line is named by its position there, and a file is an interval of     *)
(* positions.  Offsets count lines instead of bytes: complete_prefix only  *)
(* ever cuts after a newline.  A line whose newline is not yet written is  *)
(* the same to every reader as a line not yet appended.  A metric row is   *)
(* the set of pauses it summarises.                                        *)
(***************************************************************************)
EXTENDS Integers, Sequences, FiniteSets

CONSTANTS
  Current,         \* path the JVM writes to
  Archives,        \* paths a rotated log is renamed to
  Jobs,            \* onboarding jobs (POST /api/clusters)
  Tick,            \* the scheduler's pass
  Modes,           \* collect_mode values the jobs use: "auto", "full"
  RestartInPlace,  \* may a JVM die in a pause and its successor append to the same file?
  IdentityReuse,   \* may a new log carry the inode number of an older one?
  SplitMinute,     \* may two passes fall in the same minute?
  Retention,       \* minutes a metric row is kept (GC_RETENTION_DAYS)
  MaxLines, MaxFiles, MaxMinute,  \* bounds of the explored instance
  LastSubmit       \* no job is submitted after this minute

Paths  == {Current} \cup Archives
Actors == Jobs \cup {Tick}

ASSUME PathAssumption  == Current \notin Archives
ASSUME ActorAssumption == Tick \notin Jobs
ASSUME ModeAssumption  == Modes \subseteq {"auto", "full"}
ASSUME FlagAssumption  == RestartInPlace \in BOOLEAN /\ IdentityReuse \in BOOLEAN /\ SplitMinute \in BOOLEAN
ASSUME BoundAssumption ==
  /\ Retention \in Nat /\ MaxLines \in Nat /\ MaxFiles \in Nat /\ MaxMinute \in Nat
  /\ LastSubmit \in Nat

VARIABLES
  stream,    \* every line the JVM wrote
  files,     \* every log file ever created: its inode and its interval
  dir,       \* which file each path names, 0 for none
  open,      \* GC number of the pause in progress, 0 for none
  torn,      \* history: lines of files renamed between a pass's listing and its reading
  minute,    \* wall clock, floored to the minute
  offsets,   \* table collector_state: path -> inode and offset
  metrics,   \* table metrics: minute -> pauses summarised by that row
  quality,   \* table gc_collection_quality: minute -> outcome
  recorded,  \* history: <<line, minute>>, what each committed row stood for
  pass,      \* what each actor holds in memory
  running,   \* is the cluster in RUNNING_CLUSTERS?
  lastPass   \* last minute in which a pass started

logVars == <<stream, files, dir, open, torn>>
dbVars  == <<offsets, metrics, quality, recorded>>
vars    == <<stream, files, dir, open, torn, minute, offsets, metrics, quality,
             recorded, pass, running, lastPass>>

-----------------------------------------------------------------------------
(* Lines, files, offsets *)

Kinds == {"start", "pause", "note", "bad"}
Minutes  == 0 .. MaxMinute
Line  == [kind : Kinds, gc : Nat, at : Minutes]
File  == [ino : Nat, first : Nat, size : Nat]
Entry == [ino : Nat, offset : Nat]

NoEntry  == [ino |-> 0, offset |-> 0]     \* no collector_state row; inodes are positive
NoRows   == [p \in Paths |-> NoEntry]
Outcomes == {"none", "unknown", "partial", "complete"}

Kind(i) == stream[i].kind

\* Mutant: the interval is shifted by one line.
SpanShifted(f, lo, hi) == (files[f].first + lo + 1) .. (files[f].first + hi + 1)

\* The stream positions of lines lo+1 .. hi of file f.
Span(f, lo, hi) == (files[f].first + lo + 1) .. (files[f].first + hi)

\* Mutant: a file read to its end is taken for a truncated one.
CandidatesBelowSize(prev, ino, size) ==
  {0} \cup {prev[p].offset : p \in {q \in Paths : prev[q].ino = ino /\ prev[q].offset < size}}

\* _previous_offset: the offset of any row, whatever its path, with this inode
\* and within the file's size; the beginning when there is none.
Candidates(prev, ino, size) ==
  {0} \cup {prev[p].offset : p \in {q \in Paths : prev[q].ino = ino /\ prev[q].offset <= size}}

IsResumePoint(start, prev, ino, size) ==
  /\ start \in Candidates(prev, ino, size)
  /\ \A c \in Candidates(prev, ino, size) : c <= start

\* Pause starts among lines lo+1 .. hi of f that no later line of them ends.
Unfinished(f, lo, hi) ==
  {i \in lo + 1 .. hi :
     LET at(n) == stream[files[f].first + n] IN
     /\ at(i).kind = "start"
     /\ \A j \in i + 1 .. hi : at(j).gc = at(i).gc => at(j).kind \notin {"pause", "bad"}}

\* Mutant: an unfinished pause does not hold its suffix back.
IsWholeDelta(keep, f, start, size) == keep = size

\* complete_prefix: everything, or everything before the first unfinished start.
IsCompletePrefix(keep, f, start, size) ==
  /\ keep \in start .. size
  /\ \A i \in Unfinished(f, start, size) : keep < i
  /\ keep = size \/ keep + 1 \in Unfinished(f, start, size)

-----------------------------------------------------------------------------
(* What a pass holds in memory *)

Idle == [phase |-> "idle", ts |-> 0, incremental |-> TRUE, prev |-> NoRows,
         todo |-> {}, seen |-> {}, got |-> {}, new |-> NoRows]

Phases == {"idle", "queued", "loaded", "reading", "released"}

Pauses(ids) == {i \in ids : Kind(i) = "pause"}
Skipped(ids) == {i \in ids : Kind(i) = "bad"}

Listed == {p \in Paths : dir[p] # 0}

Init ==
  /\ stream = <<>>
  /\ files = <<[ino |-> 1, first |-> 0, size |-> 0]>>
  /\ dir = [p \in Paths |-> IF p = Current THEN 1 ELSE 0]
  /\ open = 0 /\ torn = {}
  /\ minute = 0
  /\ offsets = NoRows
  /\ metrics = [m \in Minutes |-> {}]
  /\ quality = [m \in Minutes |-> "none"]
  /\ recorded = {}
  /\ pass = [a \in Actors |-> Idle]
  /\ running = FALSE
  /\ lastPass = -1

-----------------------------------------------------------------------------
(* The JVM and its log files *)

\* The file at Current is always the last interval of the stream.
WriteLine(kind, gc) ==
  LET f == dir[Current] IN
  /\ Len(stream) < MaxLines
  /\ stream' = Append(stream, [kind |-> kind, gc |-> gc, at |-> minute])
  /\ files' = [files EXCEPT ![f].size = @ + 1]
  /\ UNCHANGED <<dir, torn, minute, dbVars, pass, running, lastPass>>

NewGc == Len(stream) + 1

\* A log configured without [gc,start] prints only the summary.
LogPause == /\ WriteLine("pause", IF open = 0 THEN NewGc ELSE open)
            /\ open' = 0
LogStart == open = 0 /\ WriteLine("start", NewGc) /\ open' = NewGc
LogNote  == WriteLine("note", NewGc) /\ UNCHANGED open
\* A complete line the parser rejects; as a summary it retires its own start.
LogBad   == /\ WriteLine("bad", IF open = 0 THEN NewGc ELSE open)
            /\ open' = 0
\* The JVM dies inside a pause and a new one goes on in the same file.
JvmRestart == /\ RestartInPlace
              /\ open # 0
              /\ open' = 0
              /\ UNCHANGED <<stream, files, dir, torn, minute, dbVars, pass, running, lastPass>>

LiveInodes(d) == {files[d[p]].ino : p \in {q \in Paths : d[q] # 0}}

\* The current log is renamed to an archive path, dropping what was there, and
\* a new empty file takes its place.  File systems hand freed inode numbers out
\* again; IdentityReuse says whether that may happen.
Rotate ==
  \E slot \in Archives :
    LET kept == [dir EXCEPT ![slot] = dir[Current], ![Current] = 0]
        free == IF IdentityReuse
                  THEN {files[f].ino : f \in DOMAIN files} \ LiveInodes(kept)
                  ELSE {}
    IN /\ Len(files) < MaxFiles
       /\ \E ino \in free \cup {Len(files) + 1} :
            files' = Append(files, [ino |-> ino, first |-> Len(stream), size |-> 0])
       /\ dir' = [kept EXCEPT ![Current] = Len(files) + 1]
       /\ torn' = IF \E a \in Actors : Current \in pass[a].todo
                    THEN torn \cup Span(dir[Current], 0, files[dir[Current]].size) ELSE torn
       /\ UNCHANGED <<stream, open, minute, dbVars, pass, running, lastPass>>

NextMinute ==
  /\ minute < MaxMinute
  /\ minute' = minute + 1
  /\ UNCHANGED <<logVars, dbVars, pass, running, lastPass>>

-----------------------------------------------------------------------------
(* Passes: load the offsets, read the files, commit *)

\* SplitMinute = FALSE: every pass starts in a minute of its own.
MayStart == SplitMinute \/ lastPass < minute

\* tick, step 1: skip a running cluster, read the offsets.
TickLoad ==
  /\ pass[Tick].phase = "idle"
  /\ ~running
  /\ MayStart
  /\ pass' = [pass EXCEPT ![Tick] =
       [Idle EXCEPT !.phase = "loaded", !.ts = minute, !.prev = offsets]]
  /\ lastPass' = minute
  /\ UNCHANGED <<logVars, minute, dbVars, running>>

\* on_tick_start marks the cluster only after step 1; then the paths are listed.
TickStart ==
  /\ pass[Tick].phase = "loaded"
  /\ running' = TRUE
  /\ pass' = [pass EXCEPT ![Tick].phase = "reading", ![Tick].todo = Listed]
  /\ UNCHANGED <<logVars, minute, dbVars, lastPass>>

\* POST /api/clusters: 409 while the cluster is running, else a task is queued.
Submit(j) ==
  /\ pass[j].phase = "idle"
  /\ ~running
  /\ minute <= LastSubmit
  /\ pass' = [pass EXCEPT ![j].phase = "queued"]
  /\ UNCHANGED <<logVars, minute, dbVars, running, lastPass>>

HasHistory == (\E m \in Minutes : metrics[m] # {}) \/ offsets # NoRows

\* run_onboard_job marks the cluster, ingest_nodes reads the offsets; a full
\* fetch, asked for or forced by an empty history, starts from no offsets.
JobStart(j) ==
  /\ pass[j].phase = "queued"
  /\ MayStart
  /\ running' = TRUE
  /\ \E mode \in Modes :
       LET incremental == mode # "full" /\ HasHistory
       IN pass' = [pass EXCEPT ![j] =
            [Idle EXCEPT !.phase = "reading", !.ts = minute, !.incremental = incremental,
                         !.prev = IF incremental THEN offsets ELSE NoRows,
                         !.todo = Listed]]
  /\ lastPass' = minute
  /\ UNCHANGED <<logVars, minute, dbVars>>

\* read_increment_local for one path: resume, cut to the complete prefix.
ReadPath(a, p) ==
  /\ pass[a].phase = "reading"
  /\ p \in pass[a].todo
  /\ dir[p] # 0
  /\ LET f == dir[p]
         ino == files[f].ino
         size == files[f].size
     IN \/ /\ ino \in pass[a].seen
           /\ pass' = [pass EXCEPT ![a].todo = @ \ {p}]
        \/ /\ ino \notin pass[a].seen
           /\ \E start \in 0 .. size : \E keep \in start .. size :
                /\ IsResumePoint(start, pass[a].prev, ino, size)
                /\ IsCompletePrefix(keep, f, start, size)
                /\ pass' = [pass EXCEPT
                     ![a].todo = @ \ {p},
                     ![a].seen = @ \cup {ino},
                     ![a].got = @ \cup Span(f, start, keep),
                     ![a].new[p] = [ino |-> ino, offset |-> keep]]
  /\ UNCHANGED <<logVars, minute, dbVars, running, lastPass>>

\* The rows a pass writes: one at the pass's minute, or one per event minute.
Rows(a) ==
  LET stw == Pauses(pass[a].got) IN
  [m \in Minutes |->
     IF pass[a].incremental
       THEN IF m = pass[a].ts THEN stw ELSE {}
       ELSE {i \in stw : stream[i].at = m}]

\* Lines a pass may not persist: nothing but starts and notes.
Unusable(a) == Pauses(pass[a].got) = {} /\ Skipped(pass[a].got) = {}

\* Mutant: skipped lines do not lower the outcome of a pass that has pauses.
OutcomeIgnoringSkips(a) ==
  IF Pauses(pass[a].got) = {} THEN "unknown" ELSE "complete"

Outcome(a) ==
  IF Pauses(pass[a].got) = {} THEN "unknown"
  ELSE IF Skipped(pass[a].got) # {} THEN "partial" ELSE "complete"

\* Mutant: the oldest retained minute is dropped too.
ExpiredTooSoon(a, m) == a = Tick /\ m <= pass[a].ts - Retention

\* prune_before: only the tick's transaction ends with it.
Expired(a, m) == a = Tick /\ m < pass[a].ts - Retention

\* record_analysis_metrics: rows replace rows of the same minute, every new
\* offset and the quality marker go with them.
Record(a) ==
  /\ metrics' = [m \in Minutes |->
       IF Expired(a, m) THEN {} ELSE IF Rows(a)[m] # {} THEN Rows(a)[m] ELSE metrics[m]]
  /\ offsets' = [p \in Paths |->
       IF pass[a].new[p] # NoEntry THEN pass[a].new[p] ELSE offsets[p]]
  /\ quality' = [m \in Minutes |->
       IF Expired(a, m) THEN "none" ELSE IF m = pass[a].ts THEN Outcome(a) ELSE quality[m]]
  /\ recorded' = recorded
       \cup {e \in Pauses(pass[a].got) \X Minutes : e[1] \in Rows(a)[e[2]]}
       \cup Skipped(pass[a].got) \X {pass[a].ts}

\* Mutant: the offsets are written outside the savepoint.
RecordOffsetsOnly(a) ==
  /\ metrics' = [m \in Minutes |-> IF Expired(a, m) THEN {} ELSE metrics[m]]
  /\ quality' = [m \in Minutes |-> IF Expired(a, m) THEN "none" ELSE quality[m]]
  /\ offsets' = [p \in Paths |->
       IF pass[a].new[p] # NoEntry THEN pass[a].new[p] ELSE offsets[p]]
  /\ UNCHANGED recorded

\* No usable line, a read error, or a savepoint rolled back: offsets retained.
RecordNothing(a) ==
  /\ metrics' = [m \in Minutes |-> IF Expired(a, m) THEN {} ELSE metrics[m]]
  /\ quality' = [m \in Minutes |-> IF Expired(a, m) THEN "none" ELSE quality[m]]
  /\ UNCHANGED <<offsets, recorded>>

\* on_tick_complete releases the cluster while the tick's transaction is open.
TickRelease ==
  /\ pass[Tick].phase = "reading"
  /\ pass[Tick].todo = {}
  /\ running' = FALSE
  /\ pass' = [pass EXCEPT ![Tick].phase = "released"]
  /\ UNCHANGED <<logVars, minute, dbVars, lastPass>>

TickCommit ==
  /\ pass[Tick].phase = "released"
  /\ IF Unusable(Tick) THEN RecordNothing(Tick) ELSE Record(Tick)
  /\ pass' = [pass EXCEPT ![Tick] = Idle]
  /\ UNCHANGED <<logVars, minute, running, lastPass>>

\* The node's scrape or its record step failed; the tick still prunes.
TickFail ==
  /\ pass[Tick].phase \in {"reading", "released"}
  /\ RecordNothing(Tick)
  /\ running' = IF pass[Tick].phase = "reading" THEN FALSE ELSE running
  /\ pass' = [pass EXCEPT ![Tick] = Idle]
  /\ UNCHANGED <<logVars, minute, lastPass>>

\* An exception leaves tick: on_node_result finds JOBS grown under its loop, or
\* SQLite refuses.  scheduler_loop goes on, the transaction is rolled back, and
\* a cluster that was marked stays marked: on_tick_complete is not reached.
TickAbort ==
  /\ pass[Tick].phase \in {"loaded", "reading", "released"}
  /\ pass' = [pass EXCEPT ![Tick] = Idle]
  /\ UNCHANGED <<logVars, minute, dbVars, running, lastPass>>

\* The job's rows are committed before its finally releases the cluster; the
\* host and Kafka passes in between leave these tables alone.
JobCommit(j) ==
  /\ pass[j].phase = "reading"
  /\ pass[j].todo = {}
  /\ IF Unusable(j) THEN RecordNothing(j) ELSE Record(j)
  /\ running' = FALSE
  /\ pass' = [pass EXCEPT ![j] = Idle]
  /\ UNCHANGED <<logVars, minute, lastPass>>

\* The job failed or was cancelled: its transaction is not committed.
JobFail(j) ==
  /\ pass[j].phase = "reading"
  /\ running' = FALSE
  /\ pass' = [pass EXCEPT ![j] = Idle]
  /\ UNCHANGED <<logVars, minute, dbVars, lastPass>>

\* The process dies: memory is gone, committed rows stay.
Crash ==
  /\ \E a \in Actors : pass[a].phase # "idle"
  /\ pass' = [a \in Actors |-> Idle]
  /\ running' = FALSE
  /\ UNCHANGED <<logVars, minute, dbVars, lastPass>>

Log == LogPause \/ LogStart \/ LogNote \/ LogBad \/ JvmRestart \/ Rotate

TickStep == TickLoad \/ TickStart \/ (\E p \in Paths : ReadPath(Tick, p))
              \/ TickRelease \/ TickCommit

JobRun(j) == JobStart(j) \/ (\E p \in Paths : ReadPath(j, p)) \/ JobCommit(j)
JobStep(j) == Submit(j) \/ JobRun(j)

Work  == Log \/ NextMinute \/ TickStep \/ \E j \in Jobs : JobStep(j)
Fault == TickFail \/ TickAbort \/ Crash \/ \E j \in Jobs : JobFail(j)
Next  == Work \/ Fault

Spec == Init /\ [][Next]_vars

\* scheduler_loop never stops and an accepted job's thread runs to its end: the
\* next step of each is always taken in the end.  Crashes and failing nodes may
\* interrupt any number of passes, but not for ever: none happens in the last
\* minute of the instance.
FairNext == Work \/ (minute < MaxMinute /\ Fault)
FairSpec == Init /\ [][FairNext]_vars /\ WF_vars(TickStep) /\ WF_vars(NextMinute)
              /\ \A j \in Jobs : WF_vars(JobRun(j))

-----------------------------------------------------------------------------
(* Properties *)

PassRecord ==
  [phase : Phases, ts : Minutes, incremental : BOOLEAN, prev : [Paths -> Entry],
   todo : SUBSET Paths, seen : SUBSET Nat, got : SUBSET (1 .. Len(stream)), new : [Paths -> Entry]]

\* Every variable has its type, and positions held anywhere are positions of
\* lines the JVM has written.
TypeOK ==
  /\ stream \in Seq(Line)
  /\ files \in Seq(File)
  /\ dir \in [Paths -> 0 .. Len(files)]
  /\ dir[Current] # 0
  /\ open \in Nat
  /\ torn \subseteq 1 .. Len(stream)
  /\ minute \in Minutes
  /\ offsets \in [Paths -> Entry]
  /\ metrics \in [Minutes -> SUBSET (1 .. Len(stream))]
  /\ quality \in [Minutes -> Outcomes]
  /\ recorded \subseteq (1 .. Len(stream)) \X Minutes
  /\ pass \in [Actors -> PassRecord]
  /\ running \in BOOLEAN
  /\ lastPass \in Minutes \cup {-1}

Live == {dir[p] : p \in Listed}

\* Lines of file f that the next pass will not read again.
Acknowledged(f) ==
  UNION {Span(f, 0, c) : c \in Candidates(offsets, files[f].ino, files[f].size)}

\* No silent loss: a pause the next pass will skip, because a stored offset of
\* its file lies behind it, was summarised by a committed metric row.  However
\* ticks, jobs, rotations, failures and crashes interleave (README.md: "metric
\* writes ... and consumed offsets are transactional").
AcknowledgedIsRecorded ==
  \A f \in Live : \A i \in Pauses(Acknowledged(f)) : \E m \in Minutes : <<i, m>> \in recorded

\* The same for lines the parser rejects: once skipped they stay reported by an
\* outcome that is not "complete", until retention drops it.
SkippedIsReported ==
  \A f \in Live : \A i \in Skipped(Acknowledged(f)) :
    \E m \in Minutes : /\ <<i, m>> \in recorded
                       /\ m < lastPass - Retention \/ quality[m] \in {"unknown", "partial"}

\* complete_prefix: a resume point never falls between the start of a pause
\* and the line that ends it, so no replay loses a pause's start.
NoSplitPause ==
  \A f \in Live : \A i \in Acknowledged(f), j \in Span(f, 0, files[f].size) :
    (Kind(i) = "start" /\ Kind(j) \in {"pause", "bad"} /\ stream[i].gc = stream[j].gc)
      => j \in Acknowledged(f)

\* Each metric point reflects its own interval: no pause is summarised twice.  The
\* exception is a log renamed between a pass's listing and its reading: the pass
\* writes the offset of the file that has taken its path over the only record of
\* what was read of the old one, and the next pass reads that from its start.
NoDoubleCount ==
  \A m, n \in Minutes : m # n => metrics[m] \cap metrics[n] \subseteq torn

\* A recorded pause stays in some row until retention drops it.
EvidenceKept ==
  \A e \in recorded :
    Kind(e[1]) = "pause" => e[2] < lastPass - Retention \/ e[1] \in metrics[e[2]]

\* The mark of a pass that was aborted: nobody is left to take it away, the tick
\* skips the cluster and POST answers 409.
Leaked == running /\ \A a \in Actors : pass[a].phase # "reading"

\* Liveness: while scheduler_loop keeps ticking, a pause written to a log is in
\* the end recorded, unless its file is rotated away first, or the cluster is
\* left marked for good by a tick that an exception ended (finding jobs_leak).
EventuallyRecorded ==
  \/ <>[]Leaked
  \/ \A i \in 1 .. MaxLines :
       (i <= Len(stream) /\ Kind(i) = "pause")
         ~> \/ \E m \in Minutes : <<i, m>> \in recorded
            \/ \A f \in Live : i \notin Span(f, 0, files[f].size)

=============================================================================
