----------------------------- MODULE JobControl -----------------------------
(***************************************************************************)
(* Who may collect a cluster: the in-memory RUNNING_CLUSTERS set and JOBS  *)
(* table of app.py, shared without a lock by the event loop (POST          *)
(* /api/clusters and run_onboard_job), the scheduler's tick thread and the *)
(* thread pool (cancel_job, remove_cluster).                               *)
(*                                                                         *)
(* Atomicity.  Code on the event loop runs undisturbed by other loop code  *)
(* between two awaits, but a thread may run between any two of its         *)
(* accesses to shared state; a step below is one such access, or several   *)
(* whose order no other actor can observe.  A cluster stands for its nodes *)
(* where every node is treated alike: a tick has one result per cluster.   *)
(***************************************************************************)
EXTENDS Integers, FiniteSets

CONSTANTS
  Clusters,    \* cluster names
  Jobs,        \* onboarding jobs, each by the POST that creates it
  Shadows,     \* pairs <<c, d>>: ids "sched-d-*" start with "sched-c-" and sort after its own
  MaxTicks,    \* bound: ticks started
  MaxRemovals  \* bound: DELETE requests

ASSUME ShadowAssumption == Shadows \subseteq Clusters \X Clusters
ASSUME CountAssumption  == MaxTicks \in Nat /\ MaxRemovals \in Nat
\* The tick is no job, and "none" no cluster.
ASSUME NameAssumption   == "tick" \notin Jobs /\ "none" \notin Clusters

VARIABLES
  RUNNING,     \* RUNNING_CLUSTERS
  jobs,        \* JOBS, the onboarding jobs: status and cancel_requested
  sched,       \* JOBS, the scheduler's entries, by cluster and tick: status and whether a node failed
  job,         \* where each run_onboard_job stands
  cancel,      \* where each cancel_job call stands
  tick,        \* the tick thread
  configs,     \* clusters with a file in clusters/
  removing,    \* clusters whose DELETE has dropped the rows but not yet the file
  removals,    \* DELETE requests so far
  overlapped   \* history: clusters two collections have held at once

tables  == <<configs, removing, removals>>
vars    == <<RUNNING, jobs, sched, job, cancel, tick, tables, overlapped>>

Active   == {"pending", "running"}
Terminal == {"completed", "warning", "failed", "cancelled"}
SchedIds == Clusters \X (1 .. MaxTicks)

NoJob    == [status |-> "none", cancel_requested |-> FALSE]
NoSched  == [status |-> "none", failures |-> FALSE]
NoTask   == [pc |-> "none", cluster |-> "none", result |-> "none"]
IdleTick == [pc |-> "idle", todo |-> {}, mine |-> {}, marked |-> {}, at |-> "none",
             result |-> "none", keys |-> {}]

SchedKeys == {s \in SchedIds : sched[s].status # "none"}
\* The keys of JOBS.
Keys == {j \in Jobs : jobs[j].status # "none"} \cup SchedKeys

\* Who has marked a cluster and not yet released it.
Held == {"begun", "collecting", "recording", "recorded", "host"}
Holders(c) ==
  {j \in Jobs : job[j].pc \in Held /\ job[j].cluster = c}
    \cup {t \in {"tick"} : c \in tick.run.marked}

Init ==
  /\ RUNNING = {}
  /\ jobs = [j \in Jobs |-> NoJob]
  /\ sched = [s \in SchedIds |-> NoSched]
  /\ job = [j \in Jobs |-> NoTask]
  /\ cancel = [j \in Jobs |-> "none"]
  /\ tick = [n |-> 0, run |-> IdleTick]
  /\ configs \in SUBSET Clusters
  /\ removing = {} /\ removals = 0
  /\ overlapped = {}

Mark(c) ==
  /\ RUNNING' = RUNNING \cup {c}
  /\ overlapped' = IF Holders(c) # {} THEN overlapped \cup {c} ELSE overlapped

Release(c) == RUNNING' = RUNNING \ {c} /\ UNCHANGED overlapped

-----------------------------------------------------------------------------
(* POST /api/clusters and run_onboard_job, on the event loop *)

\* onboard_cluster: 409 while the cluster is marked, 400 when it is onboarded
\* and the request is no edit; persists the config, queues the job.
Post(j, c) ==
  /\ jobs[j].status = "none"
  /\ c \notin RUNNING
  /\ \E is_edit \in BOOLEAN : is_edit \/ c \notin configs
  /\ configs' = configs \cup {c}
  /\ jobs' = [jobs EXCEPT ![j].status = "pending"]
  /\ job' = [job EXCEPT ![j] = [NoTask EXCEPT !.pc = "queued", !.cluster = c]]
  /\ UNCHANGED <<RUNNING, sched, cancel, tick, removing, removals, overlapped>>

AtTask(j, pc) == job[j].pc = pc

Goto(j, pc) == job' = [job EXCEPT ![j].pc = pc]

\* The job ends; its finally releases the cluster.
Finish(j, status) ==
  /\ jobs' = [jobs EXCEPT ![j].status = status]
  /\ Goto(j, "done")
  /\ Release(job[j].cluster)

jobRest == <<sched, cancel, tick, tables>>

\* The first check of run_onboard_job, before anything is marked.
JobStarts(j) ==
  /\ AtTask(j, "queued")
  /\ IF jobs[j].cancel_requested
       THEN Goto(j, "done") /\ jobs' = [jobs EXCEPT ![j].status = "cancelled"]
       ELSE Goto(j, "admitted") /\ UNCHANGED jobs
  /\ UNCHANGED <<RUNNING, overlapped, jobRest>>

\* Mutant: the job forgets RUNNING_CLUSTERS.add.
JobMarksNothing(j) ==
  /\ AtTask(j, "admitted")
  /\ UNCHANGED <<RUNNING, overlapped>>
  /\ jobs' = [jobs EXCEPT ![j].status = "running"]
  /\ Goto(j, "begun")
  /\ UNCHANGED jobRest

JobMarks(j) ==
  /\ AtTask(j, "admitted")
  /\ Mark(job[j].cluster)
  /\ jobs' = [jobs EXCEPT ![j].status = "running"]
  /\ Goto(j, "begun")
  /\ UNCHANGED jobRest

\* Mutant: the job is not checked again between its marking and ingest_nodes.
JobChecksOnce(j) ==
  /\ \E next \in {<<"begun", "collecting">>, <<"collecting", "recording">>, <<"recorded", "host">>} :
       /\ AtTask(j, next[1])
       /\ IF jobs[j].cancel_requested /\ next[1] # "begun"
            THEN Finish(j, "cancelled")
            ELSE Goto(j, next[2]) /\ UNCHANGED <<jobs, RUNNING, overlapped>>
  /\ UNCHANGED jobRest

\* The checks inside the job: before and after ingest_nodes, and in it before
\* the recording (JobCancelled).
JobChecks(j) ==
  /\ \E next \in {<<"begun", "collecting">>, <<"collecting", "recording">>, <<"recorded", "host">>} :
       /\ AtTask(j, next[1])
       /\ IF jobs[j].cancel_requested
            THEN Finish(j, "cancelled")
            ELSE Goto(j, next[2]) /\ UNCHANGED <<jobs, RUNNING, overlapped>>
  /\ UNCHANGED jobRest

\* ingest_nodes commits: some, all or no node recorded.
JobRecords(j) ==
  /\ AtTask(j, "recording")
  /\ \E result \in {"failed", "warning", "completed"} :
       job' = [job EXCEPT ![j].pc = "recorded", ![j].result = result]
  /\ UNCHANGED <<RUNNING, overlapped, jobs, jobRest>>

\* ingest_nodes raises: its transaction is rolled back.
JobRaises(j) ==
  /\ job[j].pc \in {"collecting", "recording"}
  /\ Finish(j, "failed")
  /\ UNCHANGED jobRest

\* Mutant: run_onboard_job returns without a final status.
JobEndsSilently(j) ==
  /\ AtTask(j, "host")
  /\ Goto(j, "done")
  /\ Release(job[j].cluster)
  /\ UNCHANGED <<jobs, jobRest>>

\* After the host and Kafka passes the node results decide; a cancellation
\* that came during those passes is not looked at again.
JobEnds(j) ==
  /\ AtTask(j, "host")
  /\ Finish(j, job[j].result)
  /\ UNCHANGED jobRest

JobStep(j) == JobStarts(j) \/ JobMarks(j) \/ JobChecks(j) \/ JobRecords(j) \/ JobRaises(j) \/ JobEnds(j)

-----------------------------------------------------------------------------
(* cancel_job, in the thread pool *)

cancelRest == <<RUNNING, sched, job, tick, tables, overlapped>>

\* 409 unless the job is pending or running.
CancelAccepted(j) ==
  /\ cancel[j] = "none"
  /\ jobs[j].status \in Active
  /\ cancel' = [cancel EXCEPT ![j] = "accepted"]
  /\ UNCHANGED <<jobs, cancelRest>>

\* Mutant: the flag is set only for running jobs.
CancelFlagsRunning(j) ==
  /\ cancel[j] = "accepted"
  /\ jobs' = [jobs EXCEPT ![j].cancel_requested = jobs[j].status = "running"]
  /\ cancel' = [cancel EXCEPT ![j] = "flagged"]
  /\ UNCHANGED cancelRest

CancelFlags(j) ==
  /\ cancel[j] = "accepted"
  /\ jobs' = [jobs EXCEPT ![j].cancel_requested = TRUE]
  /\ cancel' = [cancel EXCEPT ![j] = "flagged"]
  /\ UNCHANGED cancelRest

\* The status is read once more: a pending job is finished here.
CancelReads(j) ==
  /\ cancel[j] = "flagged"
  /\ cancel' = [cancel EXCEPT ![j] = IF jobs[j].status = "pending" THEN "pending" ELSE "answered"]
  /\ UNCHANGED <<jobs, cancelRest>>

CancelFinishes(j) ==
  /\ cancel[j] = "pending"
  /\ jobs' = [jobs EXCEPT ![j].status = "cancelled"]
  /\ cancel' = [cancel EXCEPT ![j] = "finished"]
  /\ UNCHANGED cancelRest

CancelStep(j) == CancelFlags(j) \/ CancelReads(j) \/ CancelFinishes(j)

-----------------------------------------------------------------------------
(* remove_cluster, in the thread pool: rows first, then the file; no job is *)
(* looked at                                                               *)

RemoveRows(c) ==
  /\ removals < MaxRemovals
  /\ c \in configs
  /\ removals' = removals + 1
  /\ removing' = removing \cup {c}
  /\ UNCHANGED <<RUNNING, jobs, sched, job, cancel, tick, configs, overlapped>>

RemoveFile(c) ==
  /\ c \in removing
  /\ removing' = removing \ {c}
  /\ configs' = configs \ {c}
  /\ UNCHANGED <<RUNNING, jobs, sched, job, cancel, tick, removals, overlapped>>

-----------------------------------------------------------------------------
(* The scheduler's tick, in its own thread *)

At(pc) == tick.run.pc = pc
Run(r) == tick' = [tick EXCEPT !.run = r]
tickRest == <<jobs, job, cancel, tables>>

TickBegins ==
  /\ At("idle")
  /\ tick.n < MaxTicks
  /\ tick' = [n |-> tick.n + 1, run |-> [IdleTick EXCEPT !.pc = "loading", !.todo = configs]]
  /\ UNCHANGED <<RUNNING, overlapped, sched, tickRest>>

\* Step 1: the clusters whose config loads and that is_running_cb does not veto.
TickLoads(c) ==
  /\ At("loading")
  /\ c \in tick.run.todo
  /\ Run([tick.run EXCEPT !.todo = @ \ {c},
                          !.mine = IF c \in configs /\ c \notin RUNNING THEN @ \cup {c} ELSE @])
  /\ UNCHANGED <<RUNNING, overlapped, sched, tickRest>>

\* The loops over the clusters follow each other; between "processing" and
\* "host" the rows of the tick are committed.
TickAdvances ==
  /\ tick.run.todo = {} /\ tick.run.at = "none"
  /\ \/ \E next \in {<<"loading", "marking">>, <<"marking", "processing">>, <<"processing", "host">>} :
          At(next[1]) /\ Run([tick.run EXCEPT !.pc = next[2], !.todo = tick.run.mine])
     \/ At("host") /\ Run(IdleTick)
  /\ UNCHANGED <<RUNNING, overlapped, sched, tickRest>>

\* on_tick_start (_prune_old_jobs) and on_node_result iterate over JOBS.  In
\* "processing" the node's rows are written before its result is reported.
TickScans(c, result) ==
  /\ tick.run.pc \in {"marking", "processing", "host"}
  /\ c \in tick.run.todo /\ tick.run.at = "none"
  /\ Run([tick.run EXCEPT !.at = c, !.result = result, !.keys = Keys])
  /\ UNCHANGED <<RUNNING, overlapped, sched, tickRest>>

Undisturbed == tick.run.at # "none" /\ tick.run.keys = Keys

\* Mutant: an aborted tick still counts its clusters as marked.
TickRaisesHolding ==
  /\ tick.run.at # "none" /\ tick.run.keys # Keys
  /\ IF At("processing") /\ tick.run.result = "recorded"
       THEN Run([tick.run EXCEPT !.result = "failed", !.keys = Keys])
       ELSE Run([IdleTick EXCEPT !.marked = tick.run.marked])
  /\ UNCHANGED <<RUNNING, overlapped, sched, tickRest>>

\* A JOBS entry inserted meanwhile: RuntimeError, "dictionary changed size
\* during iteration".  Inside the node's try it is reported as a failure, which
\* scans again; anywhere else it ends the tick, whose rows are rolled back.
TickRaises ==
  /\ tick.run.at # "none" /\ tick.run.keys # Keys
  /\ IF At("processing") /\ tick.run.result = "recorded"
       THEN Run([tick.run EXCEPT !.result = "failed", !.keys = Keys])
       ELSE Run(IdleTick)
  /\ UNCHANGED <<RUNNING, overlapped, sched, tickRest>>

\* on_tick_start: the cluster is marked, the tick's job appears.
TickMarks ==
  /\ At("marking") /\ Undisturbed
  /\ Mark(tick.run.at)
  /\ sched' = [sched EXCEPT ![<<tick.run.at, tick.n>>].status = "running"]
  /\ Run([tick.run EXCEPT !.at = "none", !.todo = @ \ {tick.run.at}, !.marked = @ \cup {tick.run.at}])
  /\ UNCHANGED tickRest

\* on_node_result: the entry with the largest id that starts with "sched-c-".
Attributed(c) ==
  LET mine == {s \in SchedKeys : s[1] = c}
      over == {s \in SchedKeys : <<c, s[1]>> \in Shadows}
      from == IF over # {} THEN over ELSE mine
  IN {s \in from : \A t \in from : s[1] = t[1] => t[2] <= s[2]}

TickReports ==
  /\ tick.run.pc \in {"processing", "host"} /\ Undisturbed
  /\ tick.run.result # "reported"
  /\ \E s \in Attributed(tick.run.at) :
       sched' = [sched EXCEPT ![s].failures = @ \/ tick.run.result = "failed"]
  /\ IF At("processing")
       THEN Run([tick.run EXCEPT !.result = "reported"])
       ELSE Run([tick.run EXCEPT !.at = "none", !.todo = @ \ {tick.run.at}])
  /\ UNCHANGED <<RUNNING, overlapped, tickRest>>

\* on_tick_complete.
TickCompletes ==
  /\ At("processing") /\ tick.run.result = "reported"
  /\ Release(tick.run.at)
  /\ LET s == <<tick.run.at, tick.n>>
     IN sched' = [sched EXCEPT ![s].status = IF sched[s].failures THEN "warning" ELSE "completed"]
  /\ Run([tick.run EXCEPT !.at = "none", !.result = "none", !.todo = @ \ {tick.run.at},
                          !.marked = @ \ {tick.run.at}])
  /\ UNCHANGED tickRest

\* A cluster without host collection has nothing to report there.
TickSkips(c) ==
  /\ At("host")
  /\ c \in tick.run.todo /\ tick.run.at = "none"
  /\ Run([tick.run EXCEPT !.todo = @ \ {c}])
  /\ UNCHANGED <<RUNNING, overlapped, sched, tickRest>>

TickStep ==
  \/ TickBegins \/ TickAdvances \/ TickRaises \/ TickMarks \/ TickReports \/ TickCompletes
  \/ \E c \in Clusters : TickLoads(c) \/ TickSkips(c)
       \/ \E result \in {"recorded", "failed"} : TickScans(c, result)

-----------------------------------------------------------------------------
Next ==
  \/ TickStep
  \/ \E j \in Jobs : JobStep(j) \/ CancelAccepted(j) \/ CancelStep(j)
       \/ \E c \in Clusters : Post(j, c)
  \/ \E c \in Clusters : RemoveRows(c) \/ RemoveFile(c)

Spec == Init /\ [][Next]_vars

\* The event loop, the tick thread and each pool thread keep being scheduled.
FairSpec ==
  /\ Spec
  /\ WF_vars(TickStep)
  /\ \A j \in Jobs : WF_vars(JobStep(j)) /\ WF_vars(CancelStep(j))

-----------------------------------------------------------------------------
(* Properties *)

TypeOK ==
  /\ RUNNING \in SUBSET Clusters /\ configs \in SUBSET Clusters
  /\ jobs \in [Jobs -> [status : {"none"} \cup Active \cup Terminal, cancel_requested : BOOLEAN]]
  /\ sched \in [SchedIds -> [status : {"none", "running", "completed", "warning"}, failures : BOOLEAN]]
  /\ job \in [Jobs -> [pc : {"none", "queued", "admitted", "done"} \cup Held,
                       cluster : Clusters \cup {"none"},
                       result : {"none", "failed", "warning", "completed"}]]
  /\ cancel \in [Jobs -> {"none", "accepted", "flagged", "pending", "answered", "finished"}]
  /\ tick.run.pc # "idle" => tick.n \in 1 .. MaxTicks
  /\ tick.run.marked \subseteq tick.run.mine

\* The outcome of a job whose task has ended is never rewritten, however the
\* event loop and cancel_job's thread interleave.  (Before that, "cancelled" may
\* give way to "running" for the moment between the task's two checks.)
OutcomeIsFinal ==
  [][\A j \in Jobs : job[j].pc = "done" => jobs'[j].status = jobs[j].status]_vars

\* A job whose cancellation was answered "cancelled" while it was queued never
\* reaches a node: cancel_requested is set before the status is read again.
CancelledNeverCollects ==
  \A j \in Jobs : cancel[j] = "finished" => job[j].pc \notin Held \ {"begun"}

\* 409 guards a collection in progress: a cluster somebody collects is marked,
\* unless two collections have already overlapped.
GuardHeld ==
  \A c \in Clusters : Holders(c) # {} => c \in RUNNING \cup overlapped

\* The 409 of onboard_cluster says "A job is already running for cluster":
\* a marked cluster is one that a job or the tick is working on.
FlagHasHolder ==
  \A c \in RUNNING : Holders(c) # {}

\* Every accepted onboarding job ends, whatever the tick, cancellations and
\* removals do.
AcceptedJobEnds ==
  \A j \in Jobs : jobs[j].status \in Active ~> jobs[j].status \in Terminal

=============================================================================
